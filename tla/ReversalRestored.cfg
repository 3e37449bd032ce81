SPECIFICATION Spec
CONSTANTS
  Effect = {e1, e2}
  Situations <- LockedSituations
  Answers <- MCAnswers
  Policies <- MCPolicies
  Batches <- MCBatches
  Proposals <- MCProposals
  Opinions <- MCOpinions
  MaxRegister = 1
CHECK_DEADLOCK FALSE
INVARIANT RestoredIfFull
