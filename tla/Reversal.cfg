SPECIFICATION Spec
CONSTANTS
  Effect = {e1, e2}
  Situations <- MCSituations
  Answers <- MCAnswers
  Policies <- MCPolicies
  Batches <- MCBatches
  Proposals <- MCProposals
  Opinions <- MCOpinions
  MaxRegister = 1
CHECK_DEADLOCK FALSE
INVARIANTS
  TypeOK
  
  NothingElseTouched
  GateHolds
  RestoredIfFull
