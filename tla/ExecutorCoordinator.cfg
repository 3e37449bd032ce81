CONSTANTS
  a = a
  b = b
  p = p
  q = q
  NoHolder = NoHolder
  Holder = {a, b}
  Key = {1, 2}
  Keeper = "coordinator"
  Plan = {p, q}
  PlanOf <- OwnPlan
  Touches <- TwoKeys
  Ttl = 1
  MaxTime = 1
  MaxFence = 8
  NSteps = 1
  MaxTries = 1
  Wait = 1
  CanCrash = {a}
  Lossy = TRUE
SPECIFICATION FairSpec
CHECK_DEADLOCK FALSE
INVARIANTS
  ClaimedBeforeCall
  OneOkPerFirstKey
  NoLeak
  VerdictMatchesLog
PROPERTIES
  Ends
