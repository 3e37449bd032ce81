CONSTANTS
  a = a
  b = b
  p = p
  q = q
  NoHolder = NoHolder
  Holder = {a, b}
  Key = {1}
  Keeper = "sql"
  Plan = {p}
  PlanOf <- OnePlan
  Touches <- OneKey
  Ttl = 2
  MaxTime = 3
  MaxFence = 8
  NSteps = 2
  MaxTries = 2
  Wait = 1
  CanCrash = {a}
  Lossy = FALSE
SPECIFICATION Spec
CHECK_DEADLOCK FALSE
INVARIANTS
  TypeOK
  OneAttemptId
  SecondCallerNeedsLapse
  ExecutedMeansLanded
  ExclusiveCalls
