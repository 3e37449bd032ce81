CONSTANTS
  c1 = c1
  c2 = c2
  Call = {c1, c2}
  a = a
  b = b
  Intent = {a, b}
  Compensable = {a}
  Concurrent = TRUE
  Resumer = Resumer
  NoEffect = NoEffect
  MaxCrash = 0
  MaxFault = 0
  MaxReplay = 0
SPECIFICATION Spec
SYMMETRY Symmetric
CHECK_DEADLOCK FALSE
INVARIANTS
  TypeOK
  ChainIntact
  NothingLandedIsLost
  HeadFollowsLog
