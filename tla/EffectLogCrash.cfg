CONSTANTS
  c1 = c1
  c2 = c2
  Call = {c1, c2}
  a = a
  Intent = {a}
  Compensable = {}
  Concurrent = FALSE
  Resumer = Resumer
  NoEffect = NoEffect
  MaxCrash = 1
  MaxFault = 1
  MaxReplay = 1
SPECIFICATION Spec
SYMMETRY Symmetric
CHECK_DEADLOCK FALSE
INVARIANTS
  NothingLandedIsLost
  ResumedIsVisible
  RowsAgreeWithLog
