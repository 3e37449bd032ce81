SPECIFICATION Spec
CONSTANTS
  Key = {k1, k2}
  Holder = {a, b}
  NoHolder = none
  Keeper = "coordinator"
  Ttl = 2
  MaxTime = 3
  MaxFence = 3
SYMMETRY Symmetry
CHECK_DEADLOCK FALSE
INVARIANT TypeOK
INVARIANT RowIsNewestGrant
INVARIANT OneCommittedWinner
PROPERTY FenceNeverReused
PROPERTY ClaimFollowsLiveLease
