CONSTANTS
  Writer = {w1, w2}
  MaxEvents = 4
SYMMETRY Symmetry
SPECIFICATION Spec
CHECK_DEADLOCK FALSE
INVARIANTS
  TypeOK
  SentInOrder
  WriteAheadIsRemote
  CloseSaysSo
