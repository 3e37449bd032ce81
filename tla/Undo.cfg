CONSTANTS
  N = 3
  Undoer = {u1}
  Independent = {2}
  Overlap = FALSE
SPECIFICATION Spec
CHECK_DEADLOCK FALSE
INVARIANTS
  TypeOK
  LifoOrder
  ReportIsTrue
  

  
