CONSTANTS
  e1 = e1
  e2 = e2
  p1 = p1
  p2 = p2
  p3 = p3
  NoPlan = NoPlan
  Effect = {e1, e2}
  Plan = {p1, p2, p3}
  PlanFor <- Compensates
  Kind <- Kinds
  Reason = {"compensation_failed", "verifier_rejected"}
  Echoes = TRUE
  MaxEscalated = 2
  MaxRequests = 3
  MaxAnswers = 3
  Worker = {w1, w2}
SYMMETRY Symmetry
SPECIFICATION Spec
CHECK_DEADLOCK FALSE
INVARIANTS
  TypeOK
  
  
  NothingForgotten
