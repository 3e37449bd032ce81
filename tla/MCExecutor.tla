----------------------------- MODULE MCExecutor -----------------------------
(* Instances of Executor for TLC. *)
EXTENDS Executor, TLC

CONSTANTS a, b, p, q

\* Two runs of the same plan, on one key.
OnePlan == [r \in Holder |-> p]
OneKey == [x \in Plan |-> {1}]

\* Two sagas, one per run, whose effects share the keys.
OwnPlan == (a :> p) @@ (b :> q)
TwoKeys == [x \in Plan |-> {1, 2}]

=============================================================================
