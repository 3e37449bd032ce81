------------------------------- MODULE MCInbox -------------------------------
(* Instances of Inbox for TLC. *)
EXTENDS Inbox, TLC

CONSTANTS e1, e2, p1, p2, p3

\* Two plans for one effect, as when a compensator is registered between two
\* raises, and a plan for another effect that executePlan refuses or gates.
Compensates == (p1 :> e1) @@ (p2 :> e1) @@ (p3 :> e2)
Kinds == (p1 :> "runs") @@ (p2 :> "gated") @@ (p3 :> "refused")

Symmetry == Permutations(Worker)

=============================================================================
