------------------------------- MODULE UndoSpec -------------------------------
(***************************************************************************)
(* What undo promises to those who read the ledger of a saga, with its      *)
(* calls, halts, crashes and retries out of sight: an effect that is owed a *)
(* compensation is settled at most once and for good, and the saga is       *)
(* called undone only when nothing is owed.  Undo is shown to implement it. *)
(***************************************************************************)
CONSTANT Effect

VARIABLES mark,     \* [Effect -> Mark]
          verdict   \* what the saga row says

Mark == {"idle", "owed", "compensated", "resolved", "exempt"}
Settled == {"compensated", "resolved", "exempt"}
Verdict == {"closed", "undoing", "undone", "partially_undone", "failed"}

vars == <<mark, verdict>>

Init ==
  /\ mark \in [Effect -> {"idle", "owed", "exempt"}]
  /\ verdict = "closed"

\* Compensated, resolved by a human, or found to need nothing.
Settle(e) ==
  /\ mark[e] \notin Settled
  /\ \E m \in Settled : mark' = [mark EXCEPT ![e] = m]
  /\ UNCHANGED verdict

\* An effect in doubt may turn out to owe nothing, and this may be taken back.
Doubt(e) ==
  /\ mark[e] \in {"idle", "owed"}
  /\ \E m \in {"idle", "owed"} : mark' = [mark EXCEPT ![e] = m]
  /\ UNCHANGED verdict

Begin == verdict' = "undoing" /\ UNCHANGED mark

Finish ==
  /\ \/ verdict' = "undone" /\ \A e \in Effect : mark[e] # "owed"
     \/ verdict' \in {"partially_undone", "failed"}
  /\ UNCHANGED mark

Next == Begin \/ Finish \/ \E e \in Effect : Settle(e) \/ Doubt(e)

Spec == Init /\ [][Next]_vars

=============================================================================
