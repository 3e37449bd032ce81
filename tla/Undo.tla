-------------------------------- MODULE Undo --------------------------------
(***************************************************************************)
(* undoSaga (sdk-ts/src/engine/undo.ts): walks the effects of one saga from *)
(* the newest to the oldest, settles what is in doubt, compiles and executes *)
(* a compensation for what landed, and reports what it reached.  Undo is   *)
(* called again after a halt, an error or a crash; each call is an element *)
(* of Undoer and works on rows it read when it began, while the events that *)
(* it and executePlan append are folded into the rows of the SQL ledger    *)
(* (applyEventToProjections, sdk-ts/src/ledger/types.ts).                  *)
(*                                                                         *)
(* executePlan is one step here: it writes an event and answers.  Executor *)
(* models what happens inside.                                             *)
(***************************************************************************)
EXTENDS Integers, FiniteSets

CONSTANTS
  N,            \* effects of the saga, numbered by seq
  Undoer,       \* calls of undoSaga
  Independent,  \* effects whose compensator is marked independent
  Overlap       \* whether a call may begin while another is running

ASSUME UndoAssumption ==
  /\ N \in Nat \ {0}
  /\ Independent \subseteq 1 .. N
  /\ Overlap \in BOOLEAN

VARIABLES
  proj,   \* effects table: what undo and everyone else reads
  fold,   \* what rebuildProjections makes of the event log
  saga,   \* status of the saga row
  call    \* control state of every call of undoSaga

vars == <<proj, fold, saga, call>>

Effect == 1 .. N
CompState == {"available", "planned", "executing", "compensated", "failed",
              "escalated", "unavailable", "none_required",
              "manually_resolved"}
Row == [status : {"opened", "landed", "in_doubt", "abandoned"},
        comp : CompState]

\* Mutant: compensated effects are selected again.
TERMINAL_SKIP_Redo == {"none_required", "manually_resolved"}

TERMINAL_SKIP == {"compensated", "none_required", "manually_resolved"}
UNDO_STATUS == {"landed", "in_doubt"}

\* The rows undo selects.
Pending(row) == row.status \in UNDO_STATUS /\ row.comp \notin TERMINAL_SKIP

\* What undoSaga's table of transitions allows, from the states it starts from.
ALLOWED == [c \in CompState |->
  CASE c = "available"   -> {"planned", "escalated", "none_required"}
    [] c = "planned"     -> {"executing", "escalated"}
    [] c = "executing"   -> {"compensated", "failed", "escalated"}
    [] c = "failed"      -> {"escalated"}
    [] c = "escalated"   -> {"manually_resolved"}
    [] c = "unavailable" -> {"escalated"}
    [] OTHER             -> {}]

MayMove(from, to) == from = to \/ to \in ALLOWED[from]

Outcome == {"none", "not_attempted", "skipped", "compensated", "failed",
            "escalated"}

TypeOK ==
  /\ proj \in [Effect -> Row]
  /\ fold \in [Effect -> Row]
  /\ saga \in {"closed", "undoing", "undone", "partially_undone", "failed"}
  /\ call \in [Undoer ->
       [pc : {"idle", "loop", "plan", "ready", "calling", "settle", "raise"},
        at : 0 .. N, rows : [Effect -> Row], todo : SUBSET Effect,
        toSeq : Effect, dry : BOOLEAN, stops : BOOLEAN,
        halted : BOOLEAN,
        answer : {"none", "ok", "gated", "error", "fenced", "doubt"},
        out : [Effect -> Outcome]]]

\* Before a call, and after it has returned, thrown or died with its process.
Idle ==
  [pc |-> "idle", at |-> 0,
   rows |-> [e \in Effect |-> [status |-> "opened", comp |-> "available"]],
   todo |-> {}, toSeq |-> 1, dry |-> FALSE, stops |-> TRUE, halted |-> FALSE,
   answer |-> "none", out |-> [e \in Effect |-> "none"]]

\* An effect row as closeEffect leaves it, or still open.
Init ==
  /\ proj \in [Effect -> {[status |-> "opened",   comp |-> "available"],
                          [status |-> "landed",   comp |-> "available"],
                          [status |-> "landed",   comp |-> "unavailable"],
                          [status |-> "landed",   comp |-> "none_required"],
                          [status |-> "in_doubt", comp |-> "available"]}]
  /\ fold = proj
  /\ saga = "closed"
  /\ call = [u \in Undoer |-> Idle]

-----------------------------------------------------------------------------
(* Rows, events and moves. *)

At(u, pc) == call[u].pc = pc
Cur(u) == call[u].at
Mine(u) == call[u].rows[Cur(u)]

Comp(row, c) == [row EXCEPT !.comp = c]

\* An event that sets the compensation state, folded into the row as it is.
Event(e, c) ==
  /\ proj' = [proj EXCEPT ![e] = Comp(@, c)]
  /\ fold' = [fold EXCEPT ![e] = Comp(@, c)]

\* The same event, and then an upsert of the whole row the call holds.
EventAndPersist(u, row) ==
  /\ proj' = [proj EXCEPT ![Cur(u)] = row]
  /\ fold' = [fold EXCEPT ![Cur(u)] = Comp(@, row.comp)]

Goto(u, pc) == call' = [call EXCEPT ![u].pc = pc]

Hold(u, row, pc) ==
  call' = [call EXCEPT ![u].pc = pc, ![u].rows[Cur(u)] = row]

\* Mutant: an effect that failed is reported, but does not halt the loop.
Report_NoHalt(u, row, outcome, halts) ==
  call' = [call EXCEPT ![u].pc = "loop", ![u].at = @ - 1,
                       ![u].rows[Cur(u)] = row,
                       ![u].out[Cur(u)] = outcome]

\* The row is done with: its outcome goes into the report.
Report(u, row, outcome, halts) ==
  call' = [call EXCEPT ![u].pc = "loop", ![u].at = @ - 1,
                       ![u].rows[Cur(u)] = row,
                       ![u].out[Cur(u)] = outcome,
                       ![u].halted = @ \/ halts]

\* haltOnFailure && !independent
Stops(u) == call[u].stops /\ Cur(u) \notin Independent

Active(u) == ~At(u, "idle")

End(u) == call' = [call EXCEPT ![u] = Idle]

-----------------------------------------------------------------------------

\* Options are the caller's: a lowest seq, a dry run, and whether to go on after
\* a failure.
Begin(u, toSeq, dry, stops) ==
  /\ At(u, "idle")
  /\ Overlap \/ \A v \in Undoer : ~Active(v)
  /\ saga' = IF dry THEN saga ELSE "undoing"
  /\ call' = [call EXCEPT ![u] =
       [@ EXCEPT !.pc = "loop", !.at = N, !.rows = proj, !.toSeq = toSeq,
                 !.dry = dry, !.stops = stops,
                 !.todo = {e \in toSeq .. N : Pending(proj[e])}]]
  /\ UNCHANGED <<proj, fold>>

\* A row that is not worked on: nothing to undo, below toSeq, or after a halt.
Pass(u) ==
  LET c == call[u] IN
  /\ At(u, "loop") /\ Cur(u) > 0
  /\ c.halted \/ Cur(u) \notin c.todo
  /\ Report(u, Mine(u),
       IF \/ c.halted /\ Cur(u) \in c.todo
          \/ ~c.halted /\ Cur(u) < c.toSeq /\ Pending(Mine(u))
       THEN "not_attempted" ELSE "none", FALSE)
  /\ UNCHANGED <<proj, fold, saga>>

Working(u) == At(u, "loop") /\ Cur(u) \in call[u].todo /\ ~call[u].halted

\* resolveInDoubt, in a dry run too.  A landed effect goes on, one that did not
\* land needs no compensation, and one that cannot be told blocks the undo.
Resolve(u) ==
  /\ Working(u) /\ Mine(u).status = "in_doubt"
  /\ \/ LET row == [Mine(u) EXCEPT !.status = "landed"] IN
          /\ proj' = [proj EXCEPT ![Cur(u)] = row]
          /\ fold' = [fold EXCEPT ![Cur(u)].status = "landed"]
          /\ Hold(u, row, "loop")
     \/ LET row == [status |-> "abandoned", comp |-> "none_required"] IN
          /\ proj' = [proj EXCEPT ![Cur(u)] = row]
          /\ fold' = [fold EXCEPT ![Cur(u)] = row]
          /\ Report(u, row, "skipped", FALSE)
     \/ /\ Event(Cur(u), "escalated")
        /\ call' = [call EXCEPT ![u].at = @ - 1, ![u].halted = TRUE,
                                ![u].out[Cur(u)] = "escalated"]
  /\ UNCHANGED saga

DrySkip(u) ==
  /\ Working(u) /\ Mine(u).status = "landed" /\ call[u].dry
  /\ Report(u, Mine(u), "skipped", FALSE)
  /\ UNCHANGED <<proj, fold, saga>>

Escalate(u) ==
  /\ EventAndPersist(u, Comp(Mine(u), "escalated"))
  /\ Report(u, Comp(Mine(u), "escalated"), "escalated", Stops(u))

Unavailable(u) ==
  /\ Working(u) /\ Mine(u).status = "landed" /\ ~call[u].dry
  /\ Mine(u).comp = "unavailable"
  /\ Escalate(u)
  /\ UNCHANGED saga

\* available -> planned; every other state is left as it is.
Plan(u) ==
  /\ Working(u) /\ Mine(u).status = "landed" /\ ~call[u].dry
  /\ Mine(u).comp # "unavailable"
  /\ IF Mine(u).comp = "available"
     THEN /\ EventAndPersist(u, Comp(Mine(u), "planned"))
          /\ Hold(u, Comp(Mine(u), "planned"), "plan")
     ELSE Goto(u, "plan") /\ UNCHANGED <<proj, fold>>
  /\ UNCHANGED saga

\* No compensator, an expired window, a draft that is not allowed: escalated.
\* A compiled plan is announced by an event, which makes the row "planned"
\* whatever it was.
Compile(u) ==
  /\ At(u, "plan")
  /\ \/ /\ MayMove(Mine(u).comp, "escalated")
        /\ Escalate(u)
     \/ /\ Event(Cur(u), "planned")
        /\ Goto(u, "ready")
  /\ UNCHANGED saga

\* A manual, T4 or cascading plan goes to a human.  An illegal transition is
\* VR5012, which undoSaga does not catch here.
Ready(u) ==
  /\ At(u, "ready")
  /\ \/ Escalate(u)
     \/ /\ MayMove(Mine(u).comp, "executing")
        /\ proj' = [proj EXCEPT ![Cur(u)] = Comp(Mine(u), "executing")]
        /\ Hold(u, Comp(Mine(u), "executing"), "calling")
        /\ UNCHANGED fold
     \/ /\ ~MayMove(Mine(u).comp, "executing")
        /\ End(u)
        /\ UNCHANGED <<proj, fold>>
  /\ UNCHANGED saga

-----------------------------------------------------------------------------

\* executePlan answers ok, ok: false (a gate) or throws; the last event it wrote
\* is folded into the row.  Where it found an attempt of an earlier call in
\* doubt, the probe's event has changed the status of the effect as well.
ExecuteAnswers ==
  {<<"ok", "compensated">>, <<"gated", "escalated">>,
   <<"error", "failed">>, <<"error", "escalated">>, <<"fenced", "failed">>}

Execute(u) ==
  LET e == Cur(u) IN
  /\ At(u, "calling")
  /\ \/ \E a \in ExecuteAnswers, s \in {proj[e].status, "landed", "abandoned"} :
          /\ proj' = [proj EXCEPT ![e] = [status |-> s, comp |-> a[2]]]
          /\ fold' = [fold EXCEPT ![e] =
               [status |-> IF s = proj[e].status THEN @.status ELSE s,
                comp |-> a[2]]]
          /\ call' = [call EXCEPT ![u].pc = "settle", ![u].answer = a[1]]
     \/ /\ proj' = [proj EXCEPT ![e] = [status |-> "in_doubt",
                                        comp |-> "escalated"]]
        /\ fold' = [fold EXCEPT ![e] = [status |-> "in_doubt",
                                        comp |-> "escalated"]]
        /\ call' = [call EXCEPT ![u].pc = "settle", ![u].answer = "doubt"]
  /\ UNCHANGED saga

Answered(u, a) == At(u, "settle") /\ call[u].answer = a

Persist(u, row) == proj' = [proj EXCEPT ![Cur(u)] = row] /\ UNCHANGED fold

\* The answer is written over whatever is in the row by now.
Settle(u) ==
  /\ \/ /\ Answered(u, "ok")
        /\ Persist(u, Comp(Mine(u), "compensated"))
        /\ Report(u, Comp(Mine(u), "compensated"), "compensated", FALSE)
     \/ /\ Answered(u, "gated")
        /\ Persist(u, Comp(Mine(u), "escalated"))
        /\ Report(u, Comp(Mine(u), "escalated"), "escalated", Stops(u))
     \/ /\ Answered(u, "fenced")
        /\ End(u)
        /\ UNCHANGED <<proj, fold>>
     \/ /\ Answered(u, "error")
        /\ Persist(u, Comp(Mine(u), "failed"))
        /\ Hold(u, Comp(Mine(u), "failed"), "raise")
  /\ UNCHANGED saga

\* VR2020: in doubt again, and the undo is blocked whatever its options.
Blocked(u) ==
  /\ Answered(u, "doubt")
  /\ EventAndPersist(u, Comp(Mine(u), "escalated"))
  /\ call' = [call EXCEPT ![u].pc = "loop", ![u].at = @ - 1,
                          ![u].halted = TRUE,
                          ![u].rows[Cur(u)] = Comp(Mine(u), "escalated"),
                          ![u].out[Cur(u)] = "escalated"]
  /\ UNCHANGED saga

\* Mutant: the failure is reported but not raised.
Raise_Silent(u) ==
  /\ At(u, "raise")
  /\ Report(u, Mine(u), "failed", Stops(u))
  /\ UNCHANGED <<proj, fold, saga>>

\* Mutant: the row is escalated, but no event says so.
Raise_NoEvent(u) ==
  /\ At(u, "raise")
  /\ Persist(u, Comp(Mine(u), "escalated"))
  /\ Report(u, Comp(Mine(u), "escalated"), "failed", Stops(u))
  /\ UNCHANGED saga

\* A failed compensation is raised to a human.
Raise(u) ==
  /\ At(u, "raise")
  /\ EventAndPersist(u, Comp(Mine(u), "escalated"))
  /\ Report(u, Comp(Mine(u), "escalated"), "failed", Stops(u))
  /\ UNCHANGED saga

Outcomes(u) == {call[u].out[e] : e \in Effect} \ {"none"}

\* Mutant: the saga takes the name of its effects' outcome.
FinalStatus_Outcome(u) ==
  IF Outcomes(u) = {"compensated"} THEN "compensated" ELSE "failed"

FinalStatus(u) ==
  IF Outcomes(u) \subseteq {"compensated", "skipped"} THEN "undone"
  ELSE IF Outcomes(u) \cap {"compensated", "failed", "escalated"} # {}
       THEN "partially_undone"
       ELSE "failed"

\* The report.  (An undo that was blocked throws VR5011 after it.)
Finish(u) ==
  /\ At(u, "loop") /\ Cur(u) = 0
  /\ saga' = IF call[u].dry THEN saga ELSE FinalStatus(u)
  /\ End(u)
  /\ UNCHANGED <<proj, fold>>

-----------------------------------------------------------------------------

Crash(u) ==
  /\ Active(u)
  /\ End(u)
  /\ UNCHANGED <<proj, fold, saga>>

\* A human answers the escalation (onResume: mark_manually_resolved, decline).
Human(e) ==
  /\ proj[e].comp = "escalated"
  /\ Overlap \/ \A u \in Undoer : ~Active(u)
  /\ Event(e, "manually_resolved")
  /\ UNCHANGED <<saga, call>>

Work(u) ==
  \/ Pass(u) \/ Resolve(u) \/ DrySkip(u) \/ Unavailable(u) \/ Plan(u)
  \/ Compile(u) \/ Ready(u) \/ Execute(u) \/ Settle(u) \/ Blocked(u)
  \/ Raise(u) \/ Finish(u)

Next ==
  \/ \E u \in Undoer :
       \/ \E toSeq \in Effect, dry, stops \in BOOLEAN :
            Begin(u, toSeq, dry, stops)
       \/ Work(u)
       \/ Crash(u)
  \/ \E e \in Effect : Human(e)

Spec == Init /\ [][Next]_vars

-----------------------------------------------------------------------------
(* Properties. *)

\* README.md:130, strict reverse order: when an undo that halts on failure
\* executes the compensation of an effect, every later effect of the saga is
\* settled, unless its compensator is independent; across halts, crashes and
\* any number of earlier calls, those that went on after failures included.
LifoOrder ==
  \A u \in Undoer : (At(u, "calling") /\ call[u].stops) =>
    \A e \in Effect : (e > Cur(u) /\ Pending(proj[e])) => e \in Independent

\* A saga becomes "undone" only when nothing of what landed is left to undo.
UndoneMeansSettled ==
  [][(saga' = "undone" /\ saga # "undone") =>
       \A e \in Effect : ~Pending(proj[e])]_vars

\* What an undo reports of an effect is what the ledger says when the report is
\* made: compensated, or left to a human.
ReportIsTrue ==
  \A u \in Undoer : (At(u, "loop") /\ Cur(u) = 0) =>
    \A e \in Effect :
      /\ call[u].out[e] = "compensated" => proj[e].comp = "compensated"
      /\ call[u].out[e] \in {"failed", "escalated"} =>
           proj[e].comp = "escalated"

\* Rebuilding the rows from the event log never changes what was settled, in no
\* state and after no crash: an effect is compensated, in need of nothing or
\* resolved by a human in the rows exactly when it is in the log, and escalated
\* in the log when it is in the rows.  (The other way round there is a window in
\* which undo has put "failed" over an escalation of executePlan's.)
RebuildAgrees ==
  \A e \in Effect :
    /\ \A c \in TERMINAL_SKIP : proj[e].comp = c <=> fold[e].comp = c
    /\ proj[e].comp = "escalated" => fold[e].comp = "escalated"
    /\ fold[e].comp = "escalated" => proj[e].comp \in {"escalated", "failed"}

\* no_silent_failure.test.ts:17-25 and undo.ts:40 (compensated: new Set()): what
\* is compensated stays compensated, whatever undo is called for afterwards.
CompensatedIsFinal ==
  [][\A e \in Effect : proj[e].comp = "compensated" =>
       proj'[e].comp = "compensated"]_vars

\* An effect is settled once and for good, and the saga is undone only when nothing
\* is owed, through every halt, error, crash and retry: undo implements UndoSpec
\* (TERMINAL_SKIP undo.ts:27, undo.ts:40, the final status undo.ts:510).
Abstract == INSTANCE UndoSpec WITH
  mark <- [e \in Effect |->
    CASE proj[e].comp = "compensated"       -> "compensated"
      [] proj[e].comp = "manually_resolved" -> "resolved"
      [] proj[e].comp = "none_required"     -> "exempt"
      [] Pending(proj[e])                   -> "owed"
      [] OTHER                              -> "idle"],
  verdict <- saga

ImplementsUndoSpec == Abstract!Spec

\* undo.ts:37, escalated: new Set(["manually_resolved"]): an effect handed to a
\* human is settled by one, unless a probe shows that it needs nothing.
EscalatedIsHuman ==
  [][\A e \in Effect : proj[e].comp = "escalated" =>
       proj'[e].comp \in {"escalated", "manually_resolved", "none_required"}]_vars

=============================================================================
