------------------------------ MODULE EffectLog ------------------------------
(***************************************************************************)
(* Capture: how the effects of one saga reach the ledger.                  *)
(* openEffect and closeEffect (sdk-ts/src/effect.ts) bracket the user's run, *)
(* saga.effect, saga.close and resumeSaga (sdk-ts/src/saga.ts) call them,  *)
(* and appendChained puts one event after another on the saga's hash chain. *)
(* An append of the SQL ledger (createSqlLedger, sdk-ts/src/ledger/types.ts) *)
(* is not a transaction: it inserts the event, reads the saga row and the  *)
(* effect row, folds the event into them and writes both back.             *)
(*                                                                         *)
(* Calls of saga.effect run concurrently and interleave at every await that *)
(* touches shared state.  The process may die anywhere, and a statement of *)
(* the ledger may fail.                                                    *)
(***************************************************************************)
EXTENDS Integers, Sequences, FiniteSets

CONSTANTS
  Call,       \* calls of saga.effect on the saga
  Intent,     \* what a call asks for: its action and arguments
  Compensable,  \* intents for which a compensator is found
  Concurrent, \* whether a call begins before the one before it has returned
  Resumer,    \* the task that runs resumeSaga
  NoEffect,   \* in place of the effect of an event that has none
  MaxCrash,   \* bound: crashes of the process
  MaxFault,   \* bound: statements of the ledger that fail
  MaxReplay   \* bound: uses of "vekrevert replay"

ASSUME EffectLogAssumption ==
  /\ IsFiniteSet(Call)
  /\ Resumer \notin Call
  /\ Compensable \subseteq Intent
  /\ Concurrent \in BOOLEAN
  /\ MaxCrash \in Nat /\ MaxFault \in Nat /\ MaxReplay \in Nat

VARIABLES
  log,       \* receipt_events of the saga, in the order of insertion
  fold,      \* what the events make of every effect
  order,     \* effects in the order their first effect_opened was logged
  rows,      \* effects table
  saga,      \* the saga's row
  inflight,  \* intents of the effects this process has open
  app,       \* appendChained of every task
  call,      \* control state of every call of saga.effect
  resume,    \* control state of resumeSaga
  closer,    \* control state of saga.close()
  landed,    \* calls whose run took effect in the world
  past       \* what has gone wrong so far

vars == <<log, fold, order, rows, saga, inflight, app, call, resume, closer,
          landed, past>>
tables == <<log, fold, order, rows, saga>>

Task == Call \cup {Resumer}

MaxSeq == Cardinality(Call)
EffectId == (1 .. MaxSeq) \X Intent     \* deriveEffectId: seq and action

ASSUME NoEffectAssumption == NoEffect \notin EffectId

Status == {"absent", "opened", "landed", "failed", "in_doubt"}
Row == [status : Status, sealed : BOOLEAN, comp : {"available", "unavailable"}]
Absent == [status |-> "absent", sealed |-> FALSE, comp |-> "available"]
Opened == [Absent EXCEPT !.status = "opened"]

\* len and head are the length and the last event of the chain, as far as the
\* row knows; an event is known by its place in the order of insertion, 0 is
\* genesis.
Saga == [next : 1 .. MaxSeq + 1, len : Nat, head : Nat]
Opening == [next |-> 1, len |-> 1, head |-> 1]

\* "note" stands for the events the fold ignores: reversibility_classified,
\* receipt_issued, capture_degraded, compensation_side_effect,
\* restore_boundary.  "closed_s" is effect_closed with status s.
Kind == {"note", "opened", "in_doubt", "unavailable", "closed_landed",
         "closed_failed", "closed_in_doubt"}
Event(kind, e) == [kind |-> kind, eff |-> e]
Note == Event("note", NoEffect)

NoAppend == [step |-> "idle", todo |-> <<>>, saga |-> Opening, row |-> Absent,
             at |-> 0]
NoCall == [pc |-> "idle", intent |-> NoEffect,
           eff |-> NoEffect, row |-> Absent, status |-> "absent",
           thrown |-> FALSE, again |-> FALSE]
NoCloser == [pc |-> "idle", saga |-> Opening]
NoResume == [pc |-> "idle", left |-> {}, snap |-> [e \in EffectId |-> Absent],
             saw |-> {}]

TypeOK ==
  /\ log \in Seq([pos : Nat, prev : Nat])
  /\ fold \in [EffectId -> Row]
  /\ order \in Seq(EffectId)
  /\ rows \in [EffectId -> Row]
  /\ saga \in Saga
  /\ inflight \subseteq Intent
  /\ app \in [Task ->
       [step : {"idle", "insert", "saga", "row", "failed"},
        todo : Seq([kind : Kind, eff : EffectId \cup {NoEffect}]),
        saga : Saga, row : Row, at : Nat]]
  /\ call \in [Call ->
       [pc : {"idle", "bypass", "observe", "opening", "doubt",
              "enriched", "policy", "run", "close", "closing", "degrade",
              "degraded", "rewrite", "offpath", "raise", "reclassify",
              "refused", "ended", "dead"},
        intent : Intent \cup {NoEffect}, eff : EffectId \cup {NoEffect}, row : Row,
        status : Status, thrown : BOOLEAN, again : BOOLEAN]]
  /\ resume \in [pc : {"idle", "boundary", "list", "next", "marking", "done"},
                 left : SUBSET EffectId, snap : [EffectId -> Row],
                 saw : SUBSET Call]
  /\ closer \in [pc : {"idle", "write"}, saga : Saga]
  /\ landed \subseteq Call
  /\ past \in [crashes : 0 .. MaxCrash, faults : 0 .. MaxFault,
               replays : 0 .. MaxReplay, torn : BOOLEAN, stale : BOOLEAN,
               marked : BOOLEAN, replay : {"none", "ok", "failed"}]

\* openSaga has appended saga_opened.
Init ==
  /\ log = <<[pos |-> 1, prev |-> 0]>>
  /\ fold = [e \in EffectId |-> Absent]
  /\ order = <<>>
  /\ rows = fold
  /\ saga = Opening
  /\ inflight = {}
  /\ app = [t \in Task |-> NoAppend]
  /\ call = [c \in Call |-> NoCall]
  /\ resume = NoResume
  /\ closer = NoCloser
  /\ landed = {}
  /\ past = [crashes |-> 0, faults |-> 0, replays |-> 0, torn |-> FALSE,
             stale |-> FALSE, marked |-> FALSE, replay |-> "none"]

-----------------------------------------------------------------------------
(* The fold of one event into the row of its effect. *)

Exists(row) == row.status # "absent"

\* applyEventToProjections
Apply(row, kind) ==
  IF kind = "opened" THEN Opened
  ELSE IF ~Exists(row) THEN row
  ELSE CASE kind = "in_doubt"    -> [row EXCEPT !.status = "in_doubt"]
         [] kind = "unavailable" -> [row EXCEPT !.comp = "unavailable"]
         [] kind = "closed_landed" ->
              [row EXCEPT !.status = "landed", !.sealed = TRUE]
         [] kind = "closed_failed" ->
              [row EXCEPT !.status = "failed", !.sealed = TRUE]
         [] kind = "closed_in_doubt" ->
              [row EXCEPT !.status = "in_doubt", !.sealed = TRUE]
         [] OTHER -> row

\* Mutant: every event moves next_seq.
NextSeq_AnyEvent(s, ev) == s.next + 1

NextSeq(s, ev) ==
  IF ev.kind = "opened" /\ s.next <= ev.eff[1] THEN ev.eff[1] + 1 ELSE s.next

\* Mutant: the event is counted, but the head stays.
Extended_OldHead(s, ev, n) ==
  [s EXCEPT !.len = @ + 1, !.next = NextSeq(s, ev)]

Extended(s, ev, n) ==
  [s EXCEPT !.len = @ + 1, !.head = n, !.next = NextSeq(s, ev)]

\* UNIQUE (saga_id, chain_seq) of receipt_events.
\* Mutant: a table without that constraint, as in the memory and JSONL ledgers.
Taken_Never(pos) == FALSE

Taken(pos) == \E i \in DOMAIN log : log[i].pos = pos

\* UNIQUE (saga_id, seq) of effects.
SeqTaken(e) == \E f \in EffectId \ {e} : f[1] = e[1] /\ Exists(rows[f])

-----------------------------------------------------------------------------
(* appendChained, one event of todo after the other. *)

Ev(t) == Head(app[t].todo)

\* The append is done: on to the next event.
Appended(t) ==
  app' = [app EXCEPT ![t] = [NoAppend EXCEPT !.todo = Tail(app[t].todo)]]

Failed == [NoAppend EXCEPT !.step = "failed"]

\* getSaga
ReadHead(t) ==
  /\ app[t].step = "idle"
  /\ app[t].todo # <<>>
  /\ app' = [app EXCEPT ![t].step = "insert", ![t].saga = saga]
  /\ UNCHANGED <<tables, inflight, call, resume, closer, landed, past>>

\* insertEvent, then getSaga and listEffects for the fold.  The rows are read in
\* the same step: whoever writes them in between does not look at the log, and
\* could have written them before the insert.
Insert(t) ==
  LET ev == Ev(t)
      pos == app[t].saga.len + 1
  IN /\ app[t].step = "insert"
     /\ ~Taken(pos)
     /\ log' = Append(log, [pos |-> pos, prev |-> app[t].saga.head])
     /\ fold' = IF ev.eff = NoEffect THEN fold
                ELSE [fold EXCEPT ![ev.eff] = Apply(@, ev.kind)]
     /\ order' = IF ev.kind = "opened" /\ ~Exists(fold[ev.eff])
                 THEN Append(order, ev.eff)
                 ELSE order
     /\ app' = [app EXCEPT ![t].step = "saga", ![t].at = Len(log) + 1,
          ![t].saga = saga,
          ![t].row = IF ev.eff = NoEffect THEN Absent ELSE rows[ev.eff]]
     /\ UNCHANGED <<rows, saga, inflight, call, resume, closer, landed, past>>

\* Another append took the place since the head was read.
Collide(t) ==
  /\ app[t].step = "insert"
  /\ Taken(app[t].saga.len + 1)
  /\ app' = [app EXCEPT ![t] = Failed]
  /\ UNCHANGED <<tables, inflight, call, resume, closer, landed, past>>

\* upsertSaga, of the whole row
PutSaga(t) ==
  /\ app[t].step = "saga"
  /\ saga' = Extended(app[t].saga, Ev(t), app[t].at)
  /\ IF Exists(Apply(app[t].row, Ev(t).kind))
     THEN app' = [app EXCEPT ![t].step = "row"]
     ELSE Appended(t)
  /\ UNCHANGED <<log, fold, order, rows, inflight, call, resume, closer,
                 landed, past>>

\* upsertEffect, of the whole row
PutRow(t) ==
  /\ app[t].step = "row"
  /\ ~SeqTaken(Ev(t).eff)
  /\ rows' = [rows EXCEPT ![Ev(t).eff] = Apply(app[t].row, Ev(t).kind)]
  /\ Appended(t)
  /\ UNCHANGED <<log, fold, order, saga, inflight, call, resume, closer,
                 landed, past>>

\* Another effect has that seq: its event is on the chain, its row is not.
SeqCollides(t) ==
  /\ app[t].step = "row"
  /\ SeqTaken(Ev(t).eff)
  /\ app' = [app EXCEPT ![t] = Failed]
  /\ UNCHANGED <<tables, inflight, call, resume, closer, landed, past>>

\* An append that got as far as the log and no further.
Torn(t) == app[t].step \in {"saga", "row"}

\* A statement of the append fails.
AppendFails(t) ==
  /\ app[t].step \notin {"idle", "failed"}
  /\ past.faults < MaxFault
  /\ past' = [past EXCEPT !.faults = @ + 1, !.torn = @ \/ Torn(t)]
  /\ app' = [app EXCEPT ![t] = Failed]
  /\ UNCHANGED <<tables, inflight, call, resume, closer, landed>>

Done(t) == app[t].step = "idle" /\ app[t].todo = <<>>
Threw(t) == app[t].step = "failed"
Settled(t) == Done(t) \/ Threw(t)

\* The task goes on with these events to append.
Appending(t, events) == app' = [app EXCEPT ![t] = [NoAppend EXCEPT !.todo = events]]

AppendStep(t) ==
  \/ ReadHead(t)
  \/ Insert(t)
  \/ Collide(t)
  \/ PutSaga(t)
  \/ PutRow(t)
  \/ SeqCollides(t)
  \/ AppendFails(t)

-----------------------------------------------------------------------------
(* saga.effect: openEffect, the run, closeEffect. *)

At(c, pc) == call[c].pc = pc
Eff(c) == call[c].eff
Recorded(c) == Eff(c) # NoEffect

Goto(c, pc) == call' = [call EXCEPT ![c].pc = pc]

\* What is left of a call that is over: its effect, and how it went.
Leaving(c, pc) ==
  [NoCall EXCEPT !.pc = pc, !.eff = Eff(c), !.thrown = call[c].thrown,
                 !.again = call[c].again]

Leave(c, pc) == call' = [call EXCEPT ![c] = Leaving(c, pc)]

\* A statement of the ledger outside of an append fails.
Fault ==
  /\ past.faults < MaxFault
  /\ past' = [past EXCEPT !.faults = @ + 1]

\* The caller has a handle of the saga, openSaga's or after a crash resumeSaga's,
\* and has awaited what it did to the saga itself.
HasHandle ==
  /\ closer.pc = "idle"
  /\ past.crashes > 0 => resume.pc = "done"

\* The caller of saga.effect has its answer.
Answered(c) == call[c].pc \in {"idle", "refused", "ended", "dead",
                               "offpath", "raise", "reclassify"}

MayBegin(c) ==
  /\ At(c, "idle") /\ HasHandle
  /\ Concurrent \/ \A d \in Call : Answered(d)

\* openEffect, of an action that is not recorded: it runs inside of a
\* compensation (bypass, which keeps no intent), or it only reads (observe).
OpenUnrecorded(c, i, pc) ==
  /\ MayBegin(c)
  /\ call' = [call EXCEPT ![c].pc = pc,
                          ![c].intent = IF pc = "bypass" THEN NoEffect ELSE i]
  /\ Appending(c, <<Note>>)
  /\ UNCHANGED <<tables, inflight, resume, closer, landed, past>>

\* The side event of a compensation must not stop it; a read that cannot be
\* logged does not run.
Unrecorded(c) ==
  /\ At(c, "bypass") \/ At(c, "observe")
  /\ Settled(c)
  /\ IF At(c, "observe") /\ Threw(c) THEN Leave(c, "refused") ELSE Goto(c, "run")
  /\ Appending(c, <<>>)
  /\ UNCHANGED <<tables, inflight, resume, closer, landed, past>>

\* openEffect reads next_seq, and then only looks at what is in flight.  A call
\* whose capture is no better than the one in flight is linked to it.
Link(c, i) ==
  /\ MayBegin(c)
  /\ i \in inflight
  /\ call' = [call EXCEPT ![c].pc = "run", ![c].intent = i]
  /\ UNCHANGED <<tables, inflight, app, resume, closer, landed, past>>

Open(c, i) ==
  /\ MayBegin(c)
  /\ call' = [call EXCEPT ![c].pc = "opening", ![c].intent = i,
                          ![c].eff = <<saga.next, i>>]
  /\ Appending(c, <<Note, Event("opened", <<saga.next, i>>)>>)
  /\ UNCHANGED <<tables, inflight, resume, closer, landed, past>>

\* Mutant: the run goes on although effect_opened was not written.
NotLogged_RunAnyway(c) ==
  /\ At(c, "opening") /\ Threw(c)
  /\ Appending(c, <<>>)
  /\ call' = [call EXCEPT ![c].row = rows[Eff(c)], ![c].pc = "enriched"]
  /\ UNCHANGED <<tables, inflight, resume, closer, landed, past>>

\* VR2002: the run is not started.  A row of that id, if there is one, is in
\* doubt.
NotLogged(c) ==
  /\ At(c, "opening") /\ Threw(c)
  /\ IF Exists(rows[Eff(c)])
     THEN Appending(c, <<Event("in_doubt", Eff(c))>>) /\ Goto(c, "doubt")
     ELSE Appending(c, <<>>) /\ Leave(c, "refused")
  /\ UNCHANGED <<tables, inflight, resume, closer, landed, past>>

Doubted(c) ==
  /\ At(c, "doubt") /\ Settled(c)
  /\ Appending(c, <<>>)
  /\ Leave(c, "refused")
  /\ UNCHANGED <<tables, inflight, resume, closer, landed, past>>

\* effect_opened is written: the row is read, completed, and written back whole.
Enrich(c) ==
  /\ At(c, "opening") /\ Done(c)
  /\ call' = [call EXCEPT ![c].row = rows[Eff(c)], ![c].pc = "enriched"]
  /\ UNCHANGED <<tables, inflight, app, resume, closer, landed, past>>

PutHeld(c) ==
  rows' = IF Exists(call[c].row) THEN [rows EXCEPT ![Eff(c)] = call[c].row]
          ELSE rows

Enriched(c) ==
  /\ At(c, "enriched")
  /\ \/ PutHeld(c) /\ Goto(c, "policy") /\ UNCHANGED past
     \/ Fault /\ Leave(c, "refused") /\ UNCHANGED rows
  /\ UNCHANGED <<log, fold, order, saga, inflight, app, resume, closer, landed>>

\* blockT4, LexShield: the run is refused, the row stays opened.
Block(c) ==
  /\ At(c, "policy")
  /\ Leave(c, "refused")
  /\ UNCHANGED <<tables, inflight, app, resume, closer, landed, past>>

\* A classifier's answer is written into the row before the run.
Admit(c, reclassified) ==
  /\ At(c, "policy")
  /\ IF reclassified THEN PutHeld(c) ELSE UNCHANGED rows
  /\ inflight' = inflight \cup {call[c].intent}
  /\ call' = [call EXCEPT ![c].pc = "run", ![c].row = Absent]
  /\ UNCHANGED <<log, fold, order, saga, app, resume, closer, landed, past>>

\* The status closeEffect gives a run that ended this way.
\* Mutant: a lost answer is a failure.
CloseStatus_LostIsFailed(outcome) ==
  IF outcome = "ok" THEN "landed" ELSE "failed"

CloseStatus(outcome) ==
  CASE outcome = "ok"      -> "landed"
    [] outcome = "refused" -> "failed"
    [] OTHER               -> "in_doubt"

\* The run: it takes effect, or is refused by the outside world, or its answer
\* is lost (a timeout is thrown, a 5xx is a value).
Run(c, outcome, lands, thrown) ==
  /\ At(c, "run")
  /\ outcome = "ok" => lands /\ ~thrown
  /\ outcome = "refused" => ~lands /\ thrown
  /\ landed' = IF lands THEN landed \cup {c} ELSE landed
  /\ call' = [call EXCEPT ![c].pc = "close", ![c].thrown = thrown,
                          ![c].status = CloseStatus(outcome)]
  /\ UNCHANGED <<tables, inflight, app, resume, closer, past>>

\* compensationFor: no compensator is found.
CompFor(e) == IF e[2] \in Compensable THEN "available" ELSE "unavailable"

\* Events closeEffect writes before effect_closed.
\* Mutant: a compensation that is not available is not logged.
SideEvents_NotUnavailable(e, status) ==
  IF status = "in_doubt" THEN <<Event("in_doubt", e)>> ELSE <<>>

SideEvents(e, status) ==
  (IF status = "in_doubt" THEN <<Event("in_doubt", e)>> ELSE <<>>)
  \o (IF CompFor(e) = "unavailable" THEN <<Event("unavailable", e)>> ELSE <<>>)

\* effect_closed with this status
Closed(status) ==
  CASE status = "landed" -> "closed_landed"
    [] status = "failed" -> "closed_failed"
    [] OTHER             -> "closed_in_doubt"

CloseEvents(e, status) ==
  SideEvents(e, status) \o <<Event(Closed(status), e), Event("note", e)>>

\* closeEffect of an effect that was not recorded leaves nothing but the flight.
CloseUnrecorded(c) ==
  /\ At(c, "close") /\ ~Recorded(c)
  /\ inflight' = IF call[c].thrown THEN inflight ELSE inflight \ {call[c].intent}
  /\ Leave(c, "ended")
  /\ UNCHANGED <<tables, app, resume, closer, landed, past>>

Close(c) ==
  /\ At(c, "close") /\ Recorded(c)
  /\ inflight' = inflight \ {call[c].intent}
  /\ Goto(c, "closing")
  /\ Appending(c, CloseEvents(Eff(c), call[c].status))
  /\ UNCHANGED <<tables, resume, closer, landed, past>>

\* ep2_write_failed: the effect stays as far as its events have come.
Degrade(c) ==
  /\ At(c, "closing") /\ Threw(c)
  /\ Appending(c, <<Event("note", Eff(c))>>)
  /\ Goto(c, "degrade")
  /\ UNCHANGED <<tables, inflight, resume, closer, landed, past>>

Degraded(c) ==
  /\ At(c, "degrade") /\ Settled(c)
  /\ Appending(c, <<>>)
  /\ call' = [call EXCEPT ![c].pc = "rewrite", ![c].row = rows[Eff(c)]]
  /\ UNCHANGED <<tables, inflight, resume, closer, landed, past>>

\* closeEffect throws.  After a run that returned, saga.effect takes that for an
\* error of the run and closes the effect once more; otherwise it is swallowed.
CloseThrows(c, status) ==
  IF call[c].thrown \/ call[c].again THEN Leave(c, "ended")
  ELSE call' = [call EXCEPT ![c].pc = "close", ![c].again = TRUE,
                            ![c].status = status]

Rewrite(c) ==
  /\ At(c, "rewrite")
  /\ \/ PutHeld(c) /\ Leave(c, "ended") /\ UNCHANGED past
     \/ /\ Fault
        /\ \E status \in {"failed", "in_doubt"} : CloseThrows(c, status)
        /\ UNCHANGED rows
  /\ UNCHANGED <<log, fold, order, saga, inflight, app, resume, closer, landed>>

\* The row as the receipt has it.
SealRow(c) ==
  LET e == Eff(c)
  IN rows' = IF Exists(rows[e])
             THEN [rows EXCEPT ![e] = [status |-> call[c].status, sealed |-> TRUE,
                                       comp |-> CompFor(e)]]
             ELSE rows

\* The caller has its answer; a classifier may go on off its path.
Seal(c) ==
  /\ At(c, "closing") /\ Done(c)
  /\ \/ /\ SealRow(c)
        /\ \E pc \in {"ended", "offpath"} : Leave(c, pc)
        /\ UNCHANGED past
     \/ /\ Fault
        /\ \E status \in {"failed", "in_doubt"} : CloseThrows(c, status)
        /\ UNCHANGED rows
  /\ UNCHANGED <<log, fold, order, saga, inflight, app, resume, closer, landed>>

-----------------------------------------------------------------------------
(* scheduleOffPathClassifier: the tier is raised in the row, then logged. *)

OffPath(c) ==
  /\ At(c, "offpath")
  /\ call' = [call EXCEPT ![c].row = rows[Eff(c)], ![c].pc = "raise"]
  /\ UNCHANGED <<tables, inflight, app, resume, closer, landed, past>>

RaiseTier(c) ==
  /\ At(c, "raise")
  /\ PutHeld(c)
  /\ Goto(c, "reclassify")
  /\ Appending(c, <<Event("note", Eff(c))>>)
  /\ UNCHANGED <<log, fold, order, saga, inflight, resume, closer, landed, past>>

Reclassified(c) ==
  /\ At(c, "reclassify") /\ Settled(c)
  /\ Appending(c, <<>>)
  /\ Leave(c, "ended")
  /\ UNCHANGED <<tables, inflight, resume, closer, landed, past>>

-----------------------------------------------------------------------------
(* resumeSaga and reconcileOpenedAsInDoubt. *)

ResumeTo(pc) == resume' = [resume EXCEPT !.pc = pc]

\* In the process that takes over.  With restoreBoundary an event comes first,
\* and a failure of it is thrown.
Resume(boundary) ==
  /\ past.crashes > 0
  /\ resume.pc = "idle"
  /\ ResumeTo(IF boundary THEN "boundary" ELSE "list")
  /\ Appending(Resumer, IF boundary THEN <<Note>> ELSE <<>>)
  /\ UNCHANGED <<tables, inflight, call, closer, landed, past>>

Boundary ==
  /\ resume.pc = "boundary" /\ Settled(Resumer)
  /\ ResumeTo(IF Threw(Resumer) THEN "idle" ELSE "list")
  /\ Appending(Resumer, <<>>)
  /\ UNCHANGED <<tables, inflight, call, closer, landed, past>>

Over(c) == call[c].pc \in {"ended", "dead"}

\* listEffects; saw is the calls that are over when it is read.
List ==
  /\ resume.pc = "list"
  /\ resume' = [pc |-> "next", snap |-> rows,
                left |-> {e \in EffectId : rows[e].status = "opened" /\ ~rows[e].sealed},
                saw |-> {c \in Call : Over(c)}]
  /\ UNCHANGED <<tables, inflight, app, call, closer, landed, past>>

Oldest(effects) == CHOOSE e \in effects : \A f \in effects : e[1] <= f[1]

MarkNext ==
  /\ resume.pc = "next"
  /\ IF resume.left = {}
     THEN /\ resume' = [NoResume EXCEPT !.pc = "done", !.saw = resume.saw]
          /\ UNCHANGED app
     ELSE /\ Appending(Resumer, <<Event("in_doubt", Oldest(resume.left))>>)
          /\ ResumeTo("marking")
  /\ UNCHANGED <<tables, inflight, call, closer, landed, past>>

\* Mutant: an effect_in_doubt that cannot be appended is given up.
MarkRow_Never(e) == rows

\* If the event cannot be appended, the row is written directly.
MarkRow(e) ==
  IF Threw(Resumer)
  THEN [rows EXCEPT ![e] = [resume.snap[e] EXCEPT !.status = "in_doubt"]]
  ELSE rows

Marked ==
  LET e == Oldest(resume.left)
  IN /\ resume.pc = "marking" /\ Settled(Resumer)
     /\ Appending(Resumer, <<>>)
     /\ \/ /\ rows' = MarkRow(e)
           /\ inflight' = inflight \ {e[2]}
           /\ resume' = [resume EXCEPT !.pc = "next", !.left = @ \ {e}]
           /\ past' = [past EXCEPT !.marked = @ \/ Threw(Resumer)]
        \/ /\ Threw(Resumer)
           /\ Fault
           /\ resume' = NoResume
           /\ UNCHANGED <<rows, inflight>>
     /\ UNCHANGED <<log, fold, order, saga, call, closer, landed>>

-----------------------------------------------------------------------------
(* The rest of the world. *)

\* saga.close(), or undoSaga when it begins: the row is read, and written back
\* whole with another status.  The caller has awaited every call so far.
ReadSaga ==
  /\ HasHandle
  /\ \A c \in Call : Answered(c)
  /\ closer' = [pc |-> "write", saga |-> saga]
  /\ UNCHANGED <<tables, inflight, app, call, resume, landed, past>>

PutStatus ==
  /\ closer.pc = "write"
  /\ saga' = closer.saga
  /\ past' = [past EXCEPT !.stale = @ \/ saga.len # closer.saga.len]
  /\ closer' = NoCloser
  /\ UNCHANGED <<log, fold, order, rows, inflight, app, call, resume, landed>>

\* The process dies, or ends, with everything that runs in it.
Crash ==
  /\ past.crashes < MaxCrash
  /\ past' = [past EXCEPT !.crashes = @ + 1,
                          !.torn = @ \/ \E t \in Task : Torn(t)]
  /\ app' = [t \in Task |-> NoAppend]
  /\ call' = [c \in Call |->
       IF call[c].pc \in {"idle", "refused", "ended"} THEN call[c]
       ELSE Leaving(c, "dead")]
  /\ inflight' = {}
  /\ resume' = NoResume
  /\ closer' = NoCloser
  /\ UNCHANGED <<tables, landed>>

\* rebuildProjections deletes the rows and inserts those of the fold, oldest
\* event first, until an insert fails.
Inserted ==
  {order[i] : i \in {j \in DOMAIN order :
     \A k, l \in 1 .. j : order[k][1] = order[l][1] => k = l}}

Clash == Cardinality(Inserted) < Len(order)

NextAfterAll ==
  CHOOSE n \in 1 .. MaxSeq + 1 :
    /\ \A i \in DOMAIN order : order[i][1] < n
    /\ n = 1 \/ \E i \in DOMAIN order : order[i][1] = n - 1

Quiet == /\ \A c \in Call : call[c].pc \in {"idle", "refused", "ended", "dead"}
         /\ resume.pc \in {"idle", "done"}
         /\ closer.pc # "write"

\* "vekrevert replay", while nothing else is at work on the saga.  The chain
\* ends where the log does; saga.close() left no event.
Replay ==
  /\ Quiet
  /\ past.replays < MaxReplay
  /\ past' = [past EXCEPT !.replays = @ + 1, !.torn = FALSE, !.stale = FALSE,
                          !.marked = FALSE,
                          !.replay = IF Clash THEN "failed" ELSE "ok"]
  /\ rows' = [e \in EffectId |-> IF e \in Inserted THEN fold[e] ELSE Absent]
  /\ saga' = [len |-> Len(log), head |-> Len(log),
              next |-> NextAfterAll]
  /\ resume' = [resume EXCEPT !.saw = {}]
  /\ UNCHANGED <<log, fold, order, inflight, app, call, closer, landed>>

-----------------------------------------------------------------------------

EffectStep(c) ==
  \/ \E i \in Intent :
       \/ \E pc \in {"bypass", "observe"} : OpenUnrecorded(c, i, pc)
       \/ Link(c, i)
       \/ Open(c, i)
  \/ Unrecorded(c)
  \/ NotLogged(c)
  \/ Doubted(c)
  \/ Enrich(c)
  \/ Enriched(c)
  \/ Block(c)
  \/ \E reclassified \in BOOLEAN : Admit(c, reclassified)
  \/ \E outcome \in {"ok", "refused", "lost"}, lands, thrown \in BOOLEAN :
       Run(c, outcome, lands, thrown)
  \/ CloseUnrecorded(c)
  \/ Close(c)
  \/ Degrade(c)
  \/ Degraded(c)
  \/ Rewrite(c)
  \/ Seal(c)
  \/ OffPath(c)
  \/ RaiseTier(c)
  \/ Reclassified(c)

ResumeStep ==
  \/ \E boundary \in BOOLEAN : Resume(boundary)
  \/ Boundary
  \/ List
  \/ MarkNext
  \/ Marked

Next ==
  \/ \E t \in Task : AppendStep(t)
  \/ \E c \in Call : EffectStep(c)
  \/ ResumeStep
  \/ ReadSaga
  \/ PutStatus
  \/ Crash
  \/ Replay

Spec == Init /\ [][Next]_vars

-----------------------------------------------------------------------------
(* Properties. *)

\* The receipts of the saga verify (verifyChain): no gap, no fork, every event
\* on top of the one before it, whatever appends ran into each other and
\* whatever stale row of the saga they started from.
ChainIntact ==
  \A i \in DOMAIN log : log[i].pos = i /\ log[i].prev = i - 1

\* No other call got the same effect id: same seq and same action.
Alone(c) == \A d \in Call \ {c} : Eff(d) # Eff(c)

MayHaveLanded == {"opened", "landed", "in_doubt"}

\* A run that took effect in the world has its row, and the row does not deny
\* it: undo selects it at once or, if it is still opened, after a resume.  The
\* same is true of the log.
NothingLandedIsLost ==
  \A c \in landed :
    Recorded(c) /\ Alone(c) /\ ~call[c].again =>
      /\ fold[Eff(c)].status \in MayHaveLanded
      /\ past.replay # "failed" => rows[Eff(c)].status \in MayHaveLanded

\* After resumeSaga, undo selects every landed effect whose call was over,
\* even if nothing can be appended to the saga any more.
ResumedIsVisible ==
  resume.pc = "done" /\ past.replay # "failed" =>
    \A c \in resume.saw \cap landed :
      Recorded(c) /\ Alone(c) /\ ~call[c].again =>
        rows[Eff(c)].status \in {"landed", "in_doubt"}

Resting == Quiet /\ \A t \in Task : Settled(t)

\* With nothing at work the saga's row is at the end of the chain, so that the
\* next append finds its place, unless an append was cut off or saga.close()
\* wrote an older row over the newer one.
HeadFollowsLog ==
  Resting /\ ~past.torn /\ ~past.stale =>
    saga.len = Len(log) /\ saga.head = Len(log)

\* The row of an effect is what its events make of it, so that replay finds no
\* divergence: but for an effect whose seq another effect has, and unless
\* resumeSaga could not log what it wrote.
RowsAgreeWithLog ==
  Resting /\ ~past.torn /\ ~past.marked =>
    \A c \in Call : Recorded(c) /\ Alone(c) =>
      \/ rows[Eff(c)] = fold[Eff(c)]
      \/ ~Exists(rows[Eff(c)]) /\ Clash

\* "isolation: never convert a successful run into failure" (effect.ts): the
\* row of a run that returned its value does not say that it failed.
SuccessStaysSuccess ==
  \A c \in landed :
    Recorded(c) /\ Alone(c) /\ ~call[c].thrown => rows[Eff(c)].status # "failed"

=============================================================================
