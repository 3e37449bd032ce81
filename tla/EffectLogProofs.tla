--------------------------- MODULE EffectLogProofs ---------------------------
(***************************************************************************)
(* For any number of calls, crashes, faults and replays: EffectLog is      *)
(* well-typed, the chain of the saga does not fork, and at rest the row of *)
(* the saga is at its end.                                                 *)
(*                                                                         *)
(*   ChainInv   the log, and every copy of the saga row                    *)
(*   CInv       types, where every task is and what it has to append       *)
(*   HeadInv    the saga row, while appends are under way                  *)
(***************************************************************************)
EXTENDS EffectLog, FiniteSetTheorems, SequenceTheorems, WellFoundedInduction, TLAPS

\* A row of the saga, stored or held in a variable, may be behind the log but
\* never ahead of it, and its length is never ahead of its head: who finds the
\* place after len free has the head of the chain.
Behind(s, n) ==
  /\ DOMAIN s = {"next", "len", "head"}
  /\ s.len \in Nat /\ s.head \in Nat
  /\ 1 <= s.len /\ s.len <= s.head /\ s.head <= n

Slot == {"step", "todo", "saga", "row", "at"}

\* Between the insert and upsertSaga of an append the event is on the log.
AppendOK(a, n) ==
  /\ DOMAIN a = Slot
  /\ Behind(a.saga, n)
  /\ a.step = "saga" => a.at \in Nat /\ a.saga.len < a.at /\ a.at <= n

\* The inductive invariant.
ChainInv ==
  /\ log \in Seq([pos : Nat, prev : Nat])
  /\ Len(log) \in Nat /\ Len(log) >= 1
  /\ ChainIntact
  /\ Behind(saga, Len(log))
  /\ DOMAIN closer = {"pc", "saga"} /\ Behind(closer.saga, Len(log))
  /\ DOMAIN app = Task
  /\ \A t \in Task : AppendOK(app[t], Len(log))

-----------------------------------------------------------------------------

\* An append that has not begun.
LEMMA NotBegun ==
  ASSUME NEW q, NEW n \in Nat, n >= 1
  PROVE  AppendOK([NoAppend EXCEPT !.todo = q], n) /\ AppendOK(Failed, n)
BY DEF AppendOK, Behind, NoAppend, Failed, Opening, Slot

\* What was not ahead of a log is not ahead of a longer one.
LEMMA Longer ==
  ASSUME NEW n \in Nat, NEW s, Behind(s, n)
  PROVE  Behind(s, n + 1)
BY DEF Behind

\* A saga that has only been opened.
LEMMA ChainInit == Init => ChainInv
<1> SUFFICES ASSUME Init PROVE ChainInv
  OBVIOUS
<1>1. /\ log \in Seq([pos : Nat, prev : Nat])
      /\ Len(log) = 1 /\ log[1].pos = 1 /\ log[1].prev = 0
  BY DEF Init
<1>2. ChainIntact
  BY <1>1 DEF ChainIntact
<1>3. Behind(saga, 1) /\ DOMAIN closer = {"pc", "saga"} /\ Behind(closer.saga, 1)
  BY DEF Init, Behind, Opening, NoCloser
<1>4. DOMAIN app = Task /\ \A t \in Task : AppendOK(app[t], 1)
  BY DEF Init, AppendOK, Behind, NoAppend, Opening, Slot
<1> QED
  BY <1>1, <1>2, <1>3, <1>4 DEF ChainInv

\* Most steps touch neither the log nor a row of the saga, and append nothing,
\* begin to, or give up.
LEMMA Frame ==
  ASSUME ChainInv, UNCHANGED <<log, saga, closer>>,
         \/ UNCHANGED app
         \/ \E t \in Task : \E q : Appending(t, q)
         \/ \E t \in Task : app' = [app EXCEPT ![t] = Failed]
  PROVE  ChainInv'
<1>1. /\ (log \in Seq([pos : Nat, prev : Nat]))'
      /\ (Len(log) \in Nat /\ Len(log) >= 1)'
      /\ Behind(saga, Len(log))'
      /\ (DOMAIN closer = {"pc", "saga"} /\ Behind(closer.saga, Len(log)))'
  BY DEF ChainInv
<1>2. ChainIntact'
  BY DEF ChainInv, ChainIntact
<1>3. (DOMAIN app = Task /\ \A t \in Task : AppendOK(app[t], Len(log)))'
  <2>1. CASE UNCHANGED app
    BY <2>1 DEF ChainInv
  <2>2. ASSUME NEW t \in Task, NEW q, Appending(t, q)
        PROVE  (DOMAIN app = Task /\ \A u \in Task : AppendOK(app[u], Len(log)))'
    <3>1. AppendOK([NoAppend EXCEPT !.todo = q], Len(log))
      BY NotBegun DEF ChainInv
    <3> QED
      BY <2>2, <3>1 DEF ChainInv, Appending
  <2>3. ASSUME NEW t \in Task, app' = [app EXCEPT ![t] = Failed]
        PROVE  (DOMAIN app = Task /\ \A u \in Task : AppendOK(app[u], Len(log)))'
    <3>1. AppendOK(Failed, Len(log))
      BY NotBegun DEF ChainInv
    <3> QED
      BY <2>3, <3>1 DEF ChainInv
  <2> QED
    BY <2>1, <2>2, <2>3
<1> QED
  BY <1>1, <1>2, <1>3 DEF ChainInv

-----------------------------------------------------------------------------
(* The steps of an append. *)

\* insertEvent puts an event after the last one or nowhere.
LEMMA InsertStep ==
  ASSUME ChainInv, NEW t \in Task, Insert(t)
  PROVE  ChainInv'
<1> DEFINE n == Len(log)
           s == app[t].saga
           new == [pos |-> s.len + 1, prev |-> s.head]
<1>1. n \in Nat /\ n >= 1 /\ DOMAIN log = 1 .. n
  BY DEF ChainInv
<1>2. Behind(s, n)
  BY DEF ChainInv, AppendOK
<1>3. s.len = n /\ s.head = n
  <2>1. \A i \in 1 .. n : log[i].pos = i
    BY <1>1 DEF ChainInv, ChainIntact
  <2>2. s.len + 1 \notin 1 .. n
    BY <1>1, <2>1 DEF Insert, Taken
  <2> QED
    BY <1>1, <1>2, <2>2 DEF Behind
<1>4. log' = Append(log, new) /\ new \in [pos : Nat, prev : Nat]
  BY <1>2 DEF Insert, Behind
<1>5. /\ log' \in Seq([pos : Nat, prev : Nat]) /\ Len(log') = n + 1
      /\ log'[n + 1] = new /\ \A i \in 1 .. n : log'[i] = log[i]
  BY <1>4 DEF ChainInv
<1>6. ChainIntact'
  <2>1. DOMAIN log' = 1 .. n + 1
    BY <1>5
  <2> SUFFICES ASSUME NEW i \in 1 .. n + 1
               PROVE  log'[i].pos = i /\ log'[i].prev = i - 1
    BY <2>1 DEF ChainIntact
  <2>2. CASE i = n + 1
    BY <1>1, <1>3, <1>5, <2>2
  <2>3. CASE i \in 1 .. n
    BY <1>1, <1>5, <2>3 DEF ChainInv, ChainIntact
  <2> QED
    BY <1>1, <2>2, <2>3
<1>7. /\ Behind(saga', n + 1)
      /\ DOMAIN closer' = {"pc", "saga"} /\ Behind(closer'.saga, n + 1)
  BY <1>1, Longer DEF Insert, ChainInv
<1>8. DOMAIN app' = Task /\ \A u \in Task : AppendOK(app'[u], n + 1)
  <2>1. DOMAIN app' = Task /\ \A u \in Task \ {t} : app'[u] = app[u]
    BY DEF Insert, ChainInv
  <2>2. /\ DOMAIN app'[t] = Slot /\ app'[t].saga = saga /\ app'[t].at = n + 1
    BY DEF Insert, ChainInv, AppendOK, Slot
  <2>3. AppendOK(app'[t], n + 1)
    BY <1>1, <2>2, Longer DEF AppendOK, ChainInv, Behind
  <2>4. ASSUME NEW u \in Task \ {t} PROVE AppendOK(app'[u], n + 1)
    BY <1>1, <2>1, Longer DEF AppendOK, ChainInv
  <2> QED
    BY <2>1, <2>3, <2>4
<1> QED
  BY <1>1, <1>5, <1>6, <1>7, <1>8 DEF ChainInv

\* upsertSaga writes a row whose head is the event of this append.
LEMMA PutSagaStep ==
  ASSUME ChainInv, NEW t \in Task, PutSaga(t)
  PROVE  ChainInv'
<1>1. UNCHANGED <<log, closer>> /\ Len(log) \in Nat /\ Len(log) >= 1
  BY DEF PutSaga, ChainInv
<1>2. /\ Behind(app[t].saga, Len(log)) /\ app[t].at \in Nat
      /\ app[t].saga.len < app[t].at /\ app[t].at <= Len(log)
  BY DEF PutSaga, ChainInv, AppendOK
<1>3. Behind(saga', Len(log))
  <2>1. /\ DOMAIN saga' = {"next", "len", "head"}
        /\ saga'.len = app[t].saga.len + 1 /\ saga'.head = app[t].at
    BY <1>2 DEF PutSaga, Extended, Behind
  <2> QED
    BY <1>1, <1>2, <2>1 DEF Behind
<1>4. DOMAIN app' = Task /\ \A u \in Task : AppendOK(app'[u], Len(log))
  <2>1. CASE app' = [app EXCEPT ![t].step = "row"]
    <3>1. AppendOK([app[t] EXCEPT !.step = "row"], Len(log))
      BY DEF ChainInv, AppendOK, Slot
    <3> QED
      BY <2>1, <3>1 DEF ChainInv
  <2>2. CASE Appended(t)
    <3>1. AppendOK([NoAppend EXCEPT !.todo = Tail(app[t].todo)], Len(log))
      BY <1>1, NotBegun
    <3> QED
      BY <2>2, <3>1 DEF Appended, ChainInv
  <2> QED
    BY <2>1, <2>2 DEF PutSaga
<1> QED
  BY <1>1, <1>3, <1>4 DEF ChainInv, ChainIntact

\* No step of an append breaks the chain.
LEMMA AppendKeepsChain ==
  ASSUME ChainInv, NEW t \in Task, AppendStep(t)
  PROVE  ChainInv'
<1>1. CASE ReadHead(t)
  <2>1. AppendOK([app[t] EXCEPT !.step = "insert", !.saga = saga], Len(log))
    BY DEF ChainInv, AppendOK, Slot
  <2>2. /\ UNCHANGED <<log, saga, closer>>
        /\ app' = [app EXCEPT ![t] = [app[t] EXCEPT !.step = "insert", !.saga = saga]]
    BY <1>1 DEF ReadHead, tables
  <2>3. DOMAIN app' = Task /\ \A u \in Task : AppendOK(app'[u], Len(log))
    BY <2>1, <2>2 DEF ChainInv
  <2> QED
    BY <2>2, <2>3 DEF ChainInv, ChainIntact
<1>2. CASE Insert(t)
  BY <1>2, InsertStep
<1>3. CASE Collide(t)
  BY <1>3, Frame DEF Collide, tables
<1>4. CASE PutSaga(t)
  BY <1>4, PutSagaStep
<1>5. CASE PutRow(t)
  <2>1. Appending(t, Tail(app[t].todo)) /\ UNCHANGED <<log, saga, closer>>
    BY <1>5 DEF PutRow, Appended, Appending
  <2> QED
    BY <2>1, Frame
<1>6. CASE SeqCollides(t)
  BY <1>6, Frame DEF SeqCollides, tables
<1>7. CASE AppendFails(t)
  BY <1>7, Frame DEF AppendFails, tables
<1> QED
  BY <1>1, <1>2, <1>3, <1>4, <1>5, <1>6, <1>7 DEF AppendStep

-----------------------------------------------------------------------------
(* Everything else. *)

\* Calls of saga.effect reach the log by appending only.
LEMMA EffectKeepsChain ==
  ASSUME ChainInv, NEW c \in Call, EffectStep(c)
  PROVE  ChainInv'
<1>1. c \in Task
  BY DEF Task
<1>2. UNCHANGED <<log, saga, closer>> /\ (UNCHANGED app \/ \E q : Appending(c, q))
  <2>1. CASE \E i \in Intent :
               \/ \E pc \in {"bypass", "observe"} : OpenUnrecorded(c, i, pc)
               \/ Link(c, i)
               \/ Open(c, i)
    BY <2>1 DEF OpenUnrecorded, Link, Open, tables
  <2>2. CASE Unrecorded(c) \/ NotLogged(c) \/ Doubted(c) \/ Close(c) \/ Degrade(c)
             \/ Degraded(c) \/ RaiseTier(c) \/ Reclassified(c)
    BY <2>2 DEF Unrecorded, NotLogged, Doubted, Close, Degrade, Degraded, RaiseTier,
       Reclassified, tables
  <2>3. CASE \/ Enrich(c) \/ Enriched(c) \/ Block(c)
             \/ \E reclassified \in BOOLEAN : Admit(c, reclassified)
             \/ \E outcome \in {"ok", "refused", "lost"}, lands, thrown \in BOOLEAN :
                  Run(c, outcome, lands, thrown)
             \/ CloseUnrecorded(c) \/ Rewrite(c) \/ Seal(c) \/ OffPath(c)
    BY <2>3 DEF Enrich, Enriched, Block, Admit, Run, CloseUnrecorded, Rewrite, Seal,
       OffPath, tables
  <2> QED
    BY <2>1, <2>2, <2>3 DEF EffectStep
<1> QED
  BY <1>1, <1>2, Frame

\* So does resumeSaga.
LEMMA ResumeKeepsChain ==
  ASSUME ChainInv, ResumeStep
  PROVE  ChainInv'
<1>1. Resumer \in Task
  BY DEF Task
<1>2. /\ UNCHANGED <<log, saga, closer>>
      /\ UNCHANGED app \/ \E q : Appending(Resumer, q)
  BY DEF ResumeStep, Resume, Boundary, List, MarkNext, Marked, tables
<1> QED
  BY <1>1, <1>2, Frame

\* saga.close() writes a row it has read before, a crash forgets what was being
\* appended, replay puts the row at the end of the log.
LEMMA WorldKeepsChain ==
  ASSUME ChainInv, ReadSaga \/ PutStatus \/ Crash \/ Replay
  PROVE  ChainInv'
<1>1. UNCHANGED log /\ Len(log) \in Nat /\ Len(log) >= 1
  BY DEF ReadSaga, PutStatus, Crash, Replay, tables, ChainInv
<1>2. Behind(saga', Len(log))
  <2>1. CASE ReadSaga \/ Crash
    BY <2>1 DEF ReadSaga, Crash, tables, ChainInv
  <2>2. CASE PutStatus
    BY <2>2 DEF PutStatus, ChainInv
  <2>3. CASE Replay
    BY <1>1, <2>3 DEF Replay, Behind
  <2> QED
    BY <2>1, <2>2, <2>3
<1>3. DOMAIN closer' = {"pc", "saga"} /\ Behind(closer'.saga, Len(log))
  BY <1>1 DEF ReadSaga, PutStatus, Crash, Replay, NoCloser, Opening, ChainInv, Behind
<1>4. DOMAIN app' = Task /\ \A t \in Task : AppendOK(app'[t], Len(log))
  <2>1. CASE UNCHANGED app
    BY <2>1 DEF ChainInv
  <2>2. CASE app' = [t \in Task |-> NoAppend]
    <3>1. AppendOK(NoAppend, Len(log))
      BY <1>1 DEF AppendOK, Behind, NoAppend, Opening, Slot
    <3> QED
      BY <2>2, <3>1
  <2> QED
    BY <2>1, <2>2 DEF ReadSaga, PutStatus, Crash, Replay
<1> QED
  BY <1>1, <1>2, <1>3, <1>4 DEF ChainInv, ChainIntact

-----------------------------------------------------------------------------

\* Whoever appends to a saga, in whatever order, dying wherever: the row of the
\* saga may be old, but it never leads to a second successor of an event.
THEOREM ChainInductive == Spec => []ChainInv
<1>1. Init => ChainInv
  BY ChainInit
<1>2. ChainInv /\ [Next]_vars => ChainInv'
  <2> SUFFICES ASSUME ChainInv, [Next]_vars PROVE ChainInv'
    OBVIOUS
  <2>1. CASE Next
    BY <2>1, AppendKeepsChain, EffectKeepsChain, ResumeKeepsChain, WorldKeepsChain
       DEF Next
  <2>2. CASE UNCHANGED vars
    BY <2>2, Frame DEF vars
  <2> QED
    BY <2>1, <2>2
<1> QED
  BY <1>1, <1>2, PTL DEF Spec

\* The receipts of a saga verify (appendChained, verifyChain): every event is on
\* top of the one before it.
THEOREM ChainHolds == Spec => []ChainIntact
<1>1. ChainInv => ChainIntact
  BY DEF ChainInv
<1> QED
  BY <1>1, ChainInductive, PTL

-----------------------------------------------------------------------------
(* Types and control. *)

EventType == [kind : Kind, eff : EffectId \cup {NoEffect}]

AppendType ==
  [step : {"idle", "insert", "saga", "row", "failed"}, todo : Seq(EventType),
   saga : Saga, row : Row, at : Nat]

CallType ==
  [pc : {"idle", "bypass", "observe", "opening", "doubt",
         "enriched", "policy", "run", "close", "closing", "degrade",
         "degraded", "rewrite", "offpath", "raise", "reclassify",
         "refused", "ended", "dead"},
   intent : Intent \cup {NoEffect}, eff : EffectId \cup {NoEffect}, row : Row,
   status : Status, thrown : BOOLEAN, again : BOOLEAN]

ResumeType ==
  [pc : {"idle", "boundary", "list", "next", "marking", "done"},
   left : SUBSET EffectId, snap : [EffectId -> Row], saw : SUBSET Call]

PastType ==
  [crashes : 0 .. MaxCrash, faults : 0 .. MaxFault, replays : 0 .. MaxReplay,
   torn : BOOLEAN, stale : BOOLEAN, marked : BOOLEAN,
   replay : {"none", "ok", "failed"}]

\* TypeOK, in terms of these sets.
LEMMA Typed == TypeOK <=>
  /\ log \in Seq([pos : Nat, prev : Nat])
  /\ fold \in [EffectId -> Row]
  /\ order \in Seq(EffectId)
  /\ rows \in [EffectId -> Row]
  /\ saga \in Saga
  /\ inflight \subseteq Intent
  /\ app \in [Task -> AppendType]
  /\ call \in [Call -> CallType]
  /\ resume \in ResumeType
  /\ closer \in [pc : {"idle", "write"}, saga : Saga]
  /\ landed \subseteq Call
  /\ past \in PastType
BY DEF TypeOK, AppendType, EventType, CallType, ResumeType, PastType

\* Where a call waits for appendChained, where it is over or has not begun, and
\* where it has not run yet.
Appends == {"bypass", "observe", "opening", "doubt", "closing", "degrade",
            "reclassify"}
Rests == {"idle", "refused", "ended", "dead"}
Unrun == {"idle", "bypass", "observe", "opening", "doubt", "enriched", "policy",
          "run", "refused"}
Records == {"opening", "doubt", "enriched", "policy", "closing", "degrade",
            "rewrite", "offpath", "raise", "reclassify"}
CloseKinds == {"closed_landed", "closed_failed", "closed_in_doubt"}

\* What a call r may have to append.
EventOK(r, ev) ==
  /\ ev.kind = "opened" => r.pc = "opening"
  /\ ev.kind \in CloseKinds => r.pc = "closing" /\ ev.kind = Closed(r.status)
  /\ ev.eff \in {NoEffect, r.eff}
  /\ ev.eff = NoEffect => ev.kind = "note"

\* A call r with its append a; hit says whether its run took effect.
CallOK(r, a, hit) ==
  /\ r.pc \notin Appends => a.step = "idle" /\ a.todo = <<>>
  /\ r.pc \in {"idle", "bypass", "observe"} => r.eff = NoEffect
  /\ r.pc \in Records => r.eff # NoEffect
  /\ r.pc \in {"opening", "enriched", "policy"} => r.intent \in Intent
  /\ r.pc \in {"close", "closing"} =>
       /\ r.status \in {"landed", "failed", "in_doubt"}
       /\ hit /\ ~r.again => r.status # "failed"
  /\ r.pc \in Unrun => ~hit /\ ~r.again
  /\ \A i \in DOMAIN a.todo : EventOK(r, a.todo[i])

AppendWaits(a) ==
  /\ a.step \in {"insert", "saga", "row"} => a.todo # <<>>
  /\ a.step = "failed" => a.todo = <<>>

\* resumeSaga r with its append a.
ResumeOK(r, a) ==
  /\ r.pc \notin {"boundary", "marking"} => a.step = "idle" /\ a.todo = <<>>
  /\ r.pc = "marking" => r.left # {}
  /\ Len(a.todo) <= 1
  /\ \A i \in DOMAIN a.todo :
       a.todo[i] = IF r.pc = "boundary" THEN Note
                   ELSE Event("in_doubt", Oldest(r.left))

\* While a resume is due or at work no call is.
Exclusive ==
  /\ resume.pc # "idle" => past.crashes > 0
  /\ past.crashes > 0 /\ resume.pc # "done" =>
       \A c \in Call : call[c].pc \in Rests

Control ==
  /\ \A c \in Call : CallOK(call[c], app[c], c \in landed)
  /\ \A t \in Task : AppendWaits(app[t])
  /\ ResumeOK(resume, app[Resumer])
  /\ Exclusive

\* A seq is given out for every call that gets an effect, no more.
Opener == {c \in Call : Recorded(c)}
Given == Cardinality(Opener)

SeqBound ==
  /\ saga.next <= Given + 1 /\ closer.saga.next <= Given + 1
  /\ \A t \in Task : app[t].saga.next <= Given + 1
  /\ \A c \in Call : Recorded(c) => Eff(c)[1] <= Given
  /\ \A i \in DOMAIN order : order[i][1] <= Given

CInv == TypeOK /\ Control /\ SeqBound

\* A set of numbers has a least one.
LEMMA Least ==
  ASSUME NEW T \in SUBSET Nat, T # {}
  PROVE  \E n \in T : \A m \in T : n <= m
<1>1. \E x \in T : \A y \in T : ~(<<y, x>> \in OpToRel(<, Nat))
  BY NatLessThanWellFounded, WFMin
<1>2. PICK x \in T : \A y \in T : ~(<<y, x>> \in OpToRel(<, Nat))
  BY <1>1
<1>3. ASSUME NEW y \in T PROVE x <= y
  <2>1. ~(y < x)
    BY <1>2 DEF OpToRel
  <2> QED
    BY <2>1
<1> QED
  BY <1>3

LEMMA OldestIs ==
  ASSUME NEW effects \in SUBSET EffectId, effects # {}
  PROVE  Oldest(effects) \in effects
<1> DEFINE T == {e[1] : e \in effects}
<1>1. T \in SUBSET Nat /\ T # {} /\ \A e \in effects : e[1] \in T
  BY DEF EffectId
<1> HIDE DEF T
<1>2. PICK n \in T : \A m \in T : n <= m
  BY <1>1, Least
<1>3. PICK e \in effects : e[1] = n
  BY <1>2 DEF T
<1>4. \A f \in effects : e[1] <= f[1]
  BY <1>1, <1>2, <1>3
<1> QED
  BY <1>4 DEF Oldest

\* Every set here is bounded by the number of calls.
LEMMA Bounds ==
  /\ MaxSeq \in Nat
  /\ \A e \in EffectId : e[1] \in 1 .. MaxSeq /\ e[2] \in Intent /\ e = <<e[1], e[2]>>
  /\ IsFiniteSet(Opener) /\ Given \in Nat /\ Given <= MaxSeq
<1>1. IsFiniteSet(Call) /\ Opener \in SUBSET Call
  BY EffectLogAssumption DEF Opener
<1> QED
  BY <1>1, FS_CardinalityType, FS_Subset DEF MaxSeq, Given, EffectId

LEMMA ControlInit == Init => CInv
<1> SUFFICES ASSUME Init PROVE CInv
  OBVIOUS
<1>1. /\ Absent \in Row /\ NoCall \in CallType /\ Opening \in Saga
      /\ NoResume \in ResumeType
  BY Bounds DEF Absent, Row, Status, NoCall, CallType, Opening, Saga, NoResume, ResumeType
<1>2. NoAppend \in AppendType
  BY <1>1 DEF NoAppend, AppendType
<1>3. TypeOK
  <2>1. /\ log \in Seq([pos : Nat, prev : Nat])
        /\ order \in Seq(EffectId)
    BY DEF Init
  <2>2. past \in PastType
    BY EffectLogAssumption DEF Init, PastType
  <2>3. closer \in [pc : {"idle", "write"}, saga : Saga]
    BY <1>1 DEF Init, NoCloser
  <2> QED
    BY <1>1, <1>2, <2>1, <2>2, <2>3, Typed DEF Init
<1>4. Control
  <2>1. \A c \in Call : CallOK(call[c], app[c], c \in landed)
    BY DEF Init, CallOK, NoCall, NoAppend, Appends, Records, Unrun, Task
  <2>2. \A t \in Task : AppendWaits(app[t])
    BY DEF Init, AppendWaits, NoAppend
  <2>3. ResumeOK(resume, app[Resumer])
    BY DEF Init, ResumeOK, NoResume, NoAppend, Task
  <2>4. Exclusive
    BY DEF Init, Exclusive, NoResume
  <2> QED
    BY <2>1, <2>2, <2>3, <2>4 DEF Control
<1>5. SeqBound
  BY Bounds DEF Init, SeqBound, NoAppend, NoCloser, Opening, NoCall, Recorded, Eff
<1> QED
  BY <1>3, <1>4, <1>5 DEF CInv

\* Who has an event to append, and which.
LEMMA EventsOf ==
  ASSUME CInv, NEW t \in Task, app[t].todo # <<>>
  PROVE  /\ Ev(t) \in EventType
         /\ 1 \in DOMAIN app[t].todo /\ Ev(t) = app[t].todo[1]
         /\ t \in Call => EventOK(call[t], Ev(t)) /\ call[t].pc \in Appends
         /\ t = Resumer =>
              /\ resume.pc \in {"boundary", "marking"}
              /\ Ev(t).kind \in {"note", "in_doubt"}
         /\ Ev(t).kind # "note" => Ev(t).eff \in EffectId
<1>1. app[t].todo \in Seq(EventType)
  BY Typed DEF CInv, AppendType
<1>2. 1 \in DOMAIN app[t].todo /\ Ev(t) = app[t].todo[1] /\ Ev(t) \in EventType
  BY <1>1 DEF Ev
<1>3. t \in Call => EventOK(call[t], Ev(t)) /\ call[t].pc \in Appends
  BY <1>2 DEF CInv, Control, CallOK
<1>4. t = Resumer =>
        /\ resume.pc \in {"boundary", "marking"}
        /\ Ev(t) = IF resume.pc = "boundary" THEN Note
                   ELSE Event("in_doubt", Oldest(resume.left))
  BY <1>2 DEF CInv, Control, ResumeOK
<1>5. t = Resumer => Ev(t).kind \in {"note", "in_doubt"}
  BY <1>4 DEF Note, Event
<1>6. Ev(t).kind # "note" => Ev(t).eff \in EffectId
  <2>1. CASE t \in Call
    BY <1>2, <1>3, <2>1 DEF EventOK, EventType
  <2>2. CASE t = Resumer
    <3>1. resume.pc = "marking" => Oldest(resume.left) \in EffectId
      BY OldestIs, Typed DEF CInv, Control, ResumeOK, ResumeType
    <3> QED
      BY <1>4, <2>2, <3>1 DEF Note, Event
  <2> QED
    BY <2>1, <2>2 DEF Task
<1> QED
  BY <1>2, <1>3, <1>4, <1>5, <1>6

\* Only a call that opens its effect has an effect_opened to append.
LEMMA OpenedByItself ==
  ASSUME CInv, NEW t \in Task, app[t].todo # <<>>, Ev(t).kind = "opened"
  PROVE  t \in Call /\ At(t, "opening") /\ Recorded(t) /\ Ev(t).eff = Eff(t)
         /\ Eff(t) \in EffectId
BY EventsOf DEF EventOK, At, Eff, Recorded, Task

LEMMA Applied ==
  ASSUME NEW row \in Row, NEW kind
  PROVE  Apply(row, kind) \in Row
BY DEF Apply, Row, Status, Opened, Absent, Exists

-----------------------------------------------------------------------------
(* The steps of an append. *)

\* What a step of t's append leaves of its record.
Leaves(t, a) ==
  /\ app' = [app EXCEPT ![t] = a]
  /\ a \in AppendType /\ AppendWaits(a)
  /\ a.todo \in {app[t].todo, Tail(app[t].todo), <<>>}
  /\ a.saga.next <= Given + 1

LEMMA FreshAppend ==
  ASSUME NEW q \in Seq(EventType)
  PROVE  /\ [NoAppend EXCEPT !.todo = q] \in AppendType
         /\ AppendWaits([NoAppend EXCEPT !.todo = q])
         /\ [NoAppend EXCEPT !.todo = q].todo = q
         /\ [NoAppend EXCEPT !.todo = q].step = "idle"
         /\ [NoAppend EXCEPT !.todo = q].saga.next <= Given + 1
         /\ Failed \in AppendType /\ AppendWaits(Failed)
         /\ Failed.todo = <<>> /\ Failed.step = "failed"
         /\ Failed.saga.next <= Given + 1
<1>1. Opening \in Saga /\ Absent \in Row /\ Opening.next <= Given + 1
  BY Bounds DEF Opening, Saga, Absent, Row, Status
<1>2. NoAppend \in AppendType
  <2>1. <<>> \in Seq(EventType) /\ 0 \in Nat
    OBVIOUS
  <2> QED
    BY <1>1, <2>1 DEF NoAppend, AppendType
<1>3. [NoAppend EXCEPT !.todo = q] \in AppendType /\ Failed \in AppendType
  BY <1>2 DEF AppendType, Failed
<1> QED
  BY <1>1, <1>2, <1>3 DEF NoAppend, AppendWaits, Failed

LEMMA AppendMoves ==
  ASSUME CInv, NEW t \in Task, AppendStep(t)
  PROVE  /\ app[t].todo # <<>>
         /\ \E a \in AppendType : Leaves(t, a)
         /\ UNCHANGED <<inflight, call, resume, closer, landed>>
         /\ past' \in PastType /\ past'.crashes = past.crashes
<1>0. app[t] \in AppendType /\ past \in PastType /\ AppendWaits(app[t])
  BY Typed DEF CInv, Control
<1>1. app[t].todo # <<>> /\ app[t].todo \in Seq(EventType)
  BY <1>0 DEF AppendStep, ReadHead, Insert, Collide, PutSaga, PutRow, SeqCollides,
     AppendFails, AppendType, AppendWaits
<1>2. UNCHANGED <<inflight, call, resume, closer, landed>>
  BY DEF AppendStep, ReadHead, Insert, Collide, PutSaga, PutRow, SeqCollides,
     AppendFails, tables
<1>3. past' \in PastType /\ past'.crashes = past.crashes
  <2>1. CASE UNCHANGED past
    BY <1>0, <2>1
  <2>2. CASE AppendFails(t)
    <3> DEFINE b == past.torn \/ Torn(t)
           n == past.faults + 1
    <3>1. b \in BOOLEAN /\ past' = [past EXCEPT !.faults = n, !.torn = b]
      BY <1>0, <2>2 DEF AppendFails, PastType
    <3>2. n \in 0 .. MaxFault
      BY <1>0, <2>2, EffectLogAssumption DEF AppendFails, PastType
    <3> HIDE DEF b, n
    <3> QED
      BY <1>0, <3>1, <3>2 DEF PastType
  <2> QED
    BY <2>1, <2>2 DEF AppendStep, ReadHead, Insert, Collide, PutSaga, PutRow, SeqCollides
<1>4. Tail(app[t].todo) \in Seq(EventType)
  BY <1>1
<1>5. Leaves(t, Failed) \/ app' # [app EXCEPT ![t] = Failed]
  BY <1>0, FreshAppend DEF Leaves, AppendType
<1>6. Appended(t) => Leaves(t, [NoAppend EXCEPT !.todo = Tail(app[t].todo)])
  BY <1>4, FreshAppend DEF Leaves, Appended
<1>7. \E a : Leaves(t, a)
  <2>1. CASE ReadHead(t)
    <3> DEFINE a == [app[t] EXCEPT !.step = "insert", !.saga = saga]
    <3>1. a \in AppendType /\ AppendWaits(a) /\ a.todo = app[t].todo /\ a.saga = saga
      BY <1>0, <1>1, Typed DEF CInv, AppendType, AppendWaits
    <3>2. app' = [app EXCEPT ![t] = a]
      BY <2>1 DEF ReadHead
    <3> QED
      BY <3>1, <3>2 DEF Leaves, CInv, SeqBound
  <2>2. CASE Insert(t)
    <3> DEFINE row == IF Ev(t).eff = NoEffect THEN Absent ELSE rows[Ev(t).eff]
               a == [app[t] EXCEPT !.step = "saga", !.at = Len(log) + 1,
                                   !.saga = saga, !.row = row]
    <3>1. row \in Row
      BY <1>1, EventsOf, Typed DEF CInv, EventType, Absent, Row, Status
    <3>2. Len(log) + 1 \in Nat /\ saga \in Saga
      BY Typed DEF CInv
    <3> HIDE DEF row
    <3>3. a \in AppendType /\ AppendWaits(a) /\ a.todo = app[t].todo /\ a.saga = saga
      BY <1>0, <1>1, <3>1, <3>2 DEF AppendType, AppendWaits
    <3>4. app' = [app EXCEPT ![t] = a]
      BY <2>2 DEF Insert, row
    <3> QED
      BY <3>3, <3>4 DEF Leaves, CInv, SeqBound
  <2>3. CASE Collide(t) \/ SeqCollides(t) \/ AppendFails(t)
    BY <1>5, <2>3 DEF Collide, SeqCollides, AppendFails
  <2>4. CASE PutSaga(t)
    <3> DEFINE a == [app[t] EXCEPT !.step = "row"]
    <3>1. a \in AppendType /\ AppendWaits(a) /\ a.todo = app[t].todo /\ a.saga = app[t].saga
      BY <1>0, <1>1 DEF AppendType, AppendWaits
    <3> QED
      BY <1>6, <2>4, <3>1 DEF PutSaga, Leaves, CInv, SeqBound
  <2>5. CASE PutRow(t)
    BY <1>6, <2>5 DEF PutRow
  <2> QED
    BY <2>1, <2>2, <2>3, <2>4, <2>5 DEF AppendStep
<1> QED
  BY <1>1, <1>2, <1>3, <1>7 DEF Leaves

\* The tables it writes.
LEMMA AppendWrites ==
  ASSUME CInv, NEW t \in Task, AppendStep(t)
  PROVE  /\ fold' \in [EffectId -> Row] /\ rows' \in [EffectId -> Row]
         /\ order' \in Seq(EffectId)
         /\ \A i \in DOMAIN order' : order'[i][1] <= Given
         /\ saga' \in Saga /\ saga'.next <= Given + 1
<1>0. /\ app[t] \in AppendType /\ app[t].todo # <<>> /\ saga \in Saga
      /\ fold \in [EffectId -> Row] /\ rows \in [EffectId -> Row]
      /\ order \in Seq(EffectId)
  BY AppendMoves, Typed DEF CInv
<1>1. /\ Ev(t) \in EventType
      /\ Ev(t).kind = "opened" =>
           Ev(t).eff \in EffectId /\ Ev(t).eff[1] <= Given
      /\ Ev(t).eff # NoEffect => Ev(t).eff \in EffectId
  BY <1>0, EventsOf, OpenedByItself DEF CInv, SeqBound, EventType
<1>2. \A e \in EffectId : Apply(fold[e], Ev(t).kind) \in Row
  BY <1>0, Applied
<1>3. Apply(app[t].row, Ev(t).kind) \in Row
  BY <1>0, Applied DEF AppendType
<1>4. CASE Insert(t)
  <2>1. fold' \in [EffectId -> Row]
    BY <1>0, <1>1, <1>2, <1>4 DEF Insert
  <2>2. /\ order' \in Seq(EffectId)
        /\ \A i \in DOMAIN order' : order'[i][1] <= Given
    <3>1. CASE order' = order
      BY <1>0, <3>1 DEF CInv, SeqBound
    <3>2. CASE Ev(t).kind = "opened" /\ order' = Append(order, Ev(t).eff)
      BY <1>0, <1>1, <3>2 DEF CInv, SeqBound
    <3> QED
      BY <1>4, <3>1, <3>2 DEF Insert
  <2> QED
    BY <1>0, <1>4, <2>1, <2>2 DEF Insert, CInv, SeqBound
<1>5. CASE PutSaga(t)
  <2>1. app[t].saga \in Saga /\ app[t].at \in Nat /\ app[t].saga.next <= Given + 1
    BY <1>0 DEF AppendType, CInv, SeqBound
  <2>2. /\ NextSeq(app[t].saga, Ev(t)) \in 1 .. MaxSeq + 1
        /\ NextSeq(app[t].saga, Ev(t)) <= Given + 1
    BY <1>1, <2>1, Bounds DEF NextSeq, Saga
  <2>3. saga' \in Saga /\ saga'.next <= Given + 1
    <3> DEFINE n == NextSeq(app[t].saga, Ev(t))
               s == app[t].saga
    <3>0. s \in Saga /\ s.len + 1 \in Nat
      BY <2>1 DEF Saga
    <3>1. saga' = [s EXCEPT !.len = s.len + 1, !.head = app[t].at, !.next = n]
      BY <1>5 DEF PutSaga, Extended
    <3>2. n \in 1 .. MaxSeq + 1 /\ n <= Given + 1
      BY <2>2
    <3> HIDE DEF n, s
    <3>3. saga' \in Saga
      BY <2>1, <3>0, <3>1, <3>2 DEF Saga
    <3>4. saga'.next = n
      BY <3>0, <3>1 DEF Saga
    <3> QED
      BY <3>2, <3>3, <3>4
  <2> QED
    BY <1>0, <1>5, <2>3 DEF PutSaga, CInv, SeqBound
<1>6. CASE PutRow(t)
  BY <1>0, <1>3, <1>6 DEF PutRow, CInv, SeqBound
<1>7. CASE UNCHANGED tables
  BY <1>0, <1>7 DEF tables, CInv, SeqBound
<1> QED
  BY <1>4, <1>5, <1>6, <1>7
     DEF AppendStep, ReadHead, Collide, SeqCollides, AppendFails

\* A sequence, its tail and the empty one have no other elements.
LEMMA Remains ==
  ASSUME NEW q \in Seq(EventType), q # <<>>, NEW p \in {q, Tail(q), <<>>}
  PROVE  /\ \A i \in DOMAIN p : \E j \in DOMAIN q : p[i] = q[j]
         /\ Len(p) <= Len(q) /\ p \in Seq(EventType)
<1>1. CASE p = q
  BY <1>1
<1>2. CASE p = Tail(q)
  <2>1. /\ p \in Seq(EventType) /\ Len(p) = Len(q) - 1
        /\ \A i \in 1 .. Len(p) : p[i] = q[i + 1]
    BY <1>2
  <2>2. DOMAIN p = 1 .. Len(p) /\ DOMAIN q = 1 .. Len(q) /\ Len(q) \in Nat
    BY <2>1
  <2> QED
    BY <2>1, <2>2
<1>3. CASE p = <<>>
  BY <1>3
<1> QED
  BY <1>1, <1>2, <1>3

LEMMA AppendControl ==
  ASSUME CInv, ChainInv', NEW t \in Task, AppendStep(t)
  PROVE  CInv'
<1>1. /\ app[t].todo # <<>> /\ app[t].todo \in Seq(EventType)
      /\ UNCHANGED <<inflight, call, resume, closer, landed>>
      /\ past' \in PastType /\ past'.crashes = past.crashes
  BY AppendMoves, Typed DEF CInv, AppendType
<1>2. PICK a \in AppendType : Leaves(t, a)
  BY AppendMoves
<1>3. /\ app' \in [Task -> AppendType] /\ app'[t] = a
      /\ \A u \in Task \ {t} : app'[u] = app[u]
  BY <1>2, Typed DEF CInv, Leaves
<1>4. TypeOK'
  <2>1. (log \in Seq([pos : Nat, prev : Nat]))'
    BY DEF ChainInv
  <2> QED
    BY <1>1, <1>3, <2>1, AppendWrites, Typed DEF CInv, TypeOK, AppendType, EventType,
       CallType, ResumeType, PastType
<1>5. Given' = Given /\ Opener' = Opener
  BY <1>1 DEF Given, Opener, Recorded, Eff
<1>6. SeqBound'
  BY <1>1, <1>2, <1>3, <1>5, AppendWrites DEF SeqBound, CInv, Leaves, Recorded, Eff
<1>7. Control'
  <2>1. \A i \in DOMAIN a.todo : \E j \in DOMAIN app[t].todo : a.todo[i] = app[t].todo[j]
    BY <1>1, <1>2, Remains DEF Leaves
  <2>2. \A c \in Call : CallOK(call[c], app'[c], c \in landed)
    <3> TAKE c \in Call
    <3>1. CASE c # t
      BY <1>3, <3>1 DEF CInv, Control, Task
    <3>2. CASE c = t
      <4>1. call[c].pc \in Appends
        BY <1>1, <3>2 DEF CInv, Control, CallOK
      <4>2. \A i \in DOMAIN a.todo : EventOK(call[c], a.todo[i])
        BY <2>1, <3>2 DEF CInv, Control, CallOK
      <4> QED
        BY <1>3, <3>2, <4>1, <4>2 DEF CInv, Control, CallOK
    <3> QED
      BY <3>1, <3>2
  <2>3. \A u \in Task : AppendWaits(app'[u])
    BY <1>2, <1>3 DEF CInv, Control, Leaves
  <2>4. ResumeOK(resume, app'[Resumer])
    <3>1. CASE t # Resumer
      BY <1>3, <3>1 DEF CInv, Control, Task
    <3>2. CASE t = Resumer
      <4>1. Len(a.todo) <= Len(app[t].todo) /\ a.todo \in Seq(EventType)
            /\ Len(a.todo) \in Nat /\ Len(app[t].todo) \in Nat
        BY <1>1, <1>2, Remains DEF Leaves, AppendType
      <4> QED
        BY <1>1, <1>3, <2>1, <3>2, <4>1 DEF CInv, Control, ResumeOK
    <3> QED
      BY <3>1, <3>2
  <2>5. Exclusive'
    BY <1>1 DEF Exclusive, CInv, Control
  <2> QED
    BY <1>1, <2>2, <2>3, <2>4, <2>5 DEF Control
<1> QED
  BY <1>4, <1>6, <1>7 DEF CInv

-----------------------------------------------------------------------------
(* The steps of saga.effect. *)

Fresh(q) == [NoAppend EXCEPT !.todo = q]

LEMMA FreshIs ==
  ASSUME NEW q \in Seq(EventType)
  PROVE  /\ Fresh(q) \in AppendType /\ AppendWaits(Fresh(q))
         /\ Fresh(q).todo = q /\ Fresh(q).step = "idle"
         /\ Fresh(q).saga.next <= Given + 1
BY FreshAppend DEF Fresh

\* What is left of a call that is over is a call.
LEMMA LeavingIs ==
  ASSUME CInv, NEW c \in Call,
         NEW pc \in {"refused", "ended", "dead", "offpath"}
  PROVE  /\ Leaving(c, pc) \in CallType
         /\ Leaving(c, pc).pc = pc /\ Leaving(c, pc).eff = Eff(c)
         /\ Leaving(c, pc).thrown = call[c].thrown
         /\ Leaving(c, pc).again = call[c].again
<1>1. call[c] \in CallType
  BY Typed DEF CInv
<1>2. Absent \in Row
  BY DEF Absent, Row, Status
<1> QED
  BY <1>1, <1>2 DEF Leaving, NoCall, CallType, Eff, Status

\* A step makes r of the call and a of its append.
Becomes(c, r, a) ==
  /\ call' = [call EXCEPT ![c] = r] /\ r \in CallType
  /\ app' = [app EXCEPT ![c] = a] /\ a \in AppendType /\ AppendWaits(a)
  /\ a.saga.next <= Given + 1
  /\ CallOK(r, a, c \in landed')

Keeps(c, r) == r.eff = Eff(c)

LEMMA LeaveOK ==
  ASSUME CInv, NEW c \in Call, UNCHANGED landed,
         NEW pc \in {"refused", "ended", "offpath"}, Leave(c, pc),
         Appending(c, <<>>) \/ (UNCHANGED app /\ Done(c)),
         pc = "refused" => call[c].pc \in Unrun,
         pc = "offpath" => Recorded(c)
  PROVE  \E r, a : Becomes(c, r, a) /\ Keeps(c, r)
<1> DEFINE r == Leaving(c, pc)
<1>1. call[c] \in CallType /\ CallOK(call[c], app[c], c \in landed)
  BY Typed DEF CInv, Control
<1>2. /\ r \in CallType /\ r.pc = pc /\ r.eff = Eff(c) /\ r.again = call[c].again
      /\ call' = [call EXCEPT ![c] = r]
  BY LeavingIs DEF Leave
<1> HIDE DEF r
<1>3. PICK a : /\ app' = [app EXCEPT ![c] = a] /\ a \in AppendType
               /\ AppendWaits(a) /\ a.step = "idle" /\ a.todo = <<>>
               /\ a.saga.next <= Given + 1
  <2>1. CASE Appending(c, <<>>)
    <3>1. <<>> \in Seq(EventType)
      OBVIOUS
    <3> QED
      BY <2>1, <3>1, FreshIs DEF Appending, Fresh
  <2>2. CASE UNCHANGED app /\ Done(c)
    <3>1. app' = [app EXCEPT ![c] = app[c]] /\ app[c] \in AppendType
      BY <2>2, Typed DEF CInv, Task
    <3> QED
      BY <2>2, <3>1 DEF CInv, Control, SeqBound, Done, Task
  <2> QED
    BY <2>1, <2>2
<1>4. CallOK(r, a, c \in landed')
  BY <1>1, <1>2, <1>3 DEF CallOK, Appends, Records, Unrun, Recorded
<1> QED
  BY <1>2, <1>3, <1>4 DEF Becomes, Keeps

\* A call that goes on, with the record r, and appends q next.
LEMMA GoesOn ==
  ASSUME CInv, NEW c \in Call, NEW r \in CallType, call' = [call EXCEPT ![c] = r],
         NEW q \in Seq(EventType),
         \/ Appending(c, q)
         \/ UNCHANGED app /\ Done(c) /\ q = <<>>,
         CallOK(r, Fresh(q), c \in landed')
  PROVE  \E a : Becomes(c, r, a)
<1>1. CASE Appending(c, q)
  BY <1>1, FreshIs DEF Becomes, Appending, Fresh
<1>2. CASE UNCHANGED app /\ Done(c) /\ q = <<>>
  <2>1. app' = [app EXCEPT ![c] = app[c]] /\ app[c] \in AppendType
    BY <1>2, Typed DEF CInv, Task
  <2>2. app[c].step = "idle" /\ app[c].todo = <<>>
    BY <1>2 DEF Done
  <2>3. CallOK(r, app[c], c \in landed')
    BY <1>2, <2>2, FreshIs DEF CallOK
  <2> QED
    BY <2>1, <2>3 DEF CInv, Control, SeqBound, Task, Becomes
<1> QED
  BY <1>1, <1>2

\* The events closeEffect appends.
LEMMA CloseEventsAre ==
  ASSUME NEW e \in EffectId, NEW status \in {"landed", "failed", "in_doubt"}
  PROVE  /\ CloseEvents(e, status) \in Seq(EventType)
         /\ \A i \in DOMAIN CloseEvents(e, status) :
              LET ev == CloseEvents(e, status)[i]
              IN ev.eff = e /\ ev.kind \in {"in_doubt", "unavailable", Closed(status), "note"}
<1> DEFINE closed == Event(Closed(status), e)
           note == Event("note", e)
           doubt == Event("in_doubt", e)
           unav == Event("unavailable", e)
           Good(ev) == ev \in EventType /\ ev.eff = e
                         /\ ev.kind \in {"in_doubt", "unavailable", Closed(status), "note"}
           X == IF status = "in_doubt" THEN <<doubt>> ELSE <<>>
           Y == IF CompFor(e) = "unavailable" THEN <<unav>> ELSE <<>>
           Z == <<closed, note>>
<1>1. Good(closed) /\ Good(note) /\ Good(doubt) /\ Good(unav)
  BY DEF Event, EventType, Kind, Closed
<1>2. CloseEvents(e, status) = (X \o Y) \o Z
  BY DEF CloseEvents, SideEvents
<1> DEFINE T == {ev \in EventType : Good(ev)}
<1> HIDE DEF Good, closed, note, doubt, unav
<1>3. closed \in T /\ note \in T /\ doubt \in T /\ unav \in T
  BY <1>1 DEF Good
<1> HIDE DEF T
<1>4. X \in Seq(T) /\ Y \in Seq(T) /\ Z \in Seq(T)
  BY <1>3
<1> HIDE DEF X, Y, Z
<1>5. (X \o Y) \o Z \in Seq(T)
  BY <1>4
<1>6. \A ev \in T : ev \in EventType /\ ev.eff = e
        /\ ev.kind \in {"in_doubt", "unavailable", Closed(status), "note"}
  BY DEF T, Good
<1>7. /\ CloseEvents(e, status) \in Seq(T)
      /\ \A i \in DOMAIN CloseEvents(e, status) : CloseEvents(e, status)[i] \in T
  BY <1>2, <1>5
<1>8. CloseEvents(e, status) \in Seq(EventType)
  BY <1>6, <1>7
<1> QED
  BY <1>6, <1>7, <1>8

LEMMA EffectBecomes ==
  ASSUME CInv, NEW c \in Call, EffectStep(c)
  PROVE  \/ \E i \in Intent : Open(c, i)
            /\ \E r, a : Becomes(c, r, a) /\ r.eff = <<saga.next, i>> /\ Eff(c) = NoEffect
         \/ /\ \A i \in Intent : ~Open(c, i)
            /\ \E r, a : Becomes(c, r, a) /\ Keeps(c, r)
<1> DEFINE old == call[c]
<1>0. /\ call[c] \in CallType /\ CallOK(call[c], app[c], c \in landed) /\ c \in Task
      /\ app[c] \in AppendType /\ AppendWaits(app[c])
      /\ rows \in [EffectId -> Row] /\ Absent \in Row
      /\ call \in [Call -> CallType] /\ app \in [Task -> AppendType]
  BY Typed DEF CInv, Control, Task, Absent, Row, Status
<1>n. Note \in EventType /\ Note.kind = "note" /\ Note.eff = NoEffect
  BY DEF Note, Event, EventType, Kind
<1>e. <<>> \in Seq(EventType) /\ DOMAIN <<>> = {}
  OBVIOUS
<1>d. call[c].pc \notin Appends => Done(c)
  BY <1>0 DEF CallOK, Done
<1>1. ASSUME NEW i \in Intent, NEW pc \in {"bypass", "observe"}, OpenUnrecorded(c, i, pc)
      PROVE  \E r, a : Becomes(c, r, a) /\ Keeps(c, r)
  <2> DEFINE r == [old EXCEPT !.pc = pc,
                              !.intent = IF pc = "bypass" THEN NoEffect ELSE i]
             q == <<Note>>
  <2>1. call' = [call EXCEPT ![c] = r] /\ Appending(c, q) /\ UNCHANGED landed
    BY <1>1 DEF OpenUnrecorded
  <2>2. /\ r \in CallType /\ r.pc = pc /\ r.eff = old.eff /\ r.again = old.again
        /\ old.pc = "idle"
    BY <1>0, <1>1 DEF CallType, OpenUnrecorded, MayBegin, At
  <2>3. q \in Seq(EventType) /\ DOMAIN q = {1} /\ q[1] = Note
    BY <1>n
  <2> HIDE DEF r, q
  <2>4. CallOK(r, Fresh(q), c \in landed')
    BY <1>0, <1>n, <2>1, <2>2, <2>3, FreshIs DEF CallOK, EventOK, Appends, Records, Unrun,
       CloseKinds
  <2> QED
    BY <2>1, <2>2, <2>3, <2>4, GoesOn DEF Keeps, Eff
<1>2. ASSUME NEW i \in Intent, Link(c, i)
      PROVE  \E r, a : Becomes(c, r, a) /\ Keeps(c, r)
  <2> DEFINE r == [old EXCEPT !.pc = "run", !.intent = i]
  <2>1. call' = [call EXCEPT ![c] = r] /\ UNCHANGED app /\ UNCHANGED landed
    BY <1>2 DEF Link
  <2>2. /\ r \in CallType /\ r.pc = "run" /\ r.eff = old.eff /\ r.again = old.again
        /\ old.pc = "idle"
    BY <1>0, <1>2 DEF CallType, Link, MayBegin, At
  <2> HIDE DEF r
  <2>3. CallOK(r, Fresh(<<>>), c \in landed')
    BY <1>0, <1>e, <2>1, <2>2, FreshIs DEF CallOK, Appends, Records, Unrun
  <2>4. Done(c)
    BY <1>d, <2>2 DEF Appends
  <2> QED
    BY <1>e, <2>1, <2>2, <2>3, <2>4, GoesOn DEF Keeps, Eff
<1>3. ASSUME NEW i \in Intent, Open(c, i)
      PROVE  \E r, a : Becomes(c, r, a) /\ r.eff = <<saga.next, i>> /\ Eff(c) = NoEffect
  <2> DEFINE e == <<saga.next, i>>
             r == [old EXCEPT !.pc = "opening", !.intent = i, !.eff = e]
             q == <<Note, Event("opened", e)>>
  <2>1. call' = [call EXCEPT ![c] = r] /\ Appending(c, q) /\ UNCHANGED landed
        /\ old.pc = "idle"
    BY <1>3 DEF Open, MayBegin, At
  <2>2. ~Recorded(c) /\ Eff(c) = NoEffect
    BY <1>0, <2>1 DEF CallOK, Recorded, Eff
  <2>3. e \in EffectId
    <3>1. c \notin Opener /\ Opener \in SUBSET Call /\ IsFiniteSet(Call)
      BY <2>2, EffectLogAssumption DEF Opener
    <3>2. Given + 1 <= MaxSeq
      <4>1. Opener # Call
        BY <3>1
      <4> QED
        BY <3>1, <4>1, Bounds, FS_Subset, FS_CardinalityType DEF Given, MaxSeq
    <3> QED
      BY <3>2, Bounds, Typed DEF CInv, SeqBound, Saga, EffectId
  <2> HIDE DEF e
  <2>4. /\ r \in CallType /\ r.pc = "opening" /\ r.eff = e /\ r.intent = i
        /\ r.again = old.again
    BY <1>0, <2>3 DEF CallType
  <2>5. /\ Event("opened", e) \in EventType /\ Event("opened", e).kind = "opened"
        /\ Event("opened", e).eff = e /\ e # NoEffect
    BY <2>3, NoEffectAssumption DEF Event, EventType, Kind
  <2>6. /\ q \in Seq(EventType) /\ DOMAIN q = {1, 2}
        /\ q[1] = Note /\ q[2] = Event("opened", e)
    BY <1>n, <2>5
  <2> HIDE DEF r, q
  <2>7. \A j \in DOMAIN q : EventOK(r, q[j])
    BY <1>n, <2>4, <2>5, <2>6 DEF EventOK, CloseKinds
  <2>8. CallOK(r, Fresh(q), c \in landed')
    BY <1>0, <2>1, <2>4, <2>5, <2>6, <2>7, FreshIs DEF CallOK, Appends, Records, Unrun
  <2> QED
    BY <2>1, <2>2, <2>4, <2>6, <2>8, GoesOn DEF e
<1>4. ASSUME Unrecorded(c)
      PROVE  \E r, a : Becomes(c, r, a) /\ Keeps(c, r)
  <2>0. UNCHANGED landed /\ Appending(c, <<>>) /\ old.pc \in {"bypass", "observe"}
    BY <1>4 DEF Unrecorded, At
  <2>1. CASE Leave(c, "refused")
    BY <2>0, <2>1, LeaveOK DEF Unrun
  <2>2. CASE Goto(c, "run")
    <3> DEFINE r == [old EXCEPT !.pc = "run"]
    <3>1. call' = [call EXCEPT ![c] = r]
      BY <2>2 DEF Goto
    <3>2. r \in CallType /\ r.pc = "run" /\ r.eff = old.eff /\ r.again = old.again
      BY <1>0 DEF CallType
    <3> HIDE DEF r
    <3>3. CallOK(r, Fresh(<<>>), c \in landed')
      BY <1>0, <1>e, <2>0, <3>2, FreshIs DEF CallOK, Appends, Records, Unrun
    <3> QED
      BY <1>e, <2>0, <3>1, <3>2, <3>3, GoesOn DEF Keeps, Eff
  <2> QED
    BY <1>4, <2>1, <2>2 DEF Unrecorded
<1>5. ASSUME NotLogged(c)
      PROVE  \E r, a : Becomes(c, r, a) /\ Keeps(c, r)
  <2>0. UNCHANGED landed /\ old.pc = "opening"
    BY <1>5 DEF NotLogged, At
  <2>1. CASE Appending(c, <<>>) /\ Leave(c, "refused")
    BY <2>0, <2>1, LeaveOK DEF Unrun
  <2>2. CASE Appending(c, <<Event("in_doubt", Eff(c))>>) /\ Goto(c, "doubt")
    <3> DEFINE r == [old EXCEPT !.pc = "doubt"]
               ev == Event("in_doubt", Eff(c))
               q == <<ev>>
    <3>1. call' = [call EXCEPT ![c] = r]
      BY <2>2 DEF Goto
    <3>2. r \in CallType /\ r.pc = "doubt" /\ r.eff = old.eff /\ r.again = old.again
      BY <1>0 DEF CallType
    <3>3. ev \in EventType /\ ev.kind = "in_doubt" /\ ev.eff = old.eff
          /\ old.eff # NoEffect
      BY <1>0, <2>0 DEF Event, EventType, Kind, CallType, Eff, CallOK, Records
    <3>4. q \in Seq(EventType) /\ DOMAIN q = {1} /\ q[1] = ev
      BY <3>3
    <3> HIDE DEF r, ev, q
    <3>5. CallOK(r, Fresh(q), c \in landed')
      BY <1>0, <2>0, <3>2, <3>3, <3>4, FreshIs
         DEF CallOK, EventOK, Appends, Records, Unrun, CloseKinds
    <3>6. Appending(c, q)
      BY <2>2 DEF q, ev
    <3> QED
      BY <3>1, <3>2, <3>4, <3>5, <3>6, GoesOn DEF Keeps, Eff
  <2> QED
    BY <1>5, <2>1, <2>2 DEF NotLogged
<1>6. ASSUME Doubted(c)
      PROVE  \E r, a : Becomes(c, r, a) /\ Keeps(c, r)
  BY <1>6, LeaveOK DEF Doubted, At, Unrun
<1>7. ASSUME Enrich(c)
      PROVE  \E r, a : Becomes(c, r, a) /\ Keeps(c, r)
  <2> DEFINE r == [old EXCEPT !.row = rows[Eff(c)], !.pc = "enriched"]
  <2>1. call' = [call EXCEPT ![c] = r] /\ UNCHANGED <<app, landed>>
        /\ old.pc = "opening" /\ Done(c)
    BY <1>7 DEF Enrich, At
  <2>2. Eff(c) \in EffectId
    BY <1>0, <2>1 DEF CallOK, Records, CallType, Eff
  <2>3. /\ r \in CallType /\ r.pc = "enriched" /\ r.eff = old.eff /\ r.again = old.again
        /\ r.intent = old.intent
    BY <1>0, <2>2 DEF CallType
  <2> HIDE DEF r
  <2>4. CallOK(r, Fresh(<<>>), c \in landed')
    BY <1>0, <1>e, <2>1, <2>3, FreshIs DEF CallOK, Appends, Records, Unrun
  <2> QED
    BY <1>e, <2>1, <2>3, <2>4, GoesOn DEF Keeps, Eff
<1>8. ASSUME Enriched(c)
      PROVE  \E r, a : Becomes(c, r, a) /\ Keeps(c, r)
  <2>0. UNCHANGED <<app, landed>> /\ old.pc = "enriched" /\ Done(c)
    BY <1>8, <1>d DEF Enriched, At, Appends
  <2>1. CASE Leave(c, "refused")
    BY <2>0, <2>1, LeaveOK DEF Unrun
  <2>2. CASE Goto(c, "policy")
    <3> DEFINE r == [old EXCEPT !.pc = "policy"]
    <3>1. call' = [call EXCEPT ![c] = r]
      BY <2>2 DEF Goto
    <3>2. /\ r \in CallType /\ r.pc = "policy" /\ r.eff = old.eff
          /\ r.again = old.again /\ r.intent = old.intent
      BY <1>0 DEF CallType
    <3> HIDE DEF r
    <3>3. CallOK(r, Fresh(<<>>), c \in landed')
      BY <1>0, <1>e, <2>0, <3>2, FreshIs DEF CallOK, Appends, Records, Unrun
    <3> QED
      BY <1>e, <2>0, <3>1, <3>2, <3>3, GoesOn DEF Keeps, Eff
  <2> QED
    BY <1>8, <2>1, <2>2 DEF Enriched
<1>9. ASSUME Block(c)
      PROVE  \E r, a : Becomes(c, r, a) /\ Keeps(c, r)
  BY <1>9, <1>d, LeaveOK DEF Block, At, Unrun, Appends
<1>10. ASSUME NEW reclassified \in BOOLEAN, Admit(c, reclassified)
       PROVE  \E r, a : Becomes(c, r, a) /\ Keeps(c, r)
  <2> DEFINE r == [old EXCEPT !.pc = "run", !.row = Absent]
  <2>1. call' = [call EXCEPT ![c] = r] /\ UNCHANGED <<app, landed>>
        /\ old.pc = "policy" /\ Done(c)
    BY <1>10, <1>d DEF Admit, At, Appends
  <2>2. r \in CallType /\ r.pc = "run" /\ r.eff = old.eff /\ r.again = old.again
    BY <1>0 DEF CallType
  <2> HIDE DEF r
  <2>3. CallOK(r, Fresh(<<>>), c \in landed')
    BY <1>0, <1>e, <2>1, <2>2, FreshIs DEF CallOK, Appends, Records, Unrun
  <2> QED
    BY <1>e, <2>1, <2>2, <2>3, GoesOn DEF Keeps, Eff
<1>11. ASSUME NEW outcome \in {"ok", "refused", "lost"}, NEW lands \in BOOLEAN,
              NEW thrown \in BOOLEAN, Run(c, outcome, lands, thrown)
       PROVE  \E r, a : Becomes(c, r, a) /\ Keeps(c, r)
  <2> DEFINE r == [old EXCEPT !.pc = "close", !.thrown = thrown,
                              !.status = CloseStatus(outcome)]
  <2>1. call' = [call EXCEPT ![c] = r] /\ UNCHANGED app /\ old.pc = "run" /\ Done(c)
        /\ (c \in landed' => c \in landed \/ lands) /\ (outcome = "refused" => ~lands)
    BY <1>11, <1>d DEF Run, At, Appends
  <2>2. /\ CloseStatus(outcome) \in {"landed", "failed", "in_doubt"}
        /\ CloseStatus(outcome) = "failed" => outcome = "refused"
    BY DEF CloseStatus
  <2>3. /\ r \in CallType /\ r.pc = "close" /\ r.eff = old.eff /\ r.again = old.again
        /\ r.status = CloseStatus(outcome)
    BY <1>0, <2>2 DEF CallType, Status
  <2> HIDE DEF r
  <2>4. CallOK(r, Fresh(<<>>), c \in landed')
    BY <1>0, <1>e, <2>1, <2>2, <2>3, FreshIs DEF CallOK, Appends, Records, Unrun
  <2> QED
    BY <1>e, <2>1, <2>3, <2>4, GoesOn DEF Keeps, Eff
<1>12. ASSUME CloseUnrecorded(c)
       PROVE  \E r, a : Becomes(c, r, a) /\ Keeps(c, r)
  BY <1>12, <1>d, LeaveOK DEF CloseUnrecorded, At, Appends
<1>13. ASSUME Close(c)
       PROVE  \E r, a : Becomes(c, r, a) /\ Keeps(c, r)
  <2> DEFINE r == [old EXCEPT !.pc = "closing"]
             q == CloseEvents(Eff(c), old.status)
  <2>1. call' = [call EXCEPT ![c] = r] /\ Appending(c, q) /\ UNCHANGED landed
        /\ old.pc = "close" /\ old.eff # NoEffect
    BY <1>13 DEF Close, Goto, At, Recorded, Eff
  <2>2. /\ r \in CallType /\ r.pc = "closing" /\ r.eff = old.eff /\ r.again = old.again
        /\ r.status = old.status
    BY <1>0 DEF CallType
  <2>3. Eff(c) \in EffectId /\ old.status \in {"landed", "failed", "in_doubt"}
    BY <1>0, <2>1 DEF CallType, Eff, CallOK
  <2>4. /\ q \in Seq(EventType)
        /\ \A i \in DOMAIN q : q[i].eff = Eff(c)
             /\ q[i].kind \in {"in_doubt", "unavailable", Closed(old.status), "note"}
    BY <2>3, CloseEventsAre
  <2>5. Closed(old.status) \in CloseKinds
    BY DEF Closed, CloseKinds
  <2> HIDE DEF r, q
  <2>6. \A i \in DOMAIN q : EventOK(r, q[i])
    BY <2>1, <2>2, <2>4, <2>5 DEF EventOK, CloseKinds, Eff
  <2>7. CallOK(r, Fresh(q), c \in landed')
    BY <1>0, <2>1, <2>2, <2>3, <2>4, <2>6, FreshIs DEF CallOK, Appends, Records, Unrun
  <2> QED
    BY <2>1, <2>2, <2>4, <2>7, GoesOn DEF Keeps, Eff
<1>14. ASSUME Degrade(c) \/ RaiseTier(c)
       PROVE  \E r, a : Becomes(c, r, a) /\ Keeps(c, r)
  <2> DEFINE pc == IF old.pc = "closing" THEN "degrade" ELSE "reclassify"
             r == [old EXCEPT !.pc = pc]
             ev == Event("note", Eff(c))
             q == <<ev>>
  <2>1. call' = [call EXCEPT ![c] = r] /\ Appending(c, q) /\ UNCHANGED landed
        /\ old.pc \in {"closing", "raise"} /\ pc \in {"degrade", "reclassify"}
    BY <1>14 DEF Degrade, RaiseTier, Goto, At
  <2> HIDE DEF pc
  <2>2. r \in CallType /\ r.pc = pc /\ r.eff = old.eff /\ r.again = old.again
    BY <1>0, <2>1 DEF CallType
  <2>3. ev \in EventType /\ ev.kind = "note" /\ ev.eff = old.eff /\ old.eff # NoEffect
    BY <1>0, <2>1 DEF Event, EventType, Kind, CallType, Eff, CallOK, Records
  <2>4. q \in Seq(EventType) /\ DOMAIN q = {1} /\ q[1] = ev
    BY <2>3
  <2> HIDE DEF r, ev, q
  <2>5. CallOK(r, Fresh(q), c \in landed')
    BY <1>0, <2>1, <2>2, <2>3, <2>4, FreshIs
       DEF CallOK, EventOK, Appends, Records, Unrun, CloseKinds
  <2> QED
    BY <2>1, <2>2, <2>4, <2>5, GoesOn DEF Keeps, Eff
<1>15. ASSUME Degraded(c) \/ OffPath(c)
       PROVE  \E r, a : Becomes(c, r, a) /\ Keeps(c, r)
  <2> DEFINE pc == IF old.pc = "degrade" THEN "rewrite" ELSE "raise"
             r == [old EXCEPT !.pc = pc, !.row = rows[Eff(c)]]
  <2>1. call' = [call EXCEPT ![c] = r] /\ UNCHANGED landed
        /\ old.pc \in {"degrade", "offpath"} /\ pc \in {"rewrite", "raise"}
        /\ (Appending(c, <<>>) \/ (UNCHANGED app /\ Done(c)))
    BY <1>15, <1>d DEF Degraded, OffPath, At, Appends
  <2>2. Eff(c) \in EffectId
    BY <1>0, <2>1 DEF CallOK, Records, CallType, Eff
  <2> HIDE DEF pc
  <2>3. r \in CallType /\ r.pc = pc /\ r.eff = old.eff /\ r.again = old.again
    BY <1>0, <2>1, <2>2 DEF CallType
  <2> HIDE DEF r
  <2>4. CallOK(r, Fresh(<<>>), c \in landed')
    BY <1>0, <1>e, <2>1, <2>3, FreshIs DEF CallOK, Appends, Records, Unrun
  <2> QED
    BY <1>e, <2>1, <2>3, <2>4, GoesOn DEF Keeps, Eff
<1>16. ASSUME NEW status \in {"failed", "in_doubt"}, CloseThrows(c, status),
              UNCHANGED <<app, landed>>, Done(c), Recorded(c)
       PROVE  \E r, a : Becomes(c, r, a) /\ Keeps(c, r)
  <2>1. CASE Leave(c, "ended")
    BY <1>16, <2>1, LeaveOK
  <2>2. CASE call' = [call EXCEPT ![c].pc = "close", ![c].again = TRUE,
                                  ![c].status = status]
    <3> DEFINE r == [old EXCEPT !.pc = "close", !.again = TRUE, !.status = status]
    <3>1. call' = [call EXCEPT ![c] = r]
      BY <2>2
    <3>2. /\ r \in CallType /\ r.pc = "close" /\ r.eff = old.eff /\ r.again = TRUE
          /\ r.status = status
      BY <1>0 DEF CallType, Status
    <3> HIDE DEF r
    <3>3. CallOK(r, Fresh(<<>>), c \in landed')
      BY <1>0, <1>e, <1>16, <3>2, FreshIs DEF CallOK, Appends, Records, Unrun
    <3> QED
      BY <1>e, <1>16, <3>1, <3>2, <3>3, GoesOn DEF Keeps, Eff
  <2> QED
    BY <1>16, <2>1, <2>2 DEF CloseThrows
<1>17. ASSUME Rewrite(c)
       PROVE  \E r, a : Becomes(c, r, a) /\ Keeps(c, r)
  <2>1. UNCHANGED <<app, landed>> /\ Done(c) /\ Recorded(c)
    BY <1>0, <1>d, <1>17 DEF Rewrite, At, Appends, CallOK, Records, Recorded, Eff
  <2> QED
    BY <1>16, <1>17, <2>1, LeaveOK DEF Rewrite
<1>18. ASSUME Seal(c)
       PROVE  \E r, a : Becomes(c, r, a) /\ Keeps(c, r)
  <2>1. UNCHANGED <<app, landed>> /\ Done(c) /\ Recorded(c)
    BY <1>0, <1>18 DEF Seal, At, CallOK, Records, Recorded, Eff
  <2> QED
    BY <1>16, <1>18, <2>1, LeaveOK DEF Seal
<1>19. ASSUME Reclassified(c)
       PROVE  \E r, a : Becomes(c, r, a) /\ Keeps(c, r)
  BY <1>19, LeaveOK DEF Reclassified
<1>20. CASE \E i \in Intent : Open(c, i)
  BY <1>3, <1>20
<1>21. CASE \A i \in Intent : ~Open(c, i)
  BY <1>1, <1>2, <1>4, <1>5, <1>6, <1>7, <1>8, <1>9, <1>10, <1>11, <1>12, <1>13, <1>14,
     <1>15, <1>17, <1>18, <1>19, <1>21 DEF EffectStep
<1> QED
  BY <1>20, <1>21

\* What else a call may change: its row and its intent in flight, and the world.
LEMMA EffectWrites ==
  ASSUME CInv, NEW c \in Call, EffectStep(c)
  PROVE  /\ UNCHANGED <<log, fold, order, saga, resume, closer>>
         /\ rows' \in [EffectId -> Row]
         /\ \A e \in EffectId : e # Eff(c) => rows'[e] = rows[e]
         /\ inflight' \subseteq Intent /\ landed' \subseteq Call
         /\ \A d \in Call : d # c => (d \in landed' <=> d \in landed)
         /\ past' \in PastType /\ past'.crashes = past.crashes
         /\ past'.torn = past.torn /\ past'.stale = past.stale
         /\ past'.marked = past.marked /\ past'.replay = past.replay
         /\ past.crashes > 0 => resume.pc = "done"
<1>0. /\ call[c] \in CallType /\ CallOK(call[c], app[c], c \in landed) /\ c \in Task
      /\ rows \in [EffectId -> Row] /\ inflight \subseteq Intent /\ landed \subseteq Call
      /\ past \in PastType
  BY Typed DEF CInv, Control, Task
<1>1. UNCHANGED <<log, fold, order, saga, resume, closer>>
  BY DEF EffectStep, OpenUnrecorded, Link, Open, Unrecorded, NotLogged, Doubted, Enrich,
     Enriched, Block, Admit, Run, CloseUnrecorded, Close, Degrade, Degraded, Rewrite,
     Seal, OffPath, RaiseTier, Reclassified, tables
<1>2. rows' \in [EffectId -> Row] /\ \A e \in EffectId : e # Eff(c) => rows'[e] = rows[e]
  <2>1. CASE UNCHANGED rows
    BY <1>0, <2>1
  <2>2. CASE PutHeld(c)
    <3>1. call[c].row \in Row
      BY <1>0 DEF CallType
    <3> QED
      BY <1>0, <2>2, <3>1 DEF PutHeld
  <2>3. CASE SealRow(c)
    <3> DEFINE row == [status |-> call[c].status, sealed |-> TRUE,
                       comp |-> CompFor(Eff(c))]
    <3>1. row \in Row
      BY <1>0 DEF Row, CallType, CompFor
    <3>2. rows' = [rows EXCEPT ![Eff(c)] = row] \/ rows' = rows
      BY <2>3 DEF SealRow
    <3> HIDE DEF row
    <3> QED
      BY <1>0, <3>1, <3>2
  <2> QED
    BY <2>1, <2>2, <2>3 DEF EffectStep, OpenUnrecorded, Link, Open, Unrecorded,
       NotLogged, Doubted, Enrich, Enriched, Block, Admit, Run, CloseUnrecorded, Close,
       Degrade, Degraded, Rewrite, Seal, OffPath, RaiseTier, Reclassified, tables
<1>3. inflight' \subseteq Intent
  <2>1. CASE \E reclassified \in BOOLEAN : Admit(c, reclassified)
    BY <1>0, <2>1 DEF Admit, At, CallOK
  <2>2. CASE inflight' \subseteq inflight
    BY <1>0, <2>2
  <2> QED
    BY <2>1, <2>2 DEF EffectStep, OpenUnrecorded, Link, Open, Unrecorded,
       NotLogged, Doubted, Enrich, Enriched, Block, Run, CloseUnrecorded, Close,
       Degrade, Degraded, Rewrite, Seal, OffPath, RaiseTier, Reclassified
<1>4. landed' \subseteq Call /\ \A d \in Call : d # c => (d \in landed' <=> d \in landed)
  <2>1. CASE landed' = landed \/ landed' = landed \cup {c}
    BY <1>0, <2>1
  <2> QED
    BY <2>1 DEF EffectStep, OpenUnrecorded, Link, Open, Unrecorded,
       NotLogged, Doubted, Enrich, Enriched, Block, Admit, Run, CloseUnrecorded, Close,
       Degrade, Degraded, Rewrite, Seal, OffPath, RaiseTier, Reclassified
<1>5. /\ past' \in PastType /\ past'.crashes = past.crashes
      /\ past'.torn = past.torn /\ past'.stale = past.stale
      /\ past'.marked = past.marked /\ past'.replay = past.replay
  <2>1. CASE UNCHANGED past
    BY <1>0, <2>1
  <2>2. CASE Fault
    <3> DEFINE n == past.faults + 1
    <3>1. past' = [past EXCEPT !.faults = n]
      BY <1>0, <2>2 DEF Fault, PastType
    <3>2. n \in 0 .. MaxFault
      BY <1>0, <2>2, EffectLogAssumption DEF Fault, PastType
    <3> HIDE DEF n
    <3> QED
      BY <1>0, <3>1, <3>2 DEF PastType
  <2> QED
    BY <2>1, <2>2 DEF EffectStep, OpenUnrecorded, Link, Open, Unrecorded,
       NotLogged, Doubted, Enrich, Enriched, Block, Admit, Run, CloseUnrecorded, Close,
       Degrade, Degraded, Rewrite, Seal, OffPath, RaiseTier, Reclassified
<1>6. past.crashes > 0 => resume.pc = "done"
  <2>1. call[c].pc \in Rests => HasHandle
    BY DEF EffectStep, OpenUnrecorded, Link, Open, Unrecorded,
       NotLogged, Doubted, Enrich, Enriched, Block, Admit, Run, CloseUnrecorded, Close,
       Degrade, Degraded, Rewrite, Seal, OffPath, RaiseTier, Reclassified, At, MayBegin,
       Rests
  <2> QED
    BY <2>1 DEF HasHandle, CInv, Control, Exclusive
<1> QED
  BY <1>1, <1>2, <1>3, <1>4, <1>5, <1>6

LEMMA EffectControl ==
  ASSUME CInv, ChainInv', NEW c \in Call, EffectStep(c)
  PROVE  CInv'
<1>0. /\ c \in Task /\ call \in [Call -> CallType] /\ app \in [Task -> AppendType]
      /\ Resumer \notin Call
  BY Typed, EffectLogAssumption DEF CInv, Task
<1>1. PICK r, a : /\ Becomes(c, r, a)
                  /\ \/ \E i \in Intent : /\ r.eff = <<saga.next, i>> /\ Eff(c) = NoEffect
                     \/ Keeps(c, r)
  BY EffectBecomes
<1>2. /\ call' \in [Call -> CallType] /\ call'[c] = r
      /\ \A d \in Call : d # c => call'[d] = call[d]
      /\ app' \in [Task -> AppendType] /\ app'[c] = a
      /\ \A t \in Task : t # c => app'[t] = app[t]
  BY <1>0, <1>1 DEF Becomes
<1>3. TypeOK'
  <2>1. (log \in Seq([pos : Nat, prev : Nat]))'
    BY DEF ChainInv
  <2> QED
    BY <1>2, <2>1, EffectWrites, Typed DEF CInv, TypeOK, AppendType, EventType, CallType,
       ResumeType, PastType
<1>4. /\ Given' \in Nat /\ Given <= Given'
      /\ \A d \in Call : Recorded(d)' => Eff(d)'[1] <= Given'
  <2>1. CASE Keeps(c, r)
    <3>1. \A d \in Call : Eff(d)' = Eff(d)
      BY <1>2, <2>1 DEF Keeps, Eff
    <3>2. Opener' = Opener
      BY <3>1 DEF Opener, Recorded
    <3> QED
      BY <3>1, <3>2, Bounds DEF Given, Recorded, CInv, SeqBound
  <2>2. ASSUME NEW i \in Intent, r.eff = <<saga.next, i>>, Eff(c) = NoEffect
        PROVE  /\ Given' \in Nat /\ Given <= Given'
               /\ \A d \in Call : Recorded(d)' => Eff(d)'[1] <= Given'
    <3>1. \A d \in Call : d # c => Eff(d)' = Eff(d)
      BY <1>2 DEF Eff
    <3>2. Eff(c)' = <<saga.next, i>>
      BY <1>2, <2>2 DEF Eff
    <3>3. Eff(c)' # NoEffect
      <4>1. r \in CallType
        BY <1>1 DEF Becomes
      <4>2. CASE <<saga.next, i>> \in EffectId
        BY <3>2, <4>2, NoEffectAssumption
      <4>3. CASE <<saga.next, i>> = NoEffect
        <5>1. saga.next \in 1 .. MaxSeq + 1
          BY Typed DEF CInv, Saga
        <5>2. c \notin Opener /\ Opener \in SUBSET Call /\ IsFiniteSet(Call)
          BY <2>2, EffectLogAssumption DEF Opener, Recorded
        <5>3. Given + 1 <= MaxSeq
          <6>1. Opener # Call
            BY <5>2
          <6> QED
            BY <5>2, <6>1, Bounds, FS_Subset, FS_CardinalityType DEF Given, MaxSeq
        <5>4. <<saga.next, i>> \in EffectId
          BY <5>1, <5>3, Bounds DEF EffectId, CInv, SeqBound
        <5> QED
          BY <4>3, <5>4, NoEffectAssumption
      <4> QED
        BY <2>2, <4>1, <4>2, <4>3 DEF CallType
    <3>4. Opener' = Opener \cup {c} /\ c \notin Opener
      BY <2>2, <3>1, <3>3 DEF Opener, Recorded
    <3>5. Given' = Given + 1
      BY <3>4, Bounds, FS_AddElement DEF Given
    <3>6. saga.next <= Given + 1 /\ saga.next \in Nat /\ Given \in Nat
      BY Bounds, Typed DEF CInv, SeqBound, Saga
    <3>7. \A d \in Call : Recorded(d) => Eff(d)[1] <= Given /\ Eff(d)[1] \in Nat
      <4>1. \A d \in Call : Recorded(d) => Eff(d) \in EffectId
        BY <1>0 DEF Recorded, Eff, CallType
      <4> QED
        BY <4>1, Bounds DEF CInv, SeqBound
    <3>8. ASSUME NEW d \in Call, Recorded(d)' PROVE Eff(d)'[1] <= Given'
      <4>1. CASE d = c
        BY <3>2, <3>5, <3>6, <4>1
      <4>2. CASE d # c
        <5>1. Recorded(d) /\ Eff(d)' = Eff(d)
          BY <3>1, <3>8, <4>2 DEF Recorded
        <5> QED
          BY <3>5, <3>6, <3>7, <5>1
      <4> QED
        BY <4>1, <4>2
    <3> QED
      BY <3>5, <3>6, <3>8
  <2> QED
    BY <1>1, <2>1, <2>2
<1>5. SeqBound'
  <2>1. /\ saga \in Saga /\ closer.saga \in Saga /\ Given \in Nat
        /\ \A t \in Task : app[t].saga \in Saga
        /\ \A i \in DOMAIN order : order[i] \in EffectId
    BY <1>0, Typed, Bounds DEF CInv, AppendType
  <2>2. a.saga.next <= Given + 1 /\ a.saga \in Saga
    BY <1>1 DEF Becomes, AppendType
  <2>3. UNCHANGED <<saga, closer, order>>
    BY EffectWrites
  <2>4. /\ saga.next <= Given' + 1 /\ closer.saga.next <= Given' + 1
        /\ \A i \in DOMAIN order : order[i][1] <= Given'
    BY <1>4, <2>1, Bounds DEF CInv, SeqBound, Saga
  <2>5. \A t \in Task : app'[t].saga.next <= Given' + 1
    <3> TAKE t \in Task
    <3>1. CASE t = c
      BY <1>2, <1>4, <2>1, <2>2, <3>1 DEF Saga
    <3>2. CASE t # c
      BY <1>2, <1>4, <2>1, <3>2 DEF Saga, CInv, SeqBound
    <3> QED
      BY <3>1, <3>2
  <2> QED
    BY <1>4, <2>3, <2>4, <2>5 DEF SeqBound
<1>6. Control'
  <2>1. \A d \in Call : CallOK(call'[d], app'[d], d \in landed')
    <3> TAKE d \in Call
    <3>1. CASE d = c
      BY <1>1, <1>2, <3>1 DEF Becomes
    <3>2. CASE d # c
      <4>1. d \in landed' <=> d \in landed
        BY <3>2, EffectWrites
      <4>2. call'[d] = call[d] /\ app'[d] = app[d]
        BY <1>2, <3>2 DEF Task
      <4> QED
        BY <4>1, <4>2 DEF CInv, Control, CallOK
    <3> QED
      BY <3>1, <3>2
  <2>2. \A t \in Task : AppendWaits(app'[t])
    BY <1>1, <1>2 DEF Becomes, CInv, Control
  <2>3. ResumeOK(resume', app'[Resumer])
    BY <1>0, <1>2, EffectWrites DEF CInv, Control, Task
  <2>4. Exclusive'
    BY EffectWrites DEF Exclusive, CInv, Control
  <2> QED
    BY <2>1, <2>2, <2>3, <2>4 DEF Control
<1> QED
  BY <1>3, <1>5, <1>6 DEF CInv

-----------------------------------------------------------------------------
(* The steps of resumeSaga and of the rest of the world. *)

\* resumeSaga touches no call, and of the tables only rows.
LEMMA ResumeFrame ==
  ASSUME CInv, ResumeStep
  PROVE  UNCHANGED <<log, fold, order, saga, call, closer, landed>>
BY DEF ResumeStep, Resume, Boundary, List, MarkNext, Marked, tables

LEMMA ResumeFresh ==
  ASSUME NEW r, NEW q \in Seq(EventType),
         \/ q = <<>> /\ r.pc # "marking"
         \/ r.pc = "boundary" /\ q = <<Note>>
         \/ /\ r.pc = "marking" /\ r.left # {}
            /\ q = <<Event("in_doubt", Oldest(r.left))>>
  PROVE  ResumeOK(r, Fresh(q))
<1>1. Fresh(q).todo = q /\ Fresh(q).step = "idle"
  BY FreshIs
<1> HIDE DEF Fresh
<1>2. CASE q = <<>> /\ r.pc # "marking"
  <2>1. Fresh(q).todo = <<>> /\ Len(<<>>) = 0 /\ DOMAIN <<>> = {}
    BY <1>1, <1>2
  <2> QED
    BY <1>1, <1>2, <2>1 DEF ResumeOK
<1>3. ASSUME NEW ev, q = <<ev>>, r.pc \in {"boundary", "marking"}, r.pc = "marking" => r.left # {},
             ev = IF r.pc = "boundary" THEN Note ELSE Event("in_doubt", Oldest(r.left))
      PROVE  ResumeOK(r, Fresh(q))
  <2>1. Len(q) = 1 /\ DOMAIN q = {1} /\ q[1] = ev
    BY <1>3
  <2> QED
    BY <1>1, <1>3, <2>1 DEF ResumeOK
<1> QED
  BY <1>2, <1>3

LEMMA ResumeControl ==
  ASSUME CInv, ChainInv', ResumeStep
  PROVE  CInv'
<1>0. /\ resume \in ResumeType /\ past \in PastType /\ rows \in [EffectId -> Row]
      /\ inflight \subseteq Intent /\ app \in [Task -> AppendType]
      /\ Resumer \in Task /\ \A c \in Call : c \in Task /\ c # Resumer
      /\ ResumeOK(resume, app[Resumer]) /\ AppendWaits(app[Resumer])
  BY Typed, EffectLogAssumption DEF CInv, Control, Task
<1>1. UNCHANGED <<log, fold, order, saga, call, closer, landed>>
  BY ResumeFrame
<1>n. Note \in EventType /\ <<Note>> \in Seq(EventType) /\ Len(<<Note>>) = 1
      /\ DOMAIN <<Note>> = {1} /\ <<Note>>[1] = Note
      /\ <<>> \in Seq(EventType) /\ Len(<<>>) = 0 /\ DOMAIN <<>> = {}
  BY DEF Note, Event, EventType, Kind
<1>2. /\ resume' \in ResumeType /\ past' \in PastType /\ rows' \in [EffectId -> Row]
      /\ inflight' \subseteq Intent /\ past'.crashes = past.crashes
      /\ resume'.pc # "idle" => past.crashes > 0
      /\ resume'.pc # "done" => resume.pc # "done"
      /\ past.crashes > 0
  <2>1. CASE \E boundary \in BOOLEAN : Resume(boundary)
    BY <1>0, <2>1 DEF Resume, ResumeTo, ResumeType, tables
  <2>2. CASE Boundary
    BY <1>0, <2>2 DEF Boundary, ResumeTo, ResumeType, tables, CInv, Control, Exclusive
  <2>3. CASE List
    <3>1. {e \in EffectId : rows[e].status = "opened" /\ ~rows[e].sealed} \in SUBSET EffectId
          /\ {c \in Call : Over(c)} \in SUBSET Call
      OBVIOUS
    <3> QED
      BY <1>0, <2>3, <3>1 DEF List, ResumeType, tables, CInv, Control, Exclusive
  <2>4. CASE MarkNext
    <3>1. NoResume \in ResumeType
      <4>1. Absent \in Row
        BY DEF Absent, Row, Status
      <4> QED
        BY <4>1 DEF NoResume, ResumeType
    <3> QED
      BY <1>0, <2>4, <3>1 DEF MarkNext, ResumeTo, ResumeType, tables, CInv, Control, Exclusive
  <2>5. CASE Marked
    <3>1. MarkRow(Oldest(resume.left)) \in [EffectId -> Row]
      <4>1. resume.snap \in [EffectId -> Row]
        BY <1>0 DEF ResumeType
      <4>2. Oldest(resume.left) \in EffectId
        BY <1>0, <2>5, OldestIs DEF Marked, ResumeOK, ResumeType
      <4>3. [resume.snap[Oldest(resume.left)] EXCEPT !.status = "in_doubt"] \in Row
        BY <4>1, <4>2 DEF Row, Status
      <4> QED
        BY <1>0, <4>3 DEF MarkRow
    <3>2. resume' \in ResumeType
      <4>1. NoResume \in ResumeType
        <5>1. Absent \in Row
          BY DEF Absent, Row, Status
        <5> QED
          BY <5>1 DEF NoResume, ResumeType
      <4> QED
        <5>2. \/ resume' = NoResume
              \/ resume' = [resume EXCEPT !.pc = "next",
                              !.left = resume.left \ {Oldest(resume.left)}]
          BY <1>0, <2>5 DEF Marked, ResumeType
        <5> QED
          BY <1>0, <4>1, <5>2 DEF ResumeType
    <3>3. past' \in PastType /\ past'.crashes = past.crashes
      <4>1. CASE Fault
        <5> DEFINE n == past.faults + 1
        <5>1. past' = [past EXCEPT !.faults = n]
          BY <1>0, <4>1 DEF Fault, PastType
        <5>2. n \in 0 .. MaxFault
          BY <1>0, <4>1, EffectLogAssumption DEF Fault, PastType
        <5> HIDE DEF n
        <5> QED
          BY <1>0, <5>1, <5>2 DEF PastType
      <4>2. CASE past' = [past EXCEPT !.marked = @ \/ Threw(Resumer)]
        <5> DEFINE b == past.marked \/ Threw(Resumer)
        <5>1. b \in BOOLEAN /\ past' = [past EXCEPT !.marked = b]
          BY <1>0, <4>2 DEF PastType
        <5> HIDE DEF b
        <5> QED
          BY <1>0, <5>1 DEF PastType
      <4> QED
        BY <2>5, <4>1, <4>2 DEF Marked
    <3>4. rows' \in [EffectId -> Row] /\ inflight' \subseteq Intent
      BY <1>0, <2>5, <3>1 DEF Marked
    <3>5. resume.pc = "marking"
      BY <2>5 DEF Marked
    <3> QED
      BY <3>2, <3>3, <3>4, <3>5 DEF CInv, Control, Exclusive
  <2> QED
    BY <2>1, <2>2, <2>3, <2>4, <2>5 DEF ResumeStep
<1>3. PICK a \in AppendType :
        /\ app' = [app EXCEPT ![Resumer] = a] /\ AppendWaits(a)
        /\ a.saga.next <= Given + 1 /\ ResumeOK(resume', a)
  <2>0. /\ app = [app EXCEPT ![Resumer] = app[Resumer]]
        /\ app[Resumer] \in AppendType /\ app[Resumer].saga.next <= Given + 1
    BY <1>0 DEF CInv, SeqBound
  <2>1. CASE \E boundary \in BOOLEAN : Resume(boundary)
    <3>1. PICK boundary \in BOOLEAN : Resume(boundary)
      BY <2>1
    <3> DEFINE q == IF boundary THEN <<Note>> ELSE <<>>
    <3>2. q \in Seq(EventType) /\ Appending(Resumer, q)
      BY <1>n, <3>1 DEF Resume
    <3>3. /\ resume'.pc = IF boundary THEN "boundary" ELSE "list"
      BY <1>0, <3>1 DEF Resume, ResumeTo, ResumeType
    <3>4. ResumeOK(resume', Fresh(q))
      BY <1>n, <3>2, <3>3, ResumeFresh
    <3> HIDE DEF q
    <3> QED
      BY <3>2, <3>4, FreshIs DEF Appending, Fresh
  <2>2. CASE Boundary
    <3>1. Appending(Resumer, <<>>) /\ resume'.pc \in {"idle", "list"}
      BY <1>0, <2>2 DEF Boundary, ResumeTo, ResumeType
    <3>2. ResumeOK(resume', Fresh(<<>>))
      BY <1>n, <3>1, ResumeFresh
    <3> QED
      BY <1>n, <3>1, <3>2, FreshIs DEF Appending, Fresh
  <2>3. CASE List
    <3>1. UNCHANGED app /\ resume'.pc = "next" /\ resume.pc = "list"
      BY <2>3 DEF List
    <3>2. ResumeOK(resume', app[Resumer])
      BY <1>0, <1>n, <3>1 DEF ResumeOK
    <3> QED
      BY <1>0, <2>0, <3>1, <3>2
  <2>4. CASE MarkNext
    <3>1. CASE resume.left = {}
      <4>1. UNCHANGED app /\ resume'.pc = "done" /\ resume.pc = "next"
        BY <2>4, <3>1 DEF MarkNext, NoResume
      <4>2. ResumeOK(resume', app[Resumer])
        BY <1>0, <1>n, <4>1 DEF ResumeOK
      <4> QED
        BY <1>0, <2>0, <4>1, <4>2
    <3>2. CASE resume.left # {}
      <4> DEFINE e == Oldest(resume.left)
                 ev == Event("in_doubt", e)
                 q == <<ev>>
      <4>1. e \in EffectId
        BY <1>0, <3>2, OldestIs DEF ResumeType
      <4>2. ev \in EventType
        BY <4>1 DEF Event, EventType, Kind
      <4>3. /\ Appending(Resumer, q)
            /\ resume'.pc = "marking" /\ resume'.left = resume.left
        BY <1>0, <2>4, <3>2 DEF MarkNext, ResumeTo, ResumeType
      <4> HIDE DEF ev
      <4>4. q \in Seq(EventType) /\ Len(q) = 1 /\ DOMAIN q = {1} /\ q[1] = ev
        BY <4>2
      <4> HIDE DEF q
      <4>5. ResumeOK(resume', Fresh(q))
        BY <3>2, <4>3, <4>4, ResumeFresh DEF ev, q
      <4> QED
        BY <4>3, <4>4, <4>5, FreshIs DEF Appending, Fresh
    <3> QED
      BY <3>1, <3>2
  <2>5. CASE Marked
    <3>1. Appending(Resumer, <<>>) /\ resume'.pc \in {"next", "idle"}
      <4>1. \/ resume' = NoResume
            \/ \E l : resume' = [resume EXCEPT !.pc = "next", !.left = l]
        BY <1>0, <2>5 DEF Marked, ResumeType
      <4>2. NoResume.pc = "idle"
        BY DEF NoResume
      <4> QED
        BY <1>0, <2>5, <4>1, <4>2 DEF Marked, ResumeType
    <3>2. ResumeOK(resume', Fresh(<<>>))
      BY <1>n, <3>1, ResumeFresh
    <3> QED
      BY <1>n, <3>1, <3>2, FreshIs DEF Appending, Fresh
  <2> QED
    BY <2>1, <2>2, <2>3, <2>4, <2>5 DEF ResumeStep
<1>4. /\ app' \in [Task -> AppendType] /\ app'[Resumer] = a
      /\ \A t \in Task : t # Resumer => app'[t] = app[t]
  BY <1>0, <1>3
<1>5. TypeOK'
  <2>1. (log \in Seq([pos : Nat, prev : Nat]))'
    BY DEF ChainInv
  <2> QED
    BY <1>1, <1>2, <1>4, <2>1, Typed DEF CInv, TypeOK, AppendType, EventType, CallType,
       ResumeType, PastType
<1>6. Given' = Given
  BY <1>1 DEF Given, Opener, Recorded, Eff
<1>7. SeqBound'
  BY <1>1, <1>3, <1>4, <1>6 DEF SeqBound, CInv, Recorded, Eff
<1>8. Control'
  <2>1. \A c \in Call : CallOK(call'[c], app'[c], c \in landed')
    BY <1>0, <1>1, <1>4 DEF CInv, Control, CallOK
  <2>2. Exclusive'
    BY <1>1, <1>2 DEF CInv, Control, Exclusive
  <2> QED
    BY <1>3, <1>4, <2>1, <2>2 DEF CInv, Control
<1> QED
  BY <1>5, <1>7, <1>8 DEF CInv

\* The seq after the last one is at hand.
LEMMA NextIs ==
  ASSUME CInv
  PROVE  NextAfterAll \in 1 .. MaxSeq + 1 /\ NextAfterAll <= Given + 1
<1> DEFINE D == DOMAIN order
           T == {n \in Nat : \A i \in D : order[i][1] < n}
<1>1. /\ \A i \in D : order[i][1] \in Nat /\ order[i][1] >= 1 /\ order[i][1] <= Given
      /\ Given \in Nat /\ MaxSeq \in Nat /\ Given <= MaxSeq
  <2>1. \A i \in D : order[i] \in EffectId
    BY Typed DEF CInv
  <2> QED
    BY <2>1, Bounds DEF CInv, SeqBound
<1> DEFINE P(n) == /\ \A i \in D : order[i][1] < n
                   /\ n = 1 \/ \E i \in D : order[i][1] = n - 1
<1>2. ASSUME NEW n \in Nat, P(n) PROVE n <= Given + 1
  BY <1>1, <1>2
<1>3. \E n \in 1 .. MaxSeq + 1 : P(n)
  <2>1. CASE D = {}
    BY <1>1, <2>1
  <2>2. CASE D # {}
    <3>1. Given + 1 \in T /\ T \in SUBSET Nat
      BY <1>1
    <3> HIDE DEF T
    <3>2. PICK n \in T : \A m \in T : n <= m
      BY <3>1, Least
    <3>3. n \in Nat /\ \A i \in D : order[i][1] < n
      BY <3>2 DEF T
    <3>4. n >= 2
      BY <1>1, <2>2, <3>3
    <3>5. n - 1 \notin T /\ n - 1 \in Nat
      BY <3>1, <3>2, <3>3, <3>4
    <3>6. PICK i \in D : ~(order[i][1] < n - 1)
      BY <3>5 DEF T
    <3>7. order[i][1] = n - 1
      BY <1>1, <3>3, <3>6
    <3>8. n <= MaxSeq + 1
      BY <1>1, <3>3, <3>7
    <3> QED
      BY <1>1, <3>3, <3>4, <3>7, <3>8
  <2> QED
    BY <2>1, <2>2
<1>4. NextAfterAll = CHOOSE n \in 1 .. MaxSeq + 1 : P(n)
  BY DEF NextAfterAll
<1> HIDE DEF P
<1>5. NextAfterAll \in 1 .. MaxSeq + 1 /\ P(NextAfterAll)
  BY <1>3, <1>4
<1> QED
  BY <1>1, <1>2, <1>5

LEMMA WorldControl ==
  ASSUME CInv, ChainInv', ReadSaga \/ PutStatus \/ Crash \/ Replay
  PROVE  CInv'
<1>0. /\ past \in PastType /\ saga \in Saga /\ call \in [Call -> CallType]
      /\ app \in [Task -> AppendType] /\ resume \in ResumeType
      /\ rows \in [EffectId -> Row] /\ fold \in [EffectId -> Row]
      /\ closer \in [pc : {"idle", "write"}, saga : Saga]
      /\ order \in Seq(EffectId) /\ inflight \subseteq Intent /\ landed \subseteq Call
      /\ (log \in Seq([pos : Nat, prev : Nat]))'
      /\ \A c \in Call : c \in Task
  BY Typed DEF CInv, ChainInv, Task
<1>a. /\ NoAppend \in AppendType /\ NoAppend.step = "idle" /\ NoAppend.todo = <<>>
      /\ NoAppend.saga.next <= Given + 1 /\ AppendWaits(NoAppend)
      /\ Len(NoAppend.todo) = 0 /\ DOMAIN NoAppend.todo = {}
  <2>1. <<>> \in Seq(EventType) /\ Fresh(<<>>) = NoAppend /\ Len(<<>>) = 0
        /\ DOMAIN <<>> = {}
    BY DEF Fresh, NoAppend
  <2> QED
    BY <2>1, FreshIs
<1>b. NoResume \in ResumeType /\ NoResume.pc = "idle"
  <2>1. Absent \in Row
    BY DEF Absent, Row, Status
  <2> QED
    BY <2>1 DEF NoResume, ResumeType
<1>c. NoCloser \in [pc : {"idle", "write"}, saga : Saga] /\ NoCloser.saga.next <= Given + 1
  BY Bounds DEF NoCloser, Opening, Saga
<1>1. CASE ReadSaga
  <2>1. closer' = [pc |-> "write", saga |-> saga]
        /\ UNCHANGED <<tables, inflight, app, call, resume, landed, past>>
    BY <1>1 DEF ReadSaga
  <2>2. TypeOK'
    BY <1>0, <2>1, Typed DEF tables, TypeOK, AppendType, EventType, CallType, ResumeType,
       PastType
  <2>3. Control'
    BY <2>1 DEF CInv, Control, CallOK, Exclusive
  <2>4. SeqBound'
    BY <2>1 DEF CInv, SeqBound, tables, Given, Opener, Recorded, Eff
  <2> QED
    BY <2>2, <2>3, <2>4 DEF CInv
<1>2. CASE PutStatus
  <2>1. closer' = NoCloser /\ saga' = closer.saga
        /\ UNCHANGED <<log, fold, order, rows, inflight, app, call, resume, landed>>
    BY <1>2 DEF PutStatus
  <2>2. past' \in PastType /\ past'.crashes = past.crashes
    <3> DEFINE b == past.stale \/ saga.len # closer.saga.len
    <3>1. b \in BOOLEAN /\ past' = [past EXCEPT !.stale = b]
      BY <1>0, <1>2 DEF PutStatus, PastType
    <3> HIDE DEF b
    <3> QED
      BY <1>0, <3>1 DEF PastType
  <2>3. TypeOK'
    BY <1>0, <1>c, <2>1, <2>2, Typed DEF TypeOK, AppendType, EventType, CallType,
       ResumeType, PastType
  <2>4. Control'
    BY <2>1, <2>2 DEF CInv, Control, CallOK, Exclusive
  <2>5. SeqBound'
    BY <1>c, <2>1 DEF CInv, SeqBound, Given, Opener, Recorded, Eff
  <2> QED
    BY <2>3, <2>4, <2>5 DEF CInv
<1>3. CASE Crash
  <2>1. /\ app' = [t \in Task |-> NoAppend] /\ inflight' = {}
        /\ resume' = NoResume /\ closer' = NoCloser
        /\ UNCHANGED <<log, fold, order, rows, saga, landed>>
    BY <1>3 DEF Crash, tables
  <2>2. past' \in PastType /\ past'.crashes = past.crashes + 1
    <3> DEFINE b == past.torn \/ \E t \in Task : Torn(t)
               n == past.crashes + 1
    <3>1. b \in BOOLEAN /\ past' = [past EXCEPT !.crashes = n, !.torn = b]
      BY <1>0, <1>3 DEF Crash, PastType
    <3>2. n \in 0 .. MaxCrash
      BY <1>0, <1>3, EffectLogAssumption DEF Crash, PastType
    <3> HIDE DEF b, n
    <3>3. past' \in PastType /\ past'.crashes = n
      BY <1>0, <3>1, <3>2 DEF PastType
    <3> QED
      BY <3>3 DEF n
  <2>3. \A c \in Call :
          /\ call'[c] \in CallType /\ Eff(c)' = Eff(c)
          /\ \/ call'[c] = call[c] /\ call[c].pc \in Rests
             \/ call'[c].pc = "dead"
    <3> TAKE c \in Call
    <3>1. CASE call[c].pc \in {"idle", "refused", "ended"}
      BY <1>0, <1>3, <3>1 DEF Crash, Eff, Rests
    <3>2. CASE call[c].pc \notin {"idle", "refused", "ended"}
      <4>1. call'[c] = Leaving(c, "dead")
        BY <1>3, <3>2 DEF Crash
      <4> QED
        BY <4>1, LeavingIs DEF Eff
    <3> QED
      BY <3>1, <3>2
  <2>4. call' \in [Call -> CallType]
    BY <1>3, <2>3 DEF Crash
  <2>5. TypeOK'
    BY <1>0, <1>a, <1>b, <1>c, <2>1, <2>2, <2>4, Typed DEF TypeOK, AppendType, EventType,
       CallType, ResumeType, PastType
  <2>6. Given' = Given
    <3>1. Opener' = Opener
      BY <2>3 DEF Opener, Recorded
    <3> QED
      BY <3>1 DEF Given
  <2>7. SeqBound'
    BY <1>a, <1>c, <2>1, <2>3, <2>6 DEF CInv, SeqBound, Recorded
  <2>8. Control'
    <3>1. \A c \in Call : CallOK(call'[c], app'[c], c \in landed')
      <4> TAKE c \in Call
      <4>1. app'[c] = NoAppend /\ landed' = landed
        BY <1>0, <2>1
      <4>2. CASE call'[c] = call[c] /\ call[c].pc \in Rests
        BY <1>a, <4>1, <4>2 DEF CInv, Control, CallOK, Rests, Appends
      <4>3. CASE call'[c].pc = "dead"
        BY <1>a, <4>1, <4>3 DEF CallOK, Appends, Unrun, Records
      <4> QED
        BY <2>3, <4>2, <4>3
    <3>2. \A t \in Task : AppendWaits(app'[t])
      BY <1>a, <2>1
    <3>3. ResumeOK(resume', app'[Resumer])
      BY <1>a, <1>b, <2>1 DEF ResumeOK, Task
    <3>4. Exclusive'
      BY <1>b, <2>1, <2>3 DEF Exclusive, Rests
    <3> QED
      BY <3>1, <3>2, <3>3, <3>4 DEF Control
  <2> QED
    BY <2>5, <2>7, <2>8 DEF CInv
<1>4. CASE Replay
  <2>1. UNCHANGED <<log, fold, order, inflight, app, call, closer, landed>>
    BY <1>4 DEF Replay
  <2>2. past' \in PastType /\ past'.crashes = past.crashes
    <3> DEFINE n == past.replays + 1
               x == IF Clash THEN "failed" ELSE "ok"
    <3>1. past' = [past EXCEPT !.replays = n, !.torn = FALSE, !.stale = FALSE,
                               !.marked = FALSE, !.replay = x]
      BY <1>0, <1>4 DEF Replay, PastType
    <3>2. n \in 0 .. MaxReplay /\ x \in {"ok", "failed"}
      BY <1>0, <1>4, EffectLogAssumption DEF Replay, PastType
    <3> HIDE DEF n, x
    <3> QED
      BY <1>0, <3>1, <3>2 DEF PastType
  <2>3. rows' \in [EffectId -> Row]
    <3>1. Absent \in Row
      BY DEF Absent, Row, Status
    <3> QED
      BY <1>0, <1>4, <3>1 DEF Replay
  <2>4. saga' \in Saga /\ saga'.next <= Given + 1
    <3>1. saga' = [len |-> Len(log), head |-> Len(log), next |-> NextAfterAll]
      BY <1>4 DEF Replay
    <3>2. Len(log) \in Nat
      BY <2>1 DEF ChainInv
    <3> QED
      BY <3>1, <3>2, NextIs DEF Saga
  <2>5. /\ resume' \in ResumeType /\ resume'.pc = resume.pc /\ resume'.left = resume.left
    BY <1>0, <1>4 DEF Replay, ResumeType
  <2>6. TypeOK'
    BY <1>0, <2>1, <2>2, <2>3, <2>4, <2>5, Typed DEF TypeOK, AppendType, EventType,
       CallType, ResumeType, PastType
  <2>7. SeqBound'
    BY <2>1, <2>4 DEF CInv, SeqBound, Given, Opener, Recorded, Eff
  <2>8. Control'
    BY <2>1, <2>2, <2>5 DEF CInv, Control, CallOK, ResumeOK, Exclusive
  <2> QED
    BY <2>6, <2>7, <2>8 DEF CInv
<1> QED
  BY <1>1, <1>2, <1>3, <1>4

LEMMA ControlStep ==
  ASSUME CInv, ChainInv', [Next]_vars
  PROVE  CInv'
<1>1. CASE Next
  BY <1>1, AppendControl, EffectControl, ResumeControl, WorldControl DEF Next
<1>2. CASE UNCHANGED vars
  <2>1. TypeOK'
    BY <1>2, Typed DEF CInv, vars, TypeOK, AppendType, EventType, CallType, ResumeType,
       PastType
  <2>2. Control' /\ SeqBound'
    BY <1>2 DEF CInv, vars, Control, CallOK, Exclusive, SeqBound, Given, Opener,
       Recorded, Eff
  <2> QED
    BY <2>1, <2>2 DEF CInv
<1> QED
  BY <1>1, <1>2

LEMMA ControlHolds == Spec => []CInv
<1>1. Init => CInv
  BY ControlInit
<1>2. CInv /\ ChainInv' /\ [Next]_vars => CInv'
  BY ControlStep
<1> QED
  BY <1>1, <1>2, ChainInductive, PTL DEF Spec

\* Everything stays in its place, and saga.effect never runs out of seqs: every
\* seq that is given out, stored or held has a call of its own.
THEOREM EffectTypeCorrect == Spec => []TypeOK
<1>1. CInv => TypeOK
  BY DEF CInv
<1> QED
  BY <1>1, ControlHolds, PTL

-----------------------------------------------------------------------------
(* The row of the saga, while nothing is torn and nothing stale is written. *)

\* It is at the end of the log, or one append has put an event on the log and has
\* yet to put the row; whoever is about to insert holds a row that is no newer.
HeadInv ==
  ~past.torn /\ ~past.stale =>
    /\ \A t \in Task : app[t].step = "insert" => app[t].saga.len <= saga.len
    /\ \/ saga.len = Len(log) /\ \A t \in Task : app[t].step # "saga"
       \/ \E t \in Task :
            /\ app[t].step = "saga" /\ app[t].saga.len = saga.len
            /\ saga.len = Len(log) - 1
            /\ \A u \in Task \ {t} : app[u].step # "saga"

\* An event goes where the head is.
LEMMA InsertAtEnd ==
  ASSUME ChainInv, NEW t \in Task, Insert(t)
  PROVE  /\ app[t].saga.len = Len(log) /\ app[t].saga.head = Len(log)
         /\ Len(log') = Len(log) + 1
<1> DEFINE n == Len(log)
           s == app[t].saga
<1>1. n \in Nat /\ n >= 1 /\ DOMAIN log = 1 .. n
  BY DEF ChainInv
<1>2. Behind(s, n)
  BY DEF ChainInv, AppendOK
<1>3. \A i \in 1 .. n : log[i].pos = i
  BY <1>1 DEF ChainInv, ChainIntact
<1>4. s.len + 1 \notin 1 .. n
  BY <1>1, <1>3 DEF Insert, Taken
<1>5. s.len = n /\ s.head = n
  BY <1>1, <1>2, <1>4 DEF Behind
<1>6. Len(log') = Len(log) + 1
  BY DEF Insert, ChainInv
<1> QED
  BY <1>5, <1>6

\* A caller of appendChained calls it again only when it has come to an end.
LEMMA CallerSettled ==
  ASSUME CInv, NEW t \in Task,
         (t \in Call /\ EffectStep(t)) \/ (t = Resumer /\ ResumeStep)
  PROVE  UNCHANGED app \/ (Settled(t) /\ \E q : Appending(t, q))
<1>1. CASE t \in Call /\ EffectStep(t)
  <2>1. call[t].pc \notin Appends => Settled(t)
    BY <1>1 DEF CInv, Control, CallOK, Settled, Done
  <2>2. CASE \E i \in Intent :
               \/ \E pc \in {"bypass", "observe"} : OpenUnrecorded(t, i, pc)
               \/ Link(t, i)
               \/ Open(t, i)
    BY <2>1, <2>2 DEF OpenUnrecorded, Link, Open, MayBegin, At, Appends
  <2>3. CASE Unrecorded(t) \/ NotLogged(t) \/ Doubted(t) \/ Close(t) \/ Degrade(t)
             \/ Degraded(t) \/ RaiseTier(t) \/ Reclassified(t)
    BY <2>1, <2>3 DEF Unrecorded, NotLogged, Doubted, Close, Degrade, Degraded, RaiseTier,
       Reclassified, Settled, At, Appends
  <2>4. CASE \/ Enrich(t) \/ Enriched(t) \/ Block(t)
             \/ \E reclassified \in BOOLEAN : Admit(t, reclassified)
             \/ \E outcome \in {"ok", "refused", "lost"}, lands, thrown \in BOOLEAN :
                  Run(t, outcome, lands, thrown)
             \/ CloseUnrecorded(t) \/ Rewrite(t) \/ Seal(t) \/ OffPath(t)
    BY <2>4 DEF Enrich, Enriched, Block, Admit, Run, CloseUnrecorded, Rewrite, Seal,
       OffPath
  <2> QED
    BY <1>1, <2>2, <2>3, <2>4 DEF EffectStep
<1>2. CASE t = Resumer /\ ResumeStep
  <2>1. resume.pc \notin {"boundary", "marking"} => Settled(t)
    BY <1>2 DEF CInv, Control, ResumeOK, Settled, Done
  <2> QED
    BY <1>2, <2>1 DEF ResumeStep, Resume, Boundary, List, MarkNext, Marked
<1> QED
  BY <1>1, <1>2

\* With nothing at work nothing is being appended.
LEMMA QuietIsDone ==
  ASSUME CInv, Quiet
  PROVE  \A t \in Task : Done(t)
<1>1. \A c \in Call : Done(c)
  BY DEF CInv, Control, CallOK, Quiet, Appends, Done
<1>2. Done(Resumer)
  BY DEF CInv, Control, ResumeOK, Quiet, Done
<1> QED
  BY <1>1, <1>2 DEF Task

LEMMA HeadFrame ==
  ASSUME HeadInv, CInv, UNCHANGED <<log, saga>>,
         past'.torn = past.torn, past'.stale = past.stale,
         \/ UNCHANGED app
         \/ \E t \in Task : Settled(t) /\ \E q : Appending(t, q)
  PROVE  HeadInv'
<1>1. CASE UNCHANGED app
  BY <1>1 DEF HeadInv
<1>2. ASSUME NEW t \in Task, Settled(t), NEW q, Appending(t, q)
      PROVE  HeadInv'
  <2>1. app \in [Task -> AppendType]
    BY Typed DEF CInv
  <2>2. /\ app'[t].step = "idle" /\ app[t].step \in {"idle", "failed"}
        /\ \A u \in Task : u # t => app'[u] = app[u]
    BY <1>2, <2>1 DEF Appending, NoAppend, Settled, Done, Threw
  <2>3. \A u \in Task : app'[u].step = "insert" => app[u].step = "insert" /\ app'[u] = app[u]
    BY <2>2
  <2>4. \A u \in Task : /\ app'[u].step = "saga" <=> app[u].step = "saga"
                        /\ app[u].step = "saga" => app'[u] = app[u]
    BY <2>2
  <2> QED
    BY <2>3, <2>4 DEF HeadInv
<1> QED
  BY <1>1, <1>2

LEMMA HeadAppend ==
  ASSUME HeadInv, CInv, ChainInv, NEW t \in Task, AppendStep(t)
  PROVE  HeadInv'
<1> SUFFICES ASSUME ~past'.torn, ~past'.stale
             PROVE  HeadInv'
  BY DEF HeadInv
<1>0. /\ app \in [Task -> AppendType] /\ Len(log) \in Nat /\ saga.len \in Nat
      /\ past \in PastType
  BY Typed DEF CInv, Saga
<1>1. ~past.torn /\ ~past.stale
  BY <1>0 DEF AppendStep, ReadHead, Insert, Collide, PutSaga, PutRow, SeqCollides,
     AppendFails, PastType
<1>2. PICK a \in AppendType : app' = [app EXCEPT ![t] = a]
  BY AppendMoves DEF Leaves
<1>3. /\ app'[t] = a /\ \A u \in Task : u # t => app'[u] = app[u]
      /\ a.saga \in Saga /\ app[t].saga \in Saga
  BY <1>0, <1>2 DEF AppendType
<1>4. CASE ReadHead(t)
  <2>1. a.step = "insert" /\ a.saga = saga /\ app[t].step = "idle"
    BY <1>0, <1>3, <1>4 DEF ReadHead, AppendType
  <2>2. UNCHANGED <<log, saga>>
    BY <1>4 DEF ReadHead, tables
  <2> QED
    BY <1>0, <1>1, <1>3, <2>1, <2>2 DEF HeadInv
<1>5. CASE Insert(t)
  <2>1. a.step = "saga" /\ a.saga = saga /\ app[t].step = "insert" /\ UNCHANGED saga
    BY <1>0, <1>3, <1>5 DEF Insert, AppendType
  <2>2. app[t].saga.len = Len(log) /\ Len(log') = Len(log) + 1
    BY <1>5, InsertAtEnd
  <2>3. saga.len = Len(log) /\ \A u \in Task : app[u].step # "saga"
    BY <1>0, <1>1, <2>1, <2>2 DEF HeadInv
  <2>4. \A u \in Task : app[u].step = "insert" => app[u].saga.len <= saga.len
    BY <1>1 DEF HeadInv
  <2>5. \A u \in Task : u # t => app'[u].step # "saga"
    BY <1>3, <2>3
  <2>6. saga'.len = Len(log') - 1
    BY <1>0, <2>1, <2>2, <2>3
  <2> QED
    BY <1>3, <2>1, <2>4, <2>5, <2>6 DEF HeadInv
<1>6. CASE PutSaga(t)
  <2>1. a.step \in {"row", "idle"} /\ app[t].step = "saga" /\ UNCHANGED log
    BY <1>0, <1>3, <1>6 DEF PutSaga, Appended, AppendType, NoAppend
  <2>2. /\ app[t].saga.len = saga.len /\ saga.len = Len(log) - 1
        /\ \A u \in Task : u # t => app[u].step # "saga"
    BY <1>1, <2>1 DEF HeadInv
  <2>3. saga'.len = app[t].saga.len + 1
    BY <1>3, <1>6 DEF PutSaga, Extended, Saga
  <2>4. \A u \in Task : app[u].step = "insert" => app[u].saga.len <= saga.len
    BY <1>1 DEF HeadInv
  <2>5. \A u \in Task : app'[u].step = "insert" => app'[u].saga.len <= saga'.len
    <3> SUFFICES ASSUME NEW u \in Task, app'[u].step = "insert"
                 PROVE  app'[u].saga.len <= saga'.len
      OBVIOUS
    <3>1. u # t /\ app'[u] = app[u] /\ app[u].saga.len \in Nat
      BY <1>0, <1>3, <2>1 DEF AppendType, Saga
    <3> QED
      BY <1>0, <2>2, <2>3, <2>4, <3>1
  <2>6. saga'.len = Len(log') /\ \A u \in Task : app'[u].step # "saga"
    BY <1>0, <1>3, <2>1, <2>2, <2>3
  <2> QED
    BY <2>5, <2>6 DEF HeadInv
<1>7. CASE Collide(t) \/ PutRow(t) \/ SeqCollides(t) \/ AppendFails(t)
  <2>1. UNCHANGED <<log, saga>>
    BY <1>7 DEF Collide, PutRow, SeqCollides, AppendFails, tables
  <2>2. a.step \in {"idle", "failed"} /\ app[t].step # "saga"
    <3>1. a.step \in {"idle", "failed"}
      BY <1>0, <1>3, <1>7 DEF Collide, PutRow, SeqCollides, AppendFails, Appended, NoAppend,
         Failed
    <3>2. app[t].step # "saga"
      <4>1. CASE AppendFails(t)
        <5>1. past'.torn <=> past.torn \/ Torn(t)
          BY <1>0, <4>1 DEF AppendFails, PastType
        <5> QED
          BY <5>1 DEF Torn
      <4> QED
        BY <1>7, <4>1 DEF Collide, PutRow, SeqCollides
    <3> QED
      BY <3>1, <3>2
  <2>3. \A u \in Task : app'[u].step = "insert" => app[u].step = "insert" /\ app'[u] = app[u]
    BY <1>3, <2>2
  <2>4. \A u \in Task : /\ app'[u].step = "saga" <=> app[u].step = "saga"
                        /\ app[u].step = "saga" => app'[u] = app[u]
    BY <1>3, <2>2
  <2> QED
    BY <1>1, <2>1, <2>3, <2>4 DEF HeadInv
<1> QED
  BY <1>4, <1>5, <1>6, <1>7 DEF AppendStep

LEMMA HeadWorld ==
  ASSUME HeadInv, CInv, ChainInv, ReadSaga \/ PutStatus \/ Crash \/ Replay
  PROVE  HeadInv'
<1>0. past \in PastType /\ app \in [Task -> AppendType]
  BY Typed DEF CInv
<1>1. CASE ReadSaga
  BY <1>1, HeadFrame DEF ReadSaga, tables
<1>2. CASE PutStatus
  <2>1. ~past'.stale => ~past.stale /\ saga'.len = saga.len
    BY <1>0, <1>2 DEF PutStatus, PastType
  <2>2. UNCHANGED <<log, app>> /\ past'.torn = past.torn
    BY <1>0, <1>2 DEF PutStatus, PastType
  <2> QED
    BY <2>1, <2>2 DEF HeadInv
<1>3. CASE Crash
  <2>1. /\ ~past'.torn => ~past.torn /\ \A t \in Task : ~Torn(t)
        /\ past'.stale = past.stale
    BY <1>0, <1>3 DEF Crash, PastType
  <2>2. UNCHANGED <<log, saga>> /\ app' = [t \in Task |-> NoAppend]
    BY <1>3 DEF Crash, tables
  <2>3. \A t \in Task : app'[t].step = "idle"
    BY <2>2 DEF NoAppend
  <2> QED
    BY <2>1, <2>2, <2>3 DEF HeadInv, Torn
<1>4. CASE Replay
  <2>1. \A t \in Task : app'[t].step = "idle"
    BY <1>4, QuietIsDone DEF Replay, Done
  <2>2. saga'.len = Len(log')
    BY <1>4 DEF Replay
  <2> QED
    BY <2>1, <2>2 DEF HeadInv
<1> QED
  BY <1>1, <1>2, <1>3, <1>4

LEMMA HeadStep ==
  ASSUME HeadInv, CInv, ChainInv, [Next]_vars
  PROVE  HeadInv'
<1>0. past \in PastType /\ Resumer \in Task /\ \A c \in Call : c \in Task
  BY Typed DEF CInv, Task
<1>1. CASE \E t \in Task : AppendStep(t)
  BY <1>1, HeadAppend
<1>2. ASSUME NEW c \in Call, EffectStep(c)
      PROVE  HeadInv'
  BY <1>0, <1>2, CallerSettled, EffectWrites, HeadFrame
<1>3. CASE ResumeStep
  <2>1. past'.torn = past.torn /\ past'.stale = past.stale
    BY <1>0, <1>3 DEF ResumeStep, Resume, Boundary, List, MarkNext, Marked, Fault, PastType
  <2> QED
    BY <1>0, <1>3, <2>1, CallerSettled, ResumeFrame, HeadFrame
<1>4. CASE ReadSaga \/ PutStatus \/ Crash \/ Replay
  BY <1>4, HeadWorld
<1>5. CASE UNCHANGED vars
  BY <1>5, HeadFrame DEF vars
<1> QED
  BY <1>1, <1>2, <1>3, <1>4, <1>5 DEF Next

\* The next append of a saga that is at rest finds its place, unless an append
\* was cut off or a stale row was written since the last replay: upsertSaga
\* always follows its insertEvent, and no append overtakes another between.
THEOREM HeadIsAtTheEnd == Spec => []HeadFollowsLog
<1>1. Init => HeadInv
  BY DEF Init, HeadInv, Opening, NoAppend
<1>2. HeadInv /\ CInv /\ ChainInv /\ [Next]_vars => HeadInv'
  BY HeadStep
<1>3. HeadInv /\ CInv /\ ChainInv => HeadFollowsLog
  <2> SUFFICES ASSUME HeadInv, CInv, ChainInv, Resting, ~past.torn, ~past.stale
               PROVE  saga.len = Len(log) /\ saga.head = Len(log)
    BY DEF HeadFollowsLog
  <2>1. \A t \in Task : app[t].step # "saga"
    BY DEF Resting, Settled, Done, Threw
  <2>2. saga.len = Len(log)
    BY <2>1 DEF HeadInv
  <2> QED
    BY <2>2 DEF ChainInv, Behind
<1> QED
  BY <1>1, <1>2, <1>3, ChainInductive, ControlHolds, PTL DEF Spec
=============================================================================
