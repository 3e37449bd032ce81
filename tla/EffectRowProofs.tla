--------------------------- MODULE EffectRowProofs ---------------------------
(***************************************************************************)
(* The rows of the effects, for any number of calls, crashes, faults and   *)
(* replays: a run that took effect keeps a row that says so, a resume      *)
(* makes it visible to undo, and the rows are what the log makes of them.  *)
(*                                                                         *)
(*   TableInv   which effects are on the log, in the rows and in hand      *)
(*   AloneInv   the row and the events of an effect with one call          *)
(*   ResumeInv  what resumeSaga has seen and marked                        *)
(***************************************************************************)
EXTENDS EffectLogProofs

Holds == {"enriched", "policy", "rewrite", "raise"}

OnLog(e) == Exists(fold[e])

\* An append of t has put an event of e on the log and is not done with its row.
Mid(t, e) == Torn(t) /\ Ev(t).eff = e

\* Two effects on the log with one seq.
Crowded == \E i, j \in DOMAIN order : i # j /\ order[i][1] = order[j][1]

LogOK(e) ==
  /\ OnLog(e) => \E c \in Call : Eff(c) = e
  /\ OnLog(e) <=> \E i \in DOMAIN order : order[i] = e
  /\ ~OnLog(e) => fold[e] = Absent

RowOK(e) ==
  /\ Exists(rows[e]) => OnLog(e)
  /\ ~Exists(rows[e]) => rows[e] = Absent
  /\ \A f \in EffectId : Exists(rows[e]) /\ Exists(rows[f]) /\ e[1] = f[1] => e = f

MidOK(t) ==
  Torn(t) =>
    /\ Ev(t).eff = NoEffect => app[t].row = Absent
    /\ Ev(t).eff # NoEffect /\ Exists(app[t].row) => Exists(rows[Ev(t).eff])
    /\ Ev(t).kind = "opened" => OnLog(Ev(t).eff)
    /\ app[t].step = "row" => Exists(Apply(app[t].row, Ev(t).kind))

HeldOK(c) == call[c].pc \in Holds /\ Exists(call[c].row) => Exists(rows[Eff(c)])

LeftOK ==
  /\ resume.pc \notin {"next", "marking"} => resume.left = {}
  /\ \A e \in resume.left : Exists(rows[e])

TableInv ==
  /\ \A e \in EffectId : LogOK(e) /\ RowOK(e)
  /\ \A t \in Task : MidOK(t)
  /\ \A c \in Call : HeldOK(c)
  /\ LeftOK

-----------------------------------------------------------------------------

\* Only effect_opened makes a row, and no event unmakes one.
LEMMA AppliedExists ==
  ASSUME NEW row \in Row, NEW kind
  PROVE  /\ Exists(Apply(row, kind)) <=> kind = "opened" \/ Exists(row)
         /\ ~Exists(Apply(row, kind)) => Apply(row, kind) = row
BY DEF Apply, Exists, Opened, Absent, Row

\* What CInv says of the data, in short.
LEMMA Data ==
  ASSUME CInv
  PROVE  /\ rows \in [EffectId -> Row] /\ fold \in [EffectId -> Row]
         /\ order \in Seq(EffectId) /\ app \in [Task -> AppendType]
         /\ call \in [Call -> CallType] /\ resume \in ResumeType /\ past \in PastType
         /\ Resumer \in Task /\ Resumer \notin Call /\ \A c \in Call : c \in Task
         /\ \A t \in Task : t \in Call \/ t = Resumer
         /\ \A c \in Call : Recorded(c) => Eff(c) \in EffectId
         /\ NoEffect \notin EffectId
BY Typed, EffectLogAssumption, NoEffectAssumption DEF CInv, Task, CallType, Recorded, Eff

\* Of a torn append there is an event.
LEMMA TornEvent ==
  ASSUME CInv, NEW t \in Task, Torn(t)
  PROVE  /\ app[t].todo # <<>> /\ Ev(t) \in EventType
         /\ Ev(t).eff = NoEffect => Ev(t).kind = "note"
         /\ Ev(t).eff # NoEffect => Ev(t).eff \in EffectId
         /\ t \in Call => EventOK(call[t], Ev(t)) /\ call[t].pc \in Appends
         /\ t = Resumer => resume.pc \in {"boundary", "marking"}
                             /\ Ev(t).kind \in {"note", "in_doubt"}
<1>1. app[t].todo # <<>>
  BY DEF CInv, Control, AppendWaits, Torn
<1> QED
  BY <1>1, EventsOf, NoEffectAssumption DEF EventType

LEMMA Crowds ==
  ASSUME CInv, NEW e \in EffectId, NEW f \in EffectId, LogOK(e), LogOK(f),
         OnLog(e), OnLog(f), e # f, e[1] = f[1]
  PROVE  Crowded
BY DEF Crowded, LogOK

\* An insert of rebuildProjections fails when the log is crowded.
LEMMA CrowdedClash ==
  ASSUME CInv, Crowded
  PROVE  Clash
<1> DEFINE n == Len(order)
           G == {j \in 1 .. n : \A k, l \in 1 .. j : order[k][1] = order[l][1] => k = l}
           f == [j \in G |-> order[j]]
<1>1. n \in Nat /\ DOMAIN order = 1 .. n
  BY Data
<1>2. Inserted = {order[j] : j \in G}
  BY <1>1 DEF Inserted
<1>3. IsFiniteSet(1 .. n) /\ Cardinality(1 .. n) = n
  <2> HIDE DEF n
  <2>1. /\ IsFiniteSet(1 .. n)
        /\ Cardinality(1 .. n) = IF 1 > n THEN 0 ELSE n - 1 + 1
    BY <1>1, FS_Interval
  <2> QED
    BY <1>1, <2>1
<1>g. G \in SUBSET (1 .. n)
  OBVIOUS
<1>4. PICK i, j \in 1 .. n : i # j /\ order[i][1] = order[j][1]
  BY <1>1 DEF Crowded
<1>5. G # 1 .. n
  <2>1. CASE i < j
    <3>1. i \in 1 .. j /\ j \in 1 .. j
      BY <1>1, <2>1
    <3>2. j \notin G
      BY <1>4, <3>1
    <3> QED
      BY <3>2
  <2>2. CASE j < i
    <3>1. j \in 1 .. i /\ i \in 1 .. i
      BY <1>1, <2>2
    <3>2. i \notin G
      BY <1>4, <3>1
    <3> QED
      BY <3>2
  <2> QED
    BY <1>1, <1>4, <2>1, <2>2
<1> HIDE DEF G
<1>6. IsFiniteSet(G) /\ Cardinality(G) < n /\ Cardinality(G) \in Nat
  <2>1. /\ IsFiniteSet(G) /\ Cardinality(G) <= Cardinality(1 .. n)
        /\ Cardinality(1 .. n) = Cardinality(G) => 1 .. n = G
    BY <1>3, <1>g, FS_Subset
  <2>2. Cardinality(G) \in Nat
    BY <2>1, FS_CardinalityType
  <2> HIDE DEF n
  <2> QED
    BY <1>1, <1>3, <1>5, <2>1, <2>2
<1>7. f \in Surjection(G, Inserted)
  BY <1>2 DEF Surjection
<1>8. IsFiniteSet(Inserted) /\ Cardinality(Inserted) <= Cardinality(G)
  BY <1>6, <1>7, FS_Surjection
<1>9. Cardinality(Inserted) \in Nat
  BY <1>8, FS_CardinalityType
<1> QED
  BY <1>1, <1>6, <1>8, <1>9 DEF Clash

\* What it does not insert has a seq that is taken.
LEMMA NotInserted ==
  ASSUME CInv, NEW e \in EffectId, LogOK(e), OnLog(e), e \notin Inserted
  PROVE  Crowded
<1>1. PICK j \in DOMAIN order : order[j] = e
  BY DEF LogOK
<1>2. ~(\A k, l \in 1 .. j : order[k][1] = order[l][1] => k = l)
  BY <1>1 DEF Inserted
<1>3. j \in 1 .. Len(order) /\ DOMAIN order = 1 .. Len(order) /\ Len(order) \in Nat
  BY Data
<1>4. PICK k, l \in 1 .. j : order[k][1] = order[l][1] /\ k # l
  BY <1>2
<1>5. k \in DOMAIN order /\ l \in DOMAIN order
  BY <1>3
<1> QED
  BY <1>4, <1>5 DEF Crowded

-----------------------------------------------------------------------------
(* What the steps do to the tables. *)

\* A caller of appendChained tears nothing and mends nothing.
LEMMA CallerTorn ==
  ASSUME CInv, NEW t \in Task,
         (t \in Call /\ EffectStep(t)) \/ (t = Resumer /\ ResumeStep)
  PROVE  \A u \in Task : /\ Torn(u)' <=> Torn(u)
                         /\ Torn(u) => app'[u] = app[u]
<1>1. CASE UNCHANGED app
  BY <1>1 DEF Torn
<1>2. ASSUME Settled(t), NEW q, Appending(t, q)
      PROVE  \A u \in Task : /\ Torn(u)' <=> Torn(u)
                             /\ Torn(u) => app'[u] = app[u]
  <2>1. /\ app'[t].step = "idle" /\ app[t].step \in {"idle", "failed"}
        /\ \A u \in Task : u # t => app'[u] = app[u]
    BY <1>2, Data DEF Appending, NoAppend, Settled, Done, Threw
  <2> QED
    BY <2>1 DEF Torn
<1> QED
  BY <1>1, <1>2, CallerSettled

\* The effect of a call stays, and it gets one by Open only.
LEMMA EffectKept ==
  ASSUME CInv, NEW c \in Call, EffectStep(c)
  PROVE  /\ \A d \in Call : d # c => call'[d] = call[d]
         /\ \/ Eff(c)' = Eff(c) /\ \A i \in Intent : ~Open(c, i)
            \/ \E i \in Intent : Open(c, i) /\ Eff(c) = NoEffect /\ Eff(c)' = <<saga.next, i>>
<1>1. \/ \E i \in Intent : Open(c, i)
           /\ \E r, a : Becomes(c, r, a) /\ r.eff = <<saga.next, i>> /\ Eff(c) = NoEffect
      \/ /\ \A i \in Intent : ~Open(c, i)
         /\ \E r, a : Becomes(c, r, a) /\ Keeps(c, r)
  BY EffectBecomes
<1>2. \A r, a : Becomes(c, r, a) => call'[c] = r /\ \A d \in Call : d # c => call'[d] = call[d]
  BY Data DEF Becomes
<1> QED
  BY <1>1, <1>2 DEF Keeps, Eff

\* Of the rows of a call's steps, in detail.
LEMMA EffectRows ==
  ASSUME CInv, TableInv, NEW c \in Call, EffectStep(c)
  PROVE  \A e \in EffectId :
           /\ Exists(rows'[e]) <=> Exists(rows[e])
           /\ ~Exists(rows[e]) => rows'[e] = rows[e]
<1>0. rows \in [EffectId -> Row] /\ call[c] \in CallType /\ HeldOK(c)
      /\ CallOK(call[c], app[c], c \in landed)
  BY Data DEF TableInv, CInv, Control
<1>1. CASE UNCHANGED rows
  BY <1>1
<1>2. CASE call[c].pc \in Holds /\ PutHeld(c)
  <2>1. CASE ~Exists(call[c].row)
    BY <1>2, <2>1 DEF PutHeld
  <2>2. CASE Exists(call[c].row)
    <3>1. Exists(rows[Eff(c)])
      BY <1>0, <1>2, <2>2 DEF HeldOK
    <3>2. rows' = [rows EXCEPT ![Eff(c)] = call[c].row]
      BY <1>2, <2>2 DEF PutHeld
    <3> QED
      BY <1>0, <2>2, <3>1, <3>2
  <2> QED
    BY <2>1, <2>2
<1>3. CASE Seal(c)
  <2> DEFINE row == [status |-> call[c].status, sealed |-> TRUE, comp |-> CompFor(Eff(c))]
  <2>1. Exists(row)
    BY <1>0, <1>3 DEF Seal, At, CallOK, Exists
  <2>2. rows' = rows \/ (Exists(rows[Eff(c)]) /\ rows' = [rows EXCEPT ![Eff(c)] = row])
    BY <1>3 DEF Seal, SealRow
  <2> HIDE DEF row
  <2> QED
    BY <1>0, <2>1, <2>2
<1> QED
  BY <1>1, <1>2, <1>3 DEF EffectStep, OpenUnrecorded, Link, Open, Unrecorded,
     NotLogged, Doubted, Enrich, Enriched, Block, Admit, Run, CloseUnrecorded, Close,
     Degrade, Degraded, Rewrite, OffPath, RaiseTier, Reclassified, tables, At, Holds

\* What a call holds after a step it has just read, or held before.
LEMMA EffectHolds ==
  ASSUME CInv, NEW c \in Call, EffectStep(c), call'[c].pc \in Holds
  PROVE  /\ Eff(c)' = Eff(c) /\ Recorded(c)
         /\ \/ call'[c].row = rows[Eff(c)] /\ UNCHANGED rows
            \/ call[c].pc \in Holds /\ call'[c].row = call[c].row /\ (UNCHANGED rows \/ PutHeld(c))
<1>0. call \in [Call -> CallType] /\ CallOK(call[c], app[c], c \in landed)
  BY Data DEF CInv, Control
<1>1. CASE Enrich(c) \/ Degraded(c) \/ OffPath(c)
  BY <1>0, <1>1 DEF Enrich, Degraded, OffPath, tables, Eff, CallType, At, CallOK, Records,
     Recorded
<1>2. CASE Enriched(c)
  <2>1. Goto(c, "policy")
    <3>1. Leaving(c, "refused").pc = "refused"
      BY DEF Leaving, NoCall
    <3>2. Leave(c, "refused") => call'[c].pc = "refused"
      BY <1>0, <3>1 DEF Leave
    <3>3. ~Leave(c, "refused")
      BY <3>2 DEF Holds
    <3> QED
      BY <1>2, <3>3 DEF Enriched
  <2> QED
    BY <1>0, <1>2, <2>1 DEF Enriched, Goto, Eff, CallType, At, CallOK, Records, Recorded,
       Holds
<1>3. \A pc \in {"refused", "ended", "offpath"} : ~Leave(c, pc)
  BY <1>0 DEF Leave, Leaving, NoCall, Holds, CallType
<1>4. \A pc \in {"run", "doubt", "closing", "degrade", "reclassify"} : ~Goto(c, pc)
  BY <1>0 DEF Goto, Holds, CallType
<1>5. CASE \/ \E i \in Intent :
                \/ \E pc \in {"bypass", "observe"} : OpenUnrecorded(c, i, pc)
                \/ Link(c, i)
                \/ Open(c, i)
           \/ \E reclassified \in BOOLEAN : Admit(c, reclassified)
           \/ \E outcome \in {"ok", "refused", "lost"}, lands, thrown \in BOOLEAN :
                Run(c, outcome, lands, thrown)
  <2>1. \A i \in Intent, pc \in {"bypass", "observe"} : ~OpenUnrecorded(c, i, pc)
    BY <1>0 DEF OpenUnrecorded, CallType, Holds
  <2>2. \A i \in Intent : ~Link(c, i)
    BY <1>0 DEF Link, CallType, Holds
  <2>3. \A i \in Intent : ~Open(c, i)
    BY <1>0 DEF Open, CallType, Holds
  <2>4. \A reclassified \in BOOLEAN : ~Admit(c, reclassified)
    BY <1>0 DEF Admit, CallType, Holds
  <2>5. \A outcome \in {"ok", "refused", "lost"}, lands, thrown \in BOOLEAN :
          ~Run(c, outcome, lands, thrown)
    BY <1>0 DEF Run, CallType, Holds
  <2> QED
    BY <1>5, <2>1, <2>2, <2>3, <2>4, <2>5
<1>6. CASE Rewrite(c) \/ Seal(c)
  <2>1. \A status \in {"failed", "in_doubt"} : ~CloseThrows(c, status)
    BY <1>0, <1>3 DEF CloseThrows, Holds, CallType
  <2> QED
    BY <1>3, <1>6, <2>1 DEF Rewrite, Seal
<1> QED
  BY <1>1, <1>2, <1>3, <1>4, <1>5, <1>6 DEF EffectStep, Unrecorded, NotLogged, Doubted,
     Block, CloseUnrecorded, Close, Degrade, RaiseTier, Reclassified

-----------------------------------------------------------------------------
(* The tables agree on which effects there are. *)

\* What an append step leaves at t, and elsewhere.
LEMMA AppendAt ==
  ASSUME CInv, NEW t \in Task, AppendStep(t)
  PROVE  /\ app' \in [Task -> AppendType]
         /\ \A u \in Task : u # t => app'[u] = app[u]
         /\ UNCHANGED <<inflight, call, resume, closer, landed>>
         /\ \A c \in Call : Eff(c)' = Eff(c)
         /\ past'.replay = past.replay /\ past'.marked = past.marked
         /\ past'.crashes = past.crashes
<1>1. PICK a \in AppendType : app' = [app EXCEPT ![t] = a]
  BY AppendMoves DEF Leaves
<1>2. UNCHANGED <<inflight, call, resume, closer, landed>>
  BY AppendMoves
<1>3. past'.replay = past.replay /\ past'.marked = past.marked
  BY Data DEF AppendStep, ReadHead, Insert, Collide, PutSaga, PutRow, SeqCollides,
     AppendFails, PastType
<1> QED
  BY <1>1, <1>2, <1>3, Data, AppendMoves DEF Eff

LEMMA InsertFields ==
  ASSUME CInv, NEW t \in Task, Insert(t)
  PROVE  /\ ~Torn(t) /\ app'[t].step = "saga"
         /\ app'[t].todo = app[t].todo /\ Ev(t)' = Ev(t)
         /\ app'[t].row = IF Ev(t).eff = NoEffect THEN Absent ELSE rows[Ev(t).eff]
         /\ UNCHANGED <<rows, past>>
BY Data DEF Insert, Torn, AppendType, Ev

\* The fields of its record, step by step.
LEMMA AppendFields ==
  ASSUME CInv, NEW t \in Task, AppendStep(t)
  PROVE  \/ /\ ReadHead(t) /\ ~Torn(t) /\ ~Torn(t)' /\ app'[t].todo = app[t].todo
            /\ app'[t].step = "insert" /\ UNCHANGED <<fold, order, rows, past>>
         \/ /\ Insert(t) /\ ~Torn(t) /\ app'[t].step = "saga"
            /\ app'[t].todo = app[t].todo /\ Ev(t)' = Ev(t)
            /\ app'[t].row = IF Ev(t).eff = NoEffect THEN Absent ELSE rows[Ev(t).eff]
            /\ UNCHANGED <<rows, past>>
         \/ /\ PutSaga(t) /\ Torn(t) /\ app'[t].step = "row"
            /\ Exists(Apply(app[t].row, Ev(t).kind))
            /\ app'[t].todo = app[t].todo /\ Ev(t)' = Ev(t) /\ app'[t].row = app[t].row
            /\ UNCHANGED <<fold, order, rows, past>>
         \/ /\ PutSaga(t) /\ Torn(t) /\ app'[t].step = "idle"
            /\ ~Exists(Apply(app[t].row, Ev(t).kind))
            /\ app'[t].todo = Tail(app[t].todo)
            /\ UNCHANGED <<fold, order, rows, past>>
         \/ /\ PutRow(t) /\ app[t].step = "row" /\ app'[t].step = "idle"
            /\ app'[t].todo = Tail(app[t].todo)
            /\ UNCHANGED <<fold, order, past>>
         \/ /\ SeqCollides(t) /\ app[t].step = "row" /\ app'[t].step = "failed"
            /\ app'[t].todo = <<>> /\ UNCHANGED <<fold, order, rows, past>>
         \/ /\ (Collide(t) \/ AppendFails(t)) /\ app'[t].step = "failed"
            /\ app'[t].todo = <<>> /\ UNCHANGED <<fold, order, rows>>
            /\ Torn(t) => past'.torn
            /\ past.torn => past'.torn
<1>0. app \in [Task -> AppendType] /\ past \in PastType
  BY Data
<1>1. CASE ReadHead(t)
  BY <1>0, <1>1 DEF ReadHead, tables, Torn, AppendType
<1>2. CASE Insert(t)
  BY <1>2, InsertFields
<1>3. CASE PutSaga(t)
  <2>1. CASE Exists(Apply(app[t].row, Ev(t).kind))
    BY <1>0, <1>3, <2>1 DEF PutSaga, Torn, AppendType, Ev
  <2>2. CASE ~Exists(Apply(app[t].row, Ev(t).kind))
    BY <1>0, <1>3, <2>2 DEF PutSaga, Torn, Appended, NoAppend
  <2> QED
    BY <2>1, <2>2
<1>4. CASE PutRow(t)
  BY <1>0, <1>4 DEF PutRow, Appended, NoAppend
<1>5. CASE SeqCollides(t)
  BY <1>0, <1>5 DEF SeqCollides, Failed, NoAppend, tables
<1>6. CASE Collide(t)
  BY <1>0, <1>6 DEF Collide, Failed, NoAppend, tables, Torn
<1>7. CASE AppendFails(t)
  <2>1. past'.torn <=> past.torn \/ Torn(t)
    BY <1>0, <1>7 DEF AppendFails, PastType
  <2> QED
    BY <1>0, <1>7, <2>1 DEF AppendFails, Failed, NoAppend, tables
<1> QED
  BY <1>1, <1>2, <1>3, <1>4, <1>5, <1>6, <1>7 DEF AppendStep

\* insertEvent changes what the log makes of the effect of its event, no other.
LEMMA InsertFolds ==
  ASSUME CInv, NEW t \in Task, Insert(t)
  PROVE  /\ \A e \in EffectId :
              fold'[e] = IF e = Ev(t).eff THEN Apply(fold[e], Ev(t).kind) ELSE fold[e]
         /\ fold' \in [EffectId -> Row]
         /\ \A e \in EffectId :
              OnLog(e)' <=> OnLog(e) \/ (e = Ev(t).eff /\ Ev(t).kind = "opened")
         /\ \/ order' = order
            \/ order' = Append(order, Ev(t).eff) /\ Ev(t).eff \in EffectId
<1>0. /\ fold \in [EffectId -> Row] /\ app[t].todo # <<>> /\ NoEffect \notin EffectId
      /\ fold' \in [EffectId -> Row]
  BY Data, AppendMoves, AppendWrites DEF AppendStep
<1>1. \A e \in EffectId :
        fold'[e] = IF e = Ev(t).eff THEN Apply(fold[e], Ev(t).kind) ELSE fold[e]
  BY <1>0 DEF Insert
<1>2. \A e \in EffectId :
        OnLog(e)' <=> OnLog(e) \/ (e = Ev(t).eff /\ Ev(t).kind = "opened")
  BY <1>0, <1>1, AppliedExists DEF OnLog
<1>3. Ev(t).kind = "opened" => Ev(t).eff \in EffectId
  BY <1>0, OpenedByItself
<1> QED
  BY <1>0, <1>1, <1>2, <1>3 DEF Insert

LEMMA TableAppend ==
  ASSUME CInv, CInv', TableInv, NEW t \in Task, AppendStep(t)
  PROVE  TableInv'
<1>0. /\ app[t] \in AppendType /\ app[t].todo # <<>> /\ order \in Seq(EffectId)
      /\ rows \in [EffectId -> Row] /\ fold \in [EffectId -> Row]
      /\ NoEffect \notin EffectId
  BY Data, AppendMoves
<1>1. \A e \in EffectId : LogOK(e)'
  <2>1. CASE UNCHANGED <<fold, order>>
    BY <2>1, AppendAt DEF TableInv, LogOK, OnLog
  <2>2. CASE Insert(t)
    <3> TAKE e \in EffectId
    <3>1. LogOK(e)
      BY DEF TableInv
    <3>2. OnLog(e)' <=> OnLog(e) \/ (e = Ev(t).eff /\ Ev(t).kind = "opened")
      BY <2>2, InsertFolds
    <3>3. OnLog(e)' => \E c \in Call : Eff(c)' = e
      <4>1. Ev(t).kind = "opened" => t \in Call /\ Eff(t) = Ev(t).eff
        BY <1>0, OpenedByItself
      <4> QED
        BY <3>1, <3>2, <4>1, AppendAt DEF LogOK
    <3>4. OnLog(e)' <=> \E i \in DOMAIN order' : order'[i] = e
      <4>1. CASE Ev(t).kind = "opened" /\ ~Exists(fold[Ev(t).eff])
        <5>1. order' = Append(order, Ev(t).eff) /\ Ev(t).eff \in EffectId
          BY <1>0, <2>2, <4>1, OpenedByItself DEF Insert
        <5>2. (\E i \in DOMAIN order' : order'[i] = e) <=>
                (\E i \in DOMAIN order : order[i] = e) \/ e = Ev(t).eff
          <6>1. /\ Len(order') = Len(order) + 1 /\ order'[Len(order) + 1] = Ev(t).eff
                /\ DOMAIN order = 1 .. Len(order) /\ DOMAIN order' = 1 .. Len(order) + 1
                /\ \A i \in 1 .. Len(order) : order'[i] = order[i]
                /\ Len(order) \in Nat
            BY <1>0, <5>1
          <6> QED
            BY <6>1
        <5> QED
          BY <3>1, <3>2, <4>1, <5>2 DEF LogOK
      <4>2. CASE ~(Ev(t).kind = "opened" /\ ~Exists(fold[Ev(t).eff]))
        <5>1. order' = order
          BY <2>2, <4>2 DEF Insert
        <5>2. OnLog(e)' <=> OnLog(e)
          BY <3>2, <4>2 DEF OnLog
        <5> QED
          BY <3>1, <5>1, <5>2 DEF LogOK
      <4> QED
        BY <4>1, <4>2
    <3>5. ~OnLog(e)' => fold'[e] = Absent
      <4>1. fold'[e] = IF e = Ev(t).eff THEN Apply(fold[e], Ev(t).kind) ELSE fold[e]
        BY <2>2, InsertFolds
      <4> QED
        BY <1>0, <3>1, <3>2, <4>1, AppliedExists DEF LogOK, OnLog
    <3> QED
      BY <3>3, <3>4, <3>5 DEF LogOK
  <2> QED
    BY <2>1, <2>2, AppendFields
<1>2. \A e \in EffectId : OnLog(e) => OnLog(e)'
  <2>1. CASE UNCHANGED fold
    BY <2>1 DEF OnLog
  <2>2. CASE Insert(t)
    BY <2>2, InsertFolds
  <2> QED
    BY <2>1, <2>2, AppendFields
<1>3. ASSUME PutRow(t)
      PROVE  /\ Ev(t).eff \in EffectId /\ OnLog(Ev(t).eff)
             /\ Exists(Apply(app[t].row, Ev(t).kind)) /\ ~SeqTaken(Ev(t).eff)
             /\ rows' = [rows EXCEPT ![Ev(t).eff] = Apply(app[t].row, Ev(t).kind)]
  <2>1. Torn(t) /\ app[t].step = "row" /\ MidOK(t)
    BY <1>3 DEF PutRow, Torn, TableInv
  <2>2. Exists(Apply(app[t].row, Ev(t).kind))
    BY <2>1 DEF MidOK
  <2>3. Ev(t).kind = "opened" \/ Exists(app[t].row)
    BY <1>0, <2>2, AppliedExists DEF AppendType
  <2>4. Ev(t).eff \in EffectId
    <3>1. Ev(t).eff # NoEffect
      BY <2>1, <2>3, TornEvent DEF MidOK, Absent, Exists
    <3> QED
      BY <2>1, <3>1, TornEvent
  <2>5. OnLog(Ev(t).eff)
    BY <1>0, <2>1, <2>3, <2>4 DEF MidOK, TableInv, RowOK
  <2> QED
    BY <1>3, <2>2, <2>4, <2>5 DEF PutRow
<1>4. \A e \in EffectId : /\ Exists(rows[e]) => Exists(rows'[e])
                          /\ ~Exists(rows'[e]) => rows'[e] = rows[e]
  <2>1. CASE UNCHANGED rows
    BY <2>1
  <2>2. CASE PutRow(t)
    BY <1>0, <1>3, <2>2
  <2> QED
    BY <2>1, <2>2, AppendFields
<1>5. \A e \in EffectId : RowOK(e)'
  <2>1. CASE UNCHANGED rows
    BY <1>2, <2>1 DEF TableInv, RowOK
  <2>2. CASE PutRow(t)
    <3>1. OnLog(Ev(t).eff) /\ Ev(t).eff \in EffectId
          /\ \A e \in EffectId : e # Ev(t).eff => rows'[e] = rows[e]
      BY <1>0, <1>3, <2>2
    <3>2. \A f \in EffectId : Exists(rows[f]) /\ f[1] = Ev(t).eff[1] => f = Ev(t).eff
      BY <1>3, <2>2 DEF SeqTaken
    <3> TAKE e \in EffectId
    <3>3. RowOK(e)
      BY DEF TableInv
    <3>4. Exists(rows'[e]) => OnLog(e)'
      BY <1>2, <3>1, <3>3 DEF RowOK
    <3>5. ~Exists(rows'[e]) => rows'[e] = Absent
      BY <1>4, <3>3 DEF RowOK
    <3>6. ASSUME NEW f \in EffectId, Exists(rows'[e]), Exists(rows'[f]), e[1] = f[1]
          PROVE  e = f
      <4>1. CASE e # Ev(t).eff /\ f # Ev(t).eff
        BY <3>1, <3>3, <3>6, <4>1 DEF RowOK
      <4>2. CASE e = Ev(t).eff
        BY <3>1, <3>2, <3>6, <4>2
      <4>3. CASE f = Ev(t).eff
        BY <3>1, <3>2, <3>6, <4>3
      <4> QED
        BY <4>1, <4>2, <4>3
    <3> QED
      BY <3>4, <3>5, <3>6 DEF RowOK
  <2> QED
    BY <2>1, <2>2, AppendFields
<1>6. \A u \in Task : MidOK(u)'
  <2> TAKE u \in Task
  <2>0. MidOK(u)
    BY DEF TableInv
  <2>1. CASE u # t
    <3>1. app'[u] = app[u] /\ Ev(u)' = Ev(u)
      BY <2>1, AppendAt DEF Ev
    <3>2. Torn(u) /\ Ev(u).eff # NoEffect => Ev(u).eff \in EffectId
      BY TornEvent
    <3>3. Torn(u) /\ Ev(u).kind = "opened" => Ev(u).eff \in EffectId
      BY TornEvent
    <3> QED
      BY <1>2, <1>4, <2>0, <3>1, <3>2, <3>3 DEF MidOK, Torn
  <2>2. CASE u = t
    <3>1. CASE app'[t].step \notin {"saga", "row"}
      BY <2>2, <3>1 DEF MidOK, Torn
    <3>2. CASE Insert(t)
      <4>1. /\ app'[t].step = "saga" /\ Ev(t)' = Ev(t) /\ UNCHANGED rows
            /\ app'[t].row = IF Ev(t).eff = NoEffect THEN Absent ELSE rows[Ev(t).eff]
        BY <3>2, InsertFields
      <4>2. Ev(t).kind = "opened" => OnLog(Ev(t).eff)'
        <5>1. Ev(t).kind = "opened" => Ev(t).eff \in EffectId
          BY <1>0, OpenedByItself
        <5> QED
          BY <3>2, <4>1, <5>1, InsertFolds DEF OnLog
      <4> QED
        BY <2>2, <4>1, <4>2 DEF MidOK, OnLog
    <3>3. CASE PutSaga(t)
      <4>1. CASE app'[t].step = "row"
        <5>1. /\ Torn(t) /\ Exists(Apply(app[t].row, Ev(t).kind))
              /\ Ev(t)' = Ev(t) /\ app'[t].row = app[t].row /\ UNCHANGED <<fold, rows>>
          BY <3>3, <4>1, AppendFields DEF ReadHead, Insert
        <5> QED
          BY <2>0, <2>2, <4>1, <5>1 DEF MidOK, OnLog
      <4>2. CASE app'[t].step # "row"
        <5>1. app'[t].step # "saga"
          BY <3>3, <4>2, AppendFields DEF ReadHead, Insert, PutSaga
        <5> QED
          BY <3>1, <4>2, <5>1
      <4> QED
        BY <4>1, <4>2
    <3> QED
      BY <3>1, <3>2, <3>3, AppendFields
  <2> QED
    BY <2>1, <2>2
<1>7. \A c \in Call : HeldOK(c)'
  <2> TAKE c \in Call
  <2>1. HeldOK(c) /\ call'[c] = call[c] /\ Eff(c)' = Eff(c)
    BY AppendAt DEF TableInv
  <2>2. call[c].pc \in Holds => Eff(c) \in EffectId
    BY Data DEF CInv, Control, CallOK, Records, Holds, Recorded, Eff
  <2> QED
    BY <1>4, <2>1, <2>2 DEF HeldOK
<1>8. LeftOK'
  <2>1. resume' = resume /\ LeftOK /\ resume.left \subseteq EffectId
    BY AppendAt, Data DEF TableInv, ResumeType
  <2> QED
    BY <1>4, <2>1 DEF LeftOK
<1> QED
  BY <1>1, <1>5, <1>6, <1>7, <1>8 DEF TableInv

LEMMA TableEffect ==
  ASSUME CInv, CInv', TableInv, NEW c \in Call, EffectStep(c)
  PROVE  TableInv'
<1>0. /\ UNCHANGED <<fold, order, resume>>
      /\ \A e \in EffectId : OnLog(e)' <=> OnLog(e)
  BY EffectWrites DEF OnLog
<1>1. \A e \in EffectId : /\ Exists(rows'[e]) <=> Exists(rows[e])
                          /\ ~Exists(rows[e]) => rows'[e] = rows[e]
  BY EffectRows
<1>2. \A d \in Call : Recorded(d) => Eff(d)' = Eff(d)
  BY EffectKept DEF Recorded, Eff
<1>3. \A e \in EffectId : LogOK(e)'
  <2> TAKE e \in EffectId
  <2>1. LogOK(e) /\ NoEffect \notin EffectId
    BY Data DEF TableInv
  <2>2. \A d \in Call : Eff(d) = e => Eff(d)' = e
    BY <1>2, <2>1 DEF Recorded
  <2> QED
    BY <1>0, <2>1, <2>2 DEF LogOK
<1>4. \A e \in EffectId : RowOK(e)'
  BY <1>0, <1>1 DEF TableInv, RowOK
<1>5. \A t \in Task : MidOK(t)'
  <2> TAKE t \in Task
  <2>1. MidOK(t) /\ (Torn(t)' <=> Torn(t)) /\ (Torn(t) => app'[t] = app[t])
    BY Data, CallerTorn DEF TableInv
  <2>2. Torn(t) => /\ Ev(t).eff # NoEffect => Ev(t).eff \in EffectId
                   /\ Ev(t).kind = "opened" => Ev(t).eff \in EffectId
    BY TornEvent
  <2>3. Torn(t) => Ev(t)' = Ev(t)
    BY <2>1 DEF Ev
  <2> QED
    BY <1>0, <1>1, <2>1, <2>2, <2>3 DEF MidOK
<1>6. \A d \in Call : HeldOK(d)'
  <2> SUFFICES ASSUME NEW d \in Call, call'[d].pc \in Holds, Exists(call'[d].row)
               PROVE  Exists(rows'[Eff(d)'])
    BY DEF HeldOK
  <2>1. CASE d # c
    <3>1. call'[d] = call[d] /\ Eff(d)' = Eff(d) /\ HeldOK(d)
      BY <2>1, EffectKept DEF TableInv, Eff
    <3>2. Eff(d) \in EffectId
      BY <3>1, Data DEF CInv, Control, CallOK, Records, Holds, Recorded, Eff
    <3> QED
      BY <1>1, <3>1, <3>2 DEF HeldOK
  <2>2. CASE d = c
    <3>1. /\ Eff(c)' = Eff(c) /\ Eff(c) \in EffectId
          /\ \/ call'[c].row = rows[Eff(c)]
             \/ call[c].pc \in Holds /\ call'[c].row = call[c].row
      BY <2>2, EffectHolds, Data
    <3>2. HeldOK(c)
      BY DEF TableInv
    <3> QED
      BY <1>1, <2>2, <3>1, <3>2 DEF HeldOK
  <2> QED
    BY <2>1, <2>2
<1>7. LeftOK'
  <2>1. resume.left \subseteq EffectId /\ LeftOK
    BY Data DEF ResumeType, TableInv
  <2> QED
    BY <1>0, <1>1, <2>1 DEF LeftOK
<1> QED
  BY <1>3, <1>4, <1>5, <1>6, <1>7 DEF TableInv

\* What resumeSaga does to the rows: it puts one in doubt.
LEMMA ResumeRows ==
  ASSUME CInv, TableInv, ResumeStep
  PROVE  \/ UNCHANGED rows
         \/ /\ resume.pc = "marking" /\ Threw(Resumer)
            /\ Oldest(resume.left) \in EffectId /\ Oldest(resume.left) \in resume.left
            /\ Exists(rows[Oldest(resume.left)])
            /\ \E row \in Row : row.status = "in_doubt"
                 /\ rows' = [rows EXCEPT ![Oldest(resume.left)] = row]
            /\ past'.marked
<1>0. resume \in ResumeType /\ past \in PastType /\ ResumeOK(resume, app[Resumer])
  BY Data DEF CInv, Control
<1>1. CASE Marked
  <2> DEFINE e == Oldest(resume.left)
             row == [resume.snap[e] EXCEPT !.status = "in_doubt"]
  <2>1. e \in resume.left /\ e \in EffectId
    BY <1>0, <1>1, OldestIs DEF Marked, ResumeOK, ResumeType
  <2>2. row \in Row /\ row.status = "in_doubt"
    BY <1>0, <2>1 DEF ResumeType, Row, Status
  <2> HIDE DEF row
  <2>3. CASE rows' = MarkRow(e) /\ Threw(Resumer)
             /\ past' = [past EXCEPT !.marked = @ \/ Threw(Resumer)]
    <3>1. rows' = [rows EXCEPT ![e] = row]
      BY <2>3 DEF MarkRow, row
    <3>2. past'.marked
      BY <1>0, <2>3 DEF PastType
    <3> QED
      BY <1>1, <2>1, <2>2, <2>3, <3>1, <3>2 DEF Marked, TableInv, LeftOK
  <2>4. CASE rows' = MarkRow(e) /\ ~Threw(Resumer)
    BY <2>4 DEF MarkRow
  <2> QED
    BY <1>1, <2>3, <2>4 DEF Marked
<1>2. CASE ~Marked
  BY <1>2 DEF ResumeStep, Resume, Boundary, List, MarkNext, tables
<1> QED
  BY <1>1, <1>2

LEMMA TableResume ==
  ASSUME CInv, CInv', TableInv, ResumeStep
  PROVE  TableInv'
<1>0. /\ UNCHANGED <<fold, order, call>>
      /\ \A e \in EffectId : OnLog(e)' <=> OnLog(e)
      /\ \A c \in Call : Eff(c)' = Eff(c)
      /\ rows \in [EffectId -> Row] /\ resume \in ResumeType
  BY ResumeFrame, Data DEF OnLog, Eff
<1>1. \A e \in EffectId : /\ Exists(rows'[e]) <=> Exists(rows[e])
                          /\ ~Exists(rows[e]) => rows'[e] = rows[e]
  BY <1>0, ResumeRows DEF Exists
<1>3. \A e \in EffectId : LogOK(e)'
  BY <1>0 DEF TableInv, LogOK
<1>4. \A e \in EffectId : RowOK(e)'
  BY <1>0, <1>1 DEF TableInv, RowOK
<1>5. \A t \in Task : MidOK(t)'
  <2> TAKE t \in Task
  <2>1. MidOK(t) /\ (Torn(t)' <=> Torn(t)) /\ (Torn(t) => app'[t] = app[t])
    BY Data, CallerTorn DEF TableInv
  <2>2. Torn(t) => /\ Ev(t).eff # NoEffect => Ev(t).eff \in EffectId
                   /\ Ev(t).kind = "opened" => Ev(t).eff \in EffectId
    BY TornEvent
  <2>3. Torn(t) => Ev(t)' = Ev(t)
    BY <2>1 DEF Ev
  <2> QED
    BY <1>0, <1>1, <2>1, <2>2, <2>3 DEF MidOK
<1>6. \A d \in Call : HeldOK(d)'
  <2> TAKE d \in Call
  <2>1. call[d].pc \in Holds => Eff(d) \in EffectId
    BY Data DEF CInv, Control, CallOK, Records, Holds, Recorded, Eff
  <2> QED
    BY <1>0, <1>1, <2>1 DEF TableInv, HeldOK
<1>7. LeftOK'
  <2>1. resume.left \subseteq EffectId /\ LeftOK
    BY <1>0 DEF ResumeType, TableInv
  <2>2. CASE \E boundary \in BOOLEAN : Resume(boundary)
    BY <1>0, <2>1, <2>2 DEF Resume, ResumeTo, ResumeType, LeftOK
  <2>3. CASE Boundary
    BY <1>0, <2>1, <2>3 DEF Boundary, ResumeTo, ResumeType, LeftOK
  <2>4. CASE List
    <3>1. resume'.pc = "next" /\ UNCHANGED rows
          /\ \A e \in resume'.left : e \in EffectId /\ rows[e].status = "opened"
      BY <2>4 DEF List, tables
    <3> QED
      BY <3>1 DEF LeftOK, Exists
  <2>5. CASE MarkNext
    <3>1. /\ resume'.left \subseteq resume.left
          /\ resume'.pc \notin {"next", "marking"} => resume'.left = {}
      BY <1>0, <2>5 DEF MarkNext, ResumeTo, ResumeType, NoResume
    <3> QED
      BY <1>1, <2>1, <3>1 DEF LeftOK
  <2>6. CASE Marked
    <3>1. \/ resume' = NoResume
          \/ resume' = [resume EXCEPT !.pc = "next",
                          !.left = resume.left \ {Oldest(resume.left)}]
      BY <1>0, <2>6 DEF Marked, ResumeType
    <3>2. /\ resume'.left \subseteq resume.left
          /\ resume'.pc \notin {"next", "marking"} => resume'.left = {}
      <4>1. CASE resume' = NoResume
        BY <4>1 DEF NoResume
      <4>2. CASE resume' = [resume EXCEPT !.pc = "next",
                              !.left = resume.left \ {Oldest(resume.left)}]
        BY <1>0, <4>2 DEF ResumeType
      <4> QED
        BY <3>1, <4>1, <4>2
    <3> QED
      BY <1>1, <2>1, <3>2 DEF LeftOK
  <2> QED
    BY <2>2, <2>3, <2>4, <2>5, <2>6 DEF ResumeStep
<1> QED
  BY <1>3, <1>4, <1>5, <1>6, <1>7 DEF TableInv

\* A crash leaves the effects of its calls, and forgets everything in hand.
LEMMA CrashLeaves ==
  ASSUME CInv, Crash
  PROVE  /\ UNCHANGED <<log, fold, order, rows, saga, landed>>
         /\ \A t \in Task : app'[t] = NoAppend /\ ~Torn(t)'
         /\ \A c \in Call :
              /\ Eff(c)' = Eff(c) /\ call'[c].again = call[c].again
              /\ \/ call'[c] = call[c] /\ call[c].pc \in Rests
                 \/ call'[c].pc = "dead"
         /\ resume' = NoResume
         /\ past'.marked = past.marked /\ past'.replay = past.replay
         /\ past'.torn <=> past.torn \/ \E t \in Task : Torn(t)
<1>1. app' = [t \in Task |-> NoAppend] /\ resume' = NoResume
      /\ UNCHANGED <<log, fold, order, rows, saga, landed>>
  BY DEF Crash, tables
<1>2. \A t \in Task : app'[t] = NoAppend /\ ~Torn(t)'
  BY <1>1 DEF Torn, NoAppend
<1>3. /\ past'.marked = past.marked /\ past'.replay = past.replay
      /\ past'.torn <=> past.torn \/ \E t \in Task : Torn(t)
  BY Data DEF Crash, PastType
<1>4. ASSUME NEW c \in Call
      PROVE  /\ Eff(c)' = Eff(c) /\ call'[c].again = call[c].again
             /\ \/ call'[c] = call[c] /\ call[c].pc \in Rests
                \/ call'[c].pc = "dead"
  <2>1. CASE call[c].pc \in {"idle", "refused", "ended"}
    BY <2>1 DEF Crash, Eff, Rests
  <2>2. CASE call[c].pc \notin {"idle", "refused", "ended"}
    <3>1. call'[c] = Leaving(c, "dead")
      BY <2>2 DEF Crash
    <3> QED
      BY <3>1, LeavingIs DEF Eff
  <2> QED
    BY <2>1, <2>2
<1> QED
  BY <1>1, <1>2, <1>3, <1>4

LEMMA TableWorld ==
  ASSUME CInv, CInv', TableInv, ReadSaga \/ PutStatus \/ Crash \/ Replay
  PROVE  TableInv'
<1>1. CASE ReadSaga \/ PutStatus
  <2>1. UNCHANGED <<fold, order, rows, app, call, resume>>
    BY <1>1 DEF ReadSaga, PutStatus, tables
  <2> QED
    BY <2>1 DEF TableInv, LogOK, OnLog, RowOK, MidOK, Torn, Ev, HeldOK, LeftOK, Eff
<1>2. CASE Crash
  <2>1. \A e \in EffectId : LogOK(e)' /\ RowOK(e)'
    BY <1>2, CrashLeaves DEF TableInv, LogOK, OnLog, RowOK
  <2>2. \A t \in Task : MidOK(t)'
    BY <1>2, CrashLeaves DEF MidOK
  <2>3. \A c \in Call : HeldOK(c)'
    BY <1>2, CrashLeaves DEF HeldOK, Rests, Holds
  <2>4. LeftOK'
    BY <1>2, CrashLeaves DEF LeftOK, NoResume
  <2> QED
    BY <2>1, <2>2, <2>3, <2>4 DEF TableInv
<1>3. CASE Replay
  <2>1. UNCHANGED <<fold, order, app, call>> /\ Quiet
        /\ resume'.pc = resume.pc /\ resume'.left = resume.left
        /\ rows' = [e \in EffectId |-> IF e \in Inserted THEN fold[e] ELSE Absent]
    BY <1>3, Data DEF Replay, ResumeType
  <2>2. \A e \in EffectId : LogOK(e)' /\ (OnLog(e)' <=> OnLog(e)) /\ LogOK(e)
    BY <2>1 DEF TableInv, LogOK, OnLog, Eff
  <2>3. \A e \in EffectId : e \in Inserted => OnLog(e)
    BY <2>2 DEF Inserted, LogOK
  <2>4. \A e \in EffectId : RowOK(e)'
    <3> TAKE e \in EffectId
    <3>1. /\ Exists(rows'[e]) <=> e \in Inserted
          /\ ~Exists(rows'[e]) => rows'[e] = Absent
      BY <2>1, <2>3 DEF OnLog, Exists, Absent
    <3>2. ASSUME NEW f \in EffectId, e \in Inserted, f \in Inserted, e[1] = f[1]
          PROVE  e = f
      <4>1. PICK i \in DOMAIN order : order[i] = e
              /\ \A k, l \in 1 .. i : order[k][1] = order[l][1] => k = l
        BY <3>2 DEF Inserted
      <4>2. PICK j \in DOMAIN order : order[j] = f
              /\ \A k, l \in 1 .. j : order[k][1] = order[l][1] => k = l
        BY <3>2 DEF Inserted
      <4>3. DOMAIN order = 1 .. Len(order) /\ Len(order) \in Nat
        BY Data
      <4>4. CASE i <= j
        <5>1. i \in 1 .. j /\ j \in 1 .. j
          BY <4>3, <4>4
        <5> QED
          BY <3>2, <4>1, <4>2, <5>1
      <4>5. CASE j <= i
        <5>1. i \in 1 .. i /\ j \in 1 .. i
          BY <4>3, <4>5
        <5> QED
          BY <3>2, <4>1, <4>2, <5>1
      <4> QED
        BY <4>3, <4>4, <4>5
    <3>3. \A f \in EffectId : Exists(rows'[f]) => f \in Inserted
      BY <2>1 DEF Exists, Absent
    <3> QED
      BY <2>2, <2>3, <3>1, <3>2, <3>3 DEF RowOK
  <2>5. \A t \in Task : MidOK(t)'
    <3>1. \A t \in Task : ~Torn(t)
      BY <2>1, QuietIsDone DEF Torn, Done
    <3> QED
      BY <2>1, <3>1 DEF MidOK, Torn
  <2>6. \A c \in Call : HeldOK(c)'
    BY <2>1 DEF HeldOK, Quiet, Holds
  <2>7. LeftOK'
    BY <2>1 DEF TableInv, LeftOK, Quiet
  <2> QED
    BY <2>2, <2>4, <2>5, <2>6, <2>7 DEF TableInv
<1> QED
  BY <1>1, <1>2, <1>3

LEMMA TableStep ==
  ASSUME CInv, CInv', TableInv, [Next]_vars
  PROVE  TableInv'
<1>1. CASE UNCHANGED vars
  BY <1>1 DEF vars, TableInv, LogOK, OnLog, RowOK, MidOK, Torn, Ev, HeldOK, LeftOK, Eff
<1>2. CASE Next
  BY <1>2, TableAppend, TableEffect, TableResume, TableWorld DEF Next
<1> QED
  BY <1>1, <1>2

LEMMA TableInit == Init => TableInv
<1> SUFFICES ASSUME Init PROVE TableInv
  OBVIOUS
<1>1. \A e \in EffectId : fold[e] = Absent /\ rows[e] = Absent
  BY DEF Init
<1>2. \A e \in EffectId : ~Exists(fold[e]) /\ ~Exists(rows[e])
  BY <1>1 DEF Exists, Absent
<1>3. order = <<>> /\ DOMAIN order = {}
  BY DEF Init
<1>4. \A e \in EffectId : LogOK(e) /\ RowOK(e)
  BY <1>1, <1>2, <1>3 DEF LogOK, RowOK, OnLog
<1>5. \A t \in Task : MidOK(t)
  BY DEF Init, MidOK, Torn, NoAppend
<1>6. \A c \in Call : HeldOK(c)
  BY DEF Init, HeldOK, NoCall, Holds
<1>7. LeftOK
  BY DEF Init, LeftOK, NoResume
<1> QED
  BY <1>4, <1>5, <1>6, <1>7 DEF TableInv

LEMMA TableHolds == Spec => []TableInv
<1>1. CInv /\ CInv' /\ TableInv /\ [Next]_vars => TableInv'
  BY TableStep
<1> QED
  BY <1>1, TableInit, ControlHolds, PTL DEF Spec

-----------------------------------------------------------------------------
(* An effect with one call. *)

\* A call that has run and may still write.
Ran == {"close", "closing", "degrade", "rewrite", "offpath", "raise", "reclassify"}

Writing(a) == a.step \in {"saga", "row"}
Idle(a) == a.step = "idle" /\ a.todo = <<>>

\* Of a call r that is at a of its append, with this row and this fold of its
\* effect: up to the run nobody else touches them.
OpeningOK(r, a, row, f) ==
  /\ r.pc = "opening" /\ ~Idle(a) =>
       /\ row = Absent
       /\ \/ a.step = "failed"
          \/ a.todo = <<Note, Event("opened", r.eff)>> /\ f = Absent
          \/ /\ a.todo = <<Event("opened", r.eff)>>
             /\ f = IF Writing(a) THEN Opened ELSE Absent
  /\ \/ r.pc = "opening" /\ Idle(a)
     \/ r.pc \in {"enriched", "policy"}
     \/ r.pc \in {"run", "close"} /\ ~r.again
     => row = Opened /\ f = Opened
  /\ r.pc # "doubt"
  /\ r.pc \in Holds => r.row = row

\* What effect_closed and the events before it have made of the fold f, as far
\* as they have come.
ClosingFold(r, a, f) ==
  LET n == Len(a.todo)
  IN /\ n >= 1 => a.todo[n].kind = "note"
     /\ n >= 2 => a.todo[n - 1] = Event(Closed(r.status), r.eff)
     /\ n <= 1 \/ (n = 2 /\ Writing(a)) => f.status = r.status /\ f.sealed
     /\ f.comp # CompFor(r.eff) =>
          \E i \in 1 .. n : a.todo[i].kind = "unavailable" /\ (i = 1 => ~Writing(a))

ClosingOK(r, a, row, f) ==
  /\ r.pc \in Ran => Exists(row) /\ Exists(f)
  /\ f.comp = "unavailable" => CompFor(r.eff) = "unavailable"
  /\ \A i \in DOMAIN a.todo :
       a.todo[i].kind = "unavailable" => CompFor(r.eff) = "unavailable"
  /\ r.pc = "closing" /\ a.step # "failed" => ClosingFold(r, a, f)

\* A row or a fold of an effect does not deny it.
Sound(row) == row.sealed => row.status # "opened"

LandedOK(r, hit, row, f, replay) ==
  /\ Sound(row) /\ Sound(f)
  /\ hit /\ ~r.again =>
       /\ f.status \in MayHaveLanded
       /\ replay # "failed" => row.status \in MayHaveLanded

Agrees(row, f, crowded) == row = f \/ (~Exists(row) /\ crowded)

AgreeOK(e) ==
  /\ \A t \in Task : Mid(t, e) => app[t].row = rows[e]
  /\ ~past.torn /\ ~past.marked =>
       /\ (\A t \in Task : ~Mid(t, e)) => Agrees(rows[e], fold[e], Crowded)
       /\ \A t \in Task : Mid(t, e) => Agrees(Apply(rows[e], Ev(t).kind), fold[e], Crowded)

FateOK(c) ==
  /\ OpeningOK(call[c], app[c], rows[Eff(c)], fold[Eff(c)])
  /\ ClosingOK(call[c], app[c], rows[Eff(c)], fold[Eff(c)])
  /\ LandedOK(call[c], c \in landed, rows[Eff(c)], fold[Eff(c)], past.replay)
  /\ AgreeOK(Eff(c))

AloneInv == \A c \in Call : Recorded(c) /\ Alone(c) => FateOK(c)

-----------------------------------------------------------------------------

\* Only the call itself, or after all calls the resume, appends an event of its
\* effect.
LEMMA AppendsOf ==
  ASSUME CInv, NEW c \in Call, Recorded(c), Alone(c), NEW t \in Task,
         app[t].todo # <<>>, Ev(t).eff = Eff(c)
  PROVE  t = c \/ (t = Resumer /\ \A d \in Call : call[d].pc \in Rests)
<1>1. CASE t \in Call
  BY <1>1, EventsOf DEF EventOK, Alone, Recorded, Eff
<1>2. CASE t = Resumer
  BY <1>2, EventsOf DEF CInv, Control, Exclusive
<1> QED
  BY <1>1, <1>2 DEF Task

LEMMA MidWho ==
  ASSUME CInv, NEW c \in Call, Recorded(c), Alone(c), NEW t \in Task, Mid(t, Eff(c))
  PROVE  t = c \/ (t = Resumer /\ \A d \in Call : call[d].pc \in Rests)
BY AppendsOf, TornEvent DEF Mid

\* At rest a call has nothing to append.
LEMMA RestIsDone ==
  ASSUME CInv, NEW c \in Call, call[c].pc \in Rests
  PROVE  Done(c) /\ ~Torn(c) /\ Idle(app[c])
<1>1. CallOK(call[c], app[c], c \in landed)
  BY DEF CInv, Control
<1> QED
  BY <1>1 DEF CallOK, Rests, Appends, Done, Torn, Idle

\* One task at a time is at work on the row.
LEMMA OneMid ==
  ASSUME CInv, NEW c \in Call, Recorded(c), Alone(c), NEW t \in Task, NEW u \in Task,
         app[t].todo # <<>>, Ev(t).eff = Eff(c), Mid(u, Eff(c))
  PROVE  t = u
BY AppendsOf, MidWho, RestIsDone DEF Mid, Done

LEMMA ApplySound ==
  ASSUME NEW row \in Row, NEW kind \in Kind
  PROVE  /\ Sound(row) => Sound(Apply(row, kind))
         /\ kind # "closed_failed" /\ row.status \in MayHaveLanded =>
              Apply(row, kind).status \in MayHaveLanded
         /\ kind # "unavailable" /\ kind # "opened" => Apply(row, kind).comp = row.comp
         /\ kind = "unavailable" /\ Exists(row) => Apply(row, kind).comp = "unavailable"
         /\ kind = "opened" => Apply(row, kind) = Opened
         /\ kind = "note" => Apply(row, kind) = row
BY DEF Apply, Sound, Row, Status, Exists, Opened, Absent, MayHaveLanded, Kind

LEMMA ApplyClosed ==
  ASSUME NEW row \in Row, Exists(row), NEW s \in {"landed", "failed", "in_doubt"}
  PROVE  /\ Apply(row, Closed(s)).status = s /\ Apply(row, Closed(s)).sealed
         /\ Closed(s) \in CloseKinds
BY DEF Apply, Row, Status, Exists, Closed, CloseKinds

\* What an append step does to an effect.
LEMMA AppendTouches ==
  ASSUME CInv, NEW t \in Task, AppendStep(t), NEW e \in EffectId
  PROVE  /\ fold'[e] = IF Insert(t) /\ Ev(t).eff = e
                       THEN Apply(fold[e], Ev(t).kind) ELSE fold[e]
         /\ rows'[e] = IF PutRow(t) /\ Ev(t).eff = e
                       THEN Apply(app[t].row, Ev(t).kind) ELSE rows[e]
         /\ Crowded => Crowded'
<1>0. rows \in [EffectId -> Row] /\ order \in Seq(EffectId)
  BY Data
<1>1. CASE Insert(t)
  <2>1. \/ order' = order
        \/ order' = Append(order, Ev(t).eff) /\ Ev(t).eff \in EffectId
    BY <1>1, InsertFolds
  <2>2. Crowded => Crowded'
    <3>1. CASE order' = order
      BY <3>1 DEF Crowded
    <3>2. CASE order' = Append(order, Ev(t).eff) /\ Ev(t).eff \in EffectId
      <4>1. \A i \in DOMAIN order : i \in DOMAIN order' /\ order'[i] = order[i]
        BY <1>0, <3>2
      <4> QED
        BY <4>1 DEF Crowded
    <3> QED
      BY <2>1, <3>1, <3>2
  <2>3. UNCHANGED rows /\ ~PutRow(t)
    BY <1>1, InsertFields DEF Insert, PutRow
  <2> QED
    BY <1>1, <2>2, <2>3, InsertFolds
<1>2. CASE PutRow(t)
  <2>1. UNCHANGED <<fold, order>>
        /\ rows' = [rows EXCEPT ![Ev(t).eff] = Apply(app[t].row, Ev(t).kind)]
        /\ ~Insert(t)
    BY <1>2 DEF PutRow, Insert
  <2> QED
    BY <1>0, <1>2, <2>1 DEF Crowded
<1>3. CASE ~Insert(t) /\ ~PutRow(t)
  <2>1. UNCHANGED <<fold, order, rows>>
    BY <1>3, AppendFields
  <2> QED
    BY <1>3, <2>1 DEF Crowded
<1> QED
  BY <1>1, <1>2, <1>3

\* The events of openEffect, one after the other.
LEMMA OwnOpening ==
  ASSUME CInv, TableInv, NEW c \in Call, Recorded(c), AppendStep(c),
         OpeningOK(call[c], app[c], rows[Eff(c)], fold[Eff(c)])
  PROVE  OpeningOK(call[c], app'[c], rows'[Eff(c)], fold'[Eff(c)])
<1> DEFINE e == Eff(c)
           opened == Event("opened", e)
<1>0. /\ c \in Task /\ e \in EffectId /\ e # NoEffect
      /\ app[c].todo # <<>> /\ AppendWaits(app[c]) /\ MidOK(c)
      /\ call[c].pc \in Appends /\ call[c].eff = e
      /\ rows \in [EffectId -> Row] /\ fold \in [EffectId -> Row]
  BY Data, AppendMoves, EventsOf DEF CInv, Control, Recorded, Eff, TableInv
<1>1. ~Idle(app[c]) /\ app[c].step # "failed"
  BY <1>0 DEF Idle, AppendWaits
<1>n. /\ Note.kind = "note" /\ Note.eff = NoEffect
      /\ opened.kind = "opened" /\ opened.eff = e
  BY DEF Note, Event
<1>w. (Torn(c) <=> Writing(app[c])) /\ (Torn(c)' <=> Writing(app'[c]))
  BY DEF Torn, Writing
<1>2. CASE call[c].pc # "opening"
  BY <1>0, <1>2 DEF OpeningOK, Appends, Holds
<1>3. CASE call[c].pc = "opening"
  <2>0. SUFFICES \/ /\ rows'[e] = Absent /\ ~Idle(app'[c])
                    /\ \/ app'[c].step = "failed"
                       \/ app'[c].todo = <<Note, opened>> /\ fold'[e] = Absent
                       \/ /\ app'[c].todo = <<opened>>
                          /\ fold'[e] = IF Writing(app'[c]) THEN Opened ELSE Absent
                 \/ Idle(app'[c]) /\ rows'[e] = Opened /\ fold'[e] = Opened
    BY <1>0, <1>3 DEF OpeningOK, Holds
  <2>1. rows[e] = Absent
    BY <1>0, <1>1, <1>3 DEF OpeningOK
  <2>2. CASE app[c].todo = <<Note, opened>> /\ fold[e] = Absent
    <3>1. Ev(c) = Note /\ Tail(app[c].todo) = <<opened>>
      BY <2>2 DEF Ev
    <3>2. rows'[e] = Absent /\ fold'[e] = Absent
      BY <1>0, <1>n, <2>1, <2>2, <3>1, AppendTouches
    <3>3. \/ app'[c].step \in {"insert", "saga", "row"} /\ app'[c].todo = <<Note, opened>>
          \/ app'[c].step = "idle" /\ app'[c].todo = <<opened>>
          \/ app'[c].step = "failed"
      BY <1>0, <2>2, <3>1, AppendFields
    <3>4. CASE /\ app'[c].step \in {"insert", "saga", "row"}
               /\ app'[c].todo = <<Note, opened>>
      BY <3>2, <3>4 DEF Idle
    <3>5. CASE app'[c].step = "idle" /\ app'[c].todo = <<opened>>
      <4>1. ~Writing(app'[c]) /\ ~Idle(app'[c])
        BY <3>5 DEF Idle, Writing
      <4> QED
        BY <3>2, <3>5, <4>1
    <3>6. CASE app'[c].step = "failed"
      BY <3>2, <3>6 DEF Idle
    <3> QED
      BY <3>3, <3>4, <3>5, <3>6
  <2>3. CASE app[c].todo = <<opened>> /\ fold[e] = IF Writing(app[c]) THEN Opened ELSE Absent
    <3>1. Ev(c) = opened /\ Tail(app[c].todo) = <<>>
      BY <2>3 DEF Ev
    <3>2. \A row : Apply(row, Ev(c).kind) = Opened /\ Exists(Opened)
      BY <1>n, <3>1 DEF Apply, Exists, Opened, Absent
    <3> HIDE DEF opened
    <3>3. CASE Insert(c)
      <4>1. rows'[e] = Absent /\ fold'[e] = Opened
        BY <1>0, <1>n, <2>1, <3>1, <3>2, <3>3, AppendTouches DEF PutRow, Insert
      <4>2. app'[c].step = "saga" /\ app'[c].todo = <<opened>>
        BY <1>0, <2>3, <3>3, InsertFields
      <4> QED
        BY <4>1, <4>2 DEF Idle, Writing
    <3>4. CASE PutRow(c)
      <4>1. rows'[e] = Opened /\ Writing(app[c]) /\ ~Insert(c)
        BY <1>0, <1>n, <3>1, <3>2, <3>4, AppendTouches DEF PutRow, Writing, Insert
      <4>2. fold'[e] = Opened
        BY <1>0, <2>3, <4>1, AppendTouches
      <4>3. Idle(app'[c])
        BY <1>0, <3>1, <3>4, Data DEF Idle, PutRow, Appended, NoAppend
      <4> QED
        BY <4>1, <4>2, <4>3
    <3>5. CASE ~Insert(c) /\ ~PutRow(c)
      <4>1. rows'[e] = Absent /\ fold'[e] = fold[e]
        BY <1>0, <2>1, <3>5, AppendTouches
      <4>2. \/ ~Torn(c) /\ ~Torn(c)' /\ app'[c].step = "insert" /\ app'[c].todo = <<opened>>
            \/ Torn(c) /\ app'[c].step = "row" /\ app'[c].todo = <<opened>>
            \/ app'[c].step = "failed"
        BY <1>0, <2>3, <3>2, <3>5, AppendFields
      <4> QED
        BY <1>w, <2>3, <4>1, <4>2 DEF Idle, Writing
    <3> QED
      BY <3>3, <3>4, <3>5
  <2> QED
    BY <1>0, <1>1, <1>3, <2>2, <2>3 DEF OpeningOK
<1> QED
  BY <1>2, <1>3

\* The events of closeEffect: one is put on the log ...
LEMMA ClosingInsert ==
  ASSUME NEW r \in CallType, NEW a \in AppendType, NEW b \in AppendType, NEW f \in Row,
         r.status \in {"landed", "failed", "in_doubt"}, r.eff \in EffectId, Exists(f),
         \A i \in DOMAIN a.todo : EventOK(r, a.todo[i]),
         r.pc = "closing",
         f.comp = "unavailable" => CompFor(r.eff) = "unavailable",
         \A i \in DOMAIN a.todo :
           a.todo[i].kind = "unavailable" => CompFor(r.eff) = "unavailable",
         ClosingFold(r, a, f), a.todo # <<>>, ~Writing(a),
         b.todo = a.todo, Writing(b),
         NEW g, g = IF Head(a.todo).eff = r.eff THEN Apply(f, Head(a.todo).kind) ELSE f
  PROVE  ClosingFold(r, b, g)
<1> DEFINE n == Len(a.todo)
           ev == a.todo[1]
<1>0. /\ n \in Nat /\ n >= 1 /\ DOMAIN a.todo = 1 .. n /\ ev \in EventType
      /\ Head(a.todo) = ev /\ 1 \in DOMAIN a.todo
  BY DEF AppendType
<1>1. /\ ev.kind \in Kind
      /\ ev.eff # r.eff => ev.kind = "note"
      /\ ev.kind # "opened"
  BY <1>0 DEF EventOK, EventType
<1>k. /\ ev.kind = "note" => Apply(f, ev.kind) = f
      /\ ev.kind # "unavailable" => Apply(f, ev.kind).comp = f.comp
      /\ ev.kind = "unavailable" => Apply(f, ev.kind).comp = "unavailable"
  <2> HIDE DEF ev
  <2> QED
    BY <1>1, ApplySound
<1>f. /\ n >= 1 => a.todo[n].kind = "note"
      /\ n >= 2 => a.todo[n - 1] = Event(Closed(r.status), r.eff)
      /\ n <= 1 => f.status = r.status /\ f.sealed
      /\ f.comp # CompFor(r.eff) => \E i \in 1 .. n : a.todo[i].kind = "unavailable"
  BY DEF ClosingFold
<1>u. ev.kind = "unavailable" => CompFor(r.eff) = "unavailable"
  BY <1>0
<1>g. g = IF ev.eff = r.eff THEN Apply(f, ev.kind) ELSE f
  BY <1>0
<1> HIDE DEF n, ev
<1>2. g = IF ev.kind = "note" THEN f ELSE Apply(f, ev.kind)
  BY <1>1, <1>k, <1>g
<1>3. n <= 2 => g.status = r.status /\ g.sealed
  <2>1. CASE n = 1
    <3>1. ev.kind = "note"
      BY <1>f, <2>1 DEF ev
    <3> QED
      BY <1>f, <1>2, <2>1, <3>1
  <2>2. CASE n = 2
    <3>1. ev = Event(Closed(r.status), r.eff)
      BY <1>f, <2>2 DEF ev
    <3>2. ev.kind = Closed(r.status) /\ ev.kind # "note"
      BY <3>1, ApplyClosed DEF Event, CloseKinds
    <3> QED
      BY <1>2, <3>2, ApplyClosed
  <2> QED
    BY <1>0, <2>1, <2>2
<1>4. g.comp # CompFor(r.eff) =>
        \E i \in 1 .. n : a.todo[i].kind = "unavailable" /\ i # 1
  <2> SUFFICES ASSUME g.comp # CompFor(r.eff)
               PROVE  \E i \in 1 .. n : a.todo[i].kind = "unavailable" /\ i # 1
    OBVIOUS
  <2>1. ev.kind # "unavailable"
    BY <1>1, <1>2, <1>k, <1>u
  <2>2. f.comp # CompFor(r.eff)
    BY <1>1, <1>2, <1>k, <2>1
  <2> QED
    BY <1>f, <2>1, <2>2 DEF ev
<1> QED
  BY <1>0, <1>f, <1>3, <1>4 DEF ClosingFold, n

\* ... and then the append of it is done.
LEMMA ClosingTail ==
  ASSUME NEW r \in CallType, NEW a \in AppendType, NEW b \in AppendType, NEW f \in Row,
         ClosingFold(r, a, f), a.todo # <<>>, Writing(a),
         b.todo = Tail(a.todo), ~Writing(b)
  PROVE  ClosingFold(r, b, f)
<1> DEFINE n == Len(a.todo)
           m == Len(b.todo)
<1>0. /\ n \in Nat /\ n >= 1 /\ m = n - 1 /\ a.todo \in Seq(EventType)
      /\ \A i \in 1 .. m : b.todo[i] = a.todo[i + 1]
  BY DEF AppendType
<1> HIDE DEF m
<1>1. m >= 1 => b.todo[m].kind = "note"
  BY <1>0 DEF ClosingFold
<1>2. m >= 2 => b.todo[m - 1] = Event(Closed(r.status), r.eff)
  <2> SUFFICES ASSUME m >= 2 PROVE b.todo[m - 1] = Event(Closed(r.status), r.eff)
    OBVIOUS
  <2>1. m - 1 \in 1 .. m /\ (m - 1) + 1 = n - 1 /\ n >= 2
    BY <1>0
  <2>2. b.todo[m - 1] = a.todo[n - 1]
    BY <1>0, <2>1
  <2> QED
    BY <2>1, <2>2 DEF ClosingFold
<1>3. m <= 1 => f.status = r.status /\ f.sealed
  <2>1. n <= 1 \/ n = 2 => f.status = r.status /\ f.sealed
    BY DEF ClosingFold
  <2> HIDE DEF n
  <2> QED
    BY <1>0, <2>1
<1>4. f.comp # CompFor(r.eff) => \E i \in 1 .. m : b.todo[i].kind = "unavailable"
  <2> SUFFICES ASSUME f.comp # CompFor(r.eff)
               PROVE  \E i \in 1 .. m : b.todo[i].kind = "unavailable"
    OBVIOUS
  <2>1. PICK i \in 1 .. n : a.todo[i].kind = "unavailable" /\ i # 1
    BY DEF ClosingFold
  <2>2. i - 1 \in 1 .. m /\ (i - 1) + 1 = i
    BY <1>0, <2>1
  <2>3. b.todo[i - 1] = a.todo[i]
    BY <1>0, <2>2
  <2> QED
    BY <2>1, <2>2, <2>3
<1> QED
  BY <1>1, <1>2, <1>3, <1>4 DEF ClosingFold, m

LEMMA OwnClosing ==
  ASSUME CInv, TableInv, NEW c \in Call, Recorded(c), AppendStep(c),
         ClosingOK(call[c], app[c], rows[Eff(c)], fold[Eff(c)])
  PROVE  ClosingOK(call[c], app'[c], rows'[Eff(c)], fold'[Eff(c)])
<1> DEFINE e == Eff(c)
<1>0. /\ c \in Task /\ e \in EffectId /\ e # NoEffect
      /\ app[c].todo # <<>> /\ MidOK(c)
      /\ call[c].eff = e /\ call[c] \in CallType
      /\ rows \in [EffectId -> Row] /\ fold \in [EffectId -> Row]
      /\ app[c] \in AppendType /\ app'[c] \in AppendType
      /\ \A i \in DOMAIN app[c].todo : EventOK(call[c], app[c].todo[i])
      /\ CallOK(call[c], app[c], c \in landed)
  BY Data, AppendMoves, AppendAt DEF CInv, Control, Recorded, Eff, TableInv, CallOK
<1>1. /\ Ev(c) = app[c].todo[1] /\ 1 \in DOMAIN app[c].todo /\ Ev(c) \in EventType
      /\ Ev(c).kind \in Kind /\ Ev(c) = Head(app[c].todo)
  BY <1>0, EventsOf DEF EventType, Ev
<1>2. call[c].pc \in Ran => Exists(rows'[e]) /\ Exists(fold'[e])
  <2> SUFFICES ASSUME call[c].pc \in Ran PROVE Exists(rows'[e]) /\ Exists(fold'[e])
    OBVIOUS
  <2>1. Exists(rows[e]) /\ Exists(fold[e])
    BY DEF ClosingOK
  <2>2. Exists(fold'[e])
    BY <1>0, <2>1, AppendTouches, AppliedExists
  <2>3. PutRow(c) => Exists(Apply(app[c].row, Ev(c).kind))
    BY <1>0 DEF PutRow, MidOK, Torn
  <2> QED
    BY <1>0, <2>1, <2>2, <2>3, AppendTouches
<1>3. fold'[e].comp = "unavailable" => CompFor(e) = "unavailable"
  <2>1. Opened.comp = "available"
    BY DEF Opened, Absent
  <2>2. CASE ~(Insert(c) /\ Ev(c).eff = e)
    BY <1>0, <2>2, AppendTouches DEF ClosingOK
  <2>3. CASE Insert(c) /\ Ev(c).eff = e
    <3>1. fold'[e] = Apply(fold[e], Ev(c).kind) /\ fold[e] \in Row
      BY <1>0, <2>3, AppendTouches
    <3>2. Ev(c).kind = "unavailable" => CompFor(e) = "unavailable"
      BY <1>0, <1>1 DEF ClosingOK
    <3>3. fold[e].comp = "unavailable" => CompFor(e) = "unavailable"
      BY <1>0 DEF ClosingOK
    <3> QED
      BY <1>1, <2>1, <3>1, <3>2, <3>3, ApplySound
  <2> QED
    BY <2>2, <2>3
<1>4. \A i \in DOMAIN app'[c].todo :
        app'[c].todo[i].kind = "unavailable" => CompFor(e) = "unavailable"
  <2>1. app'[c].todo \in {app[c].todo, Tail(app[c].todo), <<>>}
    BY <1>0, AppendFields
  <2>2. \A i \in DOMAIN app'[c].todo : \E j \in DOMAIN app[c].todo : app'[c].todo[i] = app[c].todo[j]
    BY <1>0, <2>1, Remains DEF AppendType
  <2> QED
    BY <1>0, <2>2 DEF ClosingOK
<1>5. ASSUME call[c].pc = "closing", app'[c].step # "failed"
      PROVE  ClosingFold(call[c], app'[c], fold'[e])
  <2>0. /\ ClosingFold(call[c], app[c], fold[e]) /\ Exists(fold[e])
        /\ call[c].status \in {"landed", "failed", "in_doubt"}
        /\ app[c].step # "failed"
    BY <1>0, <1>5 DEF ClosingOK, Ran, CInv, Control, AppendWaits, CallOK
  <2>1. CASE Insert(c)
    <3>1. /\ ~Writing(app[c]) /\ Writing(app'[c]) /\ app'[c].todo = app[c].todo
      BY <1>0, <2>1, InsertFields DEF Torn, Writing
    <3>2. fold'[e] = IF Head(app[c].todo).eff = e
                     THEN Apply(fold[e], Head(app[c].todo).kind) ELSE fold[e]
      BY <1>0, <1>1, <2>1, AppendTouches
    <3> QED
      BY <1>0, <1>5, <2>0, <3>1, <3>2, ClosingInsert DEF ClosingOK
  <2>2. CASE ~Insert(c)
    <3>1. fold'[e] = fold[e]
      BY <1>0, <2>2, AppendTouches
    <3>2. \/ app'[c].todo = app[c].todo /\ (Writing(app'[c]) <=> Writing(app[c]))
          \/ app'[c].todo = Tail(app[c].todo) /\ Writing(app[c]) /\ ~Writing(app'[c])
      BY <1>0, <1>5, <2>2, AppendFields DEF Torn, Writing
    <3>3. CASE app'[c].todo = app[c].todo /\ (Writing(app'[c]) <=> Writing(app[c]))
      BY <2>0, <3>1, <3>3 DEF ClosingFold
    <3>4. CASE app'[c].todo = Tail(app[c].todo) /\ Writing(app[c]) /\ ~Writing(app'[c])
      BY <1>0, <2>0, <3>1, <3>4, ClosingTail
    <3> QED
      BY <3>2, <3>3, <3>4
  <2> QED
    BY <2>1, <2>2
<1> QED
  BY <1>0, <1>2, <1>3, <1>4, <1>5 DEF ClosingOK

-----------------------------------------------------------------------------
(* Appends keep what is said of an effect with one call. *)

LEMMA LandedAppend ==
  ASSUME CInv, NEW t \in Task, AppendStep(t), NEW c \in Call,
         Recorded(c), Alone(c), AgreeOK(Eff(c)),
         LandedOK(call[c], c \in landed, rows[Eff(c)], fold[Eff(c)], past.replay)
  PROVE  LandedOK(call[c], c \in landed, rows'[Eff(c)], fold'[Eff(c)], past.replay)
<1> DEFINE e == Eff(c)
           kind == Ev(t).kind
<1>0. /\ e \in EffectId /\ c \in Task /\ app[t].todo # <<>>
      /\ rows[e] \in Row /\ fold[e] \in Row
      /\ CallOK(call[c], app[c], c \in landed)
  BY Data, AppendMoves DEF CInv, Control
<1>1. CASE Ev(t).eff # e
  BY <1>0, <1>1, AppendTouches
<1>2. CASE Ev(t).eff = e
  <2>1. kind \in Kind
    BY <1>0, EventsOf DEF EventType
  <2>2. c \in landed /\ ~call[c].again => kind # "closed_failed"
    <3>1. CASE t = c
      <4>1. EventOK(call[c], Ev(c))
        BY <1>0, <3>1, EventsOf
      <4>2. kind = "closed_failed" => call[c].pc = "closing" /\ Closed(call[c].status) = "closed_failed"
        BY <3>1, <4>1 DEF EventOK, CloseKinds
      <4> QED
        BY <1>0, <4>2 DEF CallOK, Closed
    <3>2. CASE t = Resumer
      BY <1>0, <3>2, EventsOf
    <3> QED
      BY <1>0, <1>2, <3>1, <3>2, AppendsOf
  <2>3. fold'[e] \in {fold[e], Apply(fold[e], kind)}
    BY <1>0, AppendTouches
  <2>4. rows'[e] \in {rows[e], Apply(rows[e], kind)}
    <3>1. PutRow(t) => app[t].row = rows[e]
      BY <1>2 DEF PutRow, AgreeOK, Mid, Torn
    <3> QED
      BY <1>0, <3>1, AppendTouches
  <2> HIDE DEF e, kind
  <2>5. LandedOK(call[c], c \in landed, rows[e], fold[e], past.replay)
    BY DEF e
  <2>6. LandedOK(call[c], c \in landed, rows'[e], fold'[e], past.replay)
    BY <1>0, <2>1, <2>2, <2>3, <2>4, <2>5, ApplySound DEF LandedOK
  <2> QED
    BY <2>6 DEF e
<1> QED
  BY <1>1, <1>2

\* The second effect of a seq gets no row.
LEMMA CollidedAgrees ==
  ASSUME CInv, TableInv, NEW t \in Task, SeqCollides(t), NEW e \in EffectId, Ev(t).eff = e
  PROVE  ~Exists(rows[e]) /\ Crowded
<1>1. PICK f \in EffectId \ {e} : f[1] = e[1] /\ Exists(rows[f])
  BY DEF SeqCollides, SeqTaken
<1>2. RowOK(e) /\ RowOK(f) /\ LogOK(e) /\ LogOK(f) /\ MidOK(t)
  BY DEF TableInv
<1>3. ~Exists(rows[e]) /\ OnLog(f)
  BY <1>1, <1>2 DEF RowOK
<1>4. OnLog(e)
  <2>1. Torn(t) /\ app[t].step = "row" /\ Ev(t).eff # NoEffect
    BY Data DEF SeqCollides, Torn
  <2>2. app[t].row \in Row
    BY Data DEF AppendType
  <2>3. Ev(t).kind = "opened" \/ Exists(app[t].row)
    BY <1>2, <2>1, <2>2, AppliedExists DEF MidOK
  <2> QED
    BY <1>2, <1>3, <2>1, <2>3 DEF MidOK
<1> QED
  BY <1>1, <1>2, <1>3, <1>4, Crowds

LEMMA AgreeAppend ==
  ASSUME CInv, TableInv, NEW t \in Task, AppendStep(t), NEW c \in Call,
         Recorded(c), Alone(c), AgreeOK(Eff(c))
  PROVE  AgreeOK(Eff(c))'
<1> DEFINE e == Eff(c)
           kind == Ev(t).kind
<1>0. /\ e \in EffectId /\ e # NoEffect /\ app[t].todo # <<>>
      /\ rows[e] \in Row /\ fold[e] \in Row /\ app[t].row \in Row
      /\ Eff(c)' = e /\ past'.marked = past.marked
      /\ \A u \in Task : u # t => app'[u] = app[u]
      /\ past.torn => past'.torn
  BY Data, AppendMoves, AppendAt, AppendFields DEF Recorded, AppendType
<1>1. \A u \in Task : u # t => (Mid(u, e)' <=> Mid(u, e)) /\ Ev(u)' = Ev(u)
  BY <1>0 DEF Mid, Torn, Ev
<1>2. Ev(t).eff = e => \A u \in Task : Mid(u, e) => u = t
  BY <1>0, OneMid
<1>3. Torn(t)' => Ev(t)' = Ev(t)
  BY AppendFields DEF Torn
<1>4. /\ \A u \in Task : Mid(u, e) => app[u].row = rows[e]
      /\ ~past.torn /\ ~past.marked =>
           /\ (\A u \in Task : ~Mid(u, e)) => Agrees(rows[e], fold[e], Crowded)
           /\ \A u \in Task : Mid(u, e) => Agrees(Apply(rows[e], Ev(u).kind), fold[e], Crowded)
  BY DEF AgreeOK
<1>5. CASE Ev(t).eff # e
  <2>1. rows'[e] = rows[e] /\ fold'[e] = fold[e] /\ (Crowded => Crowded')
    BY <1>0, <1>5, AppendTouches
  <2>2. ~Mid(t, e) /\ ~Mid(t, e)'
    BY <1>0, <1>3, <1>5 DEF Mid
  <2>3. \A row : Agrees(row, fold[e], Crowded) => Agrees(row, fold'[e], Crowded')
    BY <2>1 DEF Agrees, Exists
  <2>4. \A u \in Task : Mid(u, e)' => app'[u].row = rows'[e]
    BY <1>0, <1>1, <1>4, <2>1, <2>2
  <2>5. ~past'.torn /\ ~past'.marked =>
          /\ (\A u \in Task : ~Mid(u, e)') => Agrees(rows'[e], fold'[e], Crowded')
          /\ \A u \in Task : Mid(u, e)' => Agrees(Apply(rows'[e], Ev(u)'.kind), fold'[e], Crowded')
    BY <1>0, <1>1, <1>4, <2>1, <2>2, <2>3 DEF Agrees
  <2> QED
    BY <1>0, <2>4, <2>5 DEF AgreeOK
<1>6. CASE Ev(t).eff = e
  <2>1. \A u \in Task : Mid(u, e) \/ Mid(u, e)' => u = t
    BY <1>1, <1>2, <1>6
  <2> SUFFICES
        /\ Mid(t, e)' => app'[t].row = rows'[e]
        /\ ~past'.torn /\ ~past'.marked =>
             /\ ~Mid(t, e)' => Agrees(rows'[e], fold'[e], Crowded')
             /\ Mid(t, e)' => Agrees(Apply(rows'[e], kind), fold'[e], Crowded')
    BY <1>0, <1>3, <2>1 DEF AgreeOK, Mid
  <2>2. /\ Mid(t, e) <=> Torn(t)
        /\ Mid(t, e)' <=> Torn(t)'
    BY <1>0, <1>3, <1>6 DEF Mid
  <2>3. ~past'.torn /\ ~past'.marked =>
          /\ ~Torn(t) => Agrees(rows[e], fold[e], Crowded)
          /\ Torn(t) => Agrees(Apply(rows[e], kind), fold[e], Crowded)
    BY <1>0, <1>4, <2>1, <2>2
  <2> HIDE DEF e, kind
  <2>4. CASE Insert(t)
    <3>1. /\ ~Torn(t) /\ Torn(t)' /\ app'[t].row = rows[e] /\ rows' = rows
          /\ fold'[e] = Apply(fold[e], kind) /\ (Crowded => Crowded')
      BY <1>0, <1>6, <2>4, InsertFields, AppendTouches DEF Torn, kind
    <3>2. Agrees(rows[e], fold[e], Crowded) => Agrees(Apply(rows[e], kind), fold'[e], Crowded')
      <4>1. CASE kind = "opened"
        <5>1. Apply(rows[e], kind) = Apply(fold[e], kind)
          BY <4>1 DEF Apply
        <5> QED
          BY <3>1, <5>1 DEF Agrees
      <4>2. CASE kind # "opened"
        BY <1>0, <3>1, <4>2, AppliedExists DEF Agrees
      <4> QED
        BY <4>1, <4>2
    <3> QED
      BY <2>2, <2>3, <3>1, <3>2
  <2>5. CASE PutRow(t)
    <3>1. /\ Torn(t) /\ ~Torn(t)' /\ fold' = fold /\ order' = order
          /\ rows'[e] = Apply(rows[e], kind)
      <4>1. Torn(t) /\ fold' = fold /\ order' = order
        BY <2>5 DEF PutRow, Torn
      <4>2. app[t].row = rows[e]
        BY <1>4, <2>2, <4>1 DEF e
      <4>3. ~Torn(t)'
        BY Data, <2>5 DEF PutRow, Appended, NoAppend, Torn
      <4> QED
        BY <1>0, <1>6, <2>5, <4>1, <4>2, <4>3, AppendTouches DEF kind
    <3>2. \A row : Agrees(row, fold[e], Crowded) => Agrees(row, fold'[e], Crowded')
      BY <3>1 DEF Agrees, Exists, Crowded
    <3> QED
      BY <2>2, <2>3, <3>1, <3>2 DEF Agrees
  <2>6. CASE SeqCollides(t)
    <3>1. ~Exists(rows[e]) /\ Crowded /\ UNCHANGED <<fold, order, rows>>
      BY <1>0, <1>6, <2>6, CollidedAgrees DEF SeqCollides, tables
    <3>2. ~Torn(t)'
      BY Data, <2>6 DEF SeqCollides, Failed, NoAppend, Torn
    <3> QED
      BY <2>2, <3>1, <3>2 DEF Agrees, Crowded, Exists
  <2>7. CASE ~Insert(t) /\ ~PutRow(t) /\ ~SeqCollides(t)
    <3>1. UNCHANGED <<fold, order, rows>>
      BY <2>7, AppendFields
    <3>2. \A row : Agrees(row, fold[e], Crowded) => Agrees(row, fold'[e], Crowded')
      BY <3>1 DEF Agrees, Exists, Crowded
    <3>3. \/ ~Torn(t) /\ ~Torn(t)'
          \/ Torn(t) /\ Torn(t)' /\ app'[t].row = app[t].row
          \/ Torn(t) /\ ~Torn(t)' /\ ~Exists(Apply(app[t].row, kind))
          \/ Torn(t) /\ ~Torn(t)' /\ past'.torn
      BY <2>7, AppendFields DEF Torn, kind
    <3>4. Torn(t) => app[t].row = rows[e]
      BY <1>4, <2>2 DEF e
    <3>5. ~Exists(Apply(rows[e], kind)) => Apply(rows[e], kind) = rows[e]
      BY <1>0, AppliedExists
    <3> QED
      BY <2>2, <2>3, <3>1, <3>2, <3>3, <3>4, <3>5 DEF Agrees
  <2> QED
    BY <2>4, <2>5, <2>6, <2>7
<1> QED
  BY <1>5, <1>6

LEMMA AloneAppend ==
  ASSUME CInv, TableInv, NEW t \in Task, AppendStep(t), NEW c \in Call,
         Recorded(c), Alone(c), FateOK(c)
  PROVE  FateOK(c)'
<1> DEFINE e == Eff(c)
<1>0. /\ e \in EffectId /\ c \in Task /\ app[t].todo # <<>> /\ Eff(c)' = e
      /\ call' = call /\ landed' = landed /\ past'.replay = past.replay
      /\ \A u \in Task : u # t => app'[u] = app[u]
      /\ call[c].eff = e /\ fold[e] \in Row
  BY Data, AppendMoves, AppendAt DEF Eff
<1>1. LandedOK(call[c], c \in landed, rows'[e], fold'[e], past.replay) /\ AgreeOK(e)'
  BY <1>0, LandedAppend, AgreeAppend DEF FateOK
<1>2. /\ OpeningOK(call[c], app'[c], rows'[e], fold'[e])
      /\ ClosingOK(call[c], app'[c], rows'[e], fold'[e])
  <2>1. CASE t = c
    BY <2>1, OwnOpening, OwnClosing DEF FateOK
  <2>2. CASE t # c /\ Ev(t).eff # e
    BY <1>0, <2>2, AppendTouches DEF FateOK
  <2>3. CASE t # c /\ Ev(t).eff = e
    <3>1. t = Resumer /\ call[c].pc \in Rests /\ Idle(app[c]) /\ app'[c] = app[c]
      BY <1>0, <2>3, AppendsOf, RestIsDone
    <3>2. Ev(t).kind \in {"note", "in_doubt"}
      BY <1>0, <3>1, EventsOf
    <3>3. fold'[e].comp = fold[e].comp
      BY <1>0, <3>2, AppendTouches, ApplySound DEF Kind
    <3>4. OpeningOK(call[c], app'[c], rows'[e], fold'[e])
      BY <3>1 DEF OpeningOK, Rests, Holds
    <3>5. ClosingOK(call[c], app[c], rows[e], fold[e])
      BY DEF FateOK
    <3>6. ClosingOK(call[c], app'[c], rows'[e], fold'[e])
      BY <3>1, <3>3, <3>5 DEF ClosingOK, Rests, Ran
    <3> QED
      BY <3>4, <3>6
  <2> QED
    BY <2>1, <2>2, <2>3
<1> QED
  BY <1>0, <1>1, <1>2 DEF FateOK

-----------------------------------------------------------------------------
(* Steps of calls. *)

\* What is said of the rows stays while nobody touches the row and the events.
LEMMA AgreeKept ==
  ASSUME NEW c \in Call, AgreeOK(Eff(c)), Eff(c)' = Eff(c),
         \A u \in Task : (Torn(u)' <=> Torn(u)) /\ (Torn(u) => app'[u] = app[u]),
         rows'[Eff(c)] = rows[Eff(c)], fold'[Eff(c)] = fold[Eff(c)], Crowded' <=> Crowded,
         past'.torn <=> past.torn, past.marked => past'.marked
  PROVE  AgreeOK(Eff(c))'
<1>1. \A u \in Task : /\ Mid(u, Eff(c))' <=> Mid(u, Eff(c))
                      /\ Mid(u, Eff(c)) => Ev(u)' = Ev(u) /\ app'[u] = app[u]
  BY DEF Mid, Ev
<1> QED
  BY <1>1 DEF AgreeOK, Agrees

LEMMA AloneOther ==
  ASSUME CInv, NEW c \in Call, Recorded(c), Alone(c), FateOK(c),
         NEW d \in Call, d # c, EffectStep(d)
  PROVE  FateOK(c)'
<1> DEFINE e == Eff(c)
<1>0. e \in EffectId /\ c \in Task /\ d \in Task /\ Eff(d) # e
  BY Data DEF Alone
<1>1. call'[c] = call[c] /\ Eff(c)' = e
  BY EffectKept DEF Eff
<1>2. app'[c] = app[c]
  BY <1>0, CallerSettled, Data DEF Appending
<1>3. /\ rows'[e] = rows[e] /\ fold' = fold /\ order' = order
      /\ c \in landed' <=> c \in landed
      /\ past'.torn = past.torn /\ past'.marked = past.marked /\ past'.replay = past.replay
  BY <1>0, EffectWrites
<1>4. AgreeOK(e)'
  <2>1. Crowded' <=> Crowded
    BY <1>3 DEF Crowded
  <2>2. \A u \in Task : (Torn(u)' <=> Torn(u)) /\ (Torn(u) => app'[u] = app[u])
    BY <1>0, CallerTorn
  <2>3. AgreeOK(e)
    BY DEF FateOK
  <2> QED
    BY <1>1, <1>3, <2>1, <2>2, <2>3, AgreeKept
<1> QED
  BY <1>1, <1>2, <1>3, <1>4 DEF FateOK

\* Writing back a row that has been read writes nothing new.
LEMMA HeldIsSame ==
  ASSUME CInv, NEW c \in Call, OpeningOK(call[c], app[c], rows[Eff(c)], fold[Eff(c)]),
         call[c].pc \in Holds, PutHeld(c)
  PROVE  rows' = rows
<1>1. rows \in [EffectId -> Row] /\ call[c].row = rows[Eff(c)]
  BY Data DEF OpeningOK
<1>2. rows = [rows EXCEPT ![Eff(c)] = rows[Eff(c)]]
  BY <1>1
<1> QED
  BY <1>1, <1>2 DEF PutHeld

LEMMA TwoMore ==
  ASSUME NEW T, NEW s \in Seq(T), NEW z \in Seq(T), Len(z) = 2
  PROVE  /\ Len(s \o z) = Len(s) + 2 /\ DOMAIN (s \o z) = 1 .. Len(s \o z)
         /\ \A i \in 1 .. Len(s) : (s \o z)[i] = s[i]
         /\ (s \o z)[Len(s) + 1] = z[1] /\ (s \o z)[Len(s) + 2] = z[2]
<1>1. Len(s) \in Nat /\ s \o z \in Seq(T)
  OBVIOUS
<1>2. /\ Len(s \o z) = Len(s) + 2
      /\ \A i \in 1 .. Len(s) + 2 :
           (s \o z)[i] = IF i <= Len(s) THEN s[i] ELSE z[i - Len(s)]
  <2>1. /\ Len(s \o z) = Len(s) + Len(z)
        /\ \A i \in 1 .. Len(s) + Len(z) :
             (s \o z)[i] = IF i <= Len(s) THEN s[i] ELSE z[i - Len(s)]
    BY ConcatProperties, Zenon
  <2> QED
    BY <2>1, Zenon
<1>3. /\ Len(s) + 1 \in 1 .. Len(s) + 2 /\ Len(s) + 2 \in 1 .. Len(s) + 2
      /\ Len(s) + 1 - Len(s) = 1 /\ Len(s) + 2 - Len(s) = 2
      /\ ~(Len(s) + 1 <= Len(s)) /\ ~(Len(s) + 2 <= Len(s))
  BY <1>1
<1>4. \A i \in 1 .. Len(s) : i \in 1 .. Len(s) + 2 /\ i <= Len(s)
  BY <1>1
<1>5. DOMAIN (s \o z) = 1 .. Len(s \o z)
  BY <1>1
<1>6. \A i \in 1 .. Len(s) : (s \o z)[i] = s[i]
  BY <1>2, <1>4
<1> QED
  BY <1>2, <1>3, <1>5, <1>6

\* The events of closeEffect before the first of them is appended.
LEMMA CloseTodo ==
  ASSUME NEW r \in CallType, r.eff \in EffectId, NEW a, ~Writing(a),
         r.status \in {"landed", "failed", "in_doubt"},
         a.todo = CloseEvents(r.eff, r.status), NEW f \in Row,
         f.comp = "unavailable" => CompFor(r.eff) = "unavailable"
  PROVE  /\ ClosingFold(r, a, f)
         /\ \A i \in DOMAIN a.todo :
              a.todo[i].kind = "unavailable" => CompFor(r.eff) = "unavailable"
<1> DEFINE e == r.eff
           closed == Event(Closed(r.status), e)
           doubt == Event("in_doubt", e)
           unav == Event("unavailable", e)
           note == Event("note", e)
           X == IF r.status = "in_doubt" THEN <<doubt>> ELSE <<>>
           Y == IF CompFor(e) = "unavailable" THEN <<unav>> ELSE <<>>
           Z == <<closed, note>>
           T == {closed, doubt, unav, note}
           S == {closed, doubt, note}
<1>1. a.todo = (X \o Y) \o Z
  BY DEF CloseEvents, SideEvents
<1>2. /\ note.kind = "note" /\ unav.kind = "unavailable" /\ doubt.kind = "in_doubt"
      /\ closed.kind # "unavailable"
  BY DEF Event, Closed
<1>3. f.comp # CompFor(e) => CompFor(e) = "unavailable"
  BY DEF Row, CompFor
<1>c. closed = Event(Closed(r.status), r.eff)
  OBVIOUS
<1> HIDE DEF closed, doubt, unav, note
<1>4. /\ X \in Seq(T) /\ Y \in Seq(T) /\ Z \in Seq(T)
      /\ X \in Seq(S) /\ Z \in Seq(S)
      /\ Len(Z) = 2 /\ Z[1] = closed /\ Z[2] = note
  <2>0. /\ closed \in T /\ doubt \in T /\ unav \in T /\ note \in T
        /\ closed \in S /\ doubt \in S /\ note \in S
    OBVIOUS
  <2>1. X \in Seq(T) /\ Y \in Seq(T) /\ Z \in Seq(T)
    <3> HIDE DEF T, S
    <3> QED
      BY <2>0
  <2>2. X \in Seq(S) /\ Z \in Seq(S)
    <3> HIDE DEF T, S
    <3> QED
      BY <2>0
  <2>3. Len(Z) = 2 /\ Z[1] = closed /\ Z[2] = note
    OBVIOUS
  <2> QED
    BY <2>1, <2>2, <2>3
<1>5. CompFor(e) = "unavailable" => Y = <<unav>> /\ Len(Y) = 1 /\ Y[1] = unav
  OBVIOUS
<1>6. CompFor(e) # "unavailable" => Y \in Seq(S)
  OBVIOUS
<1>s. \A ev \in S : ev.kind # "unavailable"
  BY <1>2
<1> HIDE DEF X, Y, Z, T, S
<1> DEFINE P == X \o Y
           n == Len(a.todo)
<1>7. /\ P \in Seq(T) /\ Len(P) = Len(X) + Len(Y) /\ Len(P) \in Nat /\ Len(X) \in Nat
      /\ \A i \in 1 .. Len(Y) : P[Len(X) + i] = Y[i]
  BY <1>4
<1>8. /\ n = Len(P) + 2 /\ DOMAIN a.todo = 1 .. n
      /\ \A i \in 1 .. Len(P) : a.todo[i] = P[i]
      /\ a.todo[Len(P) + 1] = closed /\ a.todo[Len(P) + 2] = note
  <2> HIDE DEF P
  <2>1. /\ Len(P \o Z) = Len(P) + 2 /\ DOMAIN (P \o Z) = 1 .. Len(P \o Z)
        /\ \A i \in 1 .. Len(P) : (P \o Z)[i] = P[i]
        /\ (P \o Z)[Len(P) + 1] = Z[1] /\ (P \o Z)[Len(P) + 2] = Z[2]
    BY <1>4, <1>7, TwoMore
  <2>2. a.todo = P \o Z
    BY <1>1 DEF P
  <2> QED
    BY <1>4, <2>1, <2>2
<1>9. CompFor(e) = "unavailable" => \E i \in 1 .. n : a.todo[i].kind = "unavailable"
  <2> SUFFICES ASSUME CompFor(e) = "unavailable"
               PROVE  \E i \in 1 .. n : a.todo[i].kind = "unavailable"
    OBVIOUS
  <2>1. /\ Len(X) + 1 \in 1 .. Len(P) /\ P[Len(X) + 1] = unav
    <3> HIDE DEF P
    <3>1. Len(Y) = 1 /\ Y[1] = unav /\ 1 \in 1 .. 1
      BY <1>5
    <3> QED
      BY <1>7, <3>1
  <2> HIDE DEF P, n
  <2> QED
    BY <1>2, <1>7, <1>8, <2>1
<1>10. CompFor(e) # "unavailable" => \A i \in DOMAIN a.todo : a.todo[i].kind # "unavailable"
  <2> SUFFICES ASSUME CompFor(e) # "unavailable"
               PROVE  \A i \in DOMAIN a.todo : a.todo[i].kind # "unavailable"
    OBVIOUS
  <2>1. (X \o Y) \o Z \in Seq(S)
    BY <1>4, <1>6
  <2> QED
    BY <1>1, <1>s, <2>1
<1> HIDE DEF P, n
<1>11. n \in Nat /\ n >= 2 /\ n - 1 = Len(P) + 1
  BY <1>7, <1>8
<1>12. a.todo[n].kind = "note" /\ a.todo[n - 1] = closed
  BY <1>2, <1>8, <1>11
<1> QED
  BY <1>3, <1>c, <1>9, <1>10, <1>11, <1>12 DEF ClosingFold, n

\* While a call takes a step, no append is half way on its effect.
LEMMA NobodyMid ==
  ASSUME CInv, NEW c \in Call, Recorded(c), Alone(c), EffectStep(c)
  PROVE  \A u \in Task : ~Mid(u, Eff(c))
<1>0. c \in Task /\ CallOK(call[c], app[c], c \in landed) /\ ResumeOK(resume, app[Resumer])
  BY Data DEF CInv, Control
<1>d. call[c].pc \notin Appends => ~Torn(c)
  BY <1>0 DEF CallOK, Torn
<1>s. Settled(c) \/ Done(c) \/ Threw(c) => ~Torn(c)
  BY DEF Settled, Done, Threw, Torn
<1>1. ~Torn(c)
  <2>1. CASE \E i \in Intent :
               \/ \E pc \in {"bypass", "observe"} : OpenUnrecorded(c, i, pc)
               \/ Link(c, i)
               \/ Open(c, i)
    <3>1. call[c].pc = "idle"
      BY <2>1 DEF OpenUnrecorded, Link, Open, MayBegin, At
    <3> QED
      BY <1>d, <3>1 DEF Appends
  <2>2. CASE \/ Unrecorded(c) \/ NotLogged(c) \/ Doubted(c) \/ Enrich(c)
             \/ Degrade(c) \/ Degraded(c) \/ Seal(c) \/ Reclassified(c)
    BY <1>s, <2>2 DEF Unrecorded, NotLogged, Doubted, Enrich, Degrade, Degraded, Seal,
       Reclassified
  <2>3. CASE \/ Enriched(c) \/ Block(c) \/ Rewrite(c) \/ OffPath(c) \/ RaiseTier(c)
             \/ \E reclassified \in BOOLEAN : Admit(c, reclassified)
             \/ \E outcome \in {"ok", "refused", "lost"}, lands, thrown \in BOOLEAN :
                  Run(c, outcome, lands, thrown)
             \/ CloseUnrecorded(c) \/ Close(c)
    <3>1. call[c].pc \in {"enriched", "policy", "rewrite", "offpath", "raise", "run", "close"}
      BY <2>3 DEF Enriched, Block, Rewrite, OffPath, RaiseTier, Admit, Run, CloseUnrecorded,
         Close, At
    <3> QED
      BY <1>d, <3>1 DEF Appends
  <2> QED
    BY <2>1, <2>2, <2>3 DEF EffectStep
<1>2. ~Torn(Resumer)
  <2>1. resume.pc \in {"idle", "done"}
    BY EffectWrites, Data DEF CInv, Control, Exclusive, ResumeType
  <2> QED
    BY <1>0, <2>1 DEF ResumeOK, Torn
<1> QED
  BY <1>1, <1>2, MidWho DEF Mid

\* A call that is over, or waits for its classifier.
LEMMA LeftBehind ==
  ASSUME NEW r \in CallType, NEW q \in CallType, NEW a, a.todo = <<>>,
         q.pc \in {"refused", "ended", "offpath", "dead"}, q.eff = r.eff,
         NEW b, NEW row0, NEW row \in Row, NEW f \in Row, ClosingOK(r, b, row0, f),
         q.pc = "offpath" => Exists(row) /\ Exists(f)
  PROVE  OpeningOK(q, a, row, f) /\ ClosingOK(q, a, row, f)
BY DEF OpeningOK, ClosingOK, Holds, Ran

\* A call that closes once more.
LEMMA ClosesAgain ==
  ASSUME NEW r \in CallType, NEW q \in CallType, NEW a, a.todo = <<>>,
         q.pc = "close", q.again, q.eff = r.eff, r.pc \in {"closing", "rewrite"},
         NEW b, NEW row, NEW f, ClosingOK(r, b, row, f)
  PROVE  OpeningOK(q, a, row, f) /\ ClosingOK(q, a, row, f)
BY DEF OpeningOK, ClosingOK, Holds, Ran

\* closeEffect throws.
LEMMA ThrowsOK ==
  ASSUME CInv, NEW c \in Call, Recorded(c), FateOK(c), call[c].pc \in {"closing", "rewrite"},
         NEW status \in {"failed", "in_doubt"}, CloseThrows(c, status), Done(c),
         UNCHANGED <<app, rows, landed>>
  PROVE  /\ OpeningOK(call'[c], app'[c], rows'[Eff(c)], fold[Eff(c)])
         /\ ClosingOK(call'[c], app'[c], rows'[Eff(c)], fold[Eff(c)])
         /\ LandedOK(call'[c], c \in landed', rows'[Eff(c)], fold[Eff(c)], past.replay)
<1> DEFINE e == Eff(c)
<1>0. /\ c \in Task /\ e \in EffectId /\ call \in [Call -> CallType]
      /\ rows[e] \in Row /\ fold[e] \in Row /\ call[c].eff = e /\ app'[c].todo = <<>>
      /\ ClosingOK(call[c], app[c], rows[e], fold[e])
      /\ LandedOK(call[c], c \in landed, rows[e], fold[e], past.replay)
  BY Data DEF Eff, Done, FateOK
<1>1. CASE Leave(c, "ended")
  <2>1. /\ call'[c] \in CallType /\ call'[c].pc = "ended" /\ call'[c].eff = e
        /\ call'[c].again = call[c].again
    BY <1>0, <1>1, LeavingIs DEF Leave
  <2>2. LandedOK(call'[c], c \in landed', rows'[e], fold[e], past.replay)
    BY <1>0, <2>1 DEF LandedOK
  <2> QED
    BY <1>0, <2>1, <2>2, LeftBehind
<1>2. CASE ~Leave(c, "ended")
  <2>1. call' = [call EXCEPT ![c].pc = "close", ![c].again = TRUE, ![c].status = status]
    BY <1>2 DEF CloseThrows
  <2>2. /\ call'[c] \in CallType /\ call'[c].pc = "close" /\ call'[c].eff = e
        /\ call'[c].again
    BY <1>0, <2>1 DEF CallType, Status
  <2>3. LandedOK(call'[c], c \in landed', rows'[e], fold[e], past.replay)
    BY <1>0, <2>2 DEF LandedOK
  <2> QED
    BY <1>0, <2>2, <2>3, ClosesAgain
<1> QED
  BY <1>1, <1>2

\* The steps of the call up to its run ...
LEMMA BeforeRun ==
  ASSUME CInv, NEW c \in Call, Recorded(c), FateOK(c),
         \/ NotLogged(c) \/ Doubted(c) \/ Enrich(c) \/ Enriched(c) \/ Block(c)
         \/ \E reclassified \in BOOLEAN : Admit(c, reclassified)
         \/ \E outcome \in {"ok", "refused", "lost"}, lands, thrown \in BOOLEAN :
              Run(c, outcome, lands, thrown)
  PROVE  /\ OpeningOK(call'[c], app'[c], rows'[Eff(c)], fold[Eff(c)])
         /\ ClosingOK(call'[c], app'[c], rows'[Eff(c)], fold[Eff(c)])
         /\ LandedOK(call'[c], c \in landed', rows'[Eff(c)], fold[Eff(c)], past.replay)
         /\ UNCHANGED rows
<1> DEFINE e == Eff(c)
<1>0. /\ c \in Task /\ e \in EffectId /\ call \in [Call -> CallType]
      /\ app \in [Task -> AppendType] /\ call[c] \in CallType
      /\ rows[e] \in Row /\ fold[e] \in Row /\ call[c].eff = e
      /\ CallOK(call[c], app[c], c \in landed)
      /\ OpeningOK(call[c], app[c], rows[e], fold[e])
      /\ ClosingOK(call[c], app[c], rows[e], fold[e])
      /\ LandedOK(call[c], c \in landed, rows[e], fold[e], past.replay)
  BY Data DEF Eff, FateOK, CInv, Control
<1>d. Done(c) <=> Idle(app[c])
  BY DEF Done, Idle
<1>x. Exists(Opened) /\ Opened.status = "opened" /\ Opened.comp = "available" /\ ~Opened.sealed
  BY DEF Exists, Opened, Absent
<1>r. ASSUME Leave(c, "refused"), app'[c].todo = <<>>, UNCHANGED <<rows, landed>>
      PROVE  /\ OpeningOK(call'[c], app'[c], rows'[e], fold[e])
             /\ ClosingOK(call'[c], app'[c], rows'[e], fold[e])
             /\ LandedOK(call'[c], c \in landed', rows'[e], fold[e], past.replay)
  <2>1. /\ call'[c] \in CallType /\ call'[c].pc = "refused" /\ call'[c].eff = e
        /\ call'[c].again = call[c].again
    BY <1>0, <1>r, LeavingIs DEF Leave
  <2>2. LandedOK(call'[c], c \in landed', rows'[e], fold[e], past.replay)
    BY <1>0, <1>r, <2>1 DEF LandedOK
  <2> QED
    BY <1>0, <1>r, <2>1, <2>2, LeftBehind
<1>1. CASE NotLogged(c)
  <2>1. call[c].pc = "opening" /\ ~Idle(app[c]) /\ UNCHANGED <<rows, landed>>
    BY <1>1 DEF NotLogged, At, Threw, Idle, tables
  <2>2. ~Exists(rows[e])
    BY <1>0, <2>1 DEF OpeningOK, Exists, Absent
  <2>3. Appending(c, <<>>) /\ Leave(c, "refused")
    BY <1>1, <2>2 DEF NotLogged
  <2>4. app'[c].todo = <<>>
    BY <1>0, <2>3 DEF Appending, NoAppend
  <2> QED
    BY <1>r, <2>1, <2>3, <2>4
<1>2. CASE Doubted(c)
  BY <1>0, <1>2 DEF Doubted, At, OpeningOK
<1>3. CASE Enrich(c)
  <2>1. /\ UNCHANGED <<app, rows, landed>> /\ call[c].pc = "opening" /\ Idle(app[c])
        /\ call'[c].pc = "enriched" /\ call'[c].eff = e /\ call'[c].row = rows[e]
        /\ call'[c].again = call[c].again
    BY <1>0, <1>3, <1>d DEF Enrich, At, CallType, tables
  <2>2. rows[e] = Opened /\ fold[e] = Opened
    BY <1>0, <2>1 DEF OpeningOK
  <2> QED
    BY <1>0, <1>x, <2>1, <2>2 DEF OpeningOK, ClosingOK, LandedOK, Idle, Ran
<1>4. CASE Enriched(c)
  <2>1. UNCHANGED <<app, landed>> /\ call[c].pc = "enriched" /\ app[c].todo = <<>>
    BY <1>0, <1>4 DEF Enriched, At, CallOK, Appends
  <2>2. rows' = rows
    BY <1>0, <1>4, <2>1, HeldIsSame DEF Enriched, Holds
  <2>3. CASE Goto(c, "policy")
    <3>1. /\ call'[c].pc = "policy" /\ call'[c].eff = e /\ call'[c].row = call[c].row
          /\ call'[c].again = call[c].again
      BY <1>0, <2>3 DEF Goto, CallType
    <3>2. rows[e] = Opened /\ fold[e] = Opened /\ call[c].row = rows[e]
      BY <1>0, <2>1 DEF OpeningOK, Holds
    <3> QED
      BY <1>0, <1>x, <2>1, <2>2, <3>1, <3>2 DEF OpeningOK, ClosingOK, LandedOK, Ran
  <2> QED
    BY <1>4, <1>r, <2>1, <2>2, <2>3 DEF Enriched
<1>5. CASE Block(c)
  <2>1. UNCHANGED <<app, rows, landed>> /\ app[c].todo = <<>> /\ Leave(c, "refused")
    BY <1>0, <1>5 DEF Block, At, CallOK, Appends, tables
  <2> QED
    BY <1>r, <2>1
<1>6. ASSUME NEW reclassified \in BOOLEAN, Admit(c, reclassified)
      PROVE  /\ OpeningOK(call'[c], app'[c], rows'[e], fold[e])
             /\ ClosingOK(call'[c], app'[c], rows'[e], fold[e])
             /\ LandedOK(call'[c], c \in landed', rows'[e], fold[e], past.replay)
             /\ UNCHANGED rows
  <2>1. UNCHANGED <<app, landed>> /\ call[c].pc = "policy" /\ app[c].todo = <<>>
        /\ (PutHeld(c) \/ UNCHANGED rows)
        /\ call' = [call EXCEPT ![c].pc = "run", ![c].row = Absent]
    BY <1>0, <1>6 DEF Admit, At, CallOK, Appends
  <2>2. rows' = rows
    BY <1>0, <2>1, HeldIsSame DEF Holds
  <2>3. call'[c].pc = "run" /\ call'[c].eff = e /\ call'[c].again = call[c].again
    BY <1>0, <2>1 DEF CallType
  <2>4. rows[e] = Opened /\ fold[e] = Opened
    BY <1>0, <2>1 DEF OpeningOK
  <2> QED
    BY <1>0, <1>x, <2>1, <2>2, <2>3, <2>4 DEF OpeningOK, ClosingOK, LandedOK, Ran, Holds
<1>7. ASSUME NEW outcome \in {"ok", "refused", "lost"}, NEW lands \in BOOLEAN,
             NEW thrown \in BOOLEAN, Run(c, outcome, lands, thrown)
      PROVE  /\ OpeningOK(call'[c], app'[c], rows'[e], fold[e])
             /\ ClosingOK(call'[c], app'[c], rows'[e], fold[e])
             /\ LandedOK(call'[c], c \in landed', rows'[e], fold[e], past.replay)
             /\ UNCHANGED rows
  <2>1. UNCHANGED <<app, rows>> /\ call[c].pc = "run" /\ app[c].todo = <<>>
        /\ ~call[c].again
    BY <1>0, <1>7 DEF Run, At, CallOK, Appends, Unrun, tables
  <2>3. call'[c].pc = "close" /\ call'[c].eff = e /\ call'[c].again = call[c].again
    BY <1>0, <1>7 DEF Run, CallType
  <2>4. rows[e] = Opened /\ fold[e] = Opened
    BY <1>0, <2>1 DEF OpeningOK
  <2> QED
    BY <1>0, <1>x, <2>1, <2>3, <2>4
       DEF OpeningOK, ClosingOK, LandedOK, Ran, Holds, MayHaveLanded, Sound
<1> QED
  BY <1>1, <1>2, <1>3, <1>4, <1>5, <1>6, <1>7

\* ... and after it.
LEMMA AfterRun ==
  ASSUME CInv, NEW c \in Call, Recorded(c), FateOK(c),
         \/ Close(c) \/ Degrade(c) \/ Degraded(c) \/ Rewrite(c) \/ Seal(c)
         \/ OffPath(c) \/ RaiseTier(c) \/ Reclassified(c)
  PROVE  /\ OpeningOK(call'[c], app'[c], rows'[Eff(c)], fold[Eff(c)])
         /\ ClosingOK(call'[c], app'[c], rows'[Eff(c)], fold[Eff(c)])
         /\ LandedOK(call'[c], c \in landed', rows'[Eff(c)], fold[Eff(c)], past.replay)
         /\ rows'[Eff(c)] \in {rows[Eff(c)], fold[Eff(c)]}
<1> DEFINE e == Eff(c)
<1>0. /\ c \in Task /\ e \in EffectId /\ call \in [Call -> CallType]
      /\ app \in [Task -> AppendType] /\ call[c] \in CallType
      /\ rows \in [EffectId -> Row]
      /\ rows[e] \in Row /\ fold[e] \in Row /\ call[c].eff = e
      /\ CallOK(call[c], app[c], c \in landed)
      /\ OpeningOK(call[c], app[c], rows[e], fold[e])
      /\ ClosingOK(call[c], app[c], rows[e], fold[e])
      /\ LandedOK(call[c], c \in landed, rows[e], fold[e], past.replay)
  BY Data DEF Eff, FateOK, CInv, Control
<1>e. call[c].pc \in Ran => Exists(rows[e]) /\ Exists(fold[e])
  BY <1>0 DEF ClosingOK
<1>l. ASSUME NEW pc \in {"ended", "offpath"}, Leave(c, pc), app'[c].todo = <<>>,
             UNCHANGED <<rows, landed>>, call[c].pc \in Ran
      PROVE  /\ OpeningOK(call'[c], app'[c], rows'[e], fold[e])
             /\ ClosingOK(call'[c], app'[c], rows'[e], fold[e])
             /\ LandedOK(call'[c], c \in landed', rows'[e], fold[e], past.replay)
  <2>1. /\ call'[c] \in CallType /\ call'[c].pc = pc /\ call'[c].eff = e
        /\ call'[c].again = call[c].again
    BY <1>0, <1>l, LeavingIs DEF Leave
  <2>2. LandedOK(call'[c], c \in landed', rows'[e], fold[e], past.replay)
    BY <1>0, <1>l, <2>1 DEF LandedOK
  <2> QED
    BY <1>0, <1>e, <1>l, <2>1, <2>2, LeftBehind
<1>a. \A q : Appending(c, q) => app'[c].todo = q /\ app'[c].step = "idle"
  BY <1>0 DEF Appending, NoAppend
<1>n. /\ DOMAIN <<Event("note", e)>> = {1}
      /\ <<Event("note", e)>>[1].kind = "note"
  BY DEF Event
<1>1. CASE Close(c)
  <2>1. /\ UNCHANGED <<rows, landed>> /\ call[c].pc = "close"
        /\ Appending(c, CloseEvents(e, call[c].status)) /\ Goto(c, "closing")
    BY <1>1 DEF Close, At, tables
  <2>2. /\ call'[c].pc = "closing" /\ call'[c].eff = e /\ call'[c].again = call[c].again
        /\ call'[c].status = call[c].status /\ call'[c] \in CallType
    BY <1>0, <2>1 DEF Goto, CallType
  <2>3. /\ app'[c].todo = CloseEvents(call'[c].eff, call'[c].status)
        /\ ~Writing(app'[c])
        /\ call'[c].status \in {"landed", "failed", "in_doubt"}
    BY <1>0, <1>a, <2>1, <2>2 DEF Writing, CallOK
  <2>4. fold[e].comp = "unavailable" => CompFor(call'[c].eff) = "unavailable"
    BY <1>0, <2>2 DEF ClosingOK
  <2>5. /\ ClosingFold(call'[c], app'[c], fold[e])
        /\ \A i \in DOMAIN app'[c].todo :
             app'[c].todo[i].kind = "unavailable" => CompFor(call'[c].eff) = "unavailable"
    BY <1>0, <2>2, <2>3, <2>4, CloseTodo
  <2>6. ClosingOK(call'[c], app'[c], rows'[e], fold[e])
    BY <1>e, <2>1, <2>2, <2>4, <2>5 DEF ClosingOK, Ran
  <2>7. OpeningOK(call'[c], app'[c], rows'[e], fold[e])
    BY <2>2 DEF OpeningOK, Holds
  <2> QED
    BY <1>0, <2>1, <2>2, <2>6, <2>7 DEF LandedOK
<1>2. CASE Degrade(c)
  <2>1. /\ UNCHANGED <<rows, landed>> /\ call[c].pc = "closing"
        /\ Appending(c, <<Event("note", e)>>) /\ Goto(c, "degrade")
    BY <1>2 DEF Degrade, At, tables
  <2>2. call'[c].pc = "degrade" /\ call'[c].eff = e /\ call'[c].again = call[c].again
    BY <1>0, <2>1 DEF Goto, CallType
  <2>3. app'[c].todo = <<Event("note", e)>>
    BY <1>a, <2>1
  <2> QED
    BY <1>0, <1>e, <1>n, <2>1, <2>2, <2>3 DEF OpeningOK, ClosingOK, LandedOK, Ran, Holds
<1>3. CASE Degraded(c)
  <2>1. /\ UNCHANGED <<rows, landed>> /\ call[c].pc = "degrade" /\ Appending(c, <<>>)
        /\ call' = [call EXCEPT ![c].pc = "rewrite", ![c].row = rows[e]]
    BY <1>3 DEF Degraded, At, tables
  <2>2. /\ call'[c].pc = "rewrite" /\ call'[c].eff = e /\ call'[c].again = call[c].again
        /\ call'[c].row = rows[e]
    BY <1>0, <2>1 DEF CallType
  <2>3. app'[c].todo = <<>>
    BY <1>a, <2>1
  <2> QED
    BY <1>0, <1>e, <2>1, <2>2, <2>3 DEF OpeningOK, ClosingOK, LandedOK, Ran, Holds
<1>4. CASE Rewrite(c)
  <2>1. UNCHANGED <<app, landed>> /\ call[c].pc = "rewrite" /\ app[c].todo = <<>> /\ Done(c)
    BY <1>0, <1>4 DEF Rewrite, At, CallOK, Appends, Done
  <2>2. rows' = rows
    BY <1>0, <1>4, <2>1, HeldIsSame DEF Rewrite, Holds
  <2>3. CASE Leave(c, "ended")
    BY <1>l, <2>1, <2>2, <2>3 DEF Ran
  <2>4. CASE \E status \in {"failed", "in_doubt"} : CloseThrows(c, status)
    BY <2>1, <2>2, <2>4, ThrowsOK
  <2> QED
    BY <1>4, <2>2, <2>3, <2>4 DEF Rewrite
<1>5. CASE Seal(c)
  <2>0. /\ UNCHANGED <<app, landed>> /\ call[c].pc = "closing" /\ Done(c)
        /\ app[c].todo = <<>> /\ app[c].step = "idle"
    BY <1>5 DEF Seal, At, Done
  <2>1. CASE rows' = rows /\ \E status \in {"failed", "in_doubt"} : CloseThrows(c, status)
    BY <2>0, <2>1, ThrowsOK
  <2>2. CASE SealRow(c) /\ \E pc \in {"ended", "offpath"} : Leave(c, pc)
    <3> DEFINE row == [status |-> call[c].status, sealed |-> TRUE, comp |-> CompFor(e)]
    <3>1. ClosingFold(call[c], app[c], fold[e]) /\ Exists(rows[e]) /\ Exists(fold[e])
      BY <1>0, <1>e, <2>0 DEF ClosingOK, Ran
    <3>2. /\ fold[e].status = call[c].status /\ fold[e].sealed
          /\ fold[e].comp = CompFor(e)
      <4>1. Len(app[c].todo) = 0
        BY <2>0
      <4> QED
        BY <1>0, <3>1, <4>1 DEF ClosingFold
    <3>3. row = fold[e]
      BY <1>0, <3>2 DEF Row
    <3>4. rows'[e] = fold[e] /\ rows'[e] \in Row
      BY <1>0, <2>2, <3>1, <3>3 DEF SealRow
    <3>5. PICK pc \in {"ended", "offpath"} : Leave(c, pc)
      BY <2>2
    <3>6. /\ call'[c] \in CallType /\ call'[c].pc = pc /\ call'[c].eff = e
          /\ call'[c].again = call[c].again
      BY <1>0, <3>5, LeavingIs DEF Leave
    <3>7. LandedOK(call'[c], c \in landed', rows'[e], fold[e], past.replay)
      BY <1>0, <2>0, <3>4, <3>6 DEF LandedOK
    <3> QED
      BY <1>0, <2>0, <3>1, <3>4, <3>6, <3>7, LeftBehind
  <2> QED
    BY <1>5, <2>1, <2>2 DEF Seal
<1>6. CASE OffPath(c)
  <2>1. /\ UNCHANGED <<app, rows, landed>> /\ call[c].pc = "offpath" /\ app[c].todo = <<>>
        /\ call' = [call EXCEPT ![c].row = rows[e], ![c].pc = "raise"]
    BY <1>0, <1>6 DEF OffPath, At, CallOK, Appends, tables
  <2>2. /\ call'[c].pc = "raise" /\ call'[c].eff = e /\ call'[c].again = call[c].again
        /\ call'[c].row = rows[e]
    BY <1>0, <2>1 DEF CallType
  <2> QED
    BY <1>0, <1>e, <2>1, <2>2 DEF OpeningOK, ClosingOK, LandedOK, Ran, Holds
<1>7. CASE RaiseTier(c)
  <2>1. /\ UNCHANGED landed /\ call[c].pc = "raise"
        /\ Appending(c, <<Event("note", e)>>) /\ Goto(c, "reclassify")
    BY <1>7 DEF RaiseTier, At
  <2>2. rows' = rows
    BY <1>0, <1>7, <2>1, HeldIsSame DEF RaiseTier, Holds
  <2>3. call'[c].pc = "reclassify" /\ call'[c].eff = e /\ call'[c].again = call[c].again
    BY <1>0, <2>1 DEF Goto, CallType
  <2>4. app'[c].todo = <<Event("note", e)>>
    BY <1>a, <2>1
  <2> QED
    BY <1>0, <1>e, <1>n, <2>1, <2>2, <2>3, <2>4 DEF OpeningOK, ClosingOK, LandedOK, Ran, Holds
<1>8. CASE Reclassified(c)
  <2>1. /\ UNCHANGED <<rows, landed>> /\ call[c].pc = "reclassify" /\ Appending(c, <<>>)
        /\ Leave(c, "ended")
    BY <1>8 DEF Reclassified, At, tables
  <2>2. app'[c].todo = <<>>
    BY <1>a, <2>1
  <2> QED
    BY <1>l, <2>1, <2>2 DEF Ran
<1> QED
  BY <1>1, <1>2, <1>3, <1>4, <1>5, <1>6, <1>7, <1>8

LEMMA AloneOwn ==
  ASSUME CInv, NEW c \in Call, Recorded(c), Alone(c), FateOK(c), EffectStep(c), Eff(c)' = Eff(c)
  PROVE  FateOK(c)'
<1> DEFINE e == Eff(c)
<1>0. /\ c \in Task /\ e \in EffectId /\ CallOK(call[c], app[c], c \in landed)
      /\ fold' = fold /\ order' = order /\ past'.replay = past.replay
      /\ past'.torn = past.torn /\ past'.marked = past.marked
      /\ AgreeOK(e) /\ Eff(c) # NoEffect
  BY Data, EffectWrites DEF CInv, Control, FateOK, Recorded
<1>1. /\ \A i \in Intent :
           /\ \A pc \in {"bypass", "observe"} : ~OpenUnrecorded(c, i, pc)
           /\ ~Link(c, i) /\ ~Open(c, i)
      /\ ~Unrecorded(c) /\ ~CloseUnrecorded(c)
  BY <1>0 DEF OpenUnrecorded, Link, Open, MayBegin, Unrecorded, CloseUnrecorded, At, CallOK, Eff
<1>2. /\ OpeningOK(call'[c], app'[c], rows'[e], fold[e])
      /\ ClosingOK(call'[c], app'[c], rows'[e], fold[e])
      /\ LandedOK(call'[c], c \in landed', rows'[e], fold[e], past.replay)
      /\ rows'[e] \in {rows[e], fold[e]}
  <2>1. CASE \/ NotLogged(c) \/ Doubted(c) \/ Enrich(c) \/ Enriched(c) \/ Block(c)
             \/ \E reclassified \in BOOLEAN : Admit(c, reclassified)
             \/ \E outcome \in {"ok", "refused", "lost"}, lands, thrown \in BOOLEAN :
                  Run(c, outcome, lands, thrown)
    BY <2>1, BeforeRun
  <2>2. CASE \/ Close(c) \/ Degrade(c) \/ Degraded(c) \/ Rewrite(c) \/ Seal(c)
             \/ OffPath(c) \/ RaiseTier(c) \/ Reclassified(c)
    BY <2>2, AfterRun
  <2> QED
    BY <1>1, <2>1, <2>2 DEF EffectStep
<1>3. AgreeOK(Eff(c))'
  <2>1. \A u \in Task : ~Mid(u, e)
    BY NobodyMid
  <2>2. \A u \in Task : Torn(u)' => Torn(u) /\ Ev(u)' = Ev(u)
    BY <1>0, CallerTorn DEF Ev
  <2>3. \A u \in Task : ~Mid(u, Eff(c))'
    BY <2>1, <2>2 DEF Mid
  <2>4. ~past'.torn /\ ~past'.marked => Agrees(rows[e], fold[e], Crowded)
    BY <1>0, <2>1 DEF AgreeOK
  <2>5. ~past'.torn /\ ~past'.marked => Agrees(rows'[e], fold'[e], Crowded')
    BY <1>0, <1>2, <2>4 DEF Agrees, Crowded
  <2> QED
    BY <2>3, <2>5 DEF AgreeOK
<1> QED
  BY <1>0, <1>2, <1>3 DEF FateOK

\* An effect that is opened and that nobody else has is new to the tables.
LEMMA AloneOpened ==
  ASSUME CInv, TableInv, NEW c \in Call, EffectStep(c), NEW i \in Intent, Open(c, i),
         Eff(c) = NoEffect, Eff(c)' = <<saga.next, i>>, Recorded(c)', Alone(c)',
         Eff(c)' \in EffectId
  PROVE  FateOK(c)'
<1> DEFINE e == <<saga.next, i>>
           opened == Event("opened", e)
<1>0. /\ c \in Task /\ e \in EffectId /\ e # NoEffect
      /\ call \in [Call -> CallType] /\ app \in [Task -> AppendType]
      /\ CallOK(call[c], app[c], c \in landed) /\ ResumeOK(resume, app[Resumer])
      /\ fold' = fold /\ order' = order
      /\ call[c].pc = "idle" /\ UNCHANGED <<rows, landed>>
      /\ Appending(c, <<Note, opened>>)
      /\ call' = [call EXCEPT ![c].pc = "opening", ![c].intent = i, ![c].eff = e]
  BY Data DEF CInv, Control, Open, MayBegin, At, tables
<1>1. \A d \in Call : Eff(d) # e
  BY <1>0, EffectKept DEF Alone, Eff
<1>2. fold[e] = Absent /\ rows[e] = Absent
  BY <1>0, <1>1 DEF TableInv, LogOK, RowOK
<1>3. /\ call'[c].pc = "opening" /\ call'[c].eff = e /\ call'[c].again = call[c].again
      /\ app'[c].todo = <<Note, opened>>
  BY <1>0 DEF CallType, Appending, NoAppend
<1>4. c \notin landed
  BY <1>0 DEF CallOK, Unrun
<1>5. OpeningOK(call'[c], app'[c], rows'[e], fold'[e])
  <2>1. ~Idle(app'[c])
    BY <1>3 DEF Idle
  <2> HIDE DEF e
  <2> QED
    BY <1>0, <1>2, <1>3, <2>1 DEF OpeningOK, Holds
<1>6. ClosingOK(call'[c], app'[c], rows'[e], fold'[e])
  <2>1. \A j \in DOMAIN app'[c].todo : app'[c].todo[j].kind # "unavailable"
    <3>1. Note.kind = "note" /\ opened.kind = "opened"
      BY DEF Note, Event
    <3>2. DOMAIN app'[c].todo = {1, 2} /\ app'[c].todo[1] = Note /\ app'[c].todo[2] = opened
      BY <1>3
    <3> HIDE DEF opened
    <3> QED
      BY <3>1, <3>2
  <2>2. Absent.comp = "available"
    BY DEF Absent
  <2> QED
    BY <1>0, <1>2, <1>3, <2>1, <2>2 DEF ClosingOK, Ran
<1>7. LandedOK(call'[c], c \in landed', rows'[e], fold'[e], past'.replay)
  BY <1>0, <1>2, <1>4 DEF LandedOK, Sound, Absent
<1>8. \A u \in Task : ~(Torn(u) /\ Ev(u).eff = e)
  <2> SUFFICES ASSUME NEW u \in Task, Torn(u), Ev(u).eff = e PROVE FALSE
    OBVIOUS
  <2>1. CASE u \in Call
    BY <1>0, <1>1, <2>1, TornEvent DEF EventOK, Eff
  <2>2. CASE u = Resumer
    <3>1. resume.pc \in {"idle", "done"}
      BY EffectWrites, Data DEF CInv, Control, Exclusive, ResumeType
    <3> QED
      BY <2>2, <3>1, TornEvent
  <2> QED
    BY <2>1, <2>2 DEF Task
<1>9. \A u \in Task : ~Mid(u, Eff(c))'
  <2>1. \A u \in Task : Torn(u)' => Torn(u) /\ Ev(u)' = Ev(u)
    BY <1>0, CallerTorn DEF Ev
  <2> QED
    BY <1>8, <2>1 DEF Mid
<1>10. AgreeOK(Eff(c))'
  BY <1>0, <1>2, <1>9 DEF AgreeOK, Agrees
<1> QED
  BY <1>5, <1>6, <1>7, <1>10 DEF FateOK

\* Who is alone was alone.
LEMMA AlonePast ==
  ASSUME CInv, NEW c \in Call, Recorded(c)', Alone(c)', Eff(c)' = Eff(c),
         \A d \in Call : Eff(d)' = Eff(d) \/ Eff(d) = NoEffect
  PROVE  Recorded(c) /\ Alone(c)
BY DEF Recorded, Alone

LEMMA AloneEffect ==
  ASSUME CInv, CInv', TableInv, AloneInv, NEW d \in Call, EffectStep(d)
  PROVE  AloneInv'
<1> SUFFICES ASSUME NEW c \in Call, Recorded(c)', Alone(c)' PROVE FateOK(c)'
  BY DEF AloneInv
<1>1. \A b \in Call : Eff(b)' = Eff(b) \/ Eff(b) = NoEffect
  BY EffectKept DEF Eff
<1>2. CASE Eff(c)' = Eff(c)
  <2>1. Recorded(c) /\ Alone(c) /\ FateOK(c)
    BY <1>1, <1>2, AlonePast DEF AloneInv
  <2> QED
    BY <1>2, <2>1, AloneOther, AloneOwn
<1>3. CASE Eff(c)' # Eff(c)
  <2>1. c = d /\ \E i \in Intent : Open(c, i) /\ Eff(c) = NoEffect /\ Eff(c)' = <<saga.next, i>>
    BY <1>3, EffectKept DEF Eff
  <2>2. Eff(c)' \in EffectId
    BY DEF CInv, TypeOK, Recorded, Eff
  <2> QED
    BY <2>1, <2>2, AloneOpened
<1> QED
  BY <1>2, <1>3

-----------------------------------------------------------------------------
(* The other steps, and the result for effects with one call. *)

\* Of a call at rest little is said.
LEMMA AtRest ==
  ASSUME NEW r, r.pc \in Rests, NEW a, a.todo = <<>>, NEW row, NEW f,
         NEW r0, NEW b, NEW row0, ClosingOK(r0, b, row0, f), r.eff = r0.eff
  PROVE  OpeningOK(r, a, row, f) /\ ClosingOK(r, a, row, f)
BY DEF OpeningOK, ClosingOK, Rests, Holds, Ran

LEMMA AloneResume ==
  ASSUME CInv, TableInv, AloneInv, ResumeStep
  PROVE  AloneInv'
<1>0. /\ UNCHANGED <<fold, order, call, landed>> /\ past \in PastType
      /\ \A c \in Call : Eff(c)' = Eff(c)
      /\ ResumeOK(resume, app[Resumer]) /\ Resumer \in Task /\ app \in [Task -> AppendType]
  BY ResumeFrame, Data DEF Eff, CInv, Control
<1>1. past'.torn = past.torn /\ past'.replay = past.replay /\ (past.marked => past'.marked)
  <2>1. CASE Marked
    <3>1. \/ past' = [past EXCEPT !.marked = @ \/ Threw(Resumer)]
          \/ past' = [past EXCEPT !.faults = @ + 1]
      BY <2>1 DEF Marked, Fault
    <3> QED
      BY <1>0, <3>1 DEF PastType
  <2>2. CASE ~Marked
    BY <2>2 DEF ResumeStep, Resume, Boundary, List, MarkNext
  <2> QED
    BY <2>1, <2>2
<1>2. \A u \in Task : u # Resumer => app'[u] = app[u]
  BY <1>0, CallerSettled DEF Appending
<1>3. \A u \in Task : (Torn(u)' <=> Torn(u)) /\ (Torn(u) => app'[u] = app[u])
  BY <1>0, CallerTorn
<1> SUFFICES ASSUME NEW c \in Call, Recorded(c)', Alone(c)' PROVE FateOK(c)'
  BY DEF AloneInv
<1> DEFINE e == Eff(c)
<1>4. Recorded(c) /\ Alone(c) /\ FateOK(c)
  BY <1>0, AlonePast DEF AloneInv
<1>5. c \in Task /\ c # Resumer /\ app'[c] = app[c] /\ call' = call /\ e \in EffectId
      /\ Eff(c)' = e /\ call[c].eff = e /\ fold' = fold
  BY <1>0, <1>2, <1>4, Data DEF Eff
<1>6. CASE rows'[e] = rows[e]
  <2>1. AgreeOK(Eff(c))'
    BY <1>0, <1>1, <1>3, <1>4, <1>6, AgreeKept DEF FateOK, Crowded
  <2> QED
    BY <1>0, <1>1, <1>4, <1>5, <1>6, <2>1 DEF FateOK
<1>7. CASE rows'[e] # rows[e]
  <2>1. /\ resume.pc = "marking" /\ Threw(Resumer) /\ past'.marked
        /\ rows'[e].status = "in_doubt"
    BY <1>5, <1>7, Data, ResumeRows
  <2>2. \A d \in Call : call[d].pc \in Rests
    BY <2>1 DEF CInv, Control, Exclusive
  <2>3. app[c].todo = <<>> /\ \A u \in Task : ~Mid(u, e)
    BY <1>4, <2>1, <2>2, MidWho, RestIsDone DEF Mid, Threw, Torn, Idle
  <2>4. /\ OpeningOK(call'[c], app'[c], rows'[e], fold'[e])
        /\ ClosingOK(call'[c], app'[c], rows'[e], fold'[e])
    BY <1>4, <1>5, <2>2, <2>3, AtRest DEF FateOK
  <2>5. LandedOK(call'[c], c \in landed', rows'[e], fold'[e], past'.replay)
    BY <1>0, <1>1, <1>4, <1>5, <2>1 DEF FateOK, LandedOK, Sound, MayHaveLanded
  <2>6. AgreeOK(Eff(c))'
    <3>1. \A u \in Task : ~Mid(u, Eff(c))'
      BY <1>3, <1>5, <2>3 DEF Mid, Ev
    <3> QED
      BY <2>1, <3>1 DEF AgreeOK
  <2> QED
    BY <1>5, <2>4, <2>5, <2>6 DEF FateOK
<1> QED
  BY <1>6, <1>7

LEMMA AloneReplay ==
  ASSUME CInv, TableInv, AloneInv, Replay
  PROVE  AloneInv'
<1>0. /\ UNCHANGED <<fold, order, call, app, landed>> /\ Quiet
      /\ rows' = [e \in EffectId |-> IF e \in Inserted THEN fold[e] ELSE Absent]
      /\ past'.replay = IF Clash THEN "failed" ELSE "ok"
      /\ \A c \in Call : Eff(c)' = Eff(c)
  BY Data DEF Replay, PastType, Eff
<1> SUFFICES ASSUME NEW c \in Call, Recorded(c)', Alone(c)' PROVE FateOK(c)'
  BY DEF AloneInv
<1> DEFINE e == Eff(c)
<1>1. Recorded(c) /\ Alone(c) /\ FateOK(c)
  BY <1>0, AlonePast DEF AloneInv
<1>2. /\ e \in EffectId /\ c \in Task /\ LogOK(e) /\ call[c].eff = e /\ call[c].pc \in Rests
      /\ app[c].todo = <<>> /\ Eff(c)' = e
  BY <1>0, <1>1, Data, QuietIsDone DEF TableInv, Eff, Quiet, Rests, Done
<1>3. rows'[e] = IF e \in Inserted THEN fold[e] ELSE Absent
  BY <1>0, <1>2
<1>4. e \notin Inserted /\ OnLog(e) => Crowded /\ Clash
  BY <1>2, NotInserted, CrowdedClash
<1>5. /\ OpeningOK(call'[c], app'[c], rows'[e], fold'[e])
      /\ ClosingOK(call'[c], app'[c], rows'[e], fold'[e])
  BY <1>0, <1>1, <1>2, AtRest DEF FateOK
<1>6. LandedOK(call'[c], c \in landed', rows'[e], fold'[e], past'.replay)
  <2>1. LandedOK(call[c], c \in landed, rows[e], fold[e], past.replay)
    BY <1>1 DEF FateOK
  <2>2. Sound(rows'[e]) /\ Sound(fold[e])
    BY <1>3, <2>1 DEF LandedOK, Sound, Absent
  <2>3. c \in landed /\ ~call[c].again => fold[e].status \in MayHaveLanded /\ OnLog(e)
    BY <2>1 DEF LandedOK, MayHaveLanded, OnLog, Exists
  <2> QED
    BY <1>0, <1>3, <1>4, <2>2, <2>3 DEF LandedOK
<1>7. AgreeOK(Eff(c))'
  <2>1. \A u \in Task : ~Torn(u)'
    BY <1>0, QuietIsDone DEF Torn, Done
  <2>2. Agrees(rows'[e], fold'[e], Crowded')
    <3>1. Crowded' <=> Crowded
      BY <1>0 DEF Crowded
    <3>2. ~OnLog(e) => fold[e] = Absent
      BY <1>2 DEF LogOK
    <3>3. ~Exists(Absent)
      BY DEF Exists, Absent
    <3> QED
      BY <1>0, <1>3, <1>4, <3>1, <3>2, <3>3 DEF Agrees
  <2> QED
    BY <1>2, <2>1, <2>2 DEF AgreeOK, Mid
<1> QED
  BY <1>2, <1>5, <1>6, <1>7 DEF FateOK

LEMMA AloneCrash ==
  ASSUME CInv, AloneInv, Crash
  PROVE  AloneInv'
<1>0. /\ UNCHANGED <<fold, order, rows, landed>> /\ \A c \in Call : Eff(c)' = Eff(c)
  BY CrashLeaves
<1> SUFFICES ASSUME NEW c \in Call, Recorded(c)', Alone(c)' PROVE FateOK(c)'
  BY DEF AloneInv
<1> DEFINE e == Eff(c)
<1>1. Recorded(c) /\ Alone(c) /\ FateOK(c)
  BY <1>0, AlonePast DEF AloneInv
<1>2. /\ c \in Task /\ call'[c].pc \in Rests /\ call'[c].eff = call[c].eff
      /\ call'[c].again = call[c].again /\ app'[c].todo = <<>> /\ Eff(c)' = e
  BY <1>0, CrashLeaves, Data DEF Rests, NoAppend, Eff
<1>3. /\ OpeningOK(call'[c], app'[c], rows'[e], fold'[e])
      /\ ClosingOK(call'[c], app'[c], rows'[e], fold'[e])
  BY <1>0, <1>1, <1>2, AtRest DEF FateOK
<1>4. LandedOK(call'[c], c \in landed', rows'[e], fold'[e], past'.replay)
  <2>1. LandedOK(call[c], c \in landed, rows[e], fold[e], past.replay)
    BY <1>1 DEF FateOK
  <2>2. past'.replay = past.replay
    BY CrashLeaves
  <2> QED
    BY <1>0, <1>2, <2>1, <2>2 DEF LandedOK
<1>5. AgreeOK(Eff(c))'
  <2>1. \A u \in Task : ~Torn(u)'
    BY CrashLeaves
  <2>2. ~past'.torn /\ ~past'.marked => Agrees(rows[e], fold[e], Crowded)
    <3>1. AgreeOK(e)
      BY <1>1 DEF FateOK
    <3> QED
      BY <3>1, CrashLeaves DEF AgreeOK, Mid
  <2>3. ~past'.torn /\ ~past'.marked => Agrees(rows'[e], fold'[e], Crowded')
    BY <1>0, <2>2 DEF Crowded
  <2> QED
    BY <1>2, <2>1, <2>3 DEF AgreeOK, Mid
<1> QED
  BY <1>2, <1>3, <1>4, <1>5 DEF FateOK

LEMMA AloneStep ==
  ASSUME CInv, CInv', TableInv, AloneInv, [Next]_vars
  PROVE  AloneInv'
<1>1. ASSUME NEW t \in Task, AppendStep(t)
      PROVE  AloneInv'
  <2> SUFFICES ASSUME NEW c \in Call, Recorded(c)', Alone(c)' PROVE FateOK(c)'
    BY DEF AloneInv
  <2>1. \A d \in Call : Eff(d)' = Eff(d)
    BY <1>1, AppendAt
  <2>2. Recorded(c) /\ Alone(c) /\ FateOK(c)
    BY <2>1, AlonePast DEF AloneInv
  <2> QED
    BY <1>1, <2>2, AloneAppend
<1>2. CASE UNCHANGED vars
  BY <1>2 DEF vars, AloneInv, Recorded, Alone, Eff, FateOK, AgreeOK, Mid, Torn, Ev, Crowded
<1>3. CASE ReadSaga \/ PutStatus
  <2>1. /\ UNCHANGED <<fold, order, rows, app, call, landed>>
        /\ past'.torn = past.torn /\ past'.marked = past.marked /\ past'.replay = past.replay
    BY <1>3, Data DEF ReadSaga, PutStatus, tables, PastType
  <2> QED
    BY <2>1 DEF AloneInv, Recorded, Alone, Eff, FateOK, AgreeOK, Mid, Torn, Ev, Crowded
<1> QED
  BY <1>1, <1>2, <1>3, AloneEffect, AloneResume, AloneReplay, AloneCrash DEF Next

LEMMA AloneInit == Init => AloneInv
<1> SUFFICES ASSUME Init, NEW c \in Call PROVE ~Recorded(c)
  BY DEF AloneInv
<1> QED
  BY DEF Init, Recorded, Eff, NoCall

LEMMA AloneHolds == Spec => []AloneInv
<1>1. CInv /\ CInv' /\ TableInv /\ AloneInv /\ [Next]_vars => AloneInv'
  BY AloneStep
<1> QED
  BY <1>1, AloneInit, ControlHolds, TableHolds, PTL DEF Spec

-----------------------------------------------------------------------------
(* What resumeSaga has seen and marked. *)

Visible == {"landed", "in_doubt"}

SeenOK(c) ==
  /\ Over(c)
  /\ c \in landed /\ Recorded(c) /\ Alone(c) /\ ~call[c].again /\ past.replay # "failed" =>
       rows[Eff(c)].status \in Visible \/ Eff(c) \in resume.left

MarkingOK ==
  resume.pc = "marking" =>
    /\ Done(Resumer) => rows[Oldest(resume.left)].status = "in_doubt"
    /\ Torn(Resumer) => Exists(app[Resumer].row)

ResumeInv ==
  /\ MarkingOK
  /\ resume.pc \in {"idle", "boundary", "list"} => resume.saw = {}
  /\ \A c \in resume.saw : SeenOK(c)

LEMMA OverIsDone ==
  ASSUME CInv, NEW c \in Call, Over(c)
  PROVE  ~EffectStep(c) /\ Done(c)
<1>1. call[c].pc \in {"ended", "dead"} /\ Done(c)
  BY RestIsDone DEF Over, Rests
<1> QED
  BY <1>1 DEF EffectStep, OpenUnrecorded, Link, Open, MayBegin, Unrecorded, NotLogged,
     Doubted, Enrich, Enriched, Block, Admit, Run, CloseUnrecorded, Close, Degrade,
     Degraded, Rewrite, Seal, OffPath, RaiseTier, Reclassified, At

LEMMA OneLeft ==
  ASSUME NEW S, NEW q \in Seq(S), q # <<>>, Len(q) <= 1
  PROVE  Tail(q) = <<>>
<1>1. Tail(q) \in Seq(S) /\ Len(Tail(q)) = Len(q) - 1
  BY HeadTailProperties
<1>2. Len(q) \in Nat
  OBVIOUS
<1>3. Len(Tail(q)) = 0
  BY <1>1, <1>2, LenProperties
<1> QED
  BY <1>1, <1>3, EmptySeq

\* While it marks, the one event to append is that of the oldest effect left.
LEMMA MarkingEvent ==
  ASSUME CInv, resume.pc = "marking", app[Resumer].todo # <<>>
  PROVE  /\ Ev(Resumer) = Event("in_doubt", Oldest(resume.left))
         /\ Ev(Resumer).kind = "in_doubt" /\ Ev(Resumer).eff = Oldest(resume.left)
         /\ Tail(app[Resumer].todo) = <<>>
         /\ Oldest(resume.left) \in resume.left /\ Oldest(resume.left) \in EffectId
<1>0. /\ ResumeOK(resume, app[Resumer]) /\ app[Resumer].todo \in Seq(EventType)
      /\ resume.left \in SUBSET EffectId /\ Resumer \in Task
  BY Data DEF CInv, Control, AppendType, ResumeType
<1>1. 1 \in DOMAIN app[Resumer].todo /\ Ev(Resumer) = app[Resumer].todo[1]
  BY <1>0, EventsOf
<1>2. Ev(Resumer) = Event("in_doubt", Oldest(resume.left))
  BY <1>0, <1>1 DEF ResumeOK
<1>4. Tail(app[Resumer].todo) = <<>>
  BY <1>0, OneLeft DEF ResumeOK
<1>5. Oldest(resume.left) \in resume.left /\ Oldest(resume.left) \in EffectId
  BY <1>0, OldestIs DEF ResumeOK
<1> QED
  BY <1>2, <1>4, <1>5 DEF Event

LEMMA MarkingAppend ==
  ASSUME CInv, TableInv, MarkingOK, NEW t \in Task, AppendStep(t)
  PROVE  MarkingOK'
<1> SUFFICES ASSUME resume.pc = "marking"
             PROVE  /\ Done(Resumer)' => rows'[Oldest(resume.left)].status = "in_doubt"
                    /\ Torn(Resumer)' => Exists(app'[Resumer].row)
  BY AppendAt DEF MarkingOK
<1> DEFINE o == Oldest(resume.left)
<1>1. t = Resumer
  <2>1. \A d \in Call : Done(d)
    BY RestIsDone DEF CInv, Control, Exclusive
  <2> QED
    BY <2>1, AppendMoves DEF Done, Task
<1>2. /\ Ev(Resumer).kind = "in_doubt" /\ Ev(Resumer).eff = o /\ Tail(app[Resumer].todo) = <<>>
      /\ o \in resume.left /\ o \in EffectId /\ app[Resumer].todo # <<>>
  BY <1>1, AppendMoves, MarkingEvent
<1>3. /\ Exists(rows[o]) /\ Resumer \in Task /\ app[Resumer].row \in Row
      /\ (Torn(Resumer) => Exists(app[Resumer].row)) /\ o # NoEffect
  BY <1>2, Data DEF TableInv, LeftOK, MarkingOK, AppendType
<1>4. /\ Exists(app[Resumer].row) => Exists(Apply(app[Resumer].row, "in_doubt"))
      /\ Exists(app[Resumer].row) => Apply(app[Resumer].row, "in_doubt").status = "in_doubt"
  BY <1>3 DEF Apply, Row, Exists
<1>5. Done(Resumer)' => rows'[o].status = "in_doubt"
  <2> SUFFICES ASSUME Done(Resumer)' PROVE rows'[o].status = "in_doubt"
    OBVIOUS
  <2>1. PutRow(Resumer)
    <3>1. app'[Resumer].step = "idle" /\ app'[Resumer].todo = <<>>
      BY DEF Done
    <3> QED
      BY <1>1, <1>2, <1>3, <1>4, <3>1, AppendFields
  <2>2. Torn(Resumer)
    BY <2>1 DEF PutRow, Torn
  <2> QED
    BY <1>1, <1>2, <1>3, <1>4, <2>1, <2>2, AppendTouches
<1>6. Torn(Resumer)' => Exists(app'[Resumer].row)
  <2> SUFFICES ASSUME Torn(Resumer)' PROVE Exists(app'[Resumer].row)
    OBVIOUS
  <2>1. app'[Resumer].step \in {"saga", "row"}
    BY DEF Torn
  <2> QED
    BY <1>1, <1>2, <1>3, <2>1, AppendFields
<1> QED
  BY <1>5, <1>6

LEMMA SeenAppend ==
  ASSUME CInv, AloneInv, NEW t \in Task, AppendStep(t), NEW c \in Call, SeenOK(c)
  PROVE  SeenOK(c)'
<1> DEFINE e == Eff(c)
<1>0. /\ UNCHANGED <<call, resume, landed>> /\ past'.replay = past.replay
      /\ \A d \in Call : Eff(d)' = Eff(d)
  BY AppendAt
<1>1. Over(c)' /\ Over(c)
  BY <1>0 DEF SeenOK, Over
<1> SUFFICES ASSUME c \in landed, Recorded(c)', Alone(c)', ~call[c].again, past.replay # "failed"
             PROVE  rows'[e].status \in Visible \/ e \in resume.left
  BY <1>0, <1>1 DEF SeenOK
<1>2. Recorded(c) /\ Alone(c) /\ FateOK(c)
  BY <1>0, AlonePast DEF AloneInv
<1>3. rows[e].status \in Visible \/ e \in resume.left
  BY <1>2 DEF SeenOK
<1>4. e \in EffectId /\ rows[e] \in Row /\ app[t].todo # <<>>
  BY <1>2, Data, AppendMoves
<1>5. CASE rows'[e] = rows[e]
  BY <1>3, <1>5
<1>6. CASE PutRow(t) /\ Ev(t).eff = e /\ rows'[e] = Apply(app[t].row, Ev(t).kind)
  <2>1. app[t].row = rows[e]
    BY <1>2, <1>6 DEF PutRow, FateOK, AgreeOK, Mid, Torn
  <2>2. t = Resumer
    BY <1>1, <1>2, <1>4, <1>6, AppendsOf, OverIsDone DEF Done
  <2>3. Ev(t).kind \in {"note", "in_doubt"}
    BY <1>4, <2>2, EventsOf
  <2>4. rows[e].status \in Visible => Apply(rows[e], Ev(t).kind).status \in Visible
    BY <1>4, <2>3 DEF Apply, Row, Exists, Visible
  <2> QED
    BY <1>3, <1>6, <2>1, <2>4
<1> QED
  BY <1>4, <1>5, <1>6, AppendTouches

LEMMA ResumeEffect ==
  ASSUME CInv, ResumeInv, NEW d \in Call, EffectStep(d)
  PROVE  ResumeInv'
<1>0. UNCHANGED resume /\ past'.replay = past.replay
      /\ \A b \in Call : Eff(b)' = Eff(b) \/ Eff(b) = NoEffect
  BY EffectWrites, EffectKept DEF Eff
<1>1. resume.pc # "marking"
  BY EffectWrites, Data DEF CInv, Control, Exclusive, ResumeType
<1>2. ASSUME NEW c \in resume.saw
      PROVE  SeenOK(c)'
  <2>1. c \in Call /\ SeenOK(c)
    BY Data DEF ResumeType, ResumeInv
  <2>2. c # d /\ Over(c)
    BY <2>1, OverIsDone DEF SeenOK
  <2>3. call'[c] = call[c] /\ Eff(c)' = Eff(c) /\ (c \in landed' <=> c \in landed)
    BY <2>1, <2>2, EffectKept, EffectWrites DEF Eff
  <2>4. Over(c)'
    BY <2>2, <2>3 DEF Over
  <2>5. ASSUME Recorded(c)', Alone(c)'
        PROVE  Recorded(c) /\ Alone(c) /\ rows'[Eff(c)] = rows[Eff(c)]
    <3>1. Recorded(c) /\ Alone(c)
      BY <1>0, <2>1, <2>3, <2>5, AlonePast
    <3>2. Eff(c) \in EffectId /\ Eff(c) # Eff(d)
      BY <2>1, <2>2, <3>1, Data DEF Alone
    <3> QED
      BY <3>1, <3>2, EffectWrites
  <2> QED
    BY <1>0, <2>1, <2>3, <2>4, <2>5 DEF SeenOK
<1> QED
  BY <1>0, <1>1, <1>2 DEF ResumeInv, MarkingOK

LEMMA ResumeResume ==
  ASSUME CInv, TableInv, AloneInv, ResumeInv, ResumeStep
  PROVE  ResumeInv'
<1>0. /\ UNCHANGED <<fold, order, call, landed>> /\ past \in PastType
      /\ \A c \in Call : Eff(c)' = Eff(c) /\ (Over(c)' <=> Over(c))
      /\ resume \in ResumeType /\ rows \in [EffectId -> Row]
      /\ ResumeOK(resume, app[Resumer]) /\ Resumer \in Task /\ app \in [Task -> AppendType]
  BY ResumeFrame, Data DEF Eff, Over, CInv, Control
<1>a. \A c \in Call : (Alone(c)' <=> Alone(c)) /\ (Recorded(c)' <=> Recorded(c))
  BY <1>0 DEF Alone, Recorded
<1>1. CASE \E boundary \in BOOLEAN : Resume(boundary)
  <2>1. resume'.pc \in {"boundary", "list"} /\ resume'.saw = {}
    BY <1>0, <1>1 DEF Resume, ResumeTo, ResumeType, ResumeInv
  <2> QED
    BY <2>1 DEF ResumeInv, MarkingOK
<1>2. CASE Boundary
  <2>1. resume'.pc \in {"idle", "list"} /\ resume'.saw = {}
    BY <1>0, <1>2 DEF Boundary, ResumeTo, ResumeType, ResumeInv
  <2> QED
    BY <2>1 DEF ResumeInv, MarkingOK
<1>3. CASE List
  <2>1. /\ UNCHANGED <<rows, past>> /\ resume'.pc = "next"
        /\ resume'.left = {e \in EffectId : rows[e].status = "opened" /\ ~rows[e].sealed}
        /\ resume'.saw = {c \in Call : Over(c)}
    BY <1>3 DEF List, tables
  <2>2. ASSUME NEW c \in Call, Over(c), c \in landed, Recorded(c), Alone(c),
               ~call[c].again, past.replay # "failed"
        PROVE  rows[Eff(c)].status \in Visible \/ Eff(c) \in resume'.left
    <3>1. LandedOK(call[c], c \in landed, rows[Eff(c)], fold[Eff(c)], past.replay)
      BY <2>2 DEF AloneInv, FateOK
    <3>2. rows[Eff(c)].status \in MayHaveLanded /\ Sound(rows[Eff(c)])
      BY <2>2, <3>1 DEF LandedOK
    <3>3. Eff(c) \in EffectId
      BY <2>2, Data
    <3> QED
      BY <2>1, <3>2, <3>3 DEF MayHaveLanded, Sound, Visible
  <2>3. \A c \in resume'.saw : SeenOK(c)'
    BY <1>0, <1>a, <2>1, <2>2 DEF SeenOK
  <2> QED
    BY <2>1, <2>3 DEF ResumeInv, MarkingOK
<1>4. CASE MarkNext
  <2>0. UNCHANGED <<rows, past>> /\ resume.pc = "next"
    BY <1>4 DEF MarkNext, tables
  <2>1. resume'.saw = resume.saw /\ resume'.left = resume.left
        /\ \/ resume'.pc = "done"
           \/ resume'.pc = "marking" /\ ~Done(Resumer)' /\ ~Torn(Resumer)'
    <3>1. CASE resume.left = {}
      BY <1>0, <1>4, <3>1 DEF MarkNext, NoResume, ResumeType
    <3>2. CASE resume.left # {}
      <4>1. ResumeTo("marking") /\ Appending(Resumer, <<Event("in_doubt", Oldest(resume.left))>>)
        BY <1>4, <3>2 DEF MarkNext
      <4>2. app'[Resumer].step = "idle" /\ app'[Resumer].todo # <<>>
        BY <1>0, <4>1 DEF Appending, NoAppend
      <4> QED
        BY <1>0, <4>1, <4>2 DEF ResumeTo, ResumeType, Done, Torn
    <3> QED
      BY <3>1, <3>2
  <2>2. \A c \in resume'.saw : SeenOK(c)'
    BY <1>0, <1>a, <2>0, <2>1 DEF SeenOK, ResumeInv, ResumeType
  <2> QED
    BY <2>1, <2>2 DEF ResumeInv, MarkingOK
<1>5. CASE Marked
  <2> DEFINE o == Oldest(resume.left)
  <2>0. o \in resume.left /\ o \in EffectId /\ resume.pc = "marking" /\ Settled(Resumer)
    BY <1>0, <1>5, OldestIs DEF Marked, ResumeOK, ResumeType
  <2>1. CASE resume' = NoResume
    BY <2>1 DEF NoResume, ResumeInv, MarkingOK
  <2>2. CASE /\ rows' = MarkRow(o)
             /\ resume' = [resume EXCEPT !.pc = "next", !.left = @ \ {o}]
             /\ past' = [past EXCEPT !.marked = @ \/ Threw(Resumer)]
    <3>1. /\ resume'.pc = "next" /\ resume'.saw = resume.saw
          /\ resume'.left = resume.left \ {o} /\ past'.replay = past.replay
      BY <1>0, <2>2 DEF ResumeType, PastType
    <3>2. rows'[o].status = "in_doubt"
      <4>1. CASE Threw(Resumer)
        <5>1. rows' = [rows EXCEPT ![o] = [resume.snap[o] EXCEPT !.status = "in_doubt"]]
          BY <2>2, <4>1 DEF MarkRow
        <5>2. resume.snap[o] \in Row
          BY <1>0, <2>0 DEF ResumeType
        <5>3. [resume.snap[o] EXCEPT !.status = "in_doubt"].status = "in_doubt"
          BY <5>2 DEF Row
        <5> QED
          BY <1>0, <2>0, <5>1, <5>3
      <4>2. CASE ~Threw(Resumer)
        BY <2>0, <2>2, <4>2 DEF MarkRow, Settled, ResumeInv, MarkingOK
      <4> QED
        BY <4>1, <4>2
    <3>3. \A e \in EffectId : e # o => rows'[e] = rows[e]
      BY <1>0, <2>0, <2>2 DEF MarkRow
    <3>4. ASSUME NEW c \in resume.saw
          PROVE  SeenOK(c)'
      <4>1. SeenOK(c) /\ c \in Call
        BY <1>0 DEF ResumeInv, ResumeType
      <4>2. ASSUME c \in landed, Recorded(c), Alone(c), ~call[c].again, past.replay # "failed"
            PROVE  rows'[Eff(c)].status \in Visible \/ Eff(c) \in resume'.left
        <5>1. Eff(c) \in EffectId
          BY <4>1, <4>2, Data
        <5>2. rows[Eff(c)].status \in Visible \/ Eff(c) \in resume.left
          BY <4>1, <4>2 DEF SeenOK
        <5> QED
          BY <3>1, <3>2, <3>3, <5>1, <5>2 DEF Visible
      <4> QED
        BY <1>0, <1>a, <3>1, <4>1, <4>2 DEF SeenOK
    <3> QED
      BY <3>1, <3>4 DEF ResumeInv, MarkingOK
  <2> QED
    BY <1>5, <2>1, <2>2 DEF Marked
<1> QED
  BY <1>1, <1>2, <1>3, <1>4, <1>5 DEF ResumeStep

LEMMA ResumeInvStep ==
  ASSUME CInv, TableInv, AloneInv, ResumeInv, [Next]_vars
  PROVE  ResumeInv'
<1>1. ASSUME NEW t \in Task, AppendStep(t)
      PROVE  ResumeInv'
  <2>1. UNCHANGED resume /\ resume.saw \subseteq Call
    BY <1>1, AppendAt, Data DEF ResumeType
  <2>2. MarkingOK'
    BY <1>1, MarkingAppend DEF ResumeInv
  <2>3. \A c \in resume.saw : SeenOK(c)'
    BY <1>1, <2>1, SeenAppend DEF ResumeInv
  <2> QED
    BY <2>1, <2>2, <2>3 DEF ResumeInv
<1>2. CASE UNCHANGED vars
  BY <1>2 DEF vars, ResumeInv, MarkingOK, SeenOK, Over, Recorded, Alone, Eff, Done, Torn
<1>3. CASE ReadSaga \/ PutStatus
  <2>1. UNCHANGED <<rows, app, call, landed, resume>> /\ past'.replay = past.replay
    BY <1>3, Data DEF ReadSaga, PutStatus, tables, PastType
  <2> QED
    BY <2>1 DEF ResumeInv, MarkingOK, SeenOK, Over, Recorded, Alone, Eff, Done, Torn
<1>4. CASE Crash
  BY <1>4, CrashLeaves DEF ResumeInv, MarkingOK, NoResume
<1>5. CASE Replay
  <2>1. resume'.saw = {} /\ resume'.pc # "marking"
    BY <1>5, Data DEF Replay, Quiet, ResumeType
  <2> QED
    BY <2>1 DEF ResumeInv, MarkingOK
<1> QED
  BY <1>1, <1>2, <1>3, <1>4, <1>5, ResumeEffect, ResumeResume DEF Next

LEMMA ResumeHolds == Spec => []ResumeInv
<1>1. Init => ResumeInv
  BY DEF Init, ResumeInv, MarkingOK, NoResume
<1>2. CInv /\ TableInv /\ AloneInv /\ ResumeInv /\ [Next]_vars => ResumeInv'
  BY ResumeInvStep
<1> QED
  BY <1>1, <1>2, ControlHolds, TableHolds, AloneHolds, PTL DEF Spec

-----------------------------------------------------------------------------
(* The three properties. *)

\* The row of a run that took effect does not deny it, nor does the log: a lost
\* answer, a crash at any await or a failing statement leaves it opened, landed
\* or in doubt, and undo or resumeSaga finds it there.
THEOREM NothingIsLost == Spec => []NothingLandedIsLost
<1>1. CInv /\ AloneInv => NothingLandedIsLost
  <2> SUFFICES ASSUME CInv, AloneInv, NEW c \in landed, Recorded(c), Alone(c), ~call[c].again
               PROVE  /\ fold[Eff(c)].status \in MayHaveLanded
                      /\ past.replay # "failed" => rows[Eff(c)].status \in MayHaveLanded
    BY DEF NothingLandedIsLost
  <2>1. c \in Call
    BY Typed DEF CInv
  <2> QED
    BY <2>1 DEF AloneInv, FateOK, LandedOK
<1> QED
  BY <1>1, ControlHolds, AloneHolds, PTL

\* Once resumeSaga is done, undo selects every landed effect whose call was over
\* when it read the rows, whether it could append effect_in_doubt or had to
\* write the row itself.
THEOREM ResumeMakesVisible == Spec => []ResumedIsVisible
<1>1. CInv /\ TableInv /\ ResumeInv => ResumedIsVisible
  <2> SUFFICES ASSUME CInv, TableInv, ResumeInv, resume.pc = "done", past.replay # "failed",
                      NEW c \in resume.saw \cap landed,
                      Recorded(c), Alone(c), ~call[c].again
               PROVE  rows[Eff(c)].status \in {"landed", "in_doubt"}
    BY DEF ResumedIsVisible
  <2>1. resume.left = {}
    BY DEF TableInv, LeftOK
  <2> QED
    BY <2>1 DEF ResumeInv, SeenOK, Visible
<1> QED
  BY <1>1, ControlHolds, TableHolds, ResumeHolds, PTL

\* With nothing at work and no append cut off, replay would find the row of an
\* effect as it is, unless the effect shares its seq with another one.
THEOREM RowsAgree == Spec => []RowsAgreeWithLog
<1>1. CInv /\ AloneInv => RowsAgreeWithLog
  <2> SUFFICES ASSUME CInv, AloneInv, Resting, ~past.torn, ~past.marked,
                      NEW c \in Call, Recorded(c), Alone(c)
               PROVE  \/ rows[Eff(c)] = fold[Eff(c)]
                      \/ ~Exists(rows[Eff(c)]) /\ Clash
    BY DEF RowsAgreeWithLog
  <2>1. \A t \in Task : ~Mid(t, Eff(c))
    BY DEF Resting, Settled, Done, Threw, Mid, Torn
  <2>2. Agrees(rows[Eff(c)], fold[Eff(c)], Crowded)
    BY <2>1 DEF AloneInv, FateOK, AgreeOK
  <2> QED
    BY <2>2, CrowdedClash DEF Agrees
<1> QED
  BY <1>1, ControlHolds, AloneHolds, PTL
=============================================================================
