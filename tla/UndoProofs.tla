------------------------------ MODULE UndoProofs ------------------------------
(***************************************************************************)
(* Proofs about Undo, for any number of effects and of calls, as long as no *)
(* two calls of undoSaga run at the same time.  The inductive invariant     *)
(* ties the copies of the rows that the running call holds to the effects   *)
(* table, and what it has noted for its report to the rows it has left      *)
(* behind.                                                                  *)
(***************************************************************************)
EXTENDS Undo, TLAPS

HandedOver == {"failed", "escalated"}

\* The row the call is working on: selected, landed, not settled, and in the table as
\* the call's place in the code has left it.
InHand(c, p, f) ==
  c.pc \notin {"idle", "loop"} =>
    /\ c.at \in c.todo /\ ~c.halted /\ ~c.dry
    /\ c.rows[c.at].status = "landed" /\ c.rows[c.at].comp \notin TERMINAL_SKIP
    /\ c.pc = "plan" => p[c.at] = c.rows[c.at]
    /\ c.pc = "ready" => p[c.at].comp = "planned" /\ f[c.at].comp = "planned"
    /\ c.pc = "calling" => p[c.at].comp = "executing" /\ f[c.at].comp = "planned"
    /\ c.pc = "raise" => p[c.at].comp = "failed" /\ f[c.at].comp \in HandedOver
    /\ c.pc = "settle" =>
         /\ <<c.answer, p[c.at].comp>> \in ExecuteAnswers \cup {<<"doubt", "escalated">>}
         /\ f[c.at].comp = p[c.at].comp

\* What the call has not come to yet: its copies are the rows, and it selected those
\* that are pending.
Ahead(c, p) ==
  \A e \in Effect : (e < c.at \/ (e = c.at /\ c.pc = "loop")) =>
    /\ c.rows[e] = p[e]
    /\ e \in c.todo => Pending(p[e])
    /\ e \notin c.todo /\ e >= c.toSeq => ~Pending(p[e])

\* What it is done with is noted as it is in the table, and what it has left pending
\* was handed over or halted it.
Behind(c, p) ==
  \A e \in Effect : e > c.at =>
    /\ c.out[e] = "compensated" => p[e].comp = "compensated"
    /\ c.out[e] \in HandedOver => p[e].comp = "escalated"
    /\ Pending(p[e]) /\ ~c.dry /\ ~c.halted =>
         /\ c.out[e] \in HandedOver \cup {"not_attempted"}
         /\ c.stops => e \in Independent \/ e < c.toSeq

\* A call is halted by an effect it hands over.
HaltIsNoted(c) ==
  c.halted => \E e \in Effect : e > c.at /\ c.out[e] \in HandedOver

CallOk(c, p, f) ==
  IF c.pc = "idle"
  THEN ~c.halted
  ELSE /\ \A e \in c.todo : e >= c.toSeq
       /\ InHand(c, p, f) /\ Ahead(c, p) /\ Behind(c, p) /\ HaltIsNoted(c)

Sole == \A u, v \in Undoer : Active(u) /\ Active(v) => u = v

IInv == /\ TypeOK /\ Sole /\ RebuildAgrees
        /\ \A u \in Undoer : CallOk(call[u], proj, fold)

-----------------------------------------------------------------------------
(* Types, whether or not calls overlap.  A call that is not at the head of the *)
(* loop has an effect in hand.                                                *)

CallType ==
  [pc : {"idle", "loop", "plan", "ready", "calling", "settle", "raise"},
   at : 0 .. N, rows : [Effect -> Row], todo : SUBSET Effect,
   toSeq : Effect, dry : BOOLEAN, stops : BOOLEAN, halted : BOOLEAN,
   answer : {"none", "ok", "gated", "error", "fenced", "doubt"},
   out : [Effect -> Outcome]]

TInv ==
  /\ TypeOK
  /\ \A u \in Undoer : call[u].pc \notin {"idle", "loop"} => call[u].at \in Effect

\* What TypeOK says of a call, as a set.
LEMMA CallTyped == TypeOK <=>
  /\ proj \in [Effect -> Row] /\ fold \in [Effect -> Row]
  /\ saga \in {"closed", "undoing", "undone", "partially_undone", "failed"}
  /\ call \in [Undoer -> CallType]
BY DEF TypeOK, CallType

\* Effects are numbers.
LEMMA EffectType == ASSUME NEW e PROVE e \in Effect <=> e \in Nat /\ e >= 1 /\ e <= N
BY UndoAssumption DEF Effect

\* What a move to the next effect leaves in the call.
MovesOn(c, d, outcome, halts) ==
  /\ d.pc = "loop" /\ d.at = c.at - 1
  /\ d.todo = c.todo /\ d.toSeq = c.toSeq /\ d.dry = c.dry /\ d.stops = c.stops
  /\ d.halted = (c.halted \/ halts)
  /\ d.out = [c.out EXCEPT ![c.at] = outcome]
  /\ \A e \in Effect : e # c.at => d.rows[e] = c.rows[e]

\* What a step that keeps the effect in hand leaves in it.
Stays(c, d) ==
  /\ d.at = c.at /\ d.todo = c.todo /\ d.toSeq = c.toSeq /\ d.dry = c.dry
  /\ d.stops = c.stops /\ d.halted = c.halted /\ d.out = c.out
  /\ \A e \in Effect : e # c.at => d.rows[e] = c.rows[e]

Apart(u) == \A v \in Undoer : v # u => call'[v] = call[v]

\* A call that goes on is a call.
LEMMA Advanced ==
  ASSUME NEW c \in CallType, NEW a \in 0 .. N, NEW rows \in [Effect -> Row],
         NEW out \in [Effect -> Outcome], NEW h \in BOOLEAN
  PROVE  [c EXCEPT !.pc = "loop", !.at = a, !.rows = rows, !.out = out,
                   !.halted = h] \in CallType
BY DEF CallType

\* Report moves the call on.
LEMMA Reported ==
  ASSUME TypeOK, NEW u \in Undoer, Cur(u) \in Effect, NEW row \in Row,
         NEW outcome \in Outcome, NEW halts \in BOOLEAN,
         Report(u, row, outcome, halts)
  PROVE  /\ MovesOn(call[u], call'[u], outcome, halts) /\ Apart(u)
         /\ call' \in [Undoer -> CallType]
<1> DEFINE c == call[u]
           d == [c EXCEPT !.pc = "loop", !.at = @ - 1, !.rows[c.at] = row,
                          !.out[c.at] = outcome, !.halted = @ \/ halts]
<1>1. call \in [Undoer -> CallType]
  BY CallTyped
<1>2. call' = [call EXCEPT ![u] = d]
  BY <1>1 DEF Report, Cur
<1>3. d \in CallType
  <2> DEFINE a == c.at - 1
             rows == [c.rows EXCEPT ![c.at] = row]
             out == [c.out EXCEPT ![c.at] = outcome]
             h == c.halted \/ halts
  <2>1. a \in 0 .. N
    BY EffectType, UndoAssumption DEF Cur
  <2>2. h \in BOOLEAN
    OBVIOUS
  <2>3. rows \in [Effect -> Row] /\ out \in [Effect -> Outcome]
    BY <1>1 DEF CallType, Cur
  <2>4. d = [c EXCEPT !.pc = "loop", !.at = a, !.rows = rows, !.out = out,
                     !.halted = h]
    OBVIOUS
  <2>5. c \in CallType
    BY <1>1
  <2> HIDE DEF c, d, a, rows, out, h
  <2>6. QED
    BY <2>1, <2>2, <2>3, <2>4, <2>5, Advanced
<1>4. MovesOn(c, d, outcome, halts)
  BY <1>1 DEF CallType, MovesOn, Cur
<1>5. QED
  BY <1>1, <1>2, <1>3, <1>4 DEF Apart

\* Hold keeps the effect, with the row it is given.
LEMMA Held ==
  ASSUME TypeOK, NEW u \in Undoer, Cur(u) \in Effect, NEW row \in Row,
         NEW pc \in {"loop", "plan", "ready", "calling", "settle", "raise"},
         Hold(u, row, pc)
  PROVE  /\ Stays(call[u], call'[u]) /\ Apart(u)
         /\ call'[u].pc = pc /\ call'[u].rows[Cur(u)] = row
         /\ call' \in [Undoer -> CallType]
<1> DEFINE c == call[u]
           d == [c EXCEPT !.pc = pc, !.rows[c.at] = row]
<1>1. call \in [Undoer -> CallType]
  BY CallTyped
<1>2. call' = [call EXCEPT ![u] = d]
  BY <1>1 DEF Hold, Cur
<1>3. d \in CallType
  BY <1>1 DEF CallType, Cur
<1>4. Stays(c, d) /\ d.pc = pc /\ d.rows[c.at] = row
  BY <1>1 DEF CallType, Stays, Cur
<1>5. QED
  BY <1>1, <1>2, <1>3, <1>4 DEF Apart, Cur

\* Goto moves the place in the code only.
LEMMA Gone ==
  ASSUME TypeOK, NEW u \in Undoer, Goto(u, "plan") \/ Goto(u, "ready")
  PROVE  /\ Stays(call[u], call'[u]) /\ Apart(u)
         /\ call'[u].rows = call[u].rows
         /\ Goto(u, "plan") => call'[u].pc = "plan"
         /\ Goto(u, "ready") => call'[u].pc = "ready"
         /\ call' \in [Undoer -> CallType]
<1>1. call \in [Undoer -> CallType]
  BY CallTyped
<1>2. ASSUME NEW pc \in {"plan", "ready"}, Goto(u, pc)
      PROVE  /\ Stays(call[u], call'[u]) /\ Apart(u)
             /\ call'[u].rows = call[u].rows /\ call'[u].pc = pc
             /\ call' \in [Undoer -> CallType]
  <2> DEFINE d == [call[u] EXCEPT !.pc = pc]
  <2>1. call' = [call EXCEPT ![u] = d]
    BY <1>1, <1>2 DEF Goto
  <2>2. d \in CallType /\ Stays(call[u], d) /\ d.rows = call[u].rows /\ d.pc = pc
    BY <1>1 DEF CallType, Stays
  <2>3. QED
    BY <1>1, <2>1, <2>2 DEF Apart
<1>3. QED
  BY <1>2 DEF Goto

\* End leaves an idle call.
LEMMA Ended ==
  ASSUME TypeOK, NEW u \in Undoer, End(u)
  PROVE  call'[u] = Idle /\ Apart(u) /\ call' \in [Undoer -> CallType]
<1>1. Idle \in CallType
  BY UndoAssumption, EffectType DEF Idle, CallType, Row, CompState, Outcome
<1>2. QED
  BY <1>1, CallTyped DEF End, Apart

\* A halt that haltOnFailure has no say in: resolveInDoubt (the row the call holds is
\* not touched) and VR2020.
LEMMA Doubted ==
  ASSUME TypeOK, NEW u \in Undoer, At(u, "loop"),
         call' = [call EXCEPT ![u].at = @ - 1, ![u].halted = TRUE,
                              ![u].out[Cur(u)] = "escalated"]
  PROVE  Report(u, Mine(u), "escalated", TRUE)
<1> DEFINE c == call[u]
           d == [c EXCEPT !.at = @ - 1, !.halted = TRUE, !.out[c.at] = "escalated"]
           g == [c EXCEPT !.pc = "loop", !.at = @ - 1, !.rows[c.at] = c.rows[c.at],
                          !.out[c.at] = "escalated", !.halted = @ \/ TRUE]
<1>1. call \in [Undoer -> CallType]
  BY CallTyped
<1>2. c.pc = "loop" /\ c.rows = [c.rows EXCEPT ![c.at] = c.rows[c.at]]
  BY <1>1 DEF At, CallType
<1>3. d = g
  BY <1>1, <1>2 DEF CallType
<1>4. call' = [call EXCEPT ![u] = d]
  BY <1>1 DEF Cur
<1>5. [call EXCEPT ![u] = g] =
        [call EXCEPT ![u].pc = "loop", ![u].at = @ - 1, ![u].rows[Cur(u)] = Mine(u),
                     ![u].out[Cur(u)] = "escalated", ![u].halted = @ \/ TRUE]
  BY <1>1 DEF Cur, Mine
<1>6. QED
  BY <1>3, <1>4, <1>5 DEF Report

LEMMA Refused ==
  ASSUME TypeOK, NEW u \in Undoer, Blocked(u)
  PROVE  Report(u, Comp(Mine(u), "escalated"), "escalated", TRUE)
<1> DEFINE row == Comp(Mine(u), "escalated")
<1>1. call' = [call EXCEPT ![u].pc = "loop", ![u].at = @ - 1,
                           ![u].halted = TRUE, ![u].rows[Cur(u)] = row,
                           ![u].out[Cur(u)] = "escalated"]
  BY DEF Blocked
<1> HIDE DEF row
<1>2. call \in [Undoer -> CallType]
  BY CallTyped
<1>3. call' = [call EXCEPT ![u].pc = "loop", ![u].at = @ - 1,
                           ![u].rows[Cur(u)] = row,
                           ![u].out[Cur(u)] = "escalated",
                           ![u].halted = @ \/ TRUE]
  BY <1>1, <1>2 DEF CallType
<1>4. QED
  BY <1>3 DEF Report, row

-----------------------------------------------------------------------------
(* Type correctness. *)

\* Setting the compensation state of a row.
LEMMA RowTyped ==
  ASSUME NEW row \in Row, NEW c \in CompState
  PROVE  Comp(row, c) \in Row /\ Comp(row, c).comp = c
         /\ Comp(row, c).status = row.status
         /\ row.comp \in CompState
BY DEF Comp, Row, CompState

\* The rows a call and the tables hold.
LEMMA MineTyped ==
  ASSUME TypeOK, NEW u \in Undoer, Cur(u) \in Effect
  PROVE  Mine(u) \in Row /\ \A e \in Effect : proj[e] \in Row /\ fold[e] \in Row
BY CallTyped DEF Mine, Cur, CallType

\* The words undo writes into rows and reports.
LEMMA WordsTyped ==
  /\ {"available", "planned", "executing", "compensated", "failed", "escalated"}
       \subseteq CompState
  /\ {"none", "not_attempted", "skipped", "compensated", "failed", "escalated"}
       = Outcome
BY DEF CompState, Outcome

\* The two ways of writing a compensation state keep the tables typed.
LEMMA EventTyped ==
  ASSUME TypeOK, NEW e \in Effect, NEW c \in CompState, Event(e, c)
  PROVE  proj' \in [Effect -> Row] /\ fold' \in [Effect -> Row]
BY RowTyped, CallTyped DEF Event

LEMMA PersistTyped ==
  ASSUME TypeOK, NEW u \in Undoer, Cur(u) \in Effect, NEW row \in Row,
         EventAndPersist(u, row) \/ Persist(u, row)
  PROVE  proj' \in [Effect -> Row] /\ fold' \in [Effect -> Row]
<1>1. Comp(fold[Cur(u)], row.comp) \in Row
  BY CallTyped DEF Comp, Row
<1>2. QED
  BY <1>1, CallTyped DEF EventAndPersist, Persist

\* An effect in hand is an effect; so is one the loop works on.
LEMMA Holding ==
  ASSUME TInv, NEW u \in Undoer
  PROVE  /\ At(u, "plan") \/ At(u, "ready") \/ At(u, "calling") \/ At(u, "settle")
            \/ At(u, "raise") => Cur(u) \in Effect
         /\ Cur(u) \in call[u].todo => Cur(u) \in Effect
         /\ Cur(u) > 0 => Cur(u) \in Effect
         /\ TypeOK /\ call \in [Undoer -> CallType]
BY CallTyped, UndoAssumption, EffectType DEF TInv, At, Cur, CallType

\* A step of one call, with the tables typed, keeps the types.
LEMMA StepTyped ==
  ASSUME TInv, NEW u \in Undoer, Apart(u), call' \in [Undoer -> CallType],
         call'[u].pc \notin {"idle", "loop"} => call'[u].at \in Effect,
         proj' \in [Effect -> Row], fold' \in [Effect -> Row],
         saga' \in {"closed", "undoing", "undone", "partially_undone", "failed"}
  PROVE  TInv'
<1>1. TypeOK'
  BY DEF TypeOK, CallType
<1>2. QED
  BY <1>1 DEF TInv, Apart

\* Steps that move on, stay or end, with the tables typed.
LEMMA ReportTyped ==
  ASSUME TInv, NEW u \in Undoer, Cur(u) \in Effect, NEW row \in Row,
         NEW outcome \in Outcome, NEW halts \in BOOLEAN,
         Report(u, row, outcome, halts),
         proj' \in [Effect -> Row], fold' \in [Effect -> Row], saga' = saga
  PROVE  TInv'
<1>0. TypeOK
  BY DEF TInv
<1>1. MovesOn(call[u], call'[u], outcome, halts) /\ Apart(u)
      /\ call' \in [Undoer -> CallType]
  BY <1>0, Reported
<1>2. call'[u].pc = "loop"
  BY <1>1 DEF MovesOn
<1>3. QED
  BY <1>0, <1>1, <1>2, StepTyped, CallTyped

LEMMA HoldTyped ==
  ASSUME TInv, NEW u \in Undoer, Cur(u) \in Effect, NEW row \in Row,
         NEW pc \in {"loop", "plan", "ready", "calling", "settle", "raise"},
         Hold(u, row, pc),
         proj' \in [Effect -> Row], fold' \in [Effect -> Row], saga' = saga
  PROVE  TInv'
BY Held, StepTyped, CallTyped DEF TInv, Stays, Cur

LEMMA GotoTyped ==
  ASSUME TInv, NEW u \in Undoer, Cur(u) \in Effect,
         Goto(u, "plan") \/ Goto(u, "ready"),
         proj' \in [Effect -> Row], fold' \in [Effect -> Row], saga' = saga
  PROVE  TInv'
BY Gone, StepTyped, CallTyped DEF TInv, Stays, Cur

LEMMA EndTyped ==
  ASSUME TInv, NEW u \in Undoer, End(u), UNCHANGED <<proj, fold>>,
         saga' \in {"closed", "undoing", "undone", "partially_undone", "failed"}
  PROVE  TInv'
BY Ended, StepTyped, CallTyped DEF TInv, Idle

\* The types hold at first.
LEMMA TypeInit == Init => TInv
<1> SUFFICES ASSUME Init PROVE TInv
  OBVIOUS
<1>1. Idle \in CallType
  BY UndoAssumption, EffectType DEF Idle, CallType, Row, CompState, Outcome
<1>2. proj \in [Effect -> Row]
  BY DEF Init, Row, CompState
<1>3. QED
  BY <1>1, <1>2, CallTyped DEF Init, TInv, Idle

\* Every step keeps them, overlapping calls included.
LEMMA TypeStep == TInv /\ [Next]_vars => TInv'
<1> SUFFICES ASSUME TInv, [Next]_vars PROVE TInv'
  OBVIOUS
<1> USE WordsTyped
<1>a. TypeOK
  BY DEF TInv
<1>b. saga \in {"closed", "undoing", "undone", "partially_undone", "failed"}
      /\ proj \in [Effect -> Row] /\ fold \in [Effect -> Row]
  BY <1>a, CallTyped
<1>1. ASSUME NEW u \in Undoer, NEW toSeq \in Effect, NEW dry \in BOOLEAN,
             NEW stops \in BOOLEAN, Begin(u, toSeq, dry, stops)
      PROVE  TInv'
  <2> DEFINE todo == {e \in toSeq .. N : Pending(proj[e])}
             d == [call[u] EXCEPT !.pc = "loop", !.at = N, !.rows = proj,
                     !.toSeq = toSeq, !.dry = dry, !.stops = stops, !.todo = todo]
  <2>1. todo \subseteq Effect
    BY EffectType, UndoAssumption
  <2>2. call \in [Undoer -> CallType]
    BY <1>a, CallTyped
  <2>3. d \in CallType /\ d.pc = "loop"
    <3> HIDE DEF todo
    <3>1. call[u] \in CallType /\ N \in 0 .. N
      BY <2>2, UndoAssumption
    <3>2. QED
      BY <3>1, <2>1, <1>b DEF CallType
  <2>4. call' = [call EXCEPT ![u] = d]
    BY <1>1 DEF Begin
  <2> HIDE DEF d
  <2>5. Apart(u) /\ call' \in [Undoer -> CallType] /\ call'[u].pc = "loop"
    BY <2>2, <2>3, <2>4 DEF Apart
  <2>6. QED
    BY <2>5, <1>1, <1>b, StepTyped DEF Begin
<1>2. ASSUME NEW u \in Undoer, Pass(u) PROVE TInv'
  BY <1>2, <1>a, <1>b, Holding, MineTyped, ReportTyped DEF Pass
<1>3. ASSUME NEW u \in Undoer, Resolve(u) PROVE TInv'
  <2>1. Cur(u) \in Effect /\ At(u, "loop") /\ saga' = saga
    BY <1>3, Holding DEF Resolve, Working
  <2>2. Mine(u) \in Row
    BY <1>a, <2>1, MineTyped
  <2>3. CASE Event(Cur(u), "escalated") /\
             call' = [call EXCEPT ![u].at = @ - 1, ![u].halted = TRUE,
                                  ![u].out[Cur(u)] = "escalated"]
    BY <2>1, <2>2, <2>3, <1>a, Doubted, EventTyped, ReportTyped
  <2>4. ASSUME NEW row \in Row, Hold(u, row, "loop"),
               proj' = [proj EXCEPT ![Cur(u)] = row],
               fold' = [fold EXCEPT ![Cur(u)].status = "landed"]
        PROVE  TInv'
    <3>1. proj' \in [Effect -> Row] /\ fold' \in [Effect -> Row]
      BY <2>1, <2>4, <1>b DEF Row
    <3>2. QED
      BY <2>1, <2>4, <3>1, HoldTyped
  <2>5. ASSUME NEW row \in Row, Report(u, row, "skipped", FALSE),
               proj' = [proj EXCEPT ![Cur(u)] = row],
               fold' = [fold EXCEPT ![Cur(u)] = row]
        PROVE  TInv'
    <3>1. proj' \in [Effect -> Row] /\ fold' \in [Effect -> Row]
      BY <2>1, <2>5, <1>b
    <3>2. QED
      BY <2>1, <2>5, <3>1, ReportTyped
  <2>6. [Mine(u) EXCEPT !.status = "landed"] \in Row
        /\ [status |-> "abandoned", comp |-> "none_required"] \in Row
    BY <2>2 DEF Row, CompState
  <2>7. QED
    BY <1>3, <2>3, <2>4, <2>5, <2>6 DEF Resolve
<1>4. ASSUME NEW u \in Undoer, DrySkip(u) PROVE TInv'
  BY <1>4, <1>a, <1>b, Holding, MineTyped, ReportTyped DEF DrySkip, Working
<1>5. ASSUME NEW u \in Undoer, Cur(u) \in Effect, Escalate(u), saga' = saga
      PROVE  TInv'
  <2>1. Comp(Mine(u), "escalated") \in Row /\ Stops(u) \in BOOLEAN
    BY <1>a, <1>5, MineTyped, RowTyped DEF Stops
  <2>2. QED
    BY <1>5, <1>a, <2>1, PersistTyped, ReportTyped DEF Escalate
<1>6. ASSUME NEW u \in Undoer, Unavailable(u) PROVE TInv'
  BY <1>6, <1>5, Holding DEF Unavailable, Working
<1>7. ASSUME NEW u \in Undoer, Plan(u) PROVE TInv'
  <2>1. Cur(u) \in Effect /\ saga' = saga
    BY <1>7, Holding DEF Plan, Working
  <2>2. Comp(Mine(u), "planned") \in Row
    BY <1>a, <2>1, MineTyped, RowTyped
  <2>3. QED
    BY <1>7, <1>a, <1>b, <2>1, <2>2, PersistTyped, HoldTyped, GotoTyped DEF Plan
<1>8. ASSUME NEW u \in Undoer, Compile(u) PROVE TInv'
  BY <1>8, <1>5, <1>a, Holding, EventTyped, GotoTyped DEF Compile
<1>9. ASSUME NEW u \in Undoer, Ready(u) PROVE TInv'
  <2>1. Cur(u) \in Effect /\ saga' = saga
    BY <1>9, Holding DEF Ready
  <2>2. Comp(Mine(u), "executing") \in Row
    BY <1>a, <2>1, MineTyped, RowTyped
  <2>3. proj' = [proj EXCEPT ![Cur(u)] = Comp(Mine(u), "executing")] /\ UNCHANGED fold
          => proj' \in [Effect -> Row] /\ fold' \in [Effect -> Row]
    BY <1>b, <2>2
  <2>4. CASE End(u) /\ UNCHANGED <<proj, fold>>
    BY <2>4, <2>1, <1>b, EndTyped
  <2>5. QED
    BY <1>9, <1>5, <2>1, <2>2, <2>3, <2>4, HoldTyped DEF Ready
<1>10. ASSUME NEW u \in Undoer, Execute(u) PROVE TInv'
  <2>1. Cur(u) \in Effect /\ saga' = saga
    BY <1>10, Holding DEF Execute
  <2>2. call \in [Undoer -> CallType]
    BY <1>a, CallTyped
  <2>3. ASSUME NEW s \in {"opened", "landed", "in_doubt", "abandoned"},
               NEW t \in {"opened", "landed", "in_doubt", "abandoned"},
               NEW c \in {"compensated", "escalated", "failed"},
               NEW a \in {"ok", "gated", "error", "fenced", "doubt"},
               proj' = [proj EXCEPT ![Cur(u)] = [status |-> s, comp |-> c]],
               fold' = [fold EXCEPT ![Cur(u)] = [status |-> t, comp |-> c]],
               call' = [call EXCEPT ![u].pc = "settle", ![u].answer = a]
        PROVE  TInv'
    <3>1. proj' \in [Effect -> Row] /\ fold' \in [Effect -> Row]
      BY <2>3, <1>b DEF Row, CompState
    <3>2. call' \in [Undoer -> CallType] /\ Apart(u) /\ call'[u].at = Cur(u)
      <4> DEFINE d == [call[u] EXCEPT !.pc = "settle", !.answer = a]
      <4>0. call[u] \in CallType
        BY <2>2
      <4>1. d \in CallType /\ d.at = Cur(u)
        BY <4>0 DEF CallType, Cur
      <4>2. call' = [call EXCEPT ![u] = d]
        BY <2>2, <2>3
      <4> HIDE DEF d
      <4>3. QED
        BY <2>2, <4>1, <4>2 DEF Apart
    <3>3. QED
      BY <3>1, <3>2, <2>1, <1>b, StepTyped
  <2>4. /\ proj[Cur(u)].status \in {"opened", "landed", "in_doubt", "abandoned"}
        /\ fold[Cur(u)].status \in {"opened", "landed", "in_doubt", "abandoned"}
    BY <2>1, <1>b DEF Row
  <2>5. ASSUME NEW a \in ExecuteAnswers,
               NEW s \in {proj[Cur(u)].status, "landed", "abandoned"},
               proj' = [proj EXCEPT ![Cur(u)] = [status |-> s, comp |-> a[2]]],
               fold' = [fold EXCEPT ![Cur(u)] =
                 [status |-> IF s = proj[Cur(u)].status THEN @.status ELSE s,
                  comp |-> a[2]]],
               call' = [call EXCEPT ![u].pc = "settle", ![u].answer = a[1]]
        PROVE  TInv'
    <3>1. a[1] \in {"ok", "gated", "error", "fenced", "doubt"}
          /\ a[2] \in {"compensated", "escalated", "failed"}
      BY DEF ExecuteAnswers
    <3>2. (IF s = proj[Cur(u)].status THEN fold[Cur(u)].status ELSE s)
            \in {"opened", "landed", "in_doubt", "abandoned"}
      BY <2>4
    <3>3. QED
      BY <2>3, <2>4, <2>5, <3>1, <3>2
  <2>6. QED
    BY <1>10, <2>3, <2>5 DEF Execute
<1>11. ASSUME NEW u \in Undoer, Settle(u) PROVE TInv'
  <2>1. Cur(u) \in Effect /\ saga' = saga
    BY <1>11, Holding DEF Settle, Answered
  <2>2. /\ Comp(Mine(u), "compensated") \in Row
        /\ Comp(Mine(u), "escalated") \in Row
        /\ Comp(Mine(u), "failed") \in Row /\ Stops(u) \in BOOLEAN
    BY <1>a, <2>1, MineTyped, RowTyped DEF Stops
  <2>3. CASE End(u) /\ UNCHANGED <<proj, fold>>
    BY <2>3, <2>1, <1>b, EndTyped
  <2>4. QED
    BY <1>11, <1>a, <2>1, <2>2, <2>3, PersistTyped, HoldTyped, ReportTyped DEF Settle
<1>12. ASSUME NEW u \in Undoer, Blocked(u) PROVE TInv'
  <2>1. Cur(u) \in Effect /\ saga' = saga
    BY <1>12, Holding DEF Blocked, Answered
  <2>2. Comp(Mine(u), "escalated") \in Row
    BY <1>a, <2>1, MineTyped, RowTyped
  <2>3. QED
    BY <1>12, <1>a, <2>1, <2>2, Refused, PersistTyped, ReportTyped DEF Blocked
<1>13. ASSUME NEW u \in Undoer, Raise(u) PROVE TInv'
  <2>1. Cur(u) \in Effect /\ saga' = saga
    BY <1>13, Holding DEF Raise
  <2>2. Comp(Mine(u), "escalated") \in Row /\ Stops(u) \in BOOLEAN
    BY <1>a, <2>1, MineTyped, RowTyped DEF Stops
  <2>3. QED
    BY <1>13, <1>a, <2>1, <2>2, PersistTyped, ReportTyped DEF Raise
<1>14. ASSUME NEW u \in Undoer, Finish(u) PROVE TInv'
  <2>1. saga' \in {"closed", "undoing", "undone", "partially_undone", "failed"}
    BY <1>14, <1>b DEF Finish, FinalStatus
  <2>2. QED
    BY <1>14, <2>1, EndTyped DEF Finish
<1>15. ASSUME NEW u \in Undoer, Crash(u) PROVE TInv'
  BY <1>15, <1>b, EndTyped DEF Crash
<1>16. ASSUME NEW e \in Effect, Human(e) PROVE TInv'
  <2>1. proj' \in [Effect -> Row] /\ fold' \in [Effect -> Row]
    BY <1>16, <1>a, EventTyped DEF Human, CompState
  <2>2. QED
    BY <1>16, <1>a, <2>1, CallTyped DEF Human, TInv, TypeOK
<1>17. CASE UNCHANGED vars
  BY <1>17 DEF vars, TInv, TypeOK
<1>18. QED
  BY <1>1, <1>2, <1>3, <1>4, <1>6, <1>7, <1>8, <1>9, <1>10, <1>11, <1>12, <1>13,
     <1>14, <1>15, <1>16, <1>17 DEF Next, Work

\* Type correctness (undo.ts, SagaUndoResult and the effects table).
THEOREM TypeCorrect == Spec => []TypeOK
<1>1. TInv => TypeOK
  BY DEF TInv
<1>2. QED
  BY TypeInit, TypeStep, <1>1, PTL DEF Spec

-----------------------------------------------------------------------------
(* What a step of the one running call has to show. *)

\* The invariant has what the types need.
LEMMA InvTyped == IInv => TInv
BY CallTyped DEF IInv, TInv, CallOk, InHand, CallType

Agree(r, s) ==
  /\ \A c \in TERMINAL_SKIP : r.comp = c <=> s.comp = c
  /\ r.comp = "escalated" => s.comp = "escalated"
  /\ s.comp = "escalated" => r.comp \in {"escalated", "failed"}

\* Only the row of effect x is written.
Wrote(x) ==
  \A e \in Effect : e # x => proj'[e] = proj[e] /\ fold'[e] = fold[e]

\* A step that writes one row has to show the agreement of that row.
LEMMA WroteAgrees ==
  ASSUME RebuildAgrees, NEW x \in Effect, Wrote(x), Agree(proj'[x], fold'[x])
  PROVE  RebuildAgrees'
BY DEF RebuildAgrees, Wrote, Agree

\* What an event writes.
LEMMA EventWrote ==
  ASSUME TypeOK, NEW x \in Effect, NEW c \in CompState, Event(x, c)
  PROVE  /\ Wrote(x) /\ proj'[x] = Comp(proj[x], c) /\ fold'[x].comp = c
         /\ Agree(proj'[x], fold'[x])
<1>1. proj' = [proj EXCEPT ![x] = Comp(proj[x], c)]
      /\ fold' = [fold EXCEPT ![x] = Comp(fold[x], c)]
  BY DEF Event
<1>2. proj[x] \in Row /\ fold[x] \in Row
  BY CallTyped
<1>3. Comp(proj[x], c).comp = c /\ Comp(fold[x], c).comp = c
  BY <1>2, RowTyped
<1>4. QED
  BY <1>1, <1>3, CallTyped DEF Wrote, Agree

\* What an event and the upsert after it write.
LEMMA PersistWrote ==
  ASSUME TypeOK, NEW u \in Undoer, Cur(u) \in Effect, NEW row \in Row,
         EventAndPersist(u, row)
  PROVE  /\ Wrote(Cur(u)) /\ proj'[Cur(u)] = row /\ fold'[Cur(u)].comp = row.comp
         /\ Agree(proj'[Cur(u)], fold'[Cur(u)])
<1>1. proj' = [proj EXCEPT ![Cur(u)] = row]
      /\ fold' = [fold EXCEPT ![Cur(u)] = Comp(fold[Cur(u)], row.comp)]
  BY DEF EventAndPersist
<1>2. fold[Cur(u)] \in Row /\ row.comp \in CompState
  BY CallTyped DEF Row
<1>3. Comp(fold[Cur(u)], row.comp).comp = row.comp
  BY <1>2, RowTyped
<1>4. QED
  BY <1>1, <1>3, CallTyped DEF Wrote, Agree

\* The call goes on to the next effect.
LEMMA NextEffect ==
  ASSUME NEW c \in CallType, NEW d \in CallType, c.at \in Effect, c.pc # "idle",
         NEW p \in [Effect -> Row], NEW q \in [Effect -> Row], NEW f, NEW g,
         CallOk(c, p, f), \A e \in Effect : e # c.at => q[e] = p[e],
         NEW outcome \in Outcome, NEW halts \in BOOLEAN,
         MovesOn(c, d, outcome, halts),
         outcome = "compensated" => q[c.at].comp = "compensated",
         outcome \in HandedOver => q[c.at].comp = "escalated",
         halts => outcome \in HandedOver,
         Pending(q[c.at]) /\ ~c.dry /\ ~c.halted /\ ~halts =>
           /\ outcome \in HandedOver \cup {"not_attempted"}
           /\ c.stops => c.at \in Independent \/ c.at < c.toSeq
  PROVE  CallOk(d, q, g)
<1>1. c.at \in Int /\ d.at = c.at - 1 /\ \A e \in Effect : e \in Int
  BY EffectType DEF MovesOn
<1>2. /\ d.pc = "loop" /\ d.todo = c.todo /\ d.toSeq = c.toSeq /\ d.dry = c.dry
      /\ d.stops = c.stops /\ (d.halted <=> c.halted \/ halts)
      /\ \A e \in Effect : e # c.at => d.rows[e] = c.rows[e] /\ d.out[e] = c.out[e]
      /\ d.out[c.at] = outcome
  BY DEF MovesOn, CallType
<1>3. Ahead(c, p) /\ Behind(c, p) /\ HaltIsNoted(c) /\ \A e \in c.todo : e >= c.toSeq
  BY DEF CallOk
<1>4. InHand(d, q, g)
  BY <1>2 DEF InHand
<1>5. Ahead(d, q)
  <2> SUFFICES ASSUME NEW e \in Effect, e < d.at \/ (e = d.at /\ d.pc = "loop")
               PROVE  /\ d.rows[e] = q[e]
                      /\ e \in d.todo => Pending(q[e])
                      /\ e \notin d.todo /\ e >= d.toSeq => ~Pending(q[e])
    BY DEF Ahead
  <2>1. e < c.at /\ e # c.at
    BY <1>1
  <2>2. QED
    BY <2>1, <1>2, <1>3 DEF Ahead
<1>6. Behind(d, q)
  <2> SUFFICES ASSUME NEW e \in Effect, e > d.at
               PROVE  /\ d.out[e] = "compensated" => q[e].comp = "compensated"
                      /\ d.out[e] \in HandedOver => q[e].comp = "escalated"
                      /\ Pending(q[e]) /\ ~d.dry /\ ~d.halted =>
                           /\ d.out[e] \in HandedOver \cup {"not_attempted"}
                           /\ d.stops => e \in Independent \/ e < d.toSeq
    BY DEF Behind
  <2>1. CASE e = c.at
    BY <2>1, <1>2
  <2>2. CASE e # c.at
    <3>1. e > c.at
      BY <1>1, <2>2
    <3>2. QED
      BY <2>2, <3>1, <1>2, <1>3 DEF Behind
  <2>3. QED
    BY <2>1, <2>2
<1>7. HaltIsNoted(d)
  <2> SUFFICES ASSUME d.halted
               PROVE  \E e \in Effect : e > d.at /\ d.out[e] \in HandedOver
    BY DEF HaltIsNoted
  <2>1. CASE halts
    BY <2>1, <1>1, <1>2
  <2>2. CASE c.halted
    <3>1. PICK e \in Effect : e > c.at /\ c.out[e] \in HandedOver
      BY <2>2, <1>3 DEF HaltIsNoted
    <3>2. e > d.at /\ e # c.at
      BY <3>1, <1>1
    <3>3. QED
      BY <3>1, <3>2, <1>2
  <2>3. QED
    BY <2>1, <2>2, <1>2
<1>8. QED
  BY <1>2, <1>3, <1>4, <1>5, <1>6, <1>7 DEF CallOk

\* The call keeps the effect it works on.
LEMMA SameEffect ==
  ASSUME NEW c \in CallType, NEW d \in CallType, c.at \in Effect, c.pc # "idle",
         NEW p \in [Effect -> Row], NEW q \in [Effect -> Row], NEW f, NEW g,
         CallOk(c, p, f), \A e \in Effect : e # c.at => q[e] = p[e],
         Stays(c, d), InHand(d, q, g), c.at \in c.todo, d.pc # "idle",
         d.pc = "loop" => d.rows[c.at] = q[c.at] /\ Pending(q[c.at])
  PROVE  CallOk(d, q, g)
<1>1. /\ d.at = c.at /\ d.todo = c.todo /\ d.toSeq = c.toSeq /\ d.dry = c.dry
      /\ d.stops = c.stops /\ d.halted = c.halted /\ d.out = c.out
      /\ \A e \in Effect : e # c.at => d.rows[e] = c.rows[e]
  BY DEF Stays
<1>2. Ahead(c, p) /\ Behind(c, p) /\ HaltIsNoted(c) /\ \A e \in c.todo : e >= c.toSeq
  BY DEF CallOk
<1>3. Ahead(d, q)
  BY <1>1, <1>2, EffectType DEF Ahead
<1>4. Behind(d, q)
  BY <1>1, <1>2, EffectType DEF Behind
<1>5. HaltIsNoted(d)
  BY <1>1, <1>2 DEF HaltIsNoted
<1>6. QED
  BY <1>1, <1>2, <1>3, <1>4, <1>5 DEF CallOk

\* A step of a running call leaves every other call idle.
LEMMA OnlyOne ==
  ASSUME IInv, NEW u \in Undoer, Active(u), Apart(u), TypeOK', RebuildAgrees',
         CallOk(call'[u], proj', fold')
  PROVE  IInv'
<1>1. \A v \in Undoer : v # u => call'[v].pc = "idle"
  BY DEF IInv, Sole, Active, At, Apart
<1>2. \A v \in Undoer : CallOk(call'[v], proj', fold')
  BY <1>1 DEF CallOk, IInv, Apart
<1>3. Sole'
  BY <1>1 DEF Sole, Active, At
<1>4. QED
  BY <1>2, <1>3 DEF IInv

\* A step that reports has to show its outcome true of the row it wrote.
LEMMA ReportInv ==
  ASSUME IInv, TInv', NEW u \in Undoer, Active(u), Cur(u) \in Effect,
         NEW row \in Row, NEW outcome \in Outcome, NEW halts \in BOOLEAN,
         Report(u, row, outcome, halts),
         Wrote(Cur(u)), Agree(proj'[Cur(u)], fold'[Cur(u)]),
         outcome = "compensated" => proj'[Cur(u)].comp = "compensated",
         outcome \in HandedOver => proj'[Cur(u)].comp = "escalated",
         halts => outcome \in HandedOver,
         Pending(proj'[Cur(u)]) /\ ~call[u].dry /\ ~call[u].halted /\ ~halts =>
           /\ outcome \in HandedOver \cup {"not_attempted"}
           /\ call[u].stops => Cur(u) \in Independent \/ Cur(u) < call[u].toSeq
  PROVE  IInv'
<1>1. TypeOK /\ TypeOK' /\ CallOk(call[u], proj, fold) /\ RebuildAgrees
  BY DEF IInv, TInv
<1>2. MovesOn(call[u], call'[u], outcome, halts) /\ Apart(u)
  BY <1>1, Reported
<1>3. /\ call[u] \in CallType /\ call'[u] \in CallType
      /\ proj \in [Effect -> Row] /\ proj' \in [Effect -> Row]
  BY <1>1, CallTyped DEF TypeOK, CallType
<1>4. call[u].pc # "idle" /\ call[u].at \in Effect
      /\ \A e \in Effect : e # call[u].at => proj'[e] = proj[e]
  BY DEF Active, At, Cur, Wrote
<1>5. CallOk(call'[u], proj', fold')
  BY <1>1, <1>2, <1>3, <1>4, NextEffect DEF Cur
<1>6. QED
  BY <1>1, <1>2, <1>5, WroteAgrees, OnlyOne

\* A step that stays has to show the row to be as the next place expects it.
LEMMA StayInv ==
  ASSUME IInv, TInv', NEW u \in Undoer, Active(u), Cur(u) \in call[u].todo,
         Stays(call[u], call'[u]), Apart(u), call'[u].pc # "idle",
         Wrote(Cur(u)), Agree(proj'[Cur(u)], fold'[Cur(u)]),
         InHand(call'[u], proj', fold'),
         At(u, "loop")' =>
           call'[u].rows[Cur(u)] = proj'[Cur(u)] /\ Pending(proj'[Cur(u)])
  PROVE  IInv'
<1>1. TypeOK /\ TypeOK' /\ CallOk(call[u], proj, fold) /\ RebuildAgrees
  BY DEF IInv, TInv
<1>2. /\ call[u] \in CallType /\ call'[u] \in CallType
      /\ proj \in [Effect -> Row] /\ proj' \in [Effect -> Row]
  BY <1>1, CallTyped DEF TypeOK, CallType
<1>3. call[u].pc # "idle" /\ call[u].at \in Effect
      /\ \A e \in Effect : e # call[u].at => proj'[e] = proj[e]
  BY <1>2 DEF Active, At, Cur, Wrote, CallType
<1>4. CallOk(call'[u], proj', fold')
  BY <1>1, <1>2, <1>3, SameEffect DEF Cur, At
<1>5. QED
  BY <1>1, <1>3, <1>4, WroteAgrees, OnlyOne DEF Cur

\* A call that ends, dies or throws leaves the tables as they are.
LEMMA EndInv ==
  ASSUME IInv, TInv', NEW u \in Undoer, Active(u), End(u), UNCHANGED <<proj, fold>>
  PROVE  IInv'
<1>1. TypeOK /\ TypeOK' /\ RebuildAgrees
  BY DEF IInv, TInv
<1>2. call'[u] = Idle /\ Apart(u)
  BY <1>1, Ended
<1>3. CallOk(call'[u], proj', fold') /\ RebuildAgrees'
  BY <1>1, <1>2 DEF CallOk, Idle, RebuildAgrees
<1>4. QED
  BY <1>1, <1>2, <1>3, OnlyOne

\* No call is running at first, and the log and the rows are the same.
LEMMA InvInit == Init => IInv
<1> SUFFICES ASSUME Init PROVE IInv
  OBVIOUS
<1>1. TypeOK
  BY TypeInit DEF TInv
<1>2. \A u \in Undoer : call[u].pc = "idle" /\ ~call[u].halted
  BY DEF Init, Idle
<1>3. RebuildAgrees
  BY <1>1, CallTyped DEF Init, RebuildAgrees, TERMINAL_SKIP
<1>4. QED
  BY <1>1, <1>2, <1>3 DEF IInv, Sole, Active, At, CallOk

-----------------------------------------------------------------------------
(* The steps.  In every one of them the call is running, and what the        *)
(* invariant says of the effect in hand is what the next step needs.         *)

\* What the loop knows of the effect it works on.
LEMMA AtHead ==
  ASSUME IInv, NEW u \in Undoer, At(u, "loop"), Cur(u) > 0
  PROVE  /\ Active(u) /\ Cur(u) \in Effect /\ TypeOK
         /\ Mine(u) = proj[Cur(u)] /\ Mine(u) \in Row
         /\ Cur(u) \in call[u].todo => Pending(Mine(u))
         /\ Cur(u) \notin call[u].todo /\ Cur(u) >= call[u].toSeq =>
              ~Pending(proj[Cur(u)])
         /\ \A e \in call[u].todo : e >= call[u].toSeq
<1>1. TypeOK /\ TInv /\ CallOk(call[u], proj, fold)
  BY InvTyped DEF IInv
<1>2. Cur(u) \in Effect
  BY <1>1, Holding
<1>3. call[u].pc = "loop" /\ Ahead(call[u], proj)
      /\ \A e \in call[u].todo : e >= call[u].toSeq
  BY <1>1 DEF At, CallOk
<1>4. QED
  BY <1>1, <1>2, <1>3, MineTyped DEF Ahead, Cur, Mine, Active, At

\* What the later places in the code know of it.
LEMMA InTheBody ==
  ASSUME IInv, NEW u \in Undoer,
         At(u, "plan") \/ At(u, "ready") \/ At(u, "calling") \/ At(u, "settle")
           \/ At(u, "raise")
  PROVE  /\ Active(u) /\ Cur(u) \in Effect /\ TypeOK /\ Mine(u) \in Row
         /\ Cur(u) \in call[u].todo /\ Stops(u) \in BOOLEAN
         /\ ~call[u].dry /\ ~call[u].halted
         /\ Mine(u).status = "landed" /\ Mine(u).comp \notin TERMINAL_SKIP
         /\ InHand(call[u], proj, fold)
         /\ call[u].pc \notin {"idle", "loop"}
<1>1. TypeOK /\ TInv /\ CallOk(call[u], proj, fold)
  BY InvTyped DEF IInv
<1>2. call[u].pc \notin {"idle", "loop"} /\ Active(u)
  BY DEF At, Active
<1>3. Cur(u) \in Effect
  BY <1>1, Holding
<1>4. InHand(call[u], proj, fold)
  BY <1>1, <1>2 DEF CallOk
<1>5. QED
  BY <1>1, <1>2, <1>3, <1>4, MineTyped DEF InHand, Cur, Mine, Stops

\* A row that is passed over is pending only after a halt or below toSeq.
LEMMA PassInv ==
  ASSUME IInv, TInv', NEW u \in Undoer, Pass(u)
  PROVE  IInv'
<1> DEFINE c == call[u]
           left == \/ c.halted /\ Cur(u) \in c.todo
                   \/ ~c.halted /\ Cur(u) < c.toSeq /\ Pending(Mine(u))
           outcome == IF left THEN "not_attempted" ELSE "none"
<1>1. /\ Active(u) /\ Cur(u) \in Effect /\ TypeOK
      /\ Mine(u) = proj[Cur(u)] /\ Mine(u) \in Row
      /\ Cur(u) \notin c.todo /\ Cur(u) >= c.toSeq => ~Pending(proj[Cur(u)])
  BY AtHead DEF Pass
<1>2. Report(u, Mine(u), outcome, FALSE) /\ UNCHANGED <<proj, fold>>
      /\ (c.halted \/ Cur(u) \notin c.todo)
  BY DEF Pass
<1>3. Wrote(Cur(u)) /\ Agree(proj'[Cur(u)], fold'[Cur(u)])
  BY <1>1, <1>2 DEF IInv, RebuildAgrees, Wrote, Agree
<1>4. outcome \in {"not_attempted", "none"} /\ outcome \in Outcome
      /\ outcome # "compensated" /\ outcome \notin HandedOver
  BY DEF Outcome, HandedOver
<1>5. Pending(proj'[Cur(u)]) /\ ~c.halted =>
        outcome = "not_attempted" /\ Cur(u) < c.toSeq
  <2>1. SUFFICES ASSUME Pending(proj[Cur(u)]), ~c.halted
                 PROVE  outcome = "not_attempted" /\ Cur(u) < c.toSeq
    BY <1>2
  <2>2. Cur(u) < c.toSeq
    BY <1>1, <1>2, <2>1, CallTyped, EffectType DEF CallType
  <2>3. QED
    BY <1>1, <2>1, <2>2
<1> HIDE DEF outcome
<1>6. QED
  BY <1>1, <1>2, <1>3, <1>4, <1>5, ReportInv

\* A doubt is settled one way or the other, or blocks the undo.
LEMMA ResolveInv ==
  ASSUME IInv, TInv', NEW u \in Undoer, Resolve(u)
  PROVE  IInv'
<1> DEFINE c == call[u]
           x == Cur(u)
<1>1. x > 0 /\ At(u, "loop") /\ x \in c.todo /\ ~c.halted
      /\ Mine(u).status = "in_doubt"
  <2>1. TypeOK /\ TInv
    BY InvTyped DEF IInv
  <2>2. x \in Effect
    BY <2>1, Holding DEF Resolve, Working
  <2>3. QED
    BY <2>2, EffectType DEF Resolve, Working
<1>2. /\ Active(u) /\ x \in Effect /\ TypeOK /\ Mine(u) = proj[x] /\ Mine(u) \in Row
      /\ Pending(Mine(u))
  BY <1>1, AtHead
<1>3. RebuildAgrees /\ proj \in [Effect -> Row] /\ fold \in [Effect -> Row]
  BY <1>2, CallTyped DEF IInv
<1>4. CASE LET row == [Mine(u) EXCEPT !.status = "landed"]
           IN  /\ proj' = [proj EXCEPT ![x] = row]
               /\ fold' = [fold EXCEPT ![x].status = "landed"]
               /\ Hold(u, row, "loop")
  <2> DEFINE row == [Mine(u) EXCEPT !.status = "landed"]
  <2>1. row \in Row /\ row.comp = Mine(u).comp /\ row.status = "landed"
    BY <1>2 DEF Row
  <2>2. proj' = [proj EXCEPT ![x] = row] /\ Hold(u, row, "loop")
        /\ fold' = [fold EXCEPT ![x].status = "landed"]
    BY <1>4
  <2> HIDE DEF row
  <2>3. Wrote(x) /\ proj'[x] = row /\ fold'[x].comp = fold[x].comp
    BY <1>2, <1>3, <2>2 DEF Wrote, Row
  <2>4. Agree(proj'[x], fold'[x]) /\ Pending(row)
    BY <1>2, <1>3, <2>1, <2>3 DEF RebuildAgrees, Agree, Pending, UNDO_STATUS
  <2>5. Stays(c, call'[u]) /\ Apart(u) /\ call'[u].pc = "loop" /\ call'[u].rows[x] = row
    BY <1>2, <2>1, <2>2, Held
  <2>6. InHand(call'[u], proj', fold')
    BY <2>5 DEF InHand
  <2>7. QED
    BY <1>1, <1>2, <2>3, <2>4, <2>5, <2>6, StayInv
<1>5. CASE LET row == [status |-> "abandoned", comp |-> "none_required"]
           IN  /\ proj' = [proj EXCEPT ![x] = row]
               /\ fold' = [fold EXCEPT ![x] = row]
               /\ Report(u, row, "skipped", FALSE)
  <2> DEFINE row == [status |-> "abandoned", comp |-> "none_required"]
  <2>1. row \in Row /\ ~Pending(row) /\ Agree(row, row)
    BY DEF Row, CompState, Pending, TERMINAL_SKIP, Agree
  <2>2. proj' = [proj EXCEPT ![x] = row] /\ fold' = [fold EXCEPT ![x] = row]
        /\ Report(u, row, "skipped", FALSE)
    BY <1>5
  <2> HIDE DEF row
  <2>3. Wrote(x) /\ proj'[x] = row /\ fold'[x] = row
    BY <1>2, <1>3, <2>2 DEF Wrote
  <2>4. "skipped" \in Outcome /\ "skipped" \notin HandedOver
    BY DEF Outcome, HandedOver
  <2>5. QED
    BY <1>2, <2>1, <2>2, <2>3, <2>4, ReportInv
<1>6. CASE /\ Event(x, "escalated")
           /\ call' = [call EXCEPT ![u].at = @ - 1, ![u].halted = TRUE,
                                   ![u].out[Cur(u)] = "escalated"]
  <2>1. Report(u, Mine(u), "escalated", TRUE)
    BY <1>1, <1>2, <1>6, Doubted
  <2>2. "escalated" \in Outcome /\ "escalated" \in HandedOver
        /\ "escalated" \in CompState
    BY DEF Outcome, HandedOver, CompState
  <2>3. Wrote(x) /\ proj'[x].comp = "escalated" /\ Agree(proj'[x], fold'[x])
    BY <1>2, <1>6, <2>2, EventWrote, RowTyped
  <2>4. QED
    BY <1>2, <2>1, <2>2, <2>3, ReportInv
<1>7. QED
  BY <1>4, <1>5, <1>6 DEF Resolve

\* A dry run notes the row and writes nothing.
LEMMA DrySkipInv ==
  ASSUME IInv, TInv', NEW u \in Undoer, DrySkip(u)
  PROVE  IInv'
<1>0. TInv
  BY InvTyped
<1>1. Cur(u) > 0 /\ At(u, "loop") /\ call[u].dry
  BY <1>0, Holding, EffectType DEF DrySkip, Working
<1>2. /\ Active(u) /\ Cur(u) \in Effect /\ Mine(u) \in Row
  BY <1>1, AtHead
<1>3. Wrote(Cur(u)) /\ Agree(proj'[Cur(u)], fold'[Cur(u)])
  BY <1>2 DEF DrySkip, IInv, RebuildAgrees, Wrote, Agree
<1>4. "skipped" \in Outcome /\ "skipped" \notin HandedOver
  BY DEF Outcome, HandedOver
<1>5. QED
  BY <1>1, <1>2, <1>3, <1>4, ReportInv DEF DrySkip

\* The row is written and handed over.
LEMMA HandOverInv ==
  ASSUME IInv, TInv', NEW u \in Undoer, Active(u), Cur(u) \in Effect,
         NEW row \in Row, row.comp = "escalated",
         Wrote(Cur(u)), proj'[Cur(u)] = row, Agree(proj'[Cur(u)], fold'[Cur(u)]),
         Cur(u) \in call[u].todo, NEW outcome \in HandedOver,
         NEW halts \in BOOLEAN, Stops(u) => halts, Report(u, row, outcome, halts)
  PROVE  IInv'
<1>1. outcome \in Outcome /\ outcome # "compensated"
  BY DEF Outcome, HandedOver
<1>2. ~halts /\ call[u].stops => Cur(u) \in Independent
  BY DEF Stops
<1>3. QED
  BY <1>1, <1>2, ReportInv

\* Escalation hands over and halts as the caller asked.
LEMMA EscalateInv ==
  ASSUME IInv, TInv', NEW u \in Undoer, Active(u), Cur(u) \in Effect,
         Mine(u) \in Row, Cur(u) \in call[u].todo, Escalate(u)
  PROVE  IInv'
<1>1. TypeOK
  BY DEF IInv
<1>2. Comp(Mine(u), "escalated") \in Row /\ Comp(Mine(u), "escalated").comp = "escalated"
  BY RowTyped DEF CompState
<1>3. Wrote(Cur(u)) /\ proj'[Cur(u)] = Comp(Mine(u), "escalated")
      /\ Agree(proj'[Cur(u)], fold'[Cur(u)])
  BY <1>1, <1>2, PersistWrote DEF Escalate
<1>4. Report(u, Comp(Mine(u), "escalated"), "escalated", Stops(u))
      /\ "escalated" \in HandedOver /\ Stops(u) \in BOOLEAN
  BY DEF Escalate, HandedOver, Stops
<1>5. QED
  BY <1>2, <1>3, <1>4, HandOverInv

\* The row is planned, or it is escalated.
LEMMA PlanInv ==
  ASSUME IInv, TInv', NEW u \in Undoer, Unavailable(u) \/ Plan(u)
  PROVE  IInv'
<1>0. TInv
  BY InvTyped
<1>1. Cur(u) > 0 /\ At(u, "loop") /\ Cur(u) \in call[u].todo /\ ~call[u].dry
      /\ ~call[u].halted /\ Mine(u).status = "landed"
  BY <1>0, Holding, EffectType DEF Unavailable, Plan, Working
<1>2. /\ Active(u) /\ Cur(u) \in Effect /\ TypeOK /\ Mine(u) \in Row
      /\ Mine(u) = proj[Cur(u)] /\ Pending(Mine(u))
  BY <1>1, AtHead
<1>3. CASE Unavailable(u)
  BY <1>1, <1>2, <1>3, EscalateInv DEF Unavailable
<1>4. CASE Plan(u) /\ Mine(u).comp = "available"
  <2> DEFINE row == Comp(Mine(u), "planned")
  <2>1. row \in Row /\ row.comp = "planned" /\ row.status = "landed"
    BY <1>1, <1>2, RowTyped DEF CompState
  <2>2. EventAndPersist(u, row) /\ Hold(u, row, "plan")
    BY <1>4 DEF Plan
  <2> HIDE DEF row
  <2>3. Wrote(Cur(u)) /\ proj'[Cur(u)] = row /\ Agree(proj'[Cur(u)], fold'[Cur(u)])
    BY <1>2, <2>1, <2>2, PersistWrote
  <2>4. Stays(call[u], call'[u]) /\ Apart(u) /\ call'[u].pc = "plan"
        /\ call'[u].rows[Cur(u)] = row
    BY <1>2, <2>1, <2>2, Held
  <2>5. InHand(call'[u], proj', fold')
    BY <1>1, <2>1, <2>3, <2>4 DEF InHand, Stays, Cur, TERMINAL_SKIP
  <2>6. QED
    BY <1>1, <1>2, <2>3, <2>4, <2>5, StayInv DEF At
<1>5. CASE Plan(u) /\ Mine(u).comp # "available"
  <2>1. Goto(u, "plan") /\ UNCHANGED <<proj, fold>>
    BY <1>5 DEF Plan
  <2>2. Wrote(Cur(u)) /\ Agree(proj'[Cur(u)], fold'[Cur(u)])
    BY <1>2, <2>1 DEF IInv, RebuildAgrees, Wrote, Agree
  <2>3. Stays(call[u], call'[u]) /\ Apart(u) /\ call'[u].pc = "plan"
        /\ call'[u].rows = call[u].rows
    BY <1>2, <2>1, Gone
  <2>4. InHand(call'[u], proj', fold')
    BY <1>1, <1>2, <2>1, <2>3 DEF InHand, Stays, Cur, Mine, Pending
  <2>5. QED
    BY <1>1, <1>2, <2>2, <2>3, <2>4, StayInv DEF At
<1>6. QED
  BY <1>3, <1>4, <1>5

\* The plan is announced, or the row escalated.
LEMMA CompileInv ==
  ASSUME IInv, TInv', NEW u \in Undoer, Compile(u)
  PROVE  IInv'
<1>1. /\ Active(u) /\ Cur(u) \in Effect /\ TypeOK /\ Mine(u) \in Row
      /\ Cur(u) \in call[u].todo /\ ~call[u].dry /\ ~call[u].halted
      /\ Mine(u).status = "landed" /\ Mine(u).comp \notin TERMINAL_SKIP
  BY InTheBody DEF Compile
<1>2. CASE Escalate(u)
  BY <1>1, <1>2, EscalateInv
<1>3. CASE Event(Cur(u), "planned") /\ Goto(u, "ready")
  <2>1. "planned" \in CompState /\ proj[Cur(u)] \in Row
    BY <1>1, MineTyped DEF CompState
  <2>2. Wrote(Cur(u)) /\ proj'[Cur(u)] = Comp(proj[Cur(u)], "planned")
        /\ fold'[Cur(u)].comp = "planned" /\ Agree(proj'[Cur(u)], fold'[Cur(u)])
    BY <1>1, <1>3, <2>1, EventWrote
  <2>3. proj'[Cur(u)].comp = "planned"
    BY <2>1, <2>2, RowTyped
  <2>4. Stays(call[u], call'[u]) /\ Apart(u) /\ call'[u].pc = "ready"
        /\ call'[u].rows = call[u].rows
    BY <1>1, <1>3, Gone
  <2>5. InHand(call'[u], proj', fold')
    BY <1>1, <2>2, <2>3, <2>4 DEF InHand, Stays, Cur, Mine
  <2>6. QED
    BY <1>1, <2>2, <2>4, <2>5, StayInv DEF At
<1>4. QED
  BY <1>2, <1>3 DEF Compile

\* The row is executing when the call is made.
LEMMA ReadyInv ==
  ASSUME IInv, TInv', NEW u \in Undoer, Ready(u)
  PROVE  IInv'
<1>1. /\ Active(u) /\ Cur(u) \in Effect /\ TypeOK /\ Mine(u) \in Row
      /\ Cur(u) \in call[u].todo /\ ~call[u].dry /\ ~call[u].halted
      /\ Mine(u).status = "landed" /\ Mine(u).comp \notin TERMINAL_SKIP
      /\ InHand(call[u], proj, fold) /\ call[u].pc = "ready"
  BY InTheBody DEF Ready, At
<1>2. CASE Escalate(u)
  BY <1>1, <1>2, EscalateInv
<1>3. CASE End(u) /\ UNCHANGED <<proj, fold>>
  BY <1>1, <1>3, EndInv
<1>4. CASE /\ proj' = [proj EXCEPT ![Cur(u)] = Comp(Mine(u), "executing")]
           /\ Hold(u, Comp(Mine(u), "executing"), "calling")
           /\ UNCHANGED fold
  <2> DEFINE row == Comp(Mine(u), "executing")
  <2>1. row \in Row /\ row.comp = "executing" /\ row.status = "landed"
    BY <1>1, RowTyped DEF CompState
  <2>2. proj' = [proj EXCEPT ![Cur(u)] = row] /\ Hold(u, row, "calling")
        /\ fold' = fold
    BY <1>4
  <2> HIDE DEF row
  <2>3. Wrote(Cur(u)) /\ proj'[Cur(u)] = row
    BY <1>1, <2>2, CallTyped DEF Wrote
  <2>4. fold'[Cur(u)].comp = "planned"
    BY <1>1, <2>2 DEF InHand, Cur
  <2>5. Agree(proj'[Cur(u)], fold'[Cur(u)])
    BY <2>1, <2>3, <2>4 DEF Agree, TERMINAL_SKIP
  <2>6. Stays(call[u], call'[u]) /\ Apart(u) /\ call'[u].pc = "calling"
        /\ call'[u].rows[Cur(u)] = row
    BY <1>1, <2>1, <2>2, Held
  <2>7. InHand(call'[u], proj', fold')
    BY <1>1, <2>1, <2>3, <2>4, <2>6 DEF InHand, Stays, Cur, TERMINAL_SKIP
  <2>8. QED
    BY <1>1, <2>3, <2>5, <2>6, <2>7, StayInv DEF At
<1>5. QED
  BY <1>2, <1>3, <1>4 DEF Ready

\* The last event of executePlan is in the row and in the log.
LEMMA ExecuteInv ==
  ASSUME IInv, TInv', NEW u \in Undoer, Execute(u)
  PROVE  IInv'
<1> DEFINE x == Cur(u)
           Answers == ExecuteAnswers \cup {<<"doubt", "escalated">>}
<1>1. /\ Active(u) /\ x \in Effect /\ TypeOK /\ x \in call[u].todo
      /\ ~call[u].dry /\ ~call[u].halted
      /\ Mine(u).status = "landed" /\ Mine(u).comp \notin TERMINAL_SKIP
  BY InTheBody DEF Execute
<1>2. call \in [Undoer -> CallType]
      /\ proj \in [Effect -> Row] /\ fold \in [Effect -> Row]
  BY <1>1, CallTyped
<1>3. ASSUME NEW s, NEW t, NEW a, NEW k, <<a, k>> \in Answers,
             proj' = [proj EXCEPT ![x] = [status |-> s, comp |-> k]],
             fold' = [fold EXCEPT ![x] = [status |-> t, comp |-> k]],
             call' = [call EXCEPT ![u].pc = "settle", ![u].answer = a]
      PROVE  IInv'
  <2>1. Wrote(x) /\ proj'[x].comp = k /\ fold'[x].comp = k
    BY <1>1, <1>2, <1>3 DEF Wrote
  <2>2. Agree(proj'[x], fold'[x])
    BY <2>1 DEF Agree
  <2>3. /\ call'[u].pc = "settle" /\ call'[u].answer = a /\ Apart(u)
        /\ call'[u].rows = call[u].rows /\ Stays(call[u], call'[u])
    <3> DEFINE d == [call[u] EXCEPT !.pc = "settle", !.answer = a]
    <3>1. call[u] \in CallType
      BY <1>2
    <3>2. d.pc = "settle" /\ d.answer = a /\ d.rows = call[u].rows /\ Stays(call[u], d)
      BY <3>1 DEF CallType, Stays
    <3>3. call' = [call EXCEPT ![u] = d]
      BY <1>2, <1>3
    <3> HIDE DEF d
    <3>4. QED
      BY <1>2, <3>2, <3>3 DEF Apart
  <2>4. InHand(call'[u], proj', fold')
    BY <1>1, <1>3, <2>1, <2>3 DEF InHand, Stays, Cur, Mine
  <2>5. QED
    BY <1>1, <2>1, <2>2, <2>3, <2>4, StayInv DEF At
<1>4. ASSUME NEW a \in ExecuteAnswers, NEW s,
             proj' = [proj EXCEPT ![x] = [status |-> s, comp |-> a[2]]],
             fold' = [fold EXCEPT ![x] =
               [status |-> IF s = proj[x].status THEN @.status ELSE s,
                comp |-> a[2]]],
             call' = [call EXCEPT ![u].pc = "settle", ![u].answer = a[1]]
      PROVE  IInv'
  <2>1. <<a[1], a[2]>> \in Answers
    BY DEF ExecuteAnswers
  <2>2. QED
    BY <1>3, <1>4, <2>1
<1>5. <<"doubt", "escalated">> \in Answers
  OBVIOUS
<1>6. QED
  BY <1>3, <1>4, <1>5 DEF Execute

\* The answer written over the row is what the log has, or a failure to raise.
LEMMA SettleInv ==
  ASSUME IInv, TInv', NEW u \in Undoer, Settle(u)
  PROVE  IInv'
<1> DEFINE x == Cur(u)
<1>1. /\ Active(u) /\ x \in Effect /\ TypeOK /\ Mine(u) \in Row
      /\ x \in call[u].todo /\ Stops(u) \in BOOLEAN /\ ~call[u].dry /\ ~call[u].halted
      /\ Mine(u).status = "landed" /\ Mine(u).comp \notin TERMINAL_SKIP
      /\ InHand(call[u], proj, fold) /\ call[u].pc = "settle"
  BY InTheBody DEF Settle, Answered, At
<1>2. proj \in [Effect -> Row] /\ fold \in [Effect -> Row]
  BY <1>1, CallTyped
<1>3. /\ fold[x].comp = proj[x].comp
      /\ call[u].answer = "ok" => proj[x].comp = "compensated"
      /\ call[u].answer = "gated" => proj[x].comp = "escalated"
      /\ call[u].answer = "error" => proj[x].comp \in HandedOver
  BY <1>1 DEF InHand, Cur, ExecuteAnswers, HandedOver
<1>4. ASSUME NEW row \in Row, Persist(u, row)
      PROVE  Wrote(x) /\ proj'[x] = row /\ fold'[x] = fold[x]
  BY <1>1, <1>2, <1>4 DEF Persist, Wrote
<1>5. CASE Answered(u, "ok") /\ Persist(u, Comp(Mine(u), "compensated"))
           /\ Report(u, Comp(Mine(u), "compensated"), "compensated", FALSE)
  <2> DEFINE row == Comp(Mine(u), "compensated")
  <2>1. row \in Row /\ row.comp = "compensated"
    BY <1>1, RowTyped DEF CompState
  <2>2. Wrote(x) /\ proj'[x] = row /\ fold'[x] = fold[x] /\ fold[x].comp = "compensated"
    BY <1>3, <1>4, <1>5, <2>1 DEF Answered
  <2>3. Agree(proj'[x], fold'[x]) /\ ~Pending(proj'[x])
    BY <2>1, <2>2 DEF Agree, Pending, TERMINAL_SKIP
  <2>4. "compensated" \in Outcome /\ "compensated" \notin HandedOver
    BY DEF Outcome, HandedOver
  <2> HIDE DEF row
  <2>5. QED
    BY <1>1, <1>5, <2>1, <2>2, <2>3, <2>4, ReportInv DEF row
<1>6. CASE Answered(u, "gated") /\ Persist(u, Comp(Mine(u), "escalated"))
           /\ Report(u, Comp(Mine(u), "escalated"), "escalated", Stops(u))
  <2> DEFINE row == Comp(Mine(u), "escalated")
  <2>1. row \in Row /\ row.comp = "escalated" /\ "escalated" \in HandedOver
    BY <1>1, RowTyped DEF CompState, HandedOver
  <2>2. Wrote(x) /\ proj'[x] = row /\ fold'[x] = fold[x] /\ fold[x].comp = "escalated"
    BY <1>3, <1>4, <1>6, <2>1 DEF Answered
  <2>3. Agree(proj'[x], fold'[x])
    BY <2>1, <2>2 DEF Agree, TERMINAL_SKIP
  <2>4. QED
    BY <1>1, <1>6, <2>1, <2>2, <2>3, HandOverInv
<1>7. CASE Answered(u, "error") /\ Persist(u, Comp(Mine(u), "failed"))
           /\ Hold(u, Comp(Mine(u), "failed"), "raise")
  <2> DEFINE row == Comp(Mine(u), "failed")
  <2>1. row \in Row /\ row.comp = "failed" /\ row.status = "landed"
    BY <1>1, RowTyped DEF CompState
  <2>2. Wrote(x) /\ proj'[x] = row /\ fold'[x] = fold[x] /\ fold[x].comp \in HandedOver
    BY <1>3, <1>4, <1>7, <2>1 DEF Answered
  <2>3. Agree(proj'[x], fold'[x])
    BY <2>1, <2>2 DEF Agree, TERMINAL_SKIP, HandedOver
  <2>4. Stays(call[u], call'[u]) /\ Apart(u) /\ call'[u].pc = "raise"
        /\ call'[u].rows[x] = row
    BY <1>1, <1>7, <2>1, Held
  <2> HIDE DEF row
  <2>5. InHand(call'[u], proj', fold')
    BY <1>1, <2>1, <2>2, <2>4 DEF InHand, Stays, Cur, TERMINAL_SKIP
  <2>6. QED
    BY <1>1, <2>2, <2>3, <2>4, <2>5, StayInv DEF At
<1>8. CASE End(u) /\ UNCHANGED <<proj, fold>>
  BY <1>1, <1>8, EndInv
<1>9. QED
  BY <1>5, <1>6, <1>7, <1>8 DEF Settle

\* A doubt found in execution, and a failure that is raised.
LEMMA BlockedInv ==
  ASSUME IInv, TInv', NEW u \in Undoer, Blocked(u) \/ Raise(u)
  PROVE  IInv'
<1> DEFINE row == Comp(Mine(u), "escalated")
<1>1. /\ Active(u) /\ Cur(u) \in Effect /\ TypeOK /\ Mine(u) \in Row
      /\ Cur(u) \in call[u].todo /\ Stops(u) \in BOOLEAN
  BY InTheBody DEF Blocked, Raise, Answered
<1>2. row \in Row /\ row.comp = "escalated"
  BY <1>1, RowTyped DEF CompState
<1>3. EventAndPersist(u, row)
  BY DEF Blocked, Raise
<1>4. \/ Report(u, row, "escalated", TRUE)
      \/ Report(u, row, "failed", Stops(u))
  BY <1>1, Refused DEF Raise
<1> HIDE DEF row
<1>5. Wrote(Cur(u)) /\ proj'[Cur(u)] = row /\ Agree(proj'[Cur(u)], fold'[Cur(u)])
  BY <1>1, <1>2, <1>3, PersistWrote
<1>6. "escalated" \in HandedOver /\ "failed" \in HandedOver
  BY DEF HandedOver
<1>7. QED
  BY <1>1, <1>2, <1>4, <1>5, <1>6, HandOverInv

\* A call begins with the rows as they are, and none other is running.
LEMMA BeginInv ==
  ASSUME IInv, TInv', ~Overlap, NEW u \in Undoer, NEW toSeq \in Effect,
         NEW dry \in BOOLEAN, NEW stops \in BOOLEAN, Begin(u, toSeq, dry, stops)
  PROVE  IInv'
<1> DEFINE todo == {e \in toSeq .. N : Pending(proj[e])}
           d == [call[u] EXCEPT !.pc = "loop", !.at = N, !.rows = proj,
                   !.toSeq = toSeq, !.dry = dry, !.stops = stops, !.todo = todo]
<1>1. TypeOK /\ TypeOK' /\ RebuildAgrees /\ CallOk(call[u], proj, fold)
  BY DEF IInv, TInv
<1>2. call \in [Undoer -> CallType] /\ call'[u] \in CallType
  BY <1>1, CallTyped DEF TypeOK, CallType
<1>3. call' = [call EXCEPT ![u] = d] /\ UNCHANGED <<proj, fold>>
      /\ \A v \in Undoer : call[v].pc = "idle"
  BY DEF Begin, Active, At
<1>4. /\ d.pc = "loop" /\ d.at = N /\ d.rows = proj /\ d.toSeq = toSeq
      /\ d.todo = todo /\ ~d.halted
  BY <1>1, <1>2, <1>3 DEF CallType, CallOk
<1> HIDE DEF d
<1>5. call'[u] = d /\ Apart(u)
  BY <1>2, <1>3 DEF Apart
<1>6. \A e \in todo : e >= toSeq
  BY EffectType
<1>7. Ahead(d, proj)
  <2> SUFFICES ASSUME NEW e \in Effect
               PROVE  /\ e \in todo => Pending(proj[e])
                      /\ e \notin todo /\ e >= toSeq => ~Pending(proj[e])
    BY <1>4 DEF Ahead
  <2>1. QED
    BY EffectType, UndoAssumption
<1>8. Behind(d, proj) /\ HaltIsNoted(d) /\ InHand(d, proj, fold)
  BY <1>4, EffectType, UndoAssumption DEF Behind, HaltIsNoted, InHand
<1>9. CallOk(call'[u], proj', fold')
  BY <1>3, <1>4, <1>5, <1>6, <1>7, <1>8 DEF CallOk
<1>10. Sole' /\ \A v \in Undoer : CallOk(call'[v], proj', fold')
  <2>1. \A v \in Undoer : v # u => call'[v].pc = "idle" /\ ~call'[v].halted
    BY <1>3, <1>5 DEF IInv, CallOk, Apart
  <2>2. QED
    BY <2>1, <1>9 DEF CallOk, Sole, Active, At
<1>11. RebuildAgrees'
  BY <1>1, <1>3 DEF RebuildAgrees
<1>12. QED
  BY <1>1, <1>10, <1>11 DEF IInv

\* While a human answers, no call is running.
LEMMA HumanInv ==
  ASSUME IInv, TInv', ~Overlap, NEW e \in Effect, Human(e)
  PROVE  IInv'
<1>1. TypeOK /\ TypeOK' /\ RebuildAgrees /\ "manually_resolved" \in CompState
  BY DEF IInv, TInv, CompState
<1>2. Wrote(e) /\ Agree(proj'[e], fold'[e])
  BY <1>1, EventWrote DEF Human
<1>3. RebuildAgrees'
  BY <1>1, <1>2, WroteAgrees
<1>4. call' = call /\ \A u \in Undoer : call[u].pc = "idle"
  BY DEF Human, Active, At
<1>5. QED
  BY <1>1, <1>3, <1>4 DEF IInv, CallOk, Sole, Active, At

\* Every step keeps the invariant when calls do not overlap.
LEMMA InvStep == IInv /\ ~Overlap /\ [Next]_vars => IInv'
<1> SUFFICES ASSUME IInv, ~Overlap, [Next]_vars PROVE IInv'
  OBVIOUS
<1>1. TInv /\ TInv'
  BY InvTyped, TypeStep
<1>2. ASSUME NEW u \in Undoer, Work(u) \/ Crash(u) PROVE IInv'
  <2>1. CASE Finish(u)
    BY <1>1, <2>1, EndInv DEF Finish, Active, At
  <2>2. CASE Crash(u)
    BY <1>1, <2>2, EndInv DEF Crash
  <2>3. QED
    BY <1>1, <1>2, <2>1, <2>2, PassInv, ResolveInv, DrySkipInv, PlanInv, CompileInv,
       ReadyInv, ExecuteInv, SettleInv, BlockedInv DEF Work
<1>3. CASE UNCHANGED vars
  BY <1>3, <1>1 DEF vars, IInv, TInv, Sole, Active, At, RebuildAgrees
<1>4. QED
  BY <1>1, <1>2, <1>3, BeginInv, HumanInv DEF Next

\* The inductive invariant of undoSaga (undo.ts:177-513): the copies of the rows a
\* call works on are the rows, and what it noted for its report is what it left.
THEOREM Inductive == ~Overlap /\ Spec => []IInv
<1> SUFFICES ASSUME ~Overlap PROVE Spec => []IInv
  OBVIOUS
<1>1. IInv /\ [Next]_vars => IInv'
  BY InvStep
<1>2. QED
  BY InvInit, <1>1, PTL DEF Spec

-----------------------------------------------------------------------------
(* What follows from it. *)

\* README.md:130, strict reverse order: when an undo that halts on failure
\* executes a compensation, every later effect is settled or independent.
THEOREM ReverseOrder == ~Overlap /\ Spec => []LifoOrder
<1>1. IInv => LifoOrder
  <2> SUFFICES ASSUME IInv, NEW u \in Undoer, At(u, "calling"), call[u].stops,
                      NEW e \in Effect, e > Cur(u), Pending(proj[e])
               PROVE  e \in Independent
    BY DEF LifoOrder
  <2>1. Cur(u) \in Effect /\ Cur(u) \in call[u].todo /\ ~call[u].dry /\ ~call[u].halted
    BY InTheBody
  <2>2. TypeOK /\ Behind(call[u], proj) /\ \A x \in call[u].todo : x >= call[u].toSeq
    BY DEF IInv, CallOk, At
  <2>3. e \in Independent \/ e < call[u].toSeq
    BY <2>1, <2>2 DEF Behind, Cur
  <2>4. call[u].toSeq \in Effect /\ Cur(u) >= call[u].toSeq
    BY <2>1, <2>2, CallTyped DEF CallType
  <2>5. QED
    BY <2>1, <2>3, <2>4, EffectType
<1>2. QED
  BY <1>1, Inductive, PTL

\* What an undo reports of an effect (undo.ts:494-505) is what the ledger says at
\* that time.
THEOREM TrueReport == ~Overlap /\ Spec => []ReportIsTrue
<1>1. IInv => ReportIsTrue
  <2> SUFFICES ASSUME IInv, NEW u \in Undoer, At(u, "loop"), Cur(u) = 0,
                      NEW e \in Effect
               PROVE  /\ call[u].out[e] = "compensated" => proj[e].comp = "compensated"
                      /\ call[u].out[e] \in HandedOver => proj[e].comp = "escalated"
    BY DEF ReportIsTrue, HandedOver
  <2>1. Behind(call[u], proj) /\ e > call[u].at
    BY EffectType DEF IInv, CallOk, At, Cur
  <2>2. QED
    BY <2>1 DEF Behind
<1>2. QED
  BY <1>1, Inductive, PTL

\* Rebuilding the rows from the event log (rebuildProjections) changes nothing that
\* was settled.
THEOREM RebuildIsSafe == ~Overlap /\ Spec => []RebuildAgrees
<1>1. IInv => RebuildAgrees
  BY DEF IInv
<1>2. QED
  BY <1>1, Inductive, PTL

-----------------------------------------------------------------------------
(* The refinement. *)

Mark(row) ==
  CASE row.comp = "compensated"       -> "compensated"
    [] row.comp = "manually_resolved" -> "resolved"
    [] row.comp = "none_required"     -> "exempt"
    [] Pending(row)                   -> "owed"
    [] OTHER                          -> "idle"

mark == [e \in Effect |-> Mark(proj[e])]

\* What the marks of UndoSpec say of a row.
LEMMA MarkOfRow ==
  ASSUME NEW row
  PROVE  /\ Mark(row) \in Abstract!Settled <=> row.comp \in TERMINAL_SKIP
         /\ row.comp \notin TERMINAL_SKIP => Mark(row) \in {"idle", "owed"}
         /\ Mark(row) = "owed" <=> Pending(row)
BY DEF Mark, Abstract!Settled, TERMINAL_SKIP, Pending

\* One row is written: settled for the first time, or still not settled, or as
\* settled as it was.
LEMMA OneRow ==
  ASSUME proj \in [Effect -> Row], NEW x \in Effect, NEW row,
         proj' = [proj EXCEPT ![x] = row], saga' = saga,
         proj[x].comp \in TERMINAL_SKIP => Mark(row) = Mark(proj[x])
  PROVE  [Abstract!Next]_<<mark, saga>>
<1>1. /\ mark' = [mark EXCEPT ![x] = Mark(row)] /\ mark[x] = Mark(proj[x])
  BY DEF mark
<1>2. CASE proj[x].comp \in TERMINAL_SKIP
  <2>1. mark' = mark
    BY <1>1, <1>2 DEF mark
  <2>2. QED
    BY <2>1
<1>3. CASE proj[x].comp \notin TERMINAL_SKIP /\ row.comp \in TERMINAL_SKIP
  <2>1. mark[x] \notin Abstract!Settled /\ Mark(row) \in Abstract!Settled
    BY <1>1, <1>3, MarkOfRow
  <2>2. Abstract!Settle(x)
    BY <1>1, <2>1 DEF Abstract!Settle, mark, Mark
  <2>3. QED
    BY <2>2 DEF Abstract!Next
<1>4. CASE proj[x].comp \notin TERMINAL_SKIP /\ row.comp \notin TERMINAL_SKIP
  <2>1. mark[x] \in {"idle", "owed"} /\ Mark(row) \in {"idle", "owed"}
    BY <1>1, <1>4, MarkOfRow
  <2>2. Abstract!Doubt(x)
    BY <1>1, <2>1 DEF Abstract!Doubt, mark, Mark
  <2>3. QED
    BY <2>2 DEF Abstract!Next
<1>5. QED
  BY <1>2, <1>3, <1>4

\* The report says undone only of a saga that owes nothing.
LEMMA FinishMaps ==
  ASSUME IInv, NEW u \in Undoer, Finish(u)
  PROVE  [Abstract!Next]_<<mark, saga>>
<1>1. TypeOK /\ call[u].pc = "loop" /\ call[u].at = 0 /\ UNCHANGED proj
      /\ Behind(call[u], proj) /\ HaltIsNoted(call[u])
  BY DEF IInv, CallOk, Finish, At, Cur
<1>2. mark' = mark
  BY <1>1 DEF mark
<1>3. CASE call[u].dry
  BY <1>2, <1>3 DEF Finish
<1>4. CASE ~call[u].dry
  <2>1. saga' = FinalStatus(u)
    BY <1>4 DEF Finish
  <2>2. CASE Outcomes(u) \subseteq {"compensated", "skipped"}
    <3>1. \A e \in Effect : call[u].out[e] \in {"compensated", "skipped", "none"}
      BY <2>2 DEF Outcomes
    <3>2. ~call[u].halted
      BY <1>1, <3>1 DEF HaltIsNoted, HandedOver
    <3>3. \A e \in Effect : ~Pending(proj[e])
      BY <1>1, <1>4, <3>1, <3>2, EffectType DEF Behind, HandedOver
    <3>4. \A e \in Effect : mark[e] # "owed"
      BY <3>3, MarkOfRow DEF mark
    <3>5. saga' = "undone"
      BY <2>1, <2>2 DEF FinalStatus
    <3>6. Abstract!Finish
      BY <1>2, <3>4, <3>5 DEF Abstract!Finish, mark, Mark
    <3>7. QED
      BY <3>6 DEF Abstract!Next
  <2>3. CASE ~(Outcomes(u) \subseteq {"compensated", "skipped"})
    <3>1. saga' \in {"partially_undone", "failed"}
      BY <2>1, <2>3 DEF FinalStatus
    <3>2. Abstract!Finish
      BY <1>2, <3>1 DEF Abstract!Finish, mark, Mark
    <3>3. QED
      BY <3>2 DEF Abstract!Next
  <2>4. QED
    BY <2>2, <2>3
<1>5. QED
  BY <1>3, <1>4

\* Every step of undo is a step of UndoSpec or changes nothing it sees.
LEMMA StepMaps ==
  ASSUME IInv, [Next]_vars
  PROVE  [Abstract!Next]_<<mark, saga>>
<1> USE DEF HandedOver
<1>0. TypeOK /\ TInv /\ proj \in [Effect -> Row]
  BY InvTyped, CallTyped DEF IInv
<1>1. ASSUME UNCHANGED <<proj, saga>> PROVE [Abstract!Next]_<<mark, saga>>
  BY <1>1 DEF mark
<1>2. ASSUME NEW x \in Effect, proj[x].comp \notin TERMINAL_SKIP, NEW row,
             proj' = [proj EXCEPT ![x] = row], saga' = saga
      PROVE  [Abstract!Next]_<<mark, saga>>
  BY <1>0, <1>2, OneRow
<1>3. ASSUME NEW u \in Undoer, Work(u) PROVE [Abstract!Next]_<<mark, saga>>
  <2>1. CASE Resolve(u) \/ Unavailable(u) \/ Plan(u)
    <3>1. saga' = saga /\ At(u, "loop") /\ Cur(u) \in call[u].todo
      BY <2>1 DEF Resolve, Unavailable, Plan, Working
    <3>2. Cur(u) \in Effect /\ Cur(u) > 0
      BY <1>0, <3>1, Holding, EffectType
    <3>3. proj[Cur(u)].comp \notin TERMINAL_SKIP
      BY <3>1, <3>2, AtHead DEF Pending
    <3>4. (\E row : proj' = [proj EXCEPT ![Cur(u)] = row]) \/ proj' = proj
      BY <2>1 DEF Resolve, Unavailable, Plan, Escalate, Event, EventAndPersist
    <3>5. QED
      BY <1>1, <1>2, <3>1, <3>2, <3>3, <3>4
  <2>2. CASE Compile(u) \/ Ready(u) \/ Execute(u)
    <3>1. Cur(u) \in Effect /\ saga' = saga
          /\ InHand(call[u], proj, fold) /\ Mine(u).comp \notin TERMINAL_SKIP
          /\ call[u].pc \in {"plan", "ready", "calling"}
      BY <2>2, InTheBody DEF Compile, Ready, Execute, At
    <3>2. proj[Cur(u)].comp \notin TERMINAL_SKIP
      BY <3>1 DEF InHand, Cur, Mine, TERMINAL_SKIP
    <3>3. (\E row : proj' = [proj EXCEPT ![Cur(u)] = row]) \/ proj' = proj
      BY <2>2 DEF Compile, Ready, Execute, Escalate, Event, EventAndPersist
    <3>4. QED
      BY <1>1, <1>2, <3>1, <3>2, <3>3
  <2>3. CASE Settle(u)
    <3>1. Cur(u) \in Effect /\ saga' = saga /\ Mine(u) \in Row
          /\ InHand(call[u], proj, fold) /\ call[u].pc = "settle"
      BY <2>3, InTheBody DEF Settle, Answered, At
    <3>2. CASE Answered(u, "ok") /\ Persist(u, Comp(Mine(u), "compensated"))
      <4>1. proj[Cur(u)].comp = "compensated"
        BY <3>1, <3>2 DEF InHand, Answered, Cur, ExecuteAnswers
      <4>2. Comp(Mine(u), "compensated").comp = "compensated"
        BY <3>1, RowTyped DEF CompState
      <4>3. QED
        <5> DEFINE row == Comp(Mine(u), "compensated")
        <5>1. Mark(row) = Mark(proj[Cur(u)])
          BY <4>1, <4>2 DEF Mark, Pending, TERMINAL_SKIP
        <5>2. proj' = [proj EXCEPT ![Cur(u)] = row]
          BY <3>2 DEF Persist
        <5> HIDE DEF row
        <5>3. QED
          BY <1>0, <3>1, <5>1, <5>2, OneRow
    <3>3. ASSUME NEW c, Answered(u, "gated") \/ Answered(u, "error"),
                 Persist(u, Comp(Mine(u), c))
          PROVE  [Abstract!Next]_<<mark, saga>>
      <4>1. proj[Cur(u)].comp \in HandedOver
        BY <3>1, <3>3 DEF InHand, Answered, Cur, ExecuteAnswers
      <4>2. QED
        BY <1>2, <3>1, <3>3, <4>1 DEF Persist, TERMINAL_SKIP
    <3>4. QED
      BY <1>1, <2>3, <3>2, <3>3 DEF Settle
  <2>4. CASE Blocked(u) \/ Raise(u)
    <3>1. Cur(u) \in Effect /\ saga' = saga /\ InHand(call[u], proj, fold)
          /\ call[u].pc \in {"settle", "raise"}
          /\ (call[u].pc = "settle" => call[u].answer = "doubt")
      BY <2>4, InTheBody DEF Blocked, Raise, Answered, At
    <3>2. proj[Cur(u)].comp \in HandedOver
      BY <3>1 DEF InHand, Cur, ExecuteAnswers
    <3>3. QED
      BY <1>2, <2>4, <3>1, <3>2 DEF Blocked, Raise, EventAndPersist, TERMINAL_SKIP
  <2>5. CASE Finish(u)
    BY <2>5, FinishMaps
  <2>6. CASE Pass(u) \/ DrySkip(u)
    BY <1>1, <2>6 DEF Pass, DrySkip
  <2>7. QED
    BY <1>3, <2>1, <2>2, <2>3, <2>4, <2>5, <2>6 DEF Work
<1>4. ASSUME NEW u \in Undoer, NEW toSeq \in Effect, NEW dry \in BOOLEAN,
             NEW stops \in BOOLEAN, Begin(u, toSeq, dry, stops)
      PROVE  [Abstract!Next]_<<mark, saga>>
  <2>1. mark' = mark /\ saga' \in {saga, "undoing"}
    BY <1>4 DEF Begin, mark
  <2>2. CASE saga' = "undoing"
    BY <2>1, <2>2 DEF Abstract!Begin, Abstract!Next, mark, Mark
  <2>3. QED
    BY <2>1, <2>2
<1>5. ASSUME NEW e \in Effect, Human(e) PROVE [Abstract!Next]_<<mark, saga>>
  BY <1>2, <1>5 DEF Human, Event, TERMINAL_SKIP
<1>6. CASE UNCHANGED vars
  BY <1>1, <1>6 DEF vars
<1>7. QED
  BY <1>1, <1>3, <1>4, <1>5, <1>6 DEF Next, Crash

\* The states undo starts from are those UndoSpec starts from.
LEMMA InitMaps == Init => Abstract!Init
<1> SUFFICES ASSUME Init PROVE Abstract!Init
  OBVIOUS
<1>1. \A e \in Effect : Mark(proj[e]) \in {"idle", "owed", "exempt"}
  BY DEF Init, Mark
<1>2. QED
  BY <1>1 DEF Init, Abstract!Init, mark, Mark

\* An effect is settled once and for good, and the saga is undone only when nothing
\* is owed (TERMINAL_SKIP undo.ts:27, the final status undo.ts:508): undo implements
\* UndoSpec.
THEOREM Implements == ~Overlap /\ Spec => ImplementsUndoSpec
<1> SUFFICES ASSUME ~Overlap PROVE Spec => ImplementsUndoSpec
  OBVIOUS
<1>1. Spec => []IInv
  BY Inductive
<1>2. IInv /\ [Next]_vars => [Abstract!Next]_(Abstract!vars)
  BY StepMaps DEF Abstract!vars, mark, Mark
<1>3. QED
  BY <1>1, <1>2, InitMaps, PTL DEF Spec, ImplementsUndoSpec, Abstract!Spec
=============================================================================
