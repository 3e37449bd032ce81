---------------------------- MODULE ReversalProofs ----------------------------
(***************************************************************************)
(* Proofs about Verifier and Reversal.  Whatever the model answers, whatever *)
(* is cached, and whichever path asks, a draft that runs passed the four    *)
(* questions on its own (GateHolds).  Then the types, with what the registry *)
(* lets in and what a receipt and a plan are made of (TypeInv), and from     *)
(* those what an undo can see, what a run touches and what it restores, each *)
(* under the condition Reversal states for it.                              *)
(***************************************************************************)
EXTENDS Reversal, FiniteSetTheorems, NaturalsInduction, WellFoundedInduction, TLAPS

\* The verdict of the four questions without a model.
StructurallyPasses(steps, r) ==
  verdictFromAnswers(evaluateFourQuestions(steps, r)) = "PASS"

\* What a model may answer for sufficiency.
InSchema(o) == o.sufficiency \in {"no", "partial", "full", "unset"}

-----------------------------------------------------------------------------
(* The verifier. *)

\* Joining the answers of a model to the structural ones never turns another
\* verdict into PASS (mergeAnswers, verifier.ts:332).
LEMMA MergeOnlyLowers ==
  ASSUME NEW s, NEW o, InSchema(o),
         verdictFromAnswers(mergeAnswers(s, o)) = "PASS"
  PROVE  verdictFromAnswers(s) = "PASS"
<1> DEFINE m == mergeAnswers(s, o)
<1>1. /\ ~m.overreach /\ m.scope_ok /\ m.order_ok
      /\ m.sufficiency # "no" /\ m.sufficiency # "partial"
  BY DEF verdictFromAnswers
<1>2. ~s.overreach /\ s.scope_ok /\ s.order_ok
  BY <1>1 DEF mergeAnswers
<1>3. s.sufficiency # "no" /\ s.sufficiency # "partial"
  BY <1>1 DEF mergeAnswers, worseSufficiency, RankOf, InSchema
<1>4. QED
  BY <1>2, <1>3 DEF verdictFromAnswers

\* A record that passes the gate means that the four questions alone had passed
\* the draft: the model cannot grant what they denied (verifier.ts:183).
THEOREM ModelCannotGrant ==
  ASSUME NEW steps, NEW r, NEW o, InSchema(o), NEW mode, NEW spent,
         verificationPassesGate(verifyPlan(steps, r, o, mode, spent))
  PROVE  StructurallyPasses(steps, r)
<1> DEFINE a == evaluateFourQuestions(steps, r)
           rec == verifyPlan(steps, r, o, mode, spent)
<1>1. rec.verdict = "PASS"
  BY DEF verificationPassesGate
<1>2. CASE ~Asks(o, mode)
  BY <1>1, <1>2 DEF verifyPlan, Record, StructurallyPasses
<1>3. CASE Asks(o, mode) /\ (spent \/ o.said # "answered")
  <2>1. \A why : structuralFallbackRecord(a, why).verdict # "PASS"
    BY DEF structuralFallbackRecord, Record
  <2>2. QED
    BY <1>1, <1>3, <2>1 DEF verifyPlan
<1>4. CASE Asks(o, mode) /\ ~spent /\ o.said = "answered"
  <2>1. verdictFromAnswers(mergeAnswers(a, o)) = "PASS"
    BY <1>1, <1>4 DEF verifyPlan, Record
  <2>2. QED
    BY <2>1, MergeOnlyLowers DEF StructurallyPasses
<1>5. QED
  BY <1>2, <1>3, <1>4

-----------------------------------------------------------------------------
(* GateHolds.  Its inductive invariant says of every record in the cache, and  *)
(* of every plan an id of which was given out, that it passes the gate only if *)
(* the draft itself passes; a receipt that is sealed stays as it is.           *)

Sound(rows, e, steps, rec) ==
  /\ e \in Effect /\ rows[e] # NoRow
  /\ verificationPassesGate(rec) => StructurallyPasses(steps, rows[e])

PlanSound(rows, p) ==
  /\ p.effect \in Effect /\ rows[p.effect] # NoRow
  /\ p.origin = "drafted" => Sound(rows, p.effect, p.steps, p.record)

RanSound(rows, x) ==
  /\ x.plan.effect \in Effect /\ rows[x.plan.effect] # NoRow
  /\ rows[x.plan.effect].tier # "T4" /\ ~x.plan.cascade
  /\ x.plan.origin = "drafted" =>
       policy.drafted /\ StructurallyPasses(x.plan.steps, rows[x.plan.effect])

GateInv ==
  /\ row = [e \in Effect |-> row[e]]
  /\ plans = [i \in PlanId |-> plans[i]]
  /\ told = [e \in Effect |-> told[e]]
  /\ \A c \in cache : Sound(row, c.hash[1], c.hash[4], c.record)
  /\ \A e \in Effect : told[e] # "none" =>
       told[e] \in PlanId /\ PlanSound(row, plans[told[e]])
  /\ \A x \in ran : RanSound(row, x)

LEMMA GateInvImplies == GateInv => GateHolds
BY DEF GateInv, RanSound, GateHolds, StructurallyPasses

LEMMA GateInit == Init => GateInv
BY DEF Init, GateInv

\* Sealed receipts stay, so what was sound of them stays sound.
LEMMA SoundStays ==
  ASSUME NEW rows, NEW rowsNext,
         \A e \in Effect : rows[e] # NoRow => rowsNext[e] = rows[e]
  PROVE  /\ \A e, steps, rec :
              Sound(rows, e, steps, rec) => Sound(rowsNext, e, steps, rec)
         /\ \A p : PlanSound(rows, p) => PlanSound(rowsNext, p)
         /\ \A x : RanSound(rows, x) => RanSound(rowsNext, x)
<1>1. \A e, steps, rec : Sound(rows, e, steps, rec) => Sound(rowsNext, e, steps, rec)
  BY DEF Sound
<1>2. \A p : PlanSound(rows, p) => PlanSound(rowsNext, p)
  BY <1>1 DEF PlanSound
<1>3. \A x : RanSound(rows, x) => RanSound(rowsNext, x)
  BY DEF RanSound
<1>4. QED
  BY <1>1, <1>2, <1>3

\* A drafted plan comes out of Verify sound, and the cache stays so: hash, record
\* and receipt belong together.
LEMMA VerifySound ==
  ASSUME NEW e \in Effect, row[e] # NoRow, NEW steps, NEW o, InSchema(o),
         NEW mode, NEW budget,
         \A c \in cache : Sound(row, c.hash[1], c.hash[4], c.record)
  PROVE  LET v == Verify(e, steps, o, mode, budget)
         IN  /\ Sound(row, e, steps, v.record)
             /\ \A c \in v.cache : Sound(row, c.hash[1], c.hash[4], c.record)
<1> DEFINE hash == planHash(e, draftedSignature.id, "drafted", steps)
           hit == {c \in cache : c.hash = hash}
           out == budget >= 0 /\ used >= budget
           rec == verifyPlan(steps, row[e], o, mode, out)
           v == Verify(e, steps, o, mode, budget)
<1>1. hash[1] = e /\ hash[4] = steps
  BY DEF planHash
<1>2. CASE hit # {}
  <2>1. (CHOOSE c \in hit : TRUE) \in hit
    BY <1>2
  <2>2. Sound(row, e, steps, (CHOOSE c \in hit : TRUE).record)
    BY <2>1, <1>1
  <2>3. v.record = (CHOOSE c \in hit : TRUE).record /\ v.cache = cache
    BY <1>2 DEF Verify
  <2>4. QED
    BY <2>2, <2>3
<1>3. CASE hit = {}
  <2>1. Sound(row, e, steps, rec)
    BY ModelCannotGrant DEF Sound
  <2>2. v.record = rec /\ v.cache = cache \cup {[hash |-> hash, record |-> rec]}
    BY <1>3 DEF Verify
  <2>3. \A c \in v.cache : Sound(row, c.hash[1], c.hash[4], c.record)
    BY <2>1, <2>2, <1>1
  <2>4. QED
    BY <2>1, <2>2, <2>3
<1>4. QED
  BY <1>2, <1>3

\* A plan of a matched manifest carries no record, which never passes.
LEMMA MatchedPlanSound ==
  ASSUME NEW e \in Effect, row[e] # NoRow
  PROVE  PlanSound(row, MatchedPlan(e))
<1>1. MatchedPlan(e).effect = e /\ MatchedPlan(e).record = NoRecord
  BY DEF MatchedPlan, Plan
<1>2. ~verificationPassesGate(NoRecord)
  BY DEF verificationPassesGate, NoRecord
<1>3. QED
  BY <1>1, <1>2 DEF PlanSound, Sound

\* What executePlan lets run (execute.ts:194) is sound in what it ran.
LEMMA RunSound ==
  ASSUME NEW e, NEW p, PlanSound(row, p), Run(e, p), policy' = policy,
         \A x \in ran : RanSound(row, x)
  PROVE  row' = row /\ \A x \in ran' : RanSound(row, x)'
<1>1. row' = row /\ MayRun(p)
  BY DEF Run
<1>2. p.effect \in Effect /\ row[p.effect] # NoRow /\ row[p.effect].tier # "T4"
      /\ ~p.cascade
  BY <1>1 DEF MayRun, PlanSound
<1>3. ASSUME p.origin = "drafted"
      PROVE  policy.drafted /\ StructurallyPasses(p.steps, row[p.effect])
  <2>1. policy.drafted /\ ~executeGateRejection(p, policy.mode)
    BY <1>1, <1>3 DEF MayRun
  <2>2. verificationPassesGate(p.record)
    BY <2>1, <1>3 DEF executeGateRejection, executeRequiresVerificationGate
  <2>3. QED
    BY <2>1, <2>2, <1>3 DEF PlanSound, Sound
<1>4. \A x : x.plan = p => RanSound(row, x)
  BY <1>2, <1>3 DEF RanSound
<1> DEFINE entry == [asked |-> e, plan |-> p, places |-> Places(p, Matched(p.effect)),
                     restored |-> Outcome(p, Matched(p.effect)) = world[p.effect].was]
<1>5. ran' \subseteq ran \cup {entry} /\ entry.plan = p
  BY DEF Run
<1>6. \A x \in ran' : RanSound(row, x)
  BY <1>4, <1>5
<1> HIDE DEF entry
<1>7. \A x : RanSound(row, x)' <=> RanSound(row, x)
  BY <1>1 DEF RanSound, StructurallyPasses
<1>8. QED
  BY <1>1, <1>6, <1>7

\* Steps that store no plan and leave the cache alone.
LEMMA RunKeeps ==
  ASSUME GateInv, NEW e, NEW p, PlanSound(row, p), Run(e, p), policy' = policy,
         UNCHANGED <<plans, told>>,
         \A c \in cache' : Sound(row, c.hash[1], c.hash[4], c.record)
  PROVE  GateInv'
<1>1. row' = row /\ \A x \in ran' : RanSound(row, x)'
  BY RunSound DEF GateInv
<1>2. QED
  BY <1>1 DEF GateInv

LEMMA CaptureKeeps ==
  ASSUME GateInv, NEW e \in Effect, NEW s, NEW a, Capture(e, s, a)
  PROVE  GateInv'
<1>1. /\ row[e] = NoRow
      /\ UNCHANGED <<policy, plans, told, cache, ran>>
  BY DEF Capture
<1>2. row' = row \/ \E r : row' = [row EXCEPT ![e] = r]
  BY DEF Capture
<1>3. \A f \in Effect : row[f] # NoRow => row'[f] = row[f]
  BY <1>1, <1>2 DEF GateInv
<1>4. row' = [f \in Effect |-> row'[f]]
  BY <1>2 DEF GateInv
<1>5. /\ \A f, steps, rec : Sound(row, f, steps, rec) => Sound(row', f, steps, rec)
      /\ \A p : PlanSound(row, p) => PlanSound(row', p)
      /\ \A x : RanSound(row, x) => RanSound(row', x)
  BY <1>3, SoundStays
<1>6. \A x : RanSound(row', x) => RanSound(row, x)'
  BY <1>1 DEF RanSound, StructurallyPasses
<1>7. \A c \in cache' : Sound(row', c.hash[1], c.hash[4], c.record)
  BY <1>1, <1>5 DEF GateInv
<1>8. \A f \in Effect : told'[f] # "none" =>
        told'[f] \in PlanId /\ PlanSound(row', plans'[told'[f]])
  BY <1>1, <1>5 DEF GateInv
<1>9. \A x \in ran' : RanSound(row, x)'
  BY <1>1, <1>5, <1>6 DEF GateInv
<1>10. plans' = [i \in PlanId |-> plans'[i]] /\ told' = [f \in Effect |-> told'[f]]
  BY <1>1 DEF GateInv
<1>11. QED
  BY <1>4, <1>7, <1>8, <1>9, <1>10 DEF GateInv

\* A sound plan stored under any id keeps what was given out sound.
LEMMA StoreKeeps ==
  ASSUME GateInv, NEW e \in Effect, NEW i \in PlanId, NEW p, PlanSound(row, p),
         plans' = [plans EXCEPT ![i] = p], told' = [told EXCEPT ![e] = i],
         UNCHANGED <<policy, row, ran>>,
         \A c \in cache' : Sound(row, c.hash[1], c.hash[4], c.record)
  PROVE  GateInv'
<1>1. plans' = [j \in PlanId |-> plans'[j]] /\ told' = [f \in Effect |-> told'[f]]
  BY DEF GateInv
<1>2. plans'[i] = p /\ \A j \in PlanId : j # i => plans'[j] = plans[j]
  BY DEF GateInv
<1>3. told'[e] = i /\ \A f \in Effect : f # e => told'[f] = told[f]
  BY DEF GateInv
<1>4. \A f \in Effect : told'[f] # "none" =>
        told'[f] \in PlanId /\ PlanSound(row, plans'[told'[f]])
  BY <1>2, <1>3 DEF GateInv
<1>5. \A x \in ran' : RanSound(row, x)'
  BY DEF GateInv, RanSound, StructurallyPasses
<1>6. QED
  BY <1>1, <1>4, <1>5 DEF GateInv

LEMMA PlanMatchedKeeps ==
  ASSUME GateInv, NEW e \in Effect, PlanMatched(e)
  PROVE  GateInv'
<1>1. PlanSound(row, MatchedPlan(e))
  BY MatchedPlanSound DEF PlanMatched
<1>2. QED
  BY <1>1, StoreKeeps DEF PlanMatched, PlanId, GateInv

LEMMA PlanDraftedKeeps ==
  ASSUME GateInv, NEW e \in Effect, NEW steps, NEW o \in Opinions,
         PlanDrafted(e, steps, o)
  PROVE  GateInv'
<1> DEFINE v == Verify(e, steps, o, policy.mode, policy.budget)
           p == Plan(e, draftedSignature, "drafted", steps, v.record)
<1>1. row[e] # NoRow /\ cache' = v.cache /\ UNCHANGED <<policy, row, ran>>
  BY DEF PlanDrafted
<1>2. InSchema(o)
  BY OpinionsAssumption DEF InSchema
<1>3. /\ Sound(row, e, steps, v.record)
      /\ \A c \in cache' : Sound(row, c.hash[1], c.hash[4], c.record)
  BY <1>1, <1>2, VerifySound DEF GateInv
<1>4. PlanSound(row, p)
  BY <1>1, <1>3 DEF PlanSound, Plan
<1>5. \/ UNCHANGED <<plans, told>>
      \/ plans' = [plans EXCEPT ![e] = p] /\ told' = [told EXCEPT ![e] = e]
  BY DEF PlanDrafted
<1>6. CASE UNCHANGED <<plans, told>>
  <2>1. \A x \in ran' : RanSound(row, x)'
    BY <1>1 DEF GateInv, RanSound, StructurallyPasses
  <2>2. QED
    BY <1>1, <1>3, <1>6, <2>1 DEF GateInv
<1>7. CASE plans' = [plans EXCEPT ![e] = p] /\ told' = [told EXCEPT ![e] = e]
  BY <1>1, <1>3, <1>4, <1>7, StoreKeeps DEF PlanId
<1>8. QED
  BY <1>5, <1>6, <1>7

LEMMA ExecuteKeeps ==
  ASSUME GateInv, NEW e \in Effect, Execute(e), policy' = policy
  PROVE  GateInv'
<1>1. PlanSound(row, plans[told[e]])
  BY DEF GateInv, Execute
<1>2. QED
  BY <1>1, RunKeeps DEF Execute, GateInv

LEMMA UndoMatchedKeeps ==
  ASSUME GateInv, NEW e \in Effect, UndoMatched(e), policy' = policy
  PROVE  GateInv'
<1>1. PlanSound(row, MatchedPlan(e))
  BY MatchedPlanSound DEF UndoMatched, Undoable
<1>2. QED
  BY <1>1, RunKeeps DEF UndoMatched, GateInv

LEMMA UndoDraftedKeeps ==
  ASSUME GateInv, NEW e \in Effect, NEW steps, NEW o \in Opinions,
         UndoDrafted(e, steps, o), policy' = policy
  PROVE  GateInv'
<1> DEFINE v == Verify(e, steps, o, "audit", -1)
           p == Plan(e, draftedSignature, "drafted", steps, v.record)
<1>1. row[e] # NoRow /\ cache' = v.cache /\ Run(e, p) /\ UNCHANGED <<plans, told>>
  BY DEF UndoDrafted, Undoable
<1>2. InSchema(o)
  BY OpinionsAssumption DEF InSchema
<1>3. /\ Sound(row, e, steps, v.record)
      /\ \A c \in cache' : Sound(row, c.hash[1], c.hash[4], c.record)
  BY <1>1, <1>2, VerifySound DEF GateInv
<1>4. PlanSound(row, p)
  BY <1>1, <1>3 DEF PlanSound, Plan
<1>5. QED
  BY <1>1, <1>3, <1>4, RunKeeps

\* Steps GateInv does not look at.
LEMMA RestKeeps ==
  ASSUME GateInv, UNCHANGED <<policy, row, plans, told, cache, ran>>
  PROVE  GateInv'
BY DEF GateInv, RanSound, StructurallyPasses

LEMMA PolicyStays ==
  ASSUME NEW e, NEW p, Run(e, p)
  PROVE  policy' = policy
BY DEF Run

LEMMA GateStep == GateInv /\ [Next]_vars => GateInv'
<1> SUFFICES ASSUME GateInv, [Next]_vars PROVE GateInv'
  OBVIOUS
<1>1. CASE UNCHANGED vars
  BY <1>1, RestKeeps DEF vars
<1>2. CASE \E b \in Batches : Register(b)
  BY <1>2, RestKeeps DEF Register
<1>3. ASSUME NEW e \in Effect, NEW s \in Situations[e],
             NEW a \in Answers[s.call.kind], Capture(e, s, a)
      PROVE  GateInv'
  BY <1>3, CaptureKeeps
<1>4. ASSUME NEW e \in Effect, PlanMatched(e) PROVE GateInv'
  BY <1>4, PlanMatchedKeeps
<1>5. ASSUME NEW e \in Effect, Execute(e) PROVE GateInv'
  BY <1>5, ExecuteKeeps, PolicyStays DEF Execute
<1>6. ASSUME NEW e \in Effect, UndoMatched(e) PROVE GateInv'
  BY <1>6, UndoMatchedKeeps, PolicyStays DEF UndoMatched
<1>7. ASSUME NEW e \in Effect, Lapse(e) PROVE GateInv'
  BY <1>7, RestKeeps DEF Lapse
<1>8. ASSUME NEW e \in Effect, NEW o \in Opinions, NEW d, PlanDrafted(e, d, o)
      PROVE  GateInv'
  BY <1>8, PlanDraftedKeeps
<1>9. ASSUME NEW e \in Effect, NEW o \in Opinions, NEW d, UndoDrafted(e, d, o)
      PROVE  GateInv'
  BY <1>9, UndoDraftedKeeps, PolicyStays DEF UndoDrafted
<1>10. QED
  BY <1>1, <1>2, <1>3, <1>4, <1>5, <1>6, <1>7, <1>8, <1>9 DEF Next

\* Whatever runs had the verdict it needed, on every path (execute.ts:203).
THEOREM GateAlwaysHolds == Spec => []GateHolds
<1>1. Spec => []GateInv
  BY GateInit, GateStep, PTL DEF Spec
<1>2. QED
  BY <1>1, GateInvImplies, PTL

-----------------------------------------------------------------------------
(* Numbers. *)

\* A set of natural numbers has a least member.
LEMMA Least ==
  ASSUME NEW T \in SUBSET Nat, T # {}
  PROVE  \E n \in T : \A m \in T : n <= m
<1>1. \E x \in T : \A y \in T : ~(<<y, x>> \in OpToRel(<, Nat))
  BY NatLessThanWellFounded, WFMin
<1>2. PICK x \in T : \A y \in T : ~(<<y, x>> \in OpToRel(<, Nat))
  BY <1>1
<1>3. ASSUME NEW y \in T PROVE x <= y
  <2>1. ~(y < x)
    BY <1>2 DEF OpToRel
  <2> QED
    BY <2>1
<1> QED
  BY <1>3

\* The places of a sequence that meet a condition have a last one.
LEMMA Greatest ==
  ASSUME NEW n \in Nat, NEW T \in SUBSET (1 .. n), T # {}
  PROVE  \E i \in T : \A j \in T : j <= i
<1> DEFINE U == {n - i : i \in T}
<1>1. U \in SUBSET Nat /\ U # {}
  <2>1. \A i \in T : n - i \in Nat
    OBVIOUS
  <2> QED
    BY <2>1
<1>2. PICK u \in U : \A v \in U : u <= v
  BY <1>1, Least
<1>3. PICK i \in T : u = n - i
  BY <1>2
<1>4. ASSUME NEW j \in T PROVE j <= i
  <2>1. n - j \in U
    OBVIOUS
  <2>2. n - i <= n - j
    BY <1>2, <1>3, <2>1
  <2> QED
    BY <2>2
<1> QED
  BY <1>4

-----------------------------------------------------------------------------
(* The plan compiler. *)

\* Every gate a compiled plan had to pass (plan.ts:97).
LEMMA CompiledPasses ==
  ASSUME NEW r, NEW m, NEW origin, NEW steps, NEW expired,
         compilePlan(r, m, origin, steps, expired) = "ok"
  PROVE  /\ ClosedSteps(steps) /\ assertProvenance(steps) /\ KnownRefs(steps)
         /\ ~(origin = "drafted" /\ hasConstRef(steps))
         /\ resolveSteps(steps, r, m) /\ assertCredentialPositions(steps)
         /\ assertUnsafeStatements(steps, r) /\ assertScope(steps, r, m, origin)
<1> DEFINE gates == Gates(r, m, origin, steps, expired)
           R == Refusing(gates)
<1>1. DOMAIN gates = 1 .. 11 /\ \A i \in 1 .. 11 : gates[i][1] # "ok"
  BY DEF Gates
<1>2. R \in SUBSET Nat /\ R \subseteq 1 .. 11
  BY <1>1 DEF Refusing
<1>3. R = {}
  <2> SUFFICES ASSUME R # {} PROVE FALSE
    OBVIOUS
  <2>1. \E i \in R : \A j \in R : i <= j
    BY <1>2, Least
  <2> DEFINE i == CHOOSE i \in R : \A j \in R : i <= j
  <2>2. i \in R
    BY <2>1
  <2>3. gates[i][1] # "ok"
    BY <1>1, <1>2, <2>2
  <2>4. compilePlan(r, m, origin, steps, expired) = gates[i][1]
    BY DEF compilePlan, FirstCode
  <2> QED
    BY <2>3, <2>4
<1>4. \A i \in 1 .. 11 : gates[i][2]
  BY <1>1, <1>3 DEF Refusing
<1>5. /\ gates[2][2] /\ gates[3][2] /\ gates[4][2] /\ gates[5][2] /\ gates[6][2]
      /\ gates[7][2] /\ gates[8][2] /\ gates[9][2]
  BY <1>4
<1> QED
  BY <1>5 DEF Gates

\* The gates one by one are all there is to pass.
LEMMA PassesCompile ==
  ASSUME NEW r, NEW m, NEW origin, NEW steps, 
         ClosedSteps(steps), assertProvenance(steps), KnownRefs(steps),
         ~(origin = "drafted" /\ hasConstRef(steps)),
         resolveSteps(steps, r, m), assertCredentialPositions(steps),
         assertUnsafeStatements(steps, r), assertScope(steps, r, m, origin),
         Len(steps) <= MaxPlanSteps, OneStepEach(steps, r, m)
  PROVE  compilePlan(r, m, origin, steps, FALSE) = "ok"
<1> DEFINE gates == Gates(r, m, origin, steps, FALSE)
<1>1. DOMAIN gates = 1 .. 11
  BY DEF Gates
<1>2. /\ gates[1][2] /\ gates[2][2] /\ gates[3][2] /\ gates[4][2] /\ gates[5][2]
      /\ gates[6][2] /\ gates[7][2] /\ gates[8][2] /\ gates[9][2] /\ gates[10][2]
      /\ gates[11][2]
  BY DEF Gates
<1> HIDE DEF gates
<1>3. \A i \in 1 .. 11 : gates[i][2]
  <2> SUFFICES ASSUME NEW i \in 1 .. 11 PROVE gates[i][2]
    OBVIOUS
  <2>1. \/ i = 1 \/ i = 2 \/ i = 3 \/ i = 4 \/ i = 5 \/ i = 6 \/ i = 7 \/ i = 8
        \/ i = 9 \/ i = 10 \/ i = 11
    OBVIOUS
  <2> QED
    BY <1>2, <2>1, Zenon
<1>4. Refusing(gates) = {}
  BY <1>1, <1>3 DEF Refusing
<1> QED
  BY <1>4 DEF compilePlan, FirstCode, gates

\* What a plan of one step has to meet.
LEMMA OneStepCompiles ==
  ASSUME NEW r, NEW m, NEW origin, origin # "drafted", NEW s,
         s.flaw = "none", s.target # "bad", ClosedSteps(<<s>>),
         s.target # "none" => TargetOf(s, r, m) # "none",
         SourceResolves(s, r), WhereResolves(s, r),
         s.kind = "sql_statement" /\ s.verb \in {"UPDATE", "DELETE"} => s.where # "none",
         s.kind = "fs_restore" /\ s.source = "preimage.blob" => r.pre = "image",
         s.kind = "http_request" /\ s.verb = "DELETE" /\ r.call.kind = "http"
           => r.call.method # "DELETE",
         assertStepScope(s, TargetOf(s, r, m), r, m, origin)
  PROVE  compilePlan(r, m, origin, <<s>>, FALSE) = "ok"
<1>1. /\ assertProvenance(<<s>>) /\ KnownRefs(<<s>>) /\ assertCredentialPositions(<<s>>)
      /\ Len(<<s>>) <= MaxPlanSteps
  BY DEF assertProvenance, KnownRefs, assertCredentialPositions, MaxPlanSteps
<1>2. resolveSteps(<<s>>, r, m)
  BY DEF resolveSteps
<1>3. assertUnsafeStatements(<<s>>, r)
  BY DEF assertUnsafeStatements
<1>4. assertScope(<<s>>, r, m, origin)
  BY DEF assertScope
<1>5. OneStepEach(<<s>>, r, m)
  BY DEF OneStepEach
<1> QED
  BY <1>1, <1>2, <1>3, <1>4, <1>5, PassesCompile

\* The builtin manifests pass it (compensators/src/index.ts:15).
LEMMA FsWriteGate == gateDeclarativeManifest(fsWrite) = "ok"
<1> DEFINE r == syntheticReceipt(fsWrite)
           s == [NewStep EXCEPT !.kind = "fs_restore", !.target = "args.target",
                                 !.source = "preimage.blob"]
<1>1. fsWrite.steps = <<s>> /\ fsWrite.source = "builtin"
  BY DEF fsWrite, Builtin
<1>2. r.call.kind = "fs" /\ r.pre = "image"
  BY DEF syntheticReceipt, fsWrite, Builtin
<1>3. /\ s.kind = "fs_restore" /\ s.target = "args.target" /\ s.source = "preimage.blob"
      /\ s.flaw = "none" /\ s.where = "none"
  BY DEF NewStep
<1> HIDE DEF r, s
<1>4. TargetOf(s, r, fsWrite) = "own"
  BY <1>2, <1>3 DEF TargetOf, ArgTarget
<1>5. ClosedSteps(<<s>>) /\ ~hasConstRef(<<s>>)
  BY <1>3 DEF ClosedSteps, hasConstRef
<1>6. SourceResolves(s, r) /\ WhereResolves(s, r)
  BY <1>2, <1>3 DEF SourceResolves, WhereResolves
<1>7. assertStepScope(s, "own", r, fsWrite, "builtin")
  BY <1>3 DEF assertStepScope, assertFsScope
<1>8. compilePlan(r, fsWrite, "builtin", <<s>>, FALSE) = "ok"
  BY <1>2, <1>3, <1>4, <1>5, <1>6, <1>7, OneStepCompiles
<1> QED
  BY <1>1, <1>5, <1>8 DEF gateDeclarativeManifest, r

LEMMA SqlRowGate == gateDeclarativeManifest(sqlRow) = "ok"
<1> DEFINE r == syntheticReceipt(sqlRow)
           s == [NewStep EXCEPT !.kind = "sql_statement", !.verb = "DELETE",
                    !.target = "args.target", !.where = "pk", !.max = 1]
<1>1. sqlRow.steps = <<s>> /\ sqlRow.source = "builtin"
  BY DEF sqlRow, Builtin
<1>2. r.call.kind = "sql" /\ r.pre = "none" /\ r.answer.names = "id"
  BY DEF syntheticReceipt, sqlRow, Builtin, NoAnswer
<1>3. /\ s.kind = "sql_statement" /\ s.target = "args.target" /\ s.source = "none"
      /\ s.flaw = "none" /\ s.where = "pk" /\ s.verb = "DELETE"
  BY DEF NewStep
<1> HIDE DEF r, s
<1>4. TargetOf(s, r, sqlRow) = "own"
  BY <1>2, <1>3 DEF TargetOf, ArgTarget
<1>5. ClosedSteps(<<s>>) /\ ~hasConstRef(<<s>>)
  BY <1>3 DEF ClosedSteps, hasConstRef
<1>6. SourceResolves(s, r) /\ WhereResolves(s, r)
  BY <1>2, <1>3 DEF SourceResolves, WhereResolves
<1>7. assertStepScope(s, "own", r, sqlRow, "builtin")
  BY <1>2, <1>3 DEF assertStepScope, assertSqlScope, observedRowCount
<1>8. compilePlan(r, sqlRow, "builtin", <<s>>, FALSE) = "ok"
  BY <1>2, <1>3, <1>4, <1>5, <1>6, <1>7, OneStepCompiles
<1> QED
  BY <1>1, <1>5, <1>8 DEF gateDeclarativeManifest, r

LEMMA HttpCreateGate == gateDeclarativeManifest(httpCreate) = "ok"
<1> DEFINE r == syntheticReceipt(httpCreate)
           s == [NewStep EXCEPT !.kind = "http_request", !.verb = "DELETE",
                                !.target = "bindings.url"]
<1>1. httpCreate.steps = <<s>> /\ httpCreate.source = "builtin"
  BY DEF httpCreate, Builtin, httpCreateSteps
<1>2. r.call.kind = "http" /\ r.call.method = "POST" /\ r.url = "own" /\ r.key = "own"
  BY DEF syntheticReceipt, httpCreate, Builtin, NoAnswer, BoundUrl, ArgTarget, resourceKeys
<1>3. /\ s.kind = "http_request" /\ s.target = "bindings.url" /\ s.source = "none"
      /\ s.flaw = "none" /\ s.where = "none" /\ s.verb = "DELETE"
  BY DEF NewStep
<1> HIDE DEF r, s
<1>4. TargetOf(s, r, httpCreate) = "own"
  BY <1>2, <1>3 DEF TargetOf
<1>5. ClosedSteps(<<s>>) /\ ~hasConstRef(<<s>>)
  BY <1>3 DEF ClosedSteps, hasConstRef
<1>6. SourceResolves(s, r) /\ WhereResolves(s, r)
  BY <1>2, <1>3 DEF SourceResolves, WhereResolves
<1>7. assertStepScope(s, "own", r, httpCreate, "builtin")
  BY <1>2, <1>3 DEF assertStepScope, assertHttpScope, Covers
<1>8. compilePlan(r, httpCreate, "builtin", <<s>>, FALSE) = "ok"
  BY <1>2, <1>3, <1>4, <1>5, <1>6, <1>7, OneStepCompiles
<1> QED
  BY <1>1, <1>5, <1>8 DEF gateDeclarativeManifest, r

LEMMA MessageSendGate == gateDeclarativeManifest(messageSend) = "ok"
<1> DEFINE r == syntheticReceipt(messageSend)
           s == [NewStep EXCEPT !.kind = "mcp_tool_call", !.target = "const.target",
                                !.source = "bindings.pk"]
<1>1. /\ messageSend.steps = <<s>> /\ messageSend.source = "builtin"
      /\ messageSend.const = "own" /\ messageSend.permits
  BY DEF messageSend, Builtin, messageRetract
<1>2. r.call.kind = "mcp_tool" /\ r.answer.names = "id"
  BY DEF syntheticReceipt, messageSend, Builtin, NoAnswer
<1>3. /\ s.kind = "mcp_tool_call" /\ s.target = "const.target" /\ s.source = "bindings.pk"
      /\ s.flaw = "none" /\ s.where = "none"
  BY DEF NewStep
<1> HIDE DEF r, s
<1>4. TargetOf(s, r, messageSend) = "own"
  BY <1>1, <1>3 DEF TargetOf
<1>5. ClosedSteps(<<s>>)
  BY <1>3 DEF ClosedSteps
<1>6. SourceResolves(s, r) /\ WhereResolves(s, r)
  BY <1>2, <1>3 DEF SourceResolves, WhereResolves
<1>7. assertStepScope(s, "own", r, messageSend, "builtin")
  BY <1>1, <1>3 DEF assertStepScope, assertMcpScope
<1>8. compilePlan(r, messageSend, "builtin", <<s>>, FALSE) = "ok"
  BY <1>2, <1>3, <1>4, <1>5, <1>6, <1>7, OneStepCompiles
<1> QED
  BY <1>1, <1>8 DEF gateDeclarativeManifest, r

LEMMA EmailManualGate == gateDeclarativeManifest(emailManual) = "ok"
<1> DEFINE r == syntheticReceipt(emailManual)
           s == [NewStep EXCEPT !.kind = "manual"]
<1>1. emailManual.steps = <<s>> /\ emailManual.source = "builtin"
  BY DEF emailManual, Builtin
<1>2. /\ s.kind = "manual" /\ s.target = "none" /\ s.source = "none"
      /\ s.flaw = "none" /\ s.where = "none"
  BY DEF NewStep
<1> HIDE DEF r, s
<1>3. ClosedSteps(<<s>>) /\ ~hasConstRef(<<s>>)
  BY <1>2 DEF ClosedSteps, hasConstRef
<1>4. SourceResolves(s, r) /\ WhereResolves(s, r)
  BY <1>2 DEF SourceResolves, WhereResolves
<1>5. assertStepScope(s, TargetOf(s, r, emailManual), r, emailManual, "builtin")
  BY <1>2 DEF assertStepScope
<1>6. compilePlan(r, emailManual, "builtin", <<s>>, FALSE) = "ok"
  BY <1>2, <1>3, <1>4, <1>5, OneStepCompiles
<1> QED
  BY <1>1, <1>3, <1>6 DEF gateDeclarativeManifest, r

-----------------------------------------------------------------------------
(* The registry.                                                              *)

\* m is the manifest n, registered at a time.
From(m, n, at) ==
  /\ m.id = n.id /\ m.source = n.source /\ m.signed = n.signed
  /\ m.disabled = n.disabled /\ m.kind = n.kind /\ m.methods = n.methods
  /\ m.statuses = n.statuses /\ m.tier = n.tier /\ m.binds = n.binds
  /\ m.steps = n.steps /\ m.const = n.const /\ m.full = n.full
  /\ m.cascade = n.cascade /\ m.score = n.score /\ m.rank = n.rank
  /\ m.at = at

Listed(steps) == Len(steps) \in Nat /\ DOMAIN steps = 1 .. Len(steps)

\* What is known of a manifest that was offered.
Typed(n) ==
  /\ n.source \in {"builtin", "registered", "drafted"} /\ n.tier \in Tier
  /\ n.binds \in BOOLEAN /\ n.signed \in BOOLEAN /\ n.const \in Place \cup {"none"}
  /\ n.score \in Nat /\ n.rank \in Nat /\ Listed(n.steps)

\* Where a manifest in memory comes from: it was offered, and let in.
Entry(m) ==
  \E n \in Offered : \E at \in Nat :
    Typed(n) /\ gateDeclarativeManifest(n) = "ok" /\ From(m, n, at)

MemInv ==
  /\ IsFiniteSet(memory)
  /\ \A m \in memory : Entry(m)
  /\ \A m, o \in memory : m.id = o.id => m = o
  /\ \A i \in DOMAIN builtins :
       \E m \in memory : From(m, builtins[i], 0)

LEMMA FsWriteFacts ==
  /\ Typed(fsWrite) /\ fsWrite.source = "builtin" /\ fsWrite.const = "none"
  /\ fsWrite.id = "cmp_fs_write@1" /\ From([fsWrite EXCEPT !.at = 0], fsWrite, 0)
<1>1. Typed(fsWrite)
  BY DEF fsWrite, Builtin, Typed, Tier, Listed
<1>2. From([fsWrite EXCEPT !.at = 0], fsWrite, 0)
  BY DEF fsWrite, Builtin, From
<1> QED
  BY <1>1, <1>2 DEF fsWrite, Builtin

LEMMA SqlRowFacts ==
  /\ Typed(sqlRow) /\ sqlRow.source = "builtin" /\ sqlRow.const = "none"
  /\ sqlRow.id = "cmp_sql_row@1" /\ From([sqlRow EXCEPT !.at = 0], sqlRow, 0)
<1>1. Typed(sqlRow)
  BY DEF sqlRow, Builtin, Typed, Tier, Listed
<1>2. From([sqlRow EXCEPT !.at = 0], sqlRow, 0)
  BY DEF sqlRow, Builtin, From
<1> QED
  BY <1>1, <1>2 DEF sqlRow, Builtin

LEMMA HttpCreateFacts ==
  /\ Typed(httpCreate) /\ httpCreate.source = "builtin" /\ httpCreate.const = "none"
  /\ httpCreate.id = "cmp_http_create@1"
  /\ From([httpCreate EXCEPT !.at = 0], httpCreate, 0)
<1>1. Typed(httpCreate)
  BY DEF httpCreate, Builtin, Typed, Tier, Listed, httpCreateSteps
<1>2. From([httpCreate EXCEPT !.at = 0], httpCreate, 0)
  BY DEF httpCreate, Builtin, From
<1> QED
  BY <1>1, <1>2 DEF httpCreate, Builtin

LEMMA MessageSendFacts ==
  /\ Typed(messageSend) /\ messageSend.source = "builtin" /\ messageSend.const = "own"
  /\ messageSend.id = "cmp_message_send@1"
  /\ From([messageSend EXCEPT !.at = 0], messageSend, 0)
<1>1. Typed(messageSend)
  BY DEF messageSend, Builtin, Typed, Tier, Place, Listed, messageRetract
<1>2. From([messageSend EXCEPT !.at = 0], messageSend, 0)
  BY DEF messageSend, Builtin, From
<1> QED
  BY <1>1, <1>2 DEF messageSend, Builtin

LEMMA EmailManualFacts ==
  /\ Typed(emailManual) /\ emailManual.source = "builtin" /\ emailManual.const = "none"
  /\ emailManual.id = "cmp_email@1"
  /\ From([emailManual EXCEPT !.at = 0], emailManual, 0)
<1>1. Typed(emailManual)
  BY DEF emailManual, Builtin, Typed, Tier, Listed
<1>2. From([emailManual EXCEPT !.at = 0], emailManual, 0)
  BY DEF emailManual, Builtin, From
<1> QED
  BY <1>1, <1>2 DEF emailManual, Builtin

LEMMA BuiltinFacts ==
  /\ DOMAIN builtins = 1 .. 5
  /\ \A i \in 1 .. 5 :
       /\ Typed(builtins[i]) /\ gateDeclarativeManifest(builtins[i]) = "ok"
       /\ builtins[i].source = "builtin" /\ builtins[i].const \in {"none", "own"}
       /\ From([builtins[i] EXCEPT !.at = 0], builtins[i], 0)
  /\ \A i, j \in 1 .. 5 : builtins[i].id = builtins[j].id => i = j
<1>1. DOMAIN builtins = 1 .. 5
  BY DEF builtins
<1>2. /\ builtins[1] = fsWrite /\ builtins[2] = sqlRow /\ builtins[3] = httpCreate
      /\ builtins[4] = messageSend /\ builtins[5] = emailManual
  BY DEF builtins
<1>3. \A i \in 1 .. 5 : gateDeclarativeManifest(builtins[i]) = "ok"
  BY <1>2, FsWriteGate, SqlRowGate, HttpCreateGate, MessageSendGate, EmailManualGate
<1>4. \A i \in 1 .. 5 :
       /\ Typed(builtins[i])
       /\ builtins[i].source = "builtin" /\ builtins[i].const \in {"none", "own"}
       /\ From([builtins[i] EXCEPT !.at = 0], builtins[i], 0)
  BY <1>2, FsWriteFacts, SqlRowFacts, HttpCreateFacts, MessageSendFacts, EmailManualFacts
<1>5. \A i, j \in 1 .. 5 : builtins[i].id = builtins[j].id => i = j
  <2> SUFFICES ASSUME NEW i \in 1 .. 5, NEW j \in 1 .. 5, i # j
               PROVE  builtins[i].id # builtins[j].id
    OBVIOUS
  <2>1. i \in {1, 2, 3, 4, 5} /\ j \in {1, 2, 3, 4, 5}
    OBVIOUS
  <2> QED
    BY <1>2, <2>1, FsWriteFacts, SqlRowFacts, HttpCreateFacts, MessageSendFacts,
       EmailManualFacts
<1> QED
  BY <1>1, <1>3, <1>4, <1>5

\* What is at a place of a list that was offered.
LEMMA OfferedFacts ==
  /\ \A b \in Batches : \A i \in DOMAIN b : b[i] \in Offered /\ b[i] \in Manifest
  /\ \A i \in DOMAIN builtins : builtins[i] \in Offered
  /\ \A b \in Batches : DOMAIN b = 1 .. Len(b) /\ Len(b) \in Nat
<1>1. ASSUME NEW b \in Batches, NEW i \in DOMAIN b PROVE b[i] \in Offered /\ b[i] \in Manifest
  <2>1. b \in Seq(Manifest)
    BY ShapeAssumption
  <2>2. b[i] \in Range(b)
    BY DEF Range
  <2> QED
    BY <2>1, <2>2 DEF Offered
<1>2. ASSUME NEW i \in DOMAIN builtins PROVE builtins[i] \in Offered
  <2>1. builtins[i] \in Range(builtins)
    BY DEF Range
  <2> QED
    BY <2>1 DEF Offered
<1>3. ASSUME NEW b \in Batches PROVE DOMAIN b = 1 .. Len(b) /\ Len(b) \in Nat
  <2>1. b \in Seq(Manifest)
    BY ShapeAssumption
  <2> QED
    BY <2>1
<1> QED
  BY <1>1, <1>2, <1>3

LEMMA ManifestFacts ==
  ASSUME NEW n \in Manifest, NEW at
  PROVE  Typed(n) /\ From([n EXCEPT !.at = at], n, at)
<1>1. Typed(n)
  <2>1. n.steps \in Seq(Step)
    BY DEF Manifest
  <2>2. Listed(n.steps)
    BY <2>1 DEF Listed
  <2> QED
    BY <2>2 DEF Manifest, Typed
<1>2. From([n EXCEPT !.at = at], n, at)
  BY DEF Manifest, From
<1> QED
  BY <1>1, <1>2

\* What a list adds is finite.
LEMMA AddedIsFinite ==
  ASSUME NEW f, NEW n \in Nat, NEW S \in SUBSET (1 .. n), NEW T,
         \A x \in T : \E i \in S : x = f[i],
         \A i \in S : f[i] \in T
  PROVE  IsFiniteSet(T)
<1> DEFINE g == [i \in S |-> f[i]]
<1>1. IsFiniteSet(1 .. n)
  BY FS_Interval
<1>2. IsFiniteSet(S)
  BY <1>1, FS_Subset
<1>3. g \in Surjection(S, T)
  BY DEF Surjection
<1> QED
  BY <1>2, <1>3, FS_Surjection

\* The manifests the package ships with are all let in (index.ts:156).
LEMMA MemInit == Init => MemInv
<1> SUFFICES ASSUME Init PROVE MemInv
  OBVIOUS
<1> DEFINE refusals == Refusals({}, builtins, policy.hosted, TRUE)
           admitted == Admitted(builtins, refusals)
<1>1. refusals = {}
  BY BuiltinFacts DEF Refusals, registerVerdict
<1>2. admitted = 1 .. 5
  BY <1>1, BuiltinFacts DEF Admitted
<1>3. memory = {[builtins[i] EXCEPT !.at = 0] : i \in 1 .. 5}
  <2>1. memory = Stored({}, builtins, admitted, 0)
    BY DEF Init, register
  <2>2. {k \in admitted : \A l \in admitted : l > k => builtins[l].id # builtins[k].id} = 1 .. 5
    <3>1. \A k, l \in 1 .. 5 : l > k => builtins[l].id # builtins[k].id
      BY BuiltinFacts
    <3> QED
      BY <1>2, <3>1
  <2> QED
    BY <2>1, <2>2 DEF Stored
<1>4. IsFiniteSet(memory)
  <2> DEFINE f == [i \in 1 .. 5 |-> [builtins[i] EXCEPT !.at = 0]]
  <2>1. 5 \in Nat /\ 1 .. 5 \in SUBSET (1 .. 5)
    OBVIOUS
  <2>2. \A i \in 1 .. 5 : f[i] = [builtins[i] EXCEPT !.at = 0]
    OBVIOUS
  <2> HIDE DEF f
  <2>3. /\ \A x \in memory : \E i \in 1 .. 5 : x = f[i]
        /\ \A i \in 1 .. 5 : f[i] \in memory
    BY <1>3, <2>2
  <2> QED
    BY <2>1, <2>3, AddedIsFinite
<1>5. \A m \in memory : Entry(m)
  <2> SUFFICES ASSUME NEW i \in 1 .. 5 PROVE Entry([builtins[i] EXCEPT !.at = 0])
    BY <1>3
  <2>1. builtins[i] \in Offered
    BY OfferedFacts, BuiltinFacts
  <2> QED
    BY <2>1, BuiltinFacts DEF Entry
<1>6. \A m, o \in memory : m.id = o.id => m = o
  <2> SUFFICES ASSUME NEW i \in 1 .. 5, NEW j \in 1 .. 5,
                      [builtins[i] EXCEPT !.at = 0].id = [builtins[j] EXCEPT !.at = 0].id
               PROVE  i = j
    BY <1>3
  <2> QED
    BY BuiltinFacts DEF From
<1>7. \A i \in DOMAIN builtins : \E m \in memory : From(m, builtins[i], 0)
  BY <1>3, BuiltinFacts
<1> QED
  BY <1>4, <1>5, <1>6, <1>7 DEF MemInv

\* What register lets in is new to memory, and nothing leaves it (registry.ts:138).
LEMMA RegisterAdds ==
  ASSUME MemInv, NEW b \in Batches, Register(b)
  PROVE  \E new \in SUBSET DOMAIN b : \E f :
           /\ memory' = memory \cup {f[i] : i \in new}
           /\ \A i \in new :
                /\ From(f[i], b[i], registered + 1)
                /\ gateDeclarativeManifest(b[i]) = "ok"
                /\ \A m \in memory : m.id # b[i].id
                /\ \A j \in new : b[i].id = b[j].id => i = j
<1> DEFINE refusals == Refusals(memory, b, policy.hosted, FALSE)
           new == Admitted(b, refusals)
<1>1. new \in SUBSET DOMAIN b /\ new \cap refusals = {} /\ DOMAIN b = 1 .. Len(b) /\ Len(b) \in Nat
  <2>1. DOMAIN b = 1 .. Len(b) /\ Len(b) \in Nat
    BY OfferedFacts
  <2>2. \A i \in new : i \in DOMAIN b /\ \A j \in refusals : i < j
    BY DEF Admitted
  <2>3. \A i \in 1 .. Len(b) : ~(i < i)
    BY <2>1
  <2> QED
    BY <2>1, <2>2, <2>3
<1>2. ASSUME NEW i \in new
      PROVE  /\ gateDeclarativeManifest(b[i]) = "ok"
             /\ b[i].id \notin {o.id : o \in memory} \cup {b[j].id : j \in 1 .. i - 1}
  <2>1. i \in DOMAIN b /\ i \notin refusals
    BY <1>1
  <2>2. registerVerdict({o.id : o \in memory} \cup {b[j].id : j \in 1 .. i - 1},
          b[i], gateDeclarativeManifest(b[i]), policy.hosted, FALSE) = "ok"
    BY <2>1 DEF Refusals
  <2> QED
    BY <2>2 DEF registerVerdict
<1>3. ASSUME NEW i \in new, NEW j \in new, b[i].id = b[j].id PROVE i = j
  <2>1. i \in Nat /\ j \in Nat /\ i >= 1 /\ j >= 1
    <3>1. i \in 1 .. Len(b) /\ j \in 1 .. Len(b) /\ Len(b) \in Nat
      BY <1>1, <1>3
    <3> QED
      BY <3>1
  <2>2. b[i].id \notin {b[k].id : k \in 1 .. i - 1} /\ b[j].id \notin {b[k].id : k \in 1 .. j - 1}
    BY <1>2
  <2>3. j \notin 1 .. i - 1 /\ i \notin 1 .. j - 1
    BY <1>3, <2>2
  <2> QED
    BY <2>1, <2>3
<1>4. memory' = Stored(memory, b, new, registered + 1)
  BY DEF Register, register
<1> HIDE DEF refusals, new
<1>5. {o \in memory : \A i \in new : b[i].id # o.id} = memory
  BY <1>2
<1>6. {k \in new : \A l \in new : l > k => b[l].id # b[k].id} = new
  <2>1. \A k, l \in new : l > k => b[l].id # b[k].id
    <3> SUFFICES ASSUME NEW k \in new, NEW l \in new, l > k PROVE b[l].id # b[k].id
      OBVIOUS
    <3>1. k \in 1 .. Len(b) /\ Len(b) \in Nat
      BY <1>1
    <3>2. k # l
      BY <3>1
    <3> QED
      BY <1>3, <3>2
  <2> QED
    BY <2>1
<1> DEFINE f == [i \in new |-> [b[i] EXCEPT !.at = registered + 1]]
<1>7. memory' = memory \cup {f[i] : i \in new}
  BY <1>4, <1>5, <1>6 DEF Stored
<1>8. \A i \in new : \A m \in memory : m.id # b[i].id
  BY <1>2
<1>9. \A i \in new : From(f[i], b[i], registered + 1)
  <2> SUFFICES ASSUME NEW i \in new PROVE From(f[i], b[i], registered + 1)
    OBVIOUS
  <2>1. b[i] \in Manifest
    BY <1>1, OfferedFacts
  <2>2. f[i] = [b[i] EXCEPT !.at = registered + 1]
    OBVIOUS
  <2> QED
    BY <2>1, <2>2, ManifestFacts
<1> HIDE DEF f
<1> QED
  BY <1>1, <1>2, <1>3, <1>7, <1>8, <1>9

LEMMA RegisterKeepsMem ==
  ASSUME MemInv, registered \in Nat, NEW b \in Batches, Register(b)
  PROVE  MemInv'
<1>1. PICK new \in SUBSET DOMAIN b : \E f :
           /\ memory' = memory \cup {f[i] : i \in new}
           /\ \A i \in new :
                /\ From(f[i], b[i], registered + 1)
                /\ gateDeclarativeManifest(b[i]) = "ok"
                /\ \A m \in memory : m.id # b[i].id
                /\ \A j \in new : b[i].id = b[j].id => i = j
  BY RegisterAdds
<1>2. PICK f :
           /\ memory' = memory \cup {f[i] : i \in new}
           /\ \A i \in new :
                /\ From(f[i], b[i], registered + 1)
                /\ gateDeclarativeManifest(b[i]) = "ok"
                /\ \A m \in memory : m.id # b[i].id
                /\ \A j \in new : b[i].id = b[j].id => i = j
  BY <1>1
<1>3. \A i \in new : b[i] \in Offered /\ Typed(b[i])
  BY OfferedFacts, ManifestFacts
<1>4. IsFiniteSet(memory')
  <2>1. Len(b) \in Nat /\ new \in SUBSET (1 .. Len(b))
    BY OfferedFacts
  <2>2. IsFiniteSet({f[i] : i \in new})
    BY <2>1, AddedIsFinite
  <2>3. IsFiniteSet(memory)
    BY DEF MemInv
  <2> QED
    BY <1>2, <2>2, <2>3, FS_Union
<1>5. \A m \in memory' : Entry(m)
  <2>1. registered + 1 \in Nat
    OBVIOUS
  <2>2. \A i \in new : Entry(f[i])
    BY <1>2, <1>3, <2>1 DEF Entry
  <2> QED
    BY <1>2, <2>2 DEF MemInv
<1>6. \A i \in new : f[i].id = b[i].id
  BY <1>2 DEF From
<1>7. \A m, o \in memory' : m.id = o.id => m = o
  <2> SUFFICES ASSUME NEW m \in memory', NEW o \in memory', m.id = o.id PROVE m = o
    OBVIOUS
  <2>1. CASE m \in memory /\ o \in memory
    BY <2>1 DEF MemInv
  <2>2. CASE m \in memory /\ o \notin memory
    BY <1>2, <1>6, <2>2
  <2>3. CASE m \notin memory /\ o \in memory
    BY <1>2, <1>6, <2>3
  <2>4. CASE m \notin memory /\ o \notin memory
    BY <1>2, <1>6, <2>4
  <2> QED
    BY <2>1, <2>2, <2>3, <2>4
<1>8. \A i \in DOMAIN builtins : \E m \in memory' : From(m, builtins[i], 0)
  BY <1>2 DEF MemInv
<1>9. \A m : Entry(m)' <=> Entry(m)
  BY DEF Entry
<1> QED
  BY <1>4, <1>5, <1>7, <1>8, <1>9 DEF MemInv

\* The order of preference is a strict order, total on what is in memory.
LEMMA BeforeOrders ==
  ASSUME MemInv
  PROVE  /\ \A a, b \in memory : a # b => Before(a, b) \/ Before(b, a)
         /\ \A a, b, c \in memory : Before(a, b) /\ Before(b, c) => Before(a, c)
<1>1. \A a \in memory : /\ a.score \in Nat /\ a.at \in Nat /\ a.rank \in Nat
                        /\ SOURCE_RANK[a.source] \in Nat
  <2> SUFFICES ASSUME NEW a \in memory
               PROVE  /\ a.score \in Nat /\ a.at \in Nat /\ a.rank \in Nat
                      /\ SOURCE_RANK[a.source] \in Nat
    OBVIOUS
  <2>1. PICK n \in Offered : \E at \in Nat : Typed(n) /\ From(a, n, at)
    BY DEF MemInv, Entry
  <2>2. /\ a.score \in Nat /\ a.at \in Nat /\ a.rank \in Nat
        /\ a.source \in {"builtin", "registered", "drafted"}
    BY <2>1 DEF From, Typed
  <2>3. \A s \in {"builtin", "registered", "drafted"} : SOURCE_RANK[s] \in Nat
    BY DEF SOURCE_RANK
  <2> QED
    BY <2>2, <2>3
<1>2. \A a, b \in memory : a.rank = b.rank => a = b
  <2> SUFFICES ASSUME NEW a \in memory, NEW b \in memory, a.rank = b.rank PROVE a = b
    OBVIOUS
  <2>1. PICK n \in Offered : \E at \in Nat : From(a, n, at)
    BY DEF MemInv, Entry
  <2>2. PICK o \in Offered : \E at \in Nat : From(b, o, at)
    BY DEF MemInv, Entry
  <2>3. n.rank = o.rank
    BY <2>1, <2>2 DEF From
  <2>4. n.id = o.id
    BY <2>3, RankAssumption
  <2>5. a.id = b.id
    BY <2>1, <2>2, <2>4 DEF From
  <2> QED
    BY <2>5 DEF MemInv
<1> DEFINE r(m) == SOURCE_RANK[m.source]
<1>3. \A a, b : Before(a, b) <=>
        \/ a.score > b.score
        \/ a.score = b.score /\ r(a) < r(b)
        \/ a.score = b.score /\ r(a) = r(b) /\ a.at < b.at
        \/ a.score = b.score /\ r(a) = r(b) /\ a.at = b.at /\ a.rank < b.rank
  BY DEF Before
<1> HIDE DEF r
<1>4. \A a \in memory : a.score \in Nat /\ a.at \in Nat /\ a.rank \in Nat /\ r(a) \in Nat
  BY <1>1 DEF r
<1>5. ASSUME NEW a \in memory, NEW b \in memory, a # b
      PROVE  Before(a, b) \/ Before(b, a)
  <2>1. a.rank # b.rank
    BY <1>2, <1>5
  <2> QED
    BY <1>3, <1>4, <2>1
<1>6. ASSUME NEW a \in memory, NEW b \in memory, NEW c \in memory,
             Before(a, b), Before(b, c)
      PROVE  Before(a, c)
  BY <1>3, <1>4, <1>6
<1> QED
  BY <1>5, <1>6

\* A set that is not empty has a first one.
LEMMA FirstExists ==
  ASSUME MemInv, NEW S \in SUBSET memory, S # {}
  PROVE  \E m \in S : \A o \in S \ {m} : Before(m, o)
<1> DEFINE First(T) == \E m \in T : \A o \in T \ {m} : Before(m, o)
           Bad == {T \in SUBSET memory : T # {} /\ ~First(T)}
           Sizes == {Cardinality(T) : T \in Bad}
<1>1. \A T \in SUBSET memory : IsFiniteSet(T) /\ Cardinality(T) \in Nat
  BY FS_Subset, FS_CardinalityType DEF MemInv
<1>2. Bad = {}
  <2> SUFFICES ASSUME Bad # {} PROVE FALSE
    OBVIOUS
  <2>1. Sizes \in SUBSET Nat /\ Sizes # {}
    BY <1>1
  <2>2. PICK n \in Sizes : \A m \in Sizes : n <= m
    BY <2>1, Least
  <2>3. PICK T \in Bad : Cardinality(T) = n
    BY <2>2
  <2>4. PICK x \in T : TRUE
    BY <2>3
  <2> DEFINE U == T \ {x}
  <2>5. U \in SUBSET memory /\ Cardinality(U) = n - 1 /\ n \in Nat
    BY <1>1, <2>1, <2>2, <2>3, FS_RemoveElement
  <2>6. U \notin Bad
    <3> SUFFICES ASSUME U \in Bad PROVE FALSE
      OBVIOUS
    <3>1. n - 1 \in Sizes
      BY <2>5
    <3>2. n <= n - 1
      BY <2>2, <3>1
    <3> QED
      BY <2>5, <3>2
  <2>7. CASE U = {}
    <3>1. \A o \in T \ {x} : Before(x, o)
      BY <2>7
    <3> QED
      BY <2>3, <3>1
  <2>8. CASE U # {}
    <3>1. First(U)
      BY <2>5, <2>6, <2>8
    <3>2. PICK m \in U : \A o \in U \ {m} : Before(m, o)
      BY <3>1
    <3>3. m \in memory /\ x \in memory /\ m # x
      BY <2>3
    <3>4. CASE Before(m, x)
      <4>1. \A o \in T \ {m} : Before(m, o)
        BY <3>2, <3>4
      <4> QED
        BY <2>3, <4>1
    <3>5. CASE Before(x, m)
      <4>1. \A o \in T \ {x} : Before(x, o)
        <5> SUFFICES ASSUME NEW o \in T \ {x}, o # m PROVE Before(x, o)
          BY <3>5
        <5>1. Before(m, o) /\ o \in memory
          BY <2>3, <3>2
        <5> QED
          BY <3>3, <3>5, <5>1, BeforeOrders
      <4> QED
        BY <2>3, <4>1
    <3> QED
      BY <3>3, <3>4, <3>5, BeforeOrders
  <2> QED
    BY <2>7, <2>8
<1> QED
  BY <1>2

\* What is picked for a call is one of the manifests that fit it (match.ts).
LEMMA MatchFits ==
  ASSUME MemInv, NEW c, NEW a, NEW hosted
  PROVE  LET m == match(memory, c, a, hosted)
         IN  \/ m = NoManifest
             \/ /\ m \in memory /\ Fits(m, c, a)
                /\ ~hosted \/ m.source = "builtin" \/ m.signed
<1> DEFINE taking == {m \in memory : ~hosted \/ m.source = "builtin" \/ m.signed}
           fitting == {m \in taking : Fits(m, c, a)}
           pick == CHOOSE m \in fitting : \A o \in fitting \ {m} : Before(m, o)
<1>1. match(memory, c, a, hosted) = IF fitting = {} THEN NoManifest ELSE pick
  BY DEF match, matchCompensator, Preferred
<1>2. ASSUME fitting # {} PROVE pick \in fitting
  <2>1. fitting \in SUBSET memory
    OBVIOUS
  <2> HIDE DEF fitting
  <2>2. \E m \in fitting : \A o \in fitting \ {m} : Before(m, o)
    BY <1>2, <2>1, FirstExists
  <2> QED
    BY <2>2
<1> HIDE DEF pick
<1> QED
  BY <1>1, <1>2

-----------------------------------------------------------------------------
(* Classification.                                                            *)

LEMMA RewrittenIsACall == \A c \in Call : rewriteAgentTool(c) \in Call
<1> SUFFICES ASSUME NEW c \in Call PROVE rewriteAgentTool(c) \in Call
  OBVIOUS
<1>1. CASE c.kind # "mcp_tool"
  BY <1>1 DEF rewriteAgentTool
<1>2. CASE c.kind = "mcp_tool"
  <2>1. c.inRoots \in BOOLEAN
    BY <1>2 DEF Call
  <2>2. [kind |-> "fs", op |-> "write", inRoots |-> c.inRoots, internal |-> FALSE] \in Call
    BY <2>1 DEF Call, FsOp
  <2>3. [kind |-> "fs", op |-> "stat", inRoots |-> c.inRoots, internal |-> FALSE] \in Call
    BY <2>1 DEF Call, FsOp, READ_FS
  <2>4. [kind |-> "http", method |-> "GET", body |-> FALSE, search |-> FALSE,
         override |-> FALSE, internal |-> FALSE] \in Call
    BY DEF Call, READ_HTTP
  <2> QED
    BY <1>2, <2>2, <2>3, <2>4 DEF rewriteAgentTool
<1> QED
  BY <1>1, <1>2

LEMMA KindsOfCalls ==
  \A c \in Call :
    /\ c.kind \in {"http", "sql", "fs", "mcp_tool"}
    /\ c.kind = "http" =>
         c.method \in READ_HTTP \cup {"POST", "PUT", "PATCH", "DELETE"}
  BY DEF Call

LEMMA HttpTier ==
  ASSUME NEW c \in Call, c.kind = "http", NEW a, NEW pre
  PROVE  HttpRule(c, a, pre) \in Tier /\ ClassifyHttp(c, a, HttpRule(c, a, pre)) \in Tier
<1>1. HttpRule(c, a, pre) \in Tier
  <2>1. c.method \in READ_HTTP \/ c.method = "POST" \/ c.method \in {"PUT", "PATCH"}
          \/ c.method = "DELETE"
    BY KindsOfCalls
  <2>2. CASE c.override
    BY <2>2 DEF HttpRule, Tier
  <2>3. CASE ~c.override /\ c.method \in READ_HTTP
    BY <2>3 DEF HttpRule, Tier
  <2>4. CASE ~c.override /\ c.method = "POST"
    BY <2>4 DEF HttpRule, Tier, READ_HTTP
  <2>5. CASE ~c.override /\ c.method \in {"PUT", "PATCH"}
    BY <2>5 DEF HttpRule, Tier, READ_HTTP
  <2>6. CASE ~c.override /\ c.method = "DELETE"
    BY <2>6 DEF HttpRule, Tier, READ_HTTP
  <2> QED
    BY <2>1, <2>2, <2>3, <2>4, <2>5, <2>6
<1>2. \A rule \in Tier : ClassifyHttp(c, a, rule) \in Tier
  BY DEF ClassifyHttp, Tier
<1> QED
  BY <1>1, <1>2

\* The rules know a tier for every call (taxonomy.ts:202).
LEMMA StructuralTier ==
  ASSUME NEW c \in Call, NEW a, NEW pre, NEW fidelity
  PROVE  classifyStructural(c, a, pre, fidelity) \in Tier
<1> DEFINE d == rewriteAgentTool(c)
<1>1. d \in Call
  BY RewrittenIsACall
<1> HIDE DEF d
<1>2. CASE d.kind = "http"
  BY <1>1, <1>2, HttpTier DEF ClassifyRewritten, classifyStructural, d
<1>3. CASE d.kind = "sql"
  <2>1. ClassifySqlCall(d, pre) \in Tier
    BY DEF ClassifySqlCall, SqlRule, Tier
  <2> QED
    BY <1>3, <2>1 DEF ClassifyRewritten, classifyStructural, d
<1>4. CASE d.kind = "fs"
  <2>1. ClassifyFs(d, pre, fidelity) \in Tier
    BY DEF ClassifyFs, Tier
  <2> QED
    BY <1>4, <2>1 DEF ClassifyRewritten, classifyStructural, d
<1>5. CASE d.kind = "mcp_tool"
  <2>1. ClassifyTool(d) \in Tier
    BY DEF ClassifyTool, Tier
  <2> QED
    BY <1>5, <2>1 DEF ClassifyRewritten, classifyStructural, d
<1> QED
  BY <1>1, <1>2, <1>3, <1>4, <1>5, KindsOfCalls

LEMMA MaxTier ==
  \A s, t \in Tier : /\ maxTier(s, t) \in {s, t}
                     /\ maxTier(s, t) = "T1" <=> s = "T1" /\ t = "T1"
  BY DEF maxTier, TIER_ORDER, Tier

LEMMA ActionTier ==
  ASSUME NEW c \in Call, NEW a, NEW pre, NEW fidelity,
         NEW manifest \in Tier \cup {NoTier}, NEW model \in Tier \cup {NoTier}
  PROVE  classifyAction(c, a, pre, fidelity, manifest, model) \in Tier
<1> DEFINE s == classifyStructural(c, a, pre, fidelity)
<1>1. s \in Tier /\ LocalityTier(c, s) \in Tier /\ "T4" \in Tier
  BY StructuralTier DEF LocalityTier, Tier
<1> HIDE DEF s
<1>2. maxTier(s, LocalityTier(c, s)) \in Tier
  BY <1>1, MaxTier
<1>3. Joined(c, s, manifest, model) \in Tier
  <2> DEFINE kept == IF manifest # NoTier THEN manifest ELSE maxTier(s, LocalityTier(c, s))
             scoped == IF detectScopeViolation(c) THEN "T4" ELSE kept
  <2>1. scoped \in Tier
    BY <1>1, <1>2
  <2> HIDE DEF scoped
  <2>2. model # NoTier => maxTier(scoped, model) \in Tier
    BY <2>1, MaxTier
  <2> QED
    BY <2>1, <2>2 DEF Joined, joinTier, scoped
<1> QED
  BY <1>1, <1>3 DEF classifyAction, s

\* What is not recorded is what the rules take for a read (effect.ts:800).
LEMMA UnrecordedReads ==
  ASSUME NEW c \in Call
  PROVE  Unrecorded(c) <=> ~isMutating(c)
<1> DEFINE s == classifyStructural(c, NoAnswer, "none", "full")
           loc == LocalityTier(c, s)
<1>1. s \in Tier /\ loc \in Tier /\ (s = "T1" => loc = "T1")
  BY StructuralTier DEF LocalityTier, Tier
<1>2. detectScopeViolation(c) => s # "T1"
  <2> SUFFICES ASSUME c.kind = "fs", ~c.inRoots PROVE s = "T4"
    BY DEF detectScopeViolation
  <2> QED
    BY DEF classifyStructural, rewriteAgentTool, ClassifyRewritten, ClassifyFs
<1>3. ~Downgraded(rewriteAgentTool(c), "none", "full")
  BY DEF Downgraded
<1>4. Unrecorded(c) <=> Joined(c, s, NoTier, NoTier) = "T1"
  BY <1>3 DEF Unrecorded, classifyAction
<1> HIDE DEF s, loc
<1>5. maxTier(s, loc) = "T1" <=> s = "T1"
  BY <1>1, MaxTier
<1>6. Joined(c, s, NoTier, NoTier) = "T1" <=> ~detectScopeViolation(c) /\ s = "T1"
  BY <1>5 DEF Joined, joinTier, loc
<1> QED
  BY <1>2, <1>4, <1>6 DEF isMutating, s

-----------------------------------------------------------------------------
(* Types.  A receipt keeps what was captured of its call, and a plan that was  *)
(* given out comes from a manifest that was let in, or is a draft.             *)

\* The receipt of e is that of one of its situations.
SealedFor(e) ==
  \E s \in Situations[e], binds \in BOOLEAN :
    LET r == row[e]
    IN  /\ r.call = s.call /\ r.answer \in Answers[s.call.kind] \cup {NoAnswer}
        /\ r.pre \in Captured(s.call, s.before)
        /\ r.url = BoundUrl([binds |-> binds], s.call, r.answer)
        /\ r.key = resourceKeys(s.call, r.answer, r.url)
        /\ r.status \in {"opened", "landed", "failed", "in_doubt"} /\ r.tier \in Tier
        /\ world[e].was = IF s.before = "absent" THEN "gone" ELSE "old"

\* The plan p compiled for a manifest that was let in.
PlanOfManifest(p, r) ==
  \E n \in Offered :
    /\ Typed(n) /\ gateDeclarativeManifest(n) = "ok" /\ kindPredicate(n, r.call)
    /\ evalAppliesWhen(n, r.answer)
    /\ p.origin = n.source /\ (p.full <=> n.full) /\ (p.cascade <=> n.cascade)
    /\ p.vouched <=> n.source = "builtin" \/ n.signed
    /\ policy.hosted => p.vouched
    /\ p.steps = lowerSteps(n, r)

PlanFits(p) ==
  /\ p.effect \in Effect /\ row[p.effect] # NoRow /\ p # NoPlan
  /\ assertUnsafeStatements(p.steps, row[p.effect])
  /\ Listed(p.steps)
  /\ \A i \in DOMAIN p.steps :
       p.steps[i].target = "bindings.url" => row[p.effect].url # "none"
  /\ \/ p.origin = "drafted" /\ ~hasConstRef(p.steps) /\ ~p.full
     \/ PlanOfManifest(p, row[p.effect])

TypeInv ==
  /\ MemInv
  /\ policy \in Policies
  /\ registered \in 0 .. MaxRegister
  /\ world = [e \in Effect |-> world[e]] /\ row = [e \in Effect |-> row[e]]
  /\ comp = [e \in Effect |-> comp[e]] /\ told = [e \in Effect |-> told[e]]
  /\ plans = [i \in PlanId |-> plans[i]]
  /\ \A e \in Effect :
       /\ world[e].was \in {"gone", "old"}
       /\ world[e].now \in {"gone", "old", "new", "other"}
       /\ row[e] # NoRow => SealedFor(e)
       /\ comp[e] \in {"none", "none_required", "available", "unavailable", "compensated"}
       /\ told[e] \in {"none", e, PendingId}
       /\ told[e] # "none" => PlanFits(plans[told[e]])
  /\ \A c, d \in cache : c.hash = d.hash => c = d
  /\ used \in Nat /\ (policy.budget >= 0 => used <= policy.budget)
  /\ \A x \in ran : [hash |-> x.plan.hash, state |-> "succeeded"] \in attempts

\* What the registry picks has a tier and says whether it binds.
LEMMA MatchTyped ==
  ASSUME MemInv, NEW c, NEW a, NEW hosted
  PROVE  LET m == match(memory, c, a, hosted)
         IN  m.tier \in Tier \cup {NoTier} /\ m.binds \in BOOLEAN
<1> DEFINE m == match(memory, c, a, hosted)
<1>1. m = NoManifest \/ m \in memory
  BY MatchFits
<1> HIDE DEF m
<1>2. ASSUME m = NoManifest PROVE m.tier \in Tier \cup {NoTier} /\ m.binds \in BOOLEAN
  BY <1>2 DEF NoManifest
<1>3. ASSUME m \in memory PROVE m.tier \in Tier \cup {NoTier} /\ m.binds \in BOOLEAN
  <2>1. PICK n \in Offered : \E at \in Nat : Typed(n) /\ From(m, n, at)
    BY <1>3 DEF MemInv, Entry
  <2> QED
    BY <2>1 DEF Typed, From
<1> QED
  BY <1>1, <1>2, <1>3 DEF m

LEMMA ReceiptFacts ==
  ASSUME MemInv, NEW c \in Call, NEW a, NEW pre
  PROVE  LET r == Receipt(c, a, pre)
         IN  /\ r.call = c /\ r.answer = a /\ r.pre = pre
             /\ \E binds \in BOOLEAN : r.url = BoundUrl([binds |-> binds], c, a)
             /\ r.key = resourceKeys(c, a, r.url)
             /\ r.status = StatusOf(c, a) /\ r.tier \in Tier
             /\ r.offer \in {"none_required", "available", "unavailable"}
<1> DEFINE m == match(memory, c, a, policy.hosted)
           r == Receipt(c, a, pre)
<1>1. m.tier \in Tier \cup {NoTier} /\ m.binds \in BOOLEAN
  BY MatchTyped
<1>2. r = WrittenBy(c, a, pre, m)
  BY DEF Receipt
<1> HIDE DEF m
<1>3. SealedTier(c, a, pre, m) \in Tier
  <2>1. classifyAction(c, a, pre, "full", m.tier, NoTier) \in Tier /\ "T4" \in Tier
    BY <1>1, ActionTier DEF Tier
  <2> QED
    BY <2>1 DEF SealedTier
<1>4. BoundUrl(m, c, a) = BoundUrl([binds |-> m.binds], c, a)
  BY DEF BoundUrl
<1> DEFINE tier == SealedTier(c, a, pre, m)
           url == BoundUrl(m, c, a)
<1>5. r = Written(c, a, pre, m, tier, url)
  BY <1>2 DEF WrittenBy
<1> HIDE DEF tier, url
<1>6. /\ r.call = c /\ r.answer = a /\ r.pre = pre /\ r.url = url /\ r.tier = tier
      /\ r.key = resourceKeys(c, a, url) /\ r.status = StatusOf(c, a)
      /\ r.offer = compensationFor(tier, m # NoManifest /\ ~NoPk(c, a),
                             pre = "truncated", m.needs /\ a.names = "none")
  BY <1>5 DEF Written
<1>7. r.offer \in {"none_required", "available", "unavailable"}
  BY <1>6 DEF compensationFor
<1> QED
  BY <1>1, <1>3, <1>4, <1>6, <1>7 DEF tier, url

LEMMA StatusWords ==
  \A c, a : StatusOf(c, a) \in {"in_doubt", "landed", "failed"}
  BY DEF StatusOf

LEMMA SealedFacts ==
  ASSUME MemInv, NEW c \in Call, NEW a, NEW pre
  PROVE  LET r == Sealed(c, a, pre)
         IN  /\ r.call = c /\ r.answer \in {a, NoAnswer} /\ r.pre = pre
             /\ \E binds \in BOOLEAN : r.url = BoundUrl([binds |-> binds], c, r.answer)
             /\ r.key = resourceKeys(c, r.answer, r.url)
             /\ r.status \in {"opened", "landed", "failed", "in_doubt"} /\ r.tier \in Tier
             /\ r.offer \in {"none", "none_required", "available", "unavailable"}
             /\ ~Blocked(c, pre) => r.status = StatusOf(c, a)
<1> DEFINE r == Sealed(c, a, pre)
<1>1. CASE Blocked(c, pre)
  <2> DEFINE o == Receipt(c, NoAnswer, pre)
  <2>1. r = [o EXCEPT !.status = "opened", !.offer = "none"]
    BY <1>1 DEF Sealed, OpenRow
  <2>2. {"call", "answer", "pre", "url", "key", "tier", "status", "offer"} \subseteq DOMAIN o
    BY DEF Receipt, WrittenBy, Written
  <2> HIDE DEF o
  <2>3. /\ r.call = o.call /\ r.answer = o.answer /\ r.pre = o.pre /\ r.url = o.url
        /\ r.key = o.key /\ r.tier = o.tier /\ r.status = "opened" /\ r.offer = "none"
    BY <2>1, <2>2
  <2>4. /\ o.call = c /\ o.answer = NoAnswer /\ o.pre = pre
        /\ \E binds \in BOOLEAN : o.url = BoundUrl([binds |-> binds], c, NoAnswer)
        /\ o.key = resourceKeys(c, NoAnswer, o.url) /\ o.tier \in Tier
    BY ReceiptFacts DEF o
  <2> HIDE DEF r
  <2> QED
    BY <1>1, <2>3, <2>4 DEF r
<1>2. CASE ~Blocked(c, pre)
  <2>1. r = Receipt(c, a, pre)
    BY <1>2 DEF Sealed
  <2> HIDE DEF r
  <2> QED
    BY <1>2, <2>1, ReceiptFacts, StatusWords DEF r
<1> QED
  BY <1>1, <1>2

\* What is written of an effect stays as long as its row and what was there do.
LEMMA SealedStays ==
  ASSUME NEW e, SealedFor(e), row'[e] = row[e], world'[e].was = world[e].was
  PROVE  SealedFor(e)'
BY DEF SealedFor

LEMMA PlanFitsStays ==
  ASSUME NEW p, PlanFits(p), policy' = policy, row'[p.effect] = row[p.effect]
  PROVE  PlanFits(p)'
BY DEF PlanFits, PlanOfManifest

\* The situation and the answer of a call have the shape the code declares.
LEMMA SituationFacts ==
  ASSUME NEW e \in Effect, NEW s \in Situations[e]
  PROVE  /\ s.call \in Call /\ Answers[s.call.kind] \subseteq Answer
         /\ s.before \in {"absent", "file", "locked"}
         /\ s.does \in {"nothing", "create", "change", "remove"} /\ s.blind \in BOOLEAN
<1>1. s \in Situation
  BY ReversalAssumption
<1> QED
  BY <1>1, ShapeAssumption DEF Situation

\* Capture writes the receipt of its situation.
LEMMA CaptureSeals ==
  ASSUME MemInv, NEW e \in Effect, row = [f \in Effect |-> row[f]],
         comp = [f \in Effect |-> comp[f]], world = [f \in Effect |-> world[f]],
         NEW s \in Situations[e], NEW a \in Answers[s.call.kind], Capture(e, s, a)
  PROVE  /\ row' = [f \in Effect |-> row'[f]] /\ comp' = [f \in Effect |-> comp'[f]]
         /\ world' = [f \in Effect |-> world'[f]]
         /\ \A f \in Effect \ {e} :
              row'[f] = row[f] /\ comp'[f] = comp[f] /\ world'[f] = world[f]
         /\ world'[e].was \in {"gone", "old"} /\ world'[e].now \in {"gone", "old", "new"}
         /\ row'[e] # NoRow => SealedFor(e)'
         /\ comp'[e] \in {comp[e], "none", "none_required", "available", "unavailable"}
<1>1. PICK pre \in Captured(s.call, s.before), landed \in Lands(s, a) :
       LET was  == IF s.before = "absent" THEN "gone" ELSE "old"
           done == landed /\ (s.blind \/ Unrecorded(s.call) \/ ~Blocked(s.call, pre))
       IN  /\ world' = [world EXCEPT ![e] =
                          [was |-> was, landed |-> done,
                           now |-> IF done THEN Now(was, s.does) ELSE was]]
           /\ IF Unrecorded(s.call)
              THEN UNCHANGED <<row, comp>>
              ELSE /\ row' = [row EXCEPT ![e] = Sealed(s.call, a, pre)]
                   /\ comp' = [comp EXCEPT ![e] = row'[e].offer]
  BY DEF Capture
<1> DEFINE was == IF s.before = "absent" THEN "gone" ELSE "old"
           done == landed /\ (s.blind \/ Unrecorded(s.call) \/ ~Blocked(s.call, pre))
           now == IF done THEN Now(was, s.does) ELSE was
<1>2. world' = [world EXCEPT ![e] = [was |-> was, landed |-> done, now |-> now]]
  BY <1>1
<1>3. was \in {"gone", "old"} /\ now \in {"gone", "old", "new"}
  BY DEF Now
<1> HIDE DEF done, now
<1>4. /\ world' = [f \in Effect |-> world'[f]]
      /\ \A f \in Effect \ {e} : world'[f] = world[f]
      /\ world'[e].was = was /\ world'[e].now = now
  BY <1>2
<1>5. CASE Unrecorded(s.call)
  <2>1. row' = row /\ comp' = comp /\ row[e] = NoRow
    BY <1>1, <1>5 DEF Capture
  <2> QED
    BY <1>3, <1>4, <2>1
<1>6. CASE ~Unrecorded(s.call)
  <2> DEFINE r == Sealed(s.call, a, pre)
  <2>1. row' = [row EXCEPT ![e] = r] /\ comp' = [comp EXCEPT ![e] = row'[e].offer]
    BY <1>1, <1>6
  <2>2. /\ r.call = s.call /\ r.answer \in {a, NoAnswer} /\ r.pre = pre
        /\ \E binds \in BOOLEAN : r.url = BoundUrl([binds |-> binds], s.call, r.answer)
        /\ r.key = resourceKeys(s.call, r.answer, r.url)
        /\ r.status \in {"opened", "landed", "failed", "in_doubt"} /\ r.tier \in Tier
        /\ r.offer \in {"none", "none_required", "available", "unavailable"}
    BY SealedFacts, SituationFacts
  <2> HIDE DEF r
  <2>3. /\ row' = [f \in Effect |-> row'[f]] /\ row'[e] = r
        /\ \A f \in Effect \ {e} : row'[f] = row[f]
    BY <2>1
  <2>4. /\ comp' = [f \in Effect |-> comp'[f]] /\ comp'[e] = r.offer
        /\ \A f \in Effect \ {e} : comp'[f] = comp[f]
    BY <2>1, <2>3
  <2>5. SealedFor(e)'
    <3>1. PICK binds \in BOOLEAN : r.url = BoundUrl([binds |-> binds], s.call, r.answer)
      BY <2>2
    <3>2. r.answer \in Answers[s.call.kind] \cup {NoAnswer}
      BY <2>2
    <3> QED
      BY <1>4, <2>2, <2>3, <3>1, <3>2 DEF SealedFor
  <2> QED
    BY <1>3, <1>4, <2>2, <2>3, <2>4, <2>5
<1> QED
  BY <1>5, <1>6

\* The steps a manifest is lowered to are a list.
LEMMA LoweredListed ==
  ASSUME NEW n, NEW r, Listed(n.steps)
  PROVE  Listed(lowerSteps(n, r))
<1>1. \A s : Listed(<<s>>)
  BY DEF Listed
<1>2. Listed(planForFs(r)) /\ Listed(planForSql(r))
  BY <1>1 DEF planForFs, planForSql
<1> QED
  BY <1>2 DEF lowerSteps

\* What matched is a manifest that was let in, and meant for the call and its answer.
LEMMA MatchedFacts ==
  ASSUME MemInv, NEW e, Matched(e) # NoManifest
  PROVE  \E n \in Offered : \E at \in Nat :
           /\ Typed(n) /\ gateDeclarativeManifest(n) = "ok" /\ From(Matched(e), n, at)
           /\ kindPredicate(n, row[e].call) /\ evalAppliesWhen(n, row[e].answer)
           /\ policy.hosted => n.source = "builtin" \/ n.signed
           /\ Matched(e) # draftedSignature
<1> DEFINE m == Matched(e)
<1>1. /\ m \in memory /\ Fits(m, row[e].call, row[e].answer)
      /\ ~policy.hosted \/ m.source = "builtin" \/ m.signed
  BY MatchFits DEF Matched
<1>2. PICK n \in Offered : \E at \in Nat :
          Typed(n) /\ gateDeclarativeManifest(n) = "ok" /\ From(m, n, at)
  BY <1>1 DEF MemInv, Entry
<1> HIDE DEF m
<1>3. kindPredicate(n, row[e].call) /\ evalAppliesWhen(n, row[e].answer)
  BY <1>1, <1>2 DEF From, Fits, kindPredicate, evalAppliesWhen
<1>4. n.source # "drafted"
  BY <1>2 DEF gateDeclarativeManifest
<1>5. m # draftedSignature
  BY <1>2, <1>4 DEF From, draftedSignature, NoManifest
<1> QED
  BY <1>1, <1>2, <1>3, <1>5 DEF m, From

\* A plan is not the absence of one.
LEMMA PlanIsSome ==
  ASSUME NEW e, NEW m, NEW origin, NEW steps, NEW rec
  PROVE  LET p == Plan(e, m, origin, steps, rec)
         IN  /\ p # NoPlan /\ p.effect = e /\ p.origin = origin /\ p.steps = steps
             /\ p.full <=> m # draftedSignature /\ m.full
             /\ p.cascade <=> m # draftedSignature /\ m.cascade
             /\ p.vouched <=> m # draftedSignature /\ (m.source = "builtin" \/ m.signed)
<1>1. "id" \in DOMAIN Plan(e, m, origin, steps, rec) /\ "id" \notin DOMAIN NoPlan
  BY DEF Plan, NoPlan
<1> QED
  BY <1>1 DEF Plan

\* The plan of a matched manifest.
LEMMA MatchedPlanFits ==
  ASSUME MemInv, NEW e \in Effect, row[e] # NoRow, CompilesMatched(e)
  PROVE  PlanFits(MatchedPlan(e))
<1> DEFINE m == Matched(e)
           r == row[e]
           p == MatchedPlan(e)
<1>1. m # NoManifest
  BY DEF CompilesMatched
<1>2. PICK n \in Offered : \E at \in Nat :
           /\ Typed(n) /\ gateDeclarativeManifest(n) = "ok" /\ From(m, n, at)
           /\ kindPredicate(n, r.call) /\ evalAppliesWhen(n, r.answer)
           /\ policy.hosted => n.source = "builtin" \/ n.signed
           /\ m # draftedSignature
  BY <1>1, MatchedFacts
<1>3. compilePlan(r, m, m.source, lowerSteps(m, r), Expired(e)) = "ok"
  BY DEF CompilesMatched
<1>4. resolveSteps(lowerSteps(m, r), r, m) /\ assertUnsafeStatements(lowerSteps(m, r), r)
  BY <1>3, CompiledPasses
<1>5. lowerSteps(m, r) = lowerSteps(n, r)
  BY <1>2 DEF From, lowerSteps
<1>6. /\ p # NoPlan /\ p.effect = e /\ p.origin = m.source /\ p.steps = lowerSteps(m, r)
      /\ p.full <=> m # draftedSignature /\ m.full
      /\ p.cascade <=> m # draftedSignature /\ m.cascade
      /\ p.vouched <=> m # draftedSignature /\ (m.source = "builtin" \/ m.signed)
  BY PlanIsSome DEF MatchedPlan
<1> HIDE DEF p, m, r
<1>7. Listed(p.steps)
  BY <1>2, <1>5, <1>6, LoweredListed DEF Typed
<1>8. \A i \in DOMAIN p.steps : p.steps[i].target = "bindings.url" => r.url # "none"
  BY <1>4, <1>6 DEF resolveSteps, TargetOf
<1>9. PlanOfManifest(p, r)
  <2>1. (p.full <=> m.full) /\ (p.cascade <=> m.cascade)
        /\ (p.vouched <=> m.source = "builtin" \/ m.signed)
    BY <1>2, <1>6
  <2> QED
    BY <1>2, <1>5, <1>6, <2>1 DEF PlanOfManifest, From
<1> QED
  BY <1>4, <1>6, <1>7, <1>8, <1>9 DEF PlanFits, r, p

LEMMA DraftsListed ==
  ASSUME NEW e, NEW steps \in Drafts(e)
  PROVE  Listed(steps)
<1>1. CASE steps \in Proposals
  <2>1. steps \in Seq(Step)
    BY <1>1, ShapeAssumption
  <2> QED
    BY <2>1 DEF Listed
<1>2. CASE steps = heuristicDraft(row[e])
  <2>1. \A s : Listed(<<s>>)
    BY DEF Listed
  <2>2. Listed(<<>>)
    BY DEF Listed
  <2>3. Listed(heuristicDraft(row[e]))
    BY <2>1, <2>2 DEF heuristicDraft, httpCreateSteps
  <2> QED
    BY <1>2, <2>3
<1> QED
  BY <1>1, <1>2 DEF Drafts

LEMMA DraftFits ==
  ASSUME NEW e \in Effect, row[e] # NoRow, NEW steps \in Drafts(e),
         CompilesDrafted(e, steps), NEW rec
  PROVE  PlanFits(Plan(e, draftedSignature, "drafted", steps, rec))
<1> DEFINE p == Plan(e, draftedSignature, "drafted", steps, rec)
<1>1. p # NoPlan /\ p.effect = e /\ p.origin = "drafted" /\ p.steps = steps /\ ~p.full
  <2>1. p.full <=> draftedSignature # draftedSignature /\ draftedSignature.full
    BY PlanIsSome
  <2> QED
    BY <2>1, PlanIsSome
<1>2. /\ assertUnsafeStatements(steps, row[e]) /\ ~hasConstRef(steps)
      /\ resolveSteps(steps, row[e], draftedSignature)
  BY CompiledPasses DEF CompilesDrafted
<1>3. \A i \in DOMAIN steps : steps[i].target = "bindings.url" => row[e].url # "none"
  BY <1>2 DEF resolveSteps, TargetOf
<1>4. Listed(steps)
  BY DraftsListed
<1> HIDE DEF p
<1> QED
  BY <1>1, <1>2, <1>3, <1>4 DEF PlanFits, p

LEMMA AfterWords ==
  \A s, place : After(s, place) \in {"gone", "other", "old", "same"}
  BY DEF After

\* What is there after a run is one of the words, or what was there before it.
LEMMA OutcomeWords ==
  ASSUME NEW p, NEW m, Listed(p.steps)
  PROVE  Outcome(p, m) \in {"gone", "other", "old", world[p.effect].now}
<1> DEFINE after(i) == After(p.steps[i], TargetOf(p.steps[i], row[p.effect], m))
           changing == {i \in Mutating(p.steps) : after(i) # "same"}
           last == CHOOSE i \in changing : \A j \in changing : j <= i
<1>1. Outcome(p, m) = IF changing = {} THEN world[p.effect].now ELSE after(last)
  BY DEF Outcome
<1>2. ASSUME changing # {} PROVE last \in changing
  <2>1. Len(p.steps) \in Nat /\ changing \in SUBSET (1 .. Len(p.steps))
    BY DEF Mutating, Listed
  <2> HIDE DEF changing
  <2>2. \E i \in changing : \A j \in changing : j <= i
    BY <1>2, <2>1, Greatest
  <2> QED
    BY <2>2
<1>3. \A i : after(i) \in {"gone", "other", "old", "same"}
  BY AfterWords
<1>4. \A i \in changing : after(i) # "same"
  OBVIOUS
<1> HIDE DEF after, changing, last
<1> QED
  BY <1>1, <1>2, <1>3, <1>4

\* What a run changes.
LEMMA RunTypes ==
  ASSUME TypeInv, NEW e, NEW p, PlanFits(p), Run(e, p)
  PROVE  /\ world' = [f \in Effect |-> world'[f]] /\ comp' = [f \in Effect |-> comp'[f]]
         /\ UNCHANGED <<policy, memory, registered, row, late>>
         /\ \A f \in Effect :
              /\ world'[f].was = world[f].was /\ world'[f].landed = world[f].landed
              /\ world'[f].now \in {"gone", "old", "new", "other"}
              /\ comp'[f] \in {comp[f], "compensated"}
         /\ \A x \in ran' : [hash |-> x.plan.hash, state |-> "succeeded"] \in attempts'
         /\ \A x \in ran' \ ran :
              /\ MayRun(p) /\ x.plan = p /\ x.places = Places(p, Matched(p.effect))
              /\ x.restored <=> Outcome(p, Matched(p.effect)) = world[p.effect].was
<1> DEFINE g == p.effect
           m == Matched(g)
           state == {t.state : t \in {t \in attempts : t.hash = p.hash}}
           entry(ok) == {[hash |-> p.hash, state |-> IF ok THEN "succeeded" ELSE "failed"]}
<1>1. MayRun(p) /\ UNCHANGED <<policy, memory, registered, row, late>>
  BY DEF Run
<1>2. PICK ok \in BOOLEAN, landed \in BOOLEAN :
           /\ attempts' = attempts \cup entry(ok)
           /\ world' = IF landed /\ state = {}
                       THEN [world EXCEPT ![g].now = Outcome(p, m)] ELSE world
           /\ comp' = IF ok THEN [comp EXCEPT ![g] = "compensated"] ELSE comp
           /\ ran' = IF ok /\ state = {} THEN ran \cup
                       {[asked |-> e, plan |-> p, places |-> Places(p, m),
                         restored |-> Outcome(p, m) = world[g].was]}
                     ELSE ran
  BY DEF Run
<1>3. g \in Effect /\ Listed(p.steps)
  BY DEF PlanFits
<1>4. Outcome(p, m) \in {"gone", "other", "old", world[g].now}
  BY <1>3, OutcomeWords
<1> DEFINE out == Outcome(p, m)
<1> HIDE DEF out, state
<1>5. /\ world' = [f \in Effect |-> world'[f]]
      /\ \A f \in Effect : /\ world'[f].was = world[f].was
                           /\ world'[f].landed = world[f].landed
                           /\ world'[f].now \in {"gone", "old", "new", "other"}
  <2>1. \A f \in Effect : world[f].now \in {"gone", "old", "new", "other"}
    BY DEF TypeInv
  <2>2. world = [f \in Effect |-> world[f]]
    BY DEF TypeInv
  <2>3. CASE world' = world
    BY <2>1, <2>2, <2>3
  <2>4. CASE world' = [world EXCEPT ![g].now = out]
    <3>1. world' = [f \in Effect |-> world'[f]]
      BY <2>2, <2>4
    <3>2. world'[g] = [world[g] EXCEPT !.now = out]
      BY <1>3, <2>2, <2>4
    <3>3. \A f \in Effect : f # g => world'[f] = world[f]
      BY <2>2, <2>4
    <3>4. world'[g].was = world[g].was /\ world'[g].landed = world[g].landed
      BY <3>2
    <3>5. world'[g].now \in {out, world[g].now}
      BY <3>2
    <3>6. out \in {"gone", "old", "new", "other"}
      BY <1>3, <1>4, <2>1 DEF out
    <3> QED
      BY <1>3, <2>1, <3>1, <3>3, <3>4, <3>5, <3>6
  <2> QED
    BY <1>2, <2>3, <2>4 DEF out
<1>6. /\ comp' = [f \in Effect |-> comp'[f]]
      /\ \A f \in Effect : comp'[f] \in {comp[f], "compensated"}
  BY <1>2 DEF TypeInv
<1> DEFINE x0 == [asked |-> e, plan |-> p, places |-> Places(p, m),
                  restored |-> Outcome(p, m) = world[g].was]
<1>7. ran' \subseteq ran \cup {x0} /\ (ran' = ran \/ ok)
  BY <1>2
<1>8. /\ x0.plan = p /\ x0.places = Places(p, m)
      /\ x0.restored <=> Outcome(p, m) = world[g].was
  OBVIOUS
<1> HIDE DEF x0
<1>9. \A x \in ran' : [hash |-> x.plan.hash, state |-> "succeeded"] \in attempts'
  <2>1. \A x \in ran : [hash |-> x.plan.hash, state |-> "succeeded"] \in attempts'
    BY <1>2 DEF TypeInv
  <2>2. ok => [hash |-> p.hash, state |-> "succeeded"] \in attempts'
    BY <1>2
  <2>3. CASE ran' = ran
    BY <2>1, <2>3
  <2>4. CASE ok
    BY <1>7, <1>8, <2>1, <2>2, <2>4
  <2> QED
    BY <1>7, <2>3, <2>4
<1>10. ASSUME NEW x \in ran' \ ran
       PROVE  /\ x.plan = p /\ x.places = Places(p, m)
              /\ x.restored <=> Outcome(p, m) = world[g].was
  BY <1>7, <1>8, <1>10
<1> QED
  BY <1>1, <1>5, <1>6, <1>9, <1>10

\* Plans that were given out stay as good as the receipts they are for.
LEMMA ToldStays ==
  ASSUME TypeInv, UNCHANGED <<policy, plans, told>>,
         \A f \in Effect : row[f] # NoRow => row'[f] = row[f]
  PROVE  \A e \in Effect : told'[e] # "none" => PlanFits(plans[told[e]])'
<1> SUFFICES ASSUME NEW e \in Effect, told'[e] # "none" PROVE PlanFits(plans[told[e]])'
  OBVIOUS
<1>1. PICK p : p = plans[told[e]]
  OBVIOUS
<1>2. PlanFits(p)
  BY <1>1 DEF TypeInv
<1>3. row'[p.effect] = row[p.effect]
  BY <1>2 DEF PlanFits
<1>4. PlanFits(p)'
  BY <1>2, <1>3, PlanFitsStays
<1>5. plans'[told'[e]] = p
  BY <1>1
<1> QED
  BY <1>4, <1>5

\* Every step that leaves receipts, resources and plans alone.
LEMMA RestKeepsTypes ==
  ASSUME TypeInv, MemInv', registered' \in 0 .. MaxRegister,
         UNCHANGED <<policy, world, row, comp, plans, told, cache, used, attempts, ran>>
  PROVE  TypeInv'
<1>1. \A e \in Effect : row'[e] # NoRow => SealedFor(e)'
  BY SealedStays DEF TypeInv
<1>2. \A e \in Effect : told'[e] # "none" => PlanFits(plans[told[e]])'
  BY ToldStays
<1> QED
  BY <1>1, <1>2 DEF TypeInv

LEMMA MemStays ==
  ASSUME MemInv, memory' = memory
  PROVE  MemInv'
<1>1. \A m : Entry(m)' <=> Entry(m)
  BY DEF Entry
<1> QED
  BY <1>1 DEF MemInv

LEMMA CaptureKeepsTypes ==
  ASSUME TypeInv, NEW e \in Effect, NEW s \in Situations[e],
         NEW a \in Answers[s.call.kind], Capture(e, s, a)
  PROVE  TypeInv'
<1>1. /\ row[e] = NoRow
      /\ UNCHANGED <<policy, memory, registered, late, plans, told, cache, used,
                     attempts, ran>>
  BY DEF Capture
<1>2. /\ row' = [f \in Effect |-> row'[f]] /\ comp' = [f \in Effect |-> comp'[f]]
      /\ world' = [f \in Effect |-> world'[f]]
      /\ \A f \in Effect \ {e} :
           row'[f] = row[f] /\ comp'[f] = comp[f] /\ world'[f] = world[f]
      /\ world'[e].was \in {"gone", "old"} /\ world'[e].now \in {"gone", "old", "new"}
      /\ row'[e] # NoRow => SealedFor(e)'
      /\ comp'[e] \in {comp[e], "none", "none_required", "available", "unavailable"}
  BY CaptureSeals DEF TypeInv
<1>3. \A f \in Effect : row'[f] # NoRow => SealedFor(f)'
  BY <1>2, SealedStays DEF TypeInv
<1>4. \A f \in Effect : told'[f] # "none" => PlanFits(plans[told[f]])'
  <2>1. \A f \in Effect : row[f] # NoRow => row'[f] = row[f]
    BY <1>1, <1>2
  <2> QED
    BY <1>1, <2>1, ToldStays
<1>5. MemInv'
  BY <1>1, MemStays DEF TypeInv
<1>6. \A f \in Effect : /\ world'[f].was \in {"gone", "old"}
                        /\ world'[f].now \in {"gone", "old", "new", "other"}
                        /\ comp'[f] \in {"none", "none_required", "available",
                                         "unavailable", "compensated"}
  BY <1>2 DEF TypeInv
<1> QED
  BY <1>1, <1>2, <1>3, <1>4, <1>5, <1>6 DEF TypeInv

\* A plan that fits is stored under the id its caller is told.
LEMMA StoreKeepsTypes ==
  ASSUME TypeInv, NEW e \in Effect, NEW i \in {e, PendingId}, NEW p, PlanFits(p),
         plans' = [plans EXCEPT ![i] = p], told' = [told EXCEPT ![e] = i],
         UNCHANGED <<policy, memory, registered, world, row, comp, attempts, ran>>,
         \A c, d \in cache' : c.hash = d.hash => c = d,
         used' \in Nat, policy.budget >= 0 => used' <= policy.budget
  PROVE  TypeInv'
<1>1. MemInv'
  BY MemStays DEF TypeInv
<1>2. \A f \in Effect : row'[f] # NoRow => SealedFor(f)'
  BY SealedStays DEF TypeInv
<1>3. \A q : PlanFits(q) => PlanFits(q)'
  BY PlanFitsStays
<1>4. /\ plans' = [j \in PlanId |-> plans'[j]] /\ plans'[i] = p
      /\ \A j \in PlanId : j # i => plans'[j] = plans[j]
  BY DEF TypeInv, PlanId
<1>5. /\ told' = [f \in Effect |-> told'[f]] /\ told'[e] = i
      /\ \A f \in Effect : f # e => told'[f] = told[f]
  BY DEF TypeInv
<1>6. \A f \in Effect : /\ told'[f] \in {"none", f, PendingId}
                        /\ told'[f] # "none" => PlanFits(plans'[told'[f]])
  <2> SUFFICES ASSUME NEW f \in Effect
               PROVE  /\ told'[f] \in {"none", f, PendingId}
                      /\ told'[f] # "none" => PlanFits(plans'[told'[f]])
    OBVIOUS
  <2>1. CASE f = e
    BY <1>4, <1>5, <2>1
  <2>2. CASE f # e
    <3>1. told'[f] = told[f] /\ told[f] \in {"none", f, PendingId}
          /\ (told[f] # "none" => PlanFits(plans[told[f]]))
      BY <1>5, <2>2 DEF TypeInv
    <3>2. told[f] # "none" => plans'[told[f]] \in {p, plans[told[f]]}
      BY <1>4, <3>1 DEF PlanId
    <3> QED
      BY <3>1, <3>2
  <2> QED
    BY <2>1, <2>2
<1>7. \A f \in Effect : told'[f] # "none" => PlanFits(plans[told[f]])'
  <2> SUFFICES ASSUME NEW f \in Effect, told'[f] # "none" PROVE PlanFits(plans[told[f]])'
    OBVIOUS
  <2>1. PICK q : q = plans'[told'[f]]
    OBVIOUS
  <2>2. PlanFits(q)'
    BY <1>3, <1>6, <2>1
  <2> QED
    BY <2>1, <2>2
<1> QED
  BY <1>1, <1>2, <1>4, <1>5, <1>6, <1>7 DEF TypeInv

\* A run with nothing stored.
LEMMA RunKeepsTypes ==
  ASSUME TypeInv, NEW e, NEW p, PlanFits(p), Run(e, p), UNCHANGED <<plans, told, used>>,
         \A c, d \in cache' : c.hash = d.hash => c = d
  PROVE  TypeInv'
<1>1. /\ world' = [f \in Effect |-> world'[f]] /\ comp' = [f \in Effect |-> comp'[f]]
      /\ UNCHANGED <<policy, memory, registered, row, late>>
      /\ \A f \in Effect :
           /\ world'[f].was = world[f].was
           /\ world'[f].now \in {"gone", "old", "new", "other"}
           /\ comp'[f] \in {comp[f], "compensated"}
      /\ \A x \in ran' : [hash |-> x.plan.hash, state |-> "succeeded"] \in attempts'
  BY RunTypes
<1>2. MemInv'
  BY <1>1, MemStays DEF TypeInv
<1>3. \A f \in Effect : row'[f] # NoRow => SealedFor(f)'
  BY <1>1, SealedStays DEF TypeInv
<1>4. \A f \in Effect : told'[f] # "none" => PlanFits(plans[told[f]])'
  BY <1>1, ToldStays
<1>5. \A f \in Effect : /\ world'[f].was \in {"gone", "old"}
                        /\ comp'[f] \in {"none", "none_required", "available",
                                         "unavailable", "compensated"}
  BY <1>1 DEF TypeInv
<1> QED
  BY <1>1, <1>2, <1>3, <1>4, <1>5 DEF TypeInv

\* The cache keeps one record for a hash, and the budget is not overdrawn
\* (policy.ts:79).
LEMMA VerifyCounts ==
  ASSUME TypeInv, NEW e, NEW steps, NEW o, NEW mode, NEW budget \in {-1} \cup Nat
  PROVE  LET v == Verify(e, steps, o, mode, budget)
         IN  /\ \A c, d \in v.cache : c.hash = d.hash => c = d
             /\ v.cost \in {0, 1}
             /\ v.cost = 1 => budget >= 0 /\ used < budget
<1> DEFINE hash == planHash(e, draftedSignature.id, "drafted", steps)
           hit == {c \in cache : c.hash = hash}
           out == budget >= 0 /\ used >= budget
           rec == verifyPlan(steps, row[e], o, mode, out)
           v == Verify(e, steps, o, mode, budget)
<1>1. CASE hit # {}
  <2>1. v.cost = 0 /\ v.cache = cache
    BY <1>1 DEF Verify
  <2> QED
    BY <2>1 DEF TypeInv
<1>2. CASE hit = {}
  <2>1. /\ v.cost = IF Asks(o, mode) /\ budget >= 0 /\ ~out THEN 1 ELSE 0
        /\ v.cache = cache \cup {[hash |-> hash, record |-> rec]}
    BY <1>2 DEF Verify
  <2>2. \A c \in cache : c.hash # hash
    BY <1>2
  <2>3. \A c, d \in v.cache : c.hash = d.hash => c = d
    BY <2>1, <2>2 DEF TypeInv
  <2>4. used \in Nat
    BY DEF TypeInv
  <2>5. v.cost \in {0, 1} /\ (v.cost = 1 => budget >= 0 /\ ~out)
    BY <2>1
  <2> HIDE DEF v
  <2> QED
    BY <2>3, <2>4, <2>5 DEF v
<1> QED
  BY <1>1, <1>2

LEMMA PlanDraftedKeepsTypes ==
  ASSUME TypeInv, NEW e \in Effect, NEW steps \in Drafts(e), NEW o \in Opinions,
         PlanDrafted(e, steps, o)
  PROVE  TypeInv'
<1> DEFINE v == Verify(e, steps, o, policy.mode, policy.budget)
           p == Plan(e, draftedSignature, "drafted", steps, v.record)
<1>1. /\ row[e] # NoRow /\ cache' = v.cache /\ used' = used + v.cost
      /\ UNCHANGED <<policy, memory, registered, world, row, comp, late, attempts, ran>>
      /\ CompilesDrafted(e, steps)
      /\ \/ UNCHANGED <<plans, told>>
         \/ plans' = [plans EXCEPT ![e] = p] /\ told' = [told EXCEPT ![e] = e]
  BY DEF PlanDrafted
<1>2. policy.budget \in {-1} \cup Nat
  <2>1. policy \in Policy
    BY ReversalAssumption DEF TypeInv
  <2> QED
    BY <2>1 DEF Policy
<1>3. /\ \A c, d \in v.cache : c.hash = d.hash => c = d
      /\ v.cost \in {0, 1} /\ (v.cost = 1 => policy.budget >= 0 /\ used < policy.budget)
  BY <1>2, VerifyCounts
<1>4. PlanFits(p)
  BY <1>1, DraftFits
<1> HIDE DEF v, p
<1>5. used' \in Nat /\ (policy.budget >= 0 => used' <= policy.budget)
  <2>1. used \in Nat /\ (policy.budget >= 0 => used <= policy.budget)
    BY DEF TypeInv
  <2>2. used + v.cost \in Nat /\ (policy.budget >= 0 => used + v.cost <= policy.budget)
    BY <1>2, <1>3, <2>1
  <2> QED
    BY <1>1, <2>2
<1>6. CASE plans' = [plans EXCEPT ![e] = p] /\ told' = [told EXCEPT ![e] = e]
  BY <1>1, <1>3, <1>4, <1>5, <1>6, StoreKeepsTypes
<1>7. CASE UNCHANGED <<plans, told>>
  <2>1. MemInv'
    BY <1>1, MemStays DEF TypeInv
  <2>2. \A f \in Effect : row'[f] # NoRow => SealedFor(f)'
    BY <1>1, SealedStays DEF TypeInv
  <2>3. \A f \in Effect : told'[f] # "none" => PlanFits(plans[told[f]])'
    BY <1>1, <1>7, ToldStays
  <2> QED
    BY <1>1, <1>3, <1>5, <1>7, <2>1, <2>2, <2>3 DEF TypeInv
<1> QED
  BY <1>1, <1>6, <1>7

LEMMA UndoDraftedKeepsTypes ==
  ASSUME TypeInv, NEW e \in Effect, NEW steps \in Drafts(e), NEW o \in Opinions,
         UndoDrafted(e, steps, o)
  PROVE  TypeInv'
<1> DEFINE v == Verify(e, steps, o, "audit", -1)
           p == Plan(e, draftedSignature, "drafted", steps, v.record)
<1>1. /\ row[e] # NoRow /\ cache' = v.cache /\ Run(e, p)
      /\ UNCHANGED <<plans, told, used>> /\ CompilesDrafted(e, steps)
  BY DEF UndoDrafted, Undoable
<1>2. \A c, d \in v.cache : c.hash = d.hash => c = d
  BY VerifyCounts
<1>3. PlanFits(p)
  BY <1>1, DraftFits
<1> HIDE DEF v, p
<1> QED
  BY <1>1, <1>2, <1>3, RunKeepsTypes

LEMMA TypeInit == Init => TypeInv
<1> SUFFICES ASSUME Init PROVE TypeInv
  OBVIOUS
<1>1. MemInv
  BY MemInit
<1>2. \A e \in Effect : world[e].was = "gone" /\ world[e].now = "gone"
  BY DEF Init, NoWorld
<1>3. policy \in Policy /\ MaxRegister \in Nat
  BY ReversalAssumption DEF Init
<1>4. policy.budget \in {-1} \cup Nat
  BY <1>3 DEF Policy
<1>5. used = 0 /\ used \in Nat /\ (policy.budget >= 0 => used <= policy.budget)
  BY <1>4 DEF Init
<1> QED
  BY <1>1, <1>2, <1>3, <1>5 DEF Init, TypeInv

LEMMA TypeStep == TypeInv /\ [Next]_vars => TypeInv'
<1> SUFFICES ASSUME TypeInv, [Next]_vars PROVE TypeInv'
  OBVIOUS
<1>0. MemInv /\ registered \in 0 .. MaxRegister /\ MaxRegister \in Nat
  BY ReversalAssumption DEF TypeInv
<1>1. CASE UNCHANGED vars
  BY <1>0, <1>1, MemStays, RestKeepsTypes DEF vars
<1>2. ASSUME NEW b \in Batches, Register(b) PROVE TypeInv'
  <2>1. MemInv'
    BY <1>0, <1>2, RegisterKeepsMem
  <2>2. registered < MaxRegister /\ registered' = registered + 1
    BY <1>2 DEF Register
  <2>3. registered + 1 \in 0 .. MaxRegister
    BY <1>0, <2>2
  <2> QED
    BY <1>2, <2>1, <2>2, <2>3, RestKeepsTypes DEF Register
<1>3. ASSUME NEW e \in Effect, NEW s \in Situations[e],
             NEW a \in Answers[s.call.kind], Capture(e, s, a)
      PROVE  TypeInv'
  BY <1>3, CaptureKeepsTypes
<1>4. ASSUME NEW e \in Effect, PlanMatched(e) PROVE TypeInv'
  <2>1. PlanFits(MatchedPlan(e))
    BY <1>0, <1>4, MatchedPlanFits DEF PlanMatched
  <2> QED
    BY <1>4, <2>1, StoreKeepsTypes DEF PlanMatched, TypeInv
<1>5. ASSUME NEW e \in Effect, Execute(e) PROVE TypeInv'
  <2>1. PlanFits(plans[told[e]])
    BY <1>5 DEF Execute, TypeInv
  <2> QED
    BY <1>5, <2>1, RunKeepsTypes DEF Execute, TypeInv
<1>6. ASSUME NEW e \in Effect, UndoMatched(e) PROVE TypeInv'
  <2>1. PlanFits(MatchedPlan(e))
    BY <1>0, <1>6, MatchedPlanFits DEF UndoMatched, Undoable
  <2> QED
    BY <1>6, <2>1, RunKeepsTypes DEF UndoMatched, TypeInv
<1>7. ASSUME NEW e \in Effect, Lapse(e) PROVE TypeInv'
  BY <1>0, <1>7, MemStays, RestKeepsTypes DEF Lapse
<1>8. ASSUME NEW e \in Effect, NEW o \in Opinions, NEW d \in Drafts(e),
             PlanDrafted(e, d, o)
      PROVE  TypeInv'
  BY <1>8, PlanDraftedKeepsTypes
<1>9. ASSUME NEW e \in Effect, NEW o \in Opinions, NEW d \in Drafts(e),
             UndoDrafted(e, d, o)
      PROVE  TypeInv'
  BY <1>9, UndoDraftedKeepsTypes
<1> QED
  BY <1>1, <1>2, <1>3, <1>4, <1>5, <1>6, <1>7, <1>8, <1>9 DEF Next

\* What a sealed receipt and a plan are made of is what TypeOK says of them.
LEMMA TypeInvImplies == TypeInv => TypeOK
<1> SUFFICES ASSUME TypeInv PROVE TypeOK
  OBVIOUS
<1>1. \A i \in DOMAIN builtins :
        \E m \in memory : m.id = builtins[i].id /\ m.source = "builtin"
  BY BuiltinFacts DEF TypeInv, MemInv, From
<1>2. ASSUME NEW e \in Effect, row[e] # NoRow
      PROVE  /\ row[e].status \in {"opened", "landed", "failed", "in_doubt"}
             /\ row[e].tier \in Tier /\ row[e].key \in Place
             /\ row[e].url \in Place \cup {"none"}
  <2>1. SealedFor(e)
    BY <1>2 DEF TypeInv
  <2>2. PICK s \in Situations[e], binds \in BOOLEAN :
          /\ row[e].url = BoundUrl([binds |-> binds], s.call, row[e].answer)
          /\ row[e].key = resourceKeys(s.call, row[e].answer, row[e].url)
    BY <2>1 DEF SealedFor
  <2>3. row[e].url \in {"none", "own", "below"}
    BY <2>2 DEF BoundUrl
  <2>4. row[e].key \in {row[e].url, "own", "collection"} /\ row[e].key # "none"
    BY <2>2, <2>3 DEF resourceKeys, ArgTarget
  <2> QED
    BY <2>1, <2>3, <2>4 DEF SealedFor, Place
<1>3. ASSUME NEW e \in Effect, told[e] # "none" PROVE plans[told[e]] # NoPlan
  BY <1>3 DEF TypeInv, PlanFits
<1> QED
  BY <1>1, <1>2, <1>3 DEF TypeInv, TypeOK

\* Receipts, plans and counts have the types the code declares for them
\* (ledger/types.ts:34, policy.ts:79).
THEOREM TypeCorrect == Spec => []TypeOK
<1>1. Spec => []TypeInv
  BY TypeInit, TypeStep, PTL DEF Spec
<1> QED
  BY <1>1, TypeInvImplies, PTL

-----------------------------------------------------------------------------
(* UndoCanSee, which the types and the steps make inductive.                   *)

\* A call that may have landed and was not blocked is sealed as landed or in doubt.
LEMMA LandedIsSealed ==
  ASSUME Recognized, NEW e \in Effect, NEW s \in Situations[e],
         NEW a \in Answers[s.call.kind], s.blind => a = NoAnswer, TRUE \in Lands(s, a)
  PROVE  isMutating(s.call) /\ StatusOf(s.call, a) \in {"landed", "in_doubt"}
<1>1. s.does # "nothing"
  BY DEF Lands
<1>2. /\ isMutating(s.call)
      /\ a.threw # "no" =>
           a.status = 0 /\ (a.threw = "unnamed" => s.call.kind \in {"fs", "sql"})
  BY <1>1 DEF Recognized
<1>3. a \in Answer /\ s.blind \in BOOLEAN
  BY SituationFacts
<1>4. a.threw \in {"no", "unnamed", "timeout", "transport"}
  BY <1>3 DEF Answer
<1>5. CASE a.threw = "no"
  BY <1>2, <1>5 DEF StatusOf
<1>6. CASE a.threw \in {"timeout", "transport"}
  BY <1>2, <1>6 DEF StatusOf, Unsure
<1>7. a.threw # "unnamed"
  <2> SUFFICES ASSUME a.threw = "unnamed" PROVE FALSE
    OBVIOUS
  <2>1. ~s.blind
    BY DEF NoAnswer
  <2>2. a.status = 0 /\ s.call.kind \in {"fs", "sql"}
    BY <1>2
  <2>3. 0 \notin 200 .. 299 /\ 0 \notin 400 .. 499
    OBVIOUS
  <2>4. Lands(s, a) = {FALSE}
    BY <1>1, <2>1, <2>2, <2>3 DEF Lands
  <2> QED
    BY <2>4
<1> QED
  BY <1>2, <1>4, <1>5, <1>6, <1>7

\* No policy blocks what is recorded after it was done.
LEMMA BlindNotBlocked ==
  ASSUME Timely, policy \in Policies, NEW e \in Effect, NEW s \in Situations[e], s.blind,
         NEW pre
  PROVE  ~Blocked(s.call, pre)
<1> DEFINE c == s.call
           tier == PreflightTier(c, pre, "full", NoTier, policy.blockT4 /\ policy.classifier,
                                 heuristicEscalate(c))
<1>1. c.kind = "fs" /\ c.op \in {"mkdir", "rename", "chmod"} /\ c \in Call
  BY ShapeAssumption, SituationFacts
<1>2. policy.blockT4 => c.inRoots /\ policy.shield \in {"unset", "ALLOW"}
  BY DEF Timely
<1>3. policy \in Policy
  BY ReversalAssumption
<1>4. policy.blockT4 \in BOOLEAN
      /\ policy.shield \in {"unset", "ALLOW", "BLOCK", "CHALLENGE", "timeout", "unreachable"}
  BY <1>3 DEF Policy
<1>5. CASE ~policy.blockT4
  BY <1>4, <1>5 DEF Blocked, applyLexShieldPolicy
<1>6. CASE policy.blockT4
  <2>1. heuristicEscalate(c) = NoTier
    BY <1>1 DEF heuristicEscalate
  <2>2. tier = classifyAction(c, NoAnswer, pre, "full", NoTier, NoTier)
    BY <2>1 DEF PreflightTier
  <2>3. rewriteAgentTool(c) = c
    BY <1>1 DEF rewriteAgentTool
  <2>4. c.op \notin READ_FS /\ c.op \notin {"write", "truncate", "unlink"}
    BY <1>1 DEF READ_FS
  <2>5. classifyStructural(c, NoAnswer, pre, "full") = "T2"
    BY <1>1, <1>2, <1>6, <2>3, <2>4 DEF classifyStructural, ClassifyRewritten, ClassifyFs
  <2>6. ~Downgraded(c, pre, "full") /\ ~detectScopeViolation(c)
    BY <1>2, <1>6 DEF Downgraded, detectScopeViolation
  <2>7. LocalityTier(c, "T2") \in {"T1", "T2"}
    BY DEF LocalityTier
  <2>8. maxTier("T2", LocalityTier(c, "T2")) = "T2"
    BY <2>7 DEF maxTier, TIER_ORDER, Tier
  <2>9. tier = "T2"
    BY <2>2, <2>3, <2>5, <2>6, <2>8 DEF classifyAction, Joined, joinTier
  <2> HIDE DEF tier
  <2>10. Blocked(c, pre) <=> applyLexShieldPolicy(policy.blockT4, tier, policy.shield)
    BY DEF Blocked, tier
  <2> QED
    BY <1>2, <1>6, <2>9, <2>10 DEF applyLexShieldPolicy
<1> QED
  BY <1>4, <1>5, <1>6

LEMMA CaptureSees ==
  ASSUME Recognized, Timely, TypeInv, UndoCanSee, NEW e \in Effect,
         NEW s \in Situations[e], NEW a \in Answers[s.call.kind], Capture(e, s, a)
  PROVE  UndoCanSee'
<1>1. PICK pre \in Captured(s.call, s.before), landed \in Lands(s, a) :
       LET was  == IF s.before = "absent" THEN "gone" ELSE "old"
           done == landed /\ (s.blind \/ Unrecorded(s.call) \/ ~Blocked(s.call, pre))
       IN  /\ world' = [world EXCEPT ![e] =
                          [was |-> was, landed |-> done,
                           now |-> IF done THEN Now(was, s.does) ELSE was]]
           /\ IF Unrecorded(s.call)
              THEN UNCHANGED <<row, comp>>
              ELSE /\ row' = [row EXCEPT ![e] = Sealed(s.call, a, pre)]
                   /\ comp' = [comp EXCEPT ![e] = row'[e].offer]
  BY DEF Capture
<1> DEFINE done == landed /\ (s.blind \/ Unrecorded(s.call) \/ ~Blocked(s.call, pre))
           r == Sealed(s.call, a, pre)
<1>2. row[e] = NoRow /\ (s.blind => a = NoAnswer)
  BY DEF Capture
<1>3. world = [f \in Effect |-> world[f]] /\ row = [f \in Effect |-> row[f]]
  BY DEF TypeInv
<1>4. \A f \in Effect \ {e} : world'[f] = world[f] /\ row'[f] = row[f]
  BY <1>1, <1>3
<1>5. world'[e].landed => done
  BY <1>1, <1>3
<1>6. ASSUME done PROVE row'[e] = r /\ r.status \in {"landed", "in_doubt"}
  <2>1. TRUE \in Lands(s, a)
    <3>1. Lands(s, a) \subseteq BOOLEAN
      BY DEF Lands
    <3> QED
      BY <1>6, <3>1
  <2>2. isMutating(s.call) /\ StatusOf(s.call, a) \in {"landed", "in_doubt"}
    BY <1>2, <2>1, LandedIsSealed
  <2>3. ~Unrecorded(s.call)
    BY <2>2, UnrecordedReads, SituationFacts
  <2>4. ~Blocked(s.call, pre)
    BY <1>6, <2>3, BlindNotBlocked DEF TypeInv
  <2>5. r.status = StatusOf(s.call, a)
    BY <2>4, SealedFacts, SituationFacts DEF TypeInv
  <2> HIDE DEF r
  <2>6. row' = [row EXCEPT ![e] = r]
    BY <1>1, <2>3 DEF r
  <2> QED
    BY <1>3, <2>2, <2>5, <2>6
<1> HIDE DEF done, r
<1>7. row'[e] = r /\ r.status \in {"landed", "in_doubt"} => row'[e] # NoRow
  BY DEF NoRow
<1> QED
  BY <1>4, <1>5, <1>6, <1>7 DEF UndoCanSee

LEMMA SeesStep ==
  ASSUME Recognized, Timely
  PROVE  TypeInv /\ UndoCanSee /\ [Next]_vars => UndoCanSee'
<1> SUFFICES ASSUME TypeInv, UndoCanSee, [Next]_vars PROVE UndoCanSee'
  OBVIOUS
<1>1. ASSUME UNCHANGED <<world, row>> PROVE UndoCanSee'
  BY <1>1 DEF UndoCanSee
<1>2. ASSUME NEW e, NEW p, PlanFits(p), Run(e, p) PROVE UndoCanSee'
  <2>1. row' = row /\ \A f \in Effect : world'[f].landed = world[f].landed
    BY <1>2, RunTypes
  <2> QED
    BY <2>1 DEF UndoCanSee
<1>3. CASE UNCHANGED vars
  BY <1>1, <1>3 DEF vars
<1>4. ASSUME NEW b \in Batches, Register(b) PROVE UndoCanSee'
  BY <1>1, <1>4 DEF Register
<1>5. ASSUME NEW e \in Effect, NEW s \in Situations[e],
             NEW a \in Answers[s.call.kind], Capture(e, s, a)
      PROVE  UndoCanSee'
  BY <1>5, CaptureSees
<1>6. ASSUME NEW e \in Effect, PlanMatched(e) PROVE UndoCanSee'
  BY <1>1, <1>6 DEF PlanMatched
<1>7. ASSUME NEW e \in Effect, Execute(e) PROVE UndoCanSee'
  BY <1>2, <1>7 DEF Execute, TypeInv
<1>8. ASSUME NEW e \in Effect, UndoMatched(e) PROVE UndoCanSee'
  <2>1. PlanFits(MatchedPlan(e))
    BY <1>8, MatchedPlanFits DEF UndoMatched, Undoable, TypeInv
  <2> QED
    BY <1>2, <1>8, <2>1 DEF UndoMatched
<1>9. ASSUME NEW e \in Effect, Lapse(e) PROVE UndoCanSee'
  BY <1>1, <1>9 DEF Lapse
<1>10. ASSUME NEW e \in Effect, NEW o \in Opinions, NEW d \in Drafts(e),
              PlanDrafted(e, d, o)
       PROVE  UndoCanSee'
  BY <1>1, <1>10 DEF PlanDrafted
<1>11. ASSUME NEW e \in Effect, NEW o \in Opinions, NEW d \in Drafts(e),
              UndoDrafted(e, d, o)
       PROVE  UndoCanSee'
  <2> DEFINE p == Plan(e, draftedSignature, "drafted", d,
                       Verify(e, d, o, "audit", -1).record)
  <2>1. PlanFits(p) /\ Run(e, p)
    BY <1>11, DraftFits DEF UndoDrafted, Undoable
  <2> HIDE DEF p
  <2> QED
    BY <1>2, <2>1
<1> QED
  BY <1>3, <1>4, <1>5, <1>6, <1>7, <1>8, <1>9, <1>10, <1>11 DEF Next

\* Whatever was answered, a call that changed something is where an undo looks for it,
\* if the rules take it for a change and its exceptions have names (effect.ts:800).
THEOREM UndoAlwaysSees ==
  ASSUME Recognized, Timely
  PROVE  Spec => []UndoCanSee
<1>1. Init => UndoCanSee
  BY DEF Init, UndoCanSee, NoWorld
<1>2. TypeInv /\ UndoCanSee /\ [Next]_vars => UndoCanSee'
  BY SeesStep
<1> QED
  BY <1>1, <1>2, TypeInit, TypeStep, PTL DEF Spec

-----------------------------------------------------------------------------
(* What ran.  A run that answered ok was one of a plan that fits, with the     *)
(* manifest that matches now.                                                  *)

RanNow(x) ==
  LET p == x.plan
      m == Matched(p.effect)
  IN  /\ PlanFits(p) /\ MayRun(p) /\ x.places = Places(p, m)
      /\ x.restored <=> Outcome(p, m) = world[p.effect].was

LEMMA RunRuns ==
  ASSUME TypeInv, NEW e, NEW p, PlanFits(p), Run(e, p)
  PROVE  UNCHANGED <<policy, row>> /\ \A x \in ran' \ ran : RanNow(x)
<1>1. UNCHANGED <<policy, row>>
  BY DEF Run
<1>2. \A x \in ran' \ ran :
        /\ MayRun(p) /\ x.plan = p /\ x.places = Places(p, Matched(p.effect))
        /\ x.restored <=> Outcome(p, Matched(p.effect)) = world[p.effect].was
  BY RunTypes
<1> QED
  BY <1>1, <1>2 DEF RanNow

LEMMA RanGrows ==
  ASSUME TypeInv, [Next]_vars
  PROVE  policy' = policy /\ \A x \in ran' \ ran : RanNow(x) /\ row' = row
<1> DEFINE Goal == policy' = policy /\ \A x \in ran' \ ran : RanNow(x) /\ row' = row
<1>1. ASSUME UNCHANGED <<policy, ran>> PROVE Goal
  BY <1>1
<1>2. ASSUME NEW e, NEW p, PlanFits(p), Run(e, p) PROVE Goal
  BY <1>2, RunRuns
<1>3. CASE UNCHANGED vars
  BY <1>1, <1>3 DEF vars
<1>4. ASSUME NEW b \in Batches, Register(b) PROVE Goal
  BY <1>1, <1>4 DEF Register
<1>5. ASSUME NEW e \in Effect, NEW s \in Situations[e],
             NEW a \in Answers[s.call.kind], Capture(e, s, a)
      PROVE  Goal
  BY <1>1, <1>5 DEF Capture
<1>6. ASSUME NEW e \in Effect, PlanMatched(e) PROVE Goal
  BY <1>1, <1>6 DEF PlanMatched
<1>7. ASSUME NEW e \in Effect, Execute(e) PROVE Goal
  BY <1>2, <1>7 DEF Execute, TypeInv
<1>8. ASSUME NEW e \in Effect, UndoMatched(e) PROVE Goal
  <2>1. PlanFits(MatchedPlan(e))
    BY <1>8, MatchedPlanFits DEF UndoMatched, Undoable, TypeInv
  <2> QED
    BY <1>2, <1>8, <2>1 DEF UndoMatched
<1>9. ASSUME NEW e \in Effect, Lapse(e) PROVE Goal
  BY <1>1, <1>9 DEF Lapse
<1>10. ASSUME NEW e \in Effect, NEW o \in Opinions, NEW d \in Drafts(e),
              PlanDrafted(e, d, o)
       PROVE  Goal
  BY <1>1, <1>10 DEF PlanDrafted
<1>11. ASSUME NEW e \in Effect, NEW o \in Opinions, NEW d \in Drafts(e),
              UndoDrafted(e, d, o)
       PROVE  Goal
  <2> DEFINE p == Plan(e, draftedSignature, "drafted", d,
                       Verify(e, d, o, "audit", -1).record)
  <2>1. PlanFits(p) /\ Run(e, p)
    BY <1>11, DraftFits DEF UndoDrafted, Undoable
  <2> HIDE DEF p
  <2> QED
    BY <1>2, <2>1
<1> QED
  BY <1>3, <1>4, <1>5, <1>6, <1>7, <1>8, <1>9, <1>10, <1>11 DEF Next

-----------------------------------------------------------------------------
(* NothingElseTouched.                                                         *)

\* The url a receipt binds.
LEMMA UrlOfRow ==
  ASSUME TypeInv, NEW e \in Effect, row[e] # NoRow
  PROVE  row[e].url \in {"none", "own", "below"}
<1>1. SealedFor(e)
  BY DEF TypeInv
<1> QED
  BY <1>1 DEF SealedFor, BoundUrl

\* What a template may resolve to besides the constants of its manifest.
LEMMA TargetPlaces ==
  ASSUME NEW step, NEW r, NEW m, r.url \in {"none", "own", "below"}
  PROVE  /\ TargetOf(step, r, m) \in
              {"none", "own", "below", "collection", "newname", m.const}
         /\ TargetOf(step, r, m) = "collection" =>
              \/ step.target = "args.target" /\ r.call.kind = "http"
              \/ step.target = "const.target"
  BY DEF TargetOf, ArgTarget

\* A draft with four good answers stays with the resource of its effect
\* (verifier.ts:430).
LEMMA PassIsHome ==
  ASSUME NEW steps, NEW r, StructurallyPasses(steps, r), r.url \in {"none", "own", "below"},
         NEW i \in Mutating(steps)
  PROVE  PlaceOf(steps, i, r) \in {"own", "below", "newname", "none"}
<1> DEFINE a == evaluateFourQuestions(steps, r)
           s == steps[i]
           place == TargetOf(s, r, draftedSignature)
<1>1. ~a.overreach /\ a.sufficiency # "no" /\ a.sufficiency # "partial"
  BY DEF StructurallyPasses, verdictFromAnswers
<1>2. ~checkOverreach(steps, r)
      /\ checkSufficiency(steps, r) # "no" /\ checkSufficiency(steps, r) # "partial"
  BY <1>1 DEF evaluateFourQuestions
<1>3. ~Several(steps) /\ ~Overreaches(s, place, r)
  BY <1>2 DEF checkOverreach, PlaceOf
<1>4. (CHOOSE j \in Mutating(steps) : TRUE) = i
  BY <1>3 DEF Several
<1>5. SufficientStep(s, r) # "no" /\ SufficientStep(s, r) # "partial"
  BY <1>2, <1>3, <1>4 DEF checkSufficiency
<1>6. draftedSignature.const = "none"
  BY DEF draftedSignature, NoManifest
<1>7. place \in {"none", "own", "below", "collection", "newname"}
  BY <1>6, TargetPlaces
<1>8. place = "collection" => s.target = "args.target" /\ r.call.kind = "http"
  <2>1. s.target = "const.target" => place = "none"
    BY <1>6 DEF TargetOf
  <2> HIDE DEF place
  <2>2. place = "collection" =>
          \/ s.target = "args.target" /\ r.call.kind = "http"
          \/ s.target = "const.target"
    BY <1>6, TargetPlaces DEF place
  <2> QED
    BY <2>1, <2>2
<1> HIDE DEF place
<1>9. ASSUME place = "collection" PROVE FALSE
  <2>1. r.call.kind = "http"
    BY <1>8, <1>9
  <2>2. s.kind = "http_request" /\ s.verb = "DELETE"
    BY <1>5, <2>1 DEF SufficientStep
  <2>3. place = r.url
    BY <1>5, <2>1, <2>2 DEF SufficientStep, place
  <2> QED
    BY <1>9, <2>3
<1> QED
  BY <1>7, <1>9 DEF PlaceOf, place

\* A manifest is one of the five, or one of a batch.
LEMMA WhereOffered ==
  ASSUME NEW n \in Offered
  PROVE  \/ \E k \in 1 .. 5 : n = builtins[k]
         \/ \E b \in Batches : \E i \in DOMAIN b : n = b[i]
<1>1. CASE n \in Range(builtins)
  BY <1>1, BuiltinFacts DEF Range
<1>2. CASE \E b \in Batches : n \in Range(b)
  BY <1>2 DEF Range
<1> QED
  BY <1>1, <1>2 DEF Offered

\* No manifest that was let in names another host (registry.ts:211).
LEMMA ConstIsHome ==
  ASSUME AllStayHome, NEW n \in Offered, gateDeclarativeManifest(n) = "ok"
  PROVE  /\ n.const # "elsewhere"
         /\ n.kind = "mcp_tool" => n.const \in {"own", "below", "none"}
         /\ n.source = "builtin" => \E k \in 1 .. 5 : n = builtins[k]
<1>1. CASE \E k \in 1 .. 5 : n = builtins[k]
  BY <1>1, BuiltinFacts
<1>2. CASE \E b \in Batches : \E i \in DOMAIN b : n = b[i]
  <2>1. StaysHome(n)
    BY <1>2 DEF AllStayHome
  <2>2. ASSUME n.const = "elsewhere" PROVE FALSE
    <3> DEFINE r == syntheticReceipt(n)
    <3>1. compilePlan(r, n, n.source, n.steps, FALSE) = "ok"
      BY DEF gateDeclarativeManifest
    <3>2. assertScope(n.steps, r, n, n.source)
      BY <3>1, CompiledPasses
    <3>3. PICK i \in DOMAIN n.steps :
            /\ n.steps[i].target = "const.target"
            /\ n.steps[i].kind \in {"http_request", "sql_statement", "fs_restore",
                                    "fs_rename"}
      BY <2>1, <2>2 DEF StaysHome
    <3>4. TargetOf(n.steps[i], r, n) = "elsewhere"
      BY <2>2, <3>3 DEF TargetOf
    <3>5. r.key \in {"own", "below", "collection"}
      <4>1. r.url \in {"none", "own", "below"}
        BY DEF syntheticReceipt, BoundUrl
      <4>2. r.key = resourceKeys(r.call, r.answer, r.url)
        BY DEF syntheticReceipt
      <4> HIDE DEF r
      <4> QED
        BY <4>1, <4>2 DEF resourceKeys, ArgTarget
    <3> HIDE DEF r
    <3>6. assertStepScope(n.steps[i], "elsewhere", r, n, n.source)
      BY <3>2, <3>4 DEF assertScope
    <3>7. "elsewhere" \notin Covers(r.key)
      BY <3>5 DEF Covers
    <3> QED
      BY <3>3, <3>6, <3>7 DEF assertStepScope, assertHttpScope, assertSqlScope,
         assertFsScope, assertFsRenameScope
  <2> QED
    BY <2>1, <2>2 DEF StaysHome
<1> QED
  BY <1>1, <1>2, WhereOffered

LEMMA MatchedIsHome ==
  ASSUME AllStayHome, MemInv, NEW e
  PROVE  /\ Matched(e).const # "elsewhere"
         /\ row[e].call.kind = "mcp_tool" => Matched(e).const \in {"own", "below", "none"}
<1>1. CASE Matched(e) = NoManifest
  BY <1>1 DEF NoManifest
<1>2. CASE Matched(e) # NoManifest
  <2>1. PICK n \in Offered : \E at \in Nat :
           /\ gateDeclarativeManifest(n) = "ok" /\ From(Matched(e), n, at)
           /\ kindPredicate(n, row[e].call)
    BY <1>2, MatchedFacts
  <2>2. Matched(e).const = n.const /\ n.kind = row[e].call.kind
    BY <2>1 DEF From, kindPredicate
  <2> QED
    BY <2>1, <2>2, ConstIsHome
<1> QED
  BY <1>1, <1>2

\* What the five are lowered to for a call they are meant for, and what they promise.
LEMMA BuiltinPlans ==
  ASSUME NEW k \in 1 .. 5, NEW r, kindPredicate(builtins[k], r.call)
  PROVE  LET steps == lowerSteps(builtins[k], r)
         IN  \/ /\ k = 1 /\ r.call.kind = "fs" /\ steps = planForFs(r)
             \/ /\ k = 2 /\ r.call.kind = "sql" /\ steps = planForSql(r)
                /\ builtins[k].cascade
             \/ /\ k = 3 /\ r.call.kind = "http" /\ r.call.method \in {"POST", "PUT"}
                /\ steps = httpCreateSteps /\ builtins[k].statuses = {200, 201, 202}
             \/ /\ k = 4 /\ r.call.kind = "mcp_tool" /\ steps = messageRetract
                /\ ~builtins[k].full
             \/ /\ k = 5 /\ steps = <<[NewStep EXCEPT !.kind = "manual"]>>
                /\ ~builtins[k].full
<1>0. k = 1 \/ k = 2 \/ k = 3 \/ k = 4 \/ k = 5
  OBVIOUS
<1>1. CASE k = 1
  <2>1. builtins[k] = fsWrite
    BY <1>1 DEF builtins
  <2>2. fsWrite.kind = "fs" /\ fsWrite.id = "cmp_fs_write@1"
    BY DEF fsWrite, Builtin
  <2> QED
    BY <1>1, <2>1, <2>2 DEF kindPredicate, lowerSteps
<1>2. CASE k = 2
  <2>1. builtins[k] = sqlRow
    BY <1>2 DEF builtins
  <2>2. sqlRow.kind = "sql" /\ sqlRow.id = "cmp_sql_row@1" /\ sqlRow.cascade
    BY DEF sqlRow, Builtin
  <2> QED
    BY <1>2, <2>1, <2>2 DEF kindPredicate, lowerSteps
<1>3. CASE k = 3
  <2>1. builtins[k] = httpCreate
    BY <1>3 DEF builtins
  <2>2. /\ httpCreate.kind = "http" /\ httpCreate.id = "cmp_http_create@1"
        /\ httpCreate.methods = {"POST", "PUT"} /\ httpCreate.steps = httpCreateSteps
        /\ httpCreate.statuses = {200, 201, 202}
    BY DEF httpCreate, Builtin
  <2>3. r.call.kind = "http" /\ r.call.method \in {"POST", "PUT"}
    BY <2>1, <2>2 DEF kindPredicate
  <2> QED
    BY <1>3, <2>1, <2>2, <2>3 DEF lowerSteps
<1>4. CASE k = 4
  <2>1. builtins[k] = messageSend
    BY <1>4 DEF builtins
  <2>2. /\ messageSend.kind = "mcp_tool" /\ messageSend.id = "cmp_message_send@1"
        /\ messageSend.steps = messageRetract /\ ~messageSend.full
    BY DEF messageSend, Builtin
  <2> QED
    BY <1>4, <2>1, <2>2 DEF kindPredicate, lowerSteps
<1>5. CASE k = 5
  <2>1. builtins[k] = emailManual
    BY <1>5 DEF builtins
  <2>2. /\ emailManual.id = "cmp_email@1" /\ ~emailManual.full
        /\ emailManual.steps = <<[NewStep EXCEPT !.kind = "manual"]>>
    BY DEF emailManual, Builtin
  <2> QED
    BY <1>5, <2>1, <2>2 DEF lowerSteps
<1> QED
  BY <1>0, <1>1, <1>2, <1>3, <1>4, <1>5

\* Each of them has one step.
LEMMA OneStepPlans ==
  ASSUME NEW r
  PROVE  /\ LET s == planForFs(r)[1]
            IN  /\ planForFs(r) = <<s>>
                /\ IF r.call.op = "rename"
                   THEN s.kind = "fs_rename" /\ s.target = "args.to"
                   ELSE /\ s.kind = "fs_restore" /\ s.target = "args.target"
                        /\ s.source = IF r.pre = "absent" \/ r.call.op = "mkdir"
                                      THEN "preimage.absent" ELSE "preimage.blob"
         /\ LET s == planForSql(r)[1]
            IN  planForSql(r) = <<s>> /\ s.target = "args.target"
         /\ LET s == httpCreateSteps[1]
            IN  /\ httpCreateSteps = <<s>> /\ s.kind = "http_request"
                /\ s.verb = "DELETE" /\ s.target = "bindings.url"
         /\ LET s == messageRetract[1]
            IN  messageRetract = <<s>> /\ s.target = "const.target"
         /\ ~Mutates([NewStep EXCEPT !.kind = "manual"])
<1>1. LET s == planForFs(r)[1]
      IN  /\ planForFs(r) = <<s>>
          /\ r.call.op = "rename" => s.kind = "fs_rename" /\ s.target = "args.to"
  BY DEF planForFs, NewStep
<1>2. LET s == planForFs(r)[1]
      IN  r.call.op # "rename" =>
            /\ s.kind = "fs_restore" /\ s.target = "args.target"
            /\ s.source = IF r.pre = "absent" \/ r.call.op = "mkdir"
                          THEN "preimage.absent" ELSE "preimage.blob"
  BY DEF planForFs, NewStep
<1>3. LET s == planForSql(r)[1] IN planForSql(r) = <<s>> /\ s.target = "args.target"
  <2> DEFINE images == IF r.answer.names = "rows" THEN "result.pre" ELSE "bindings.pk"
             sql(verb, where, source) ==
               [NewStep EXCEPT !.kind = "sql_statement", !.target = "args.target",
                 !.max = 1, !.verb = verb, !.where = where, !.source = source]
  <2>1. \A verb, where, source : sql(verb, where, source).target = "args.target"
    BY DEF NewStep
  <2>2. \E verb, where, source : planForSql(r) = <<sql(verb, where, source)>>
    BY DEF planForSql
  <2> HIDE DEF sql
  <2> QED
    BY <2>1, <2>2
<1>4. LET s == httpCreateSteps[1]
      IN  /\ httpCreateSteps = <<s>> /\ s.kind = "http_request"
          /\ s.verb = "DELETE" /\ s.target = "bindings.url"
  BY DEF httpCreateSteps, NewStep
<1>5. LET s == messageRetract[1]
      IN  messageRetract = <<s>> /\ s.target = "const.target"
  BY DEF messageRetract, NewStep
<1>6. ~Mutates([NewStep EXCEPT !.kind = "manual"])
  BY DEF Mutates, NewStep
<1> QED
  BY <1>1, <1>2, <1>3, <1>4, <1>5, <1>6

\* A plan of a builtin manifest stays with the resource of its effect.
LEMMA BuiltinIsHome ==
  ASSUME NEW k \in 1 .. 5, NEW r, kindPredicate(builtins[k], r.call), NEW m,
         r.url \in {"none", "own", "below"},
         r.call.kind = "mcp_tool" => m.const \in {"own", "below", "none"},
         NEW i \in Mutating(lowerSteps(builtins[k], r))
  PROVE  TargetOf(lowerSteps(builtins[k], r)[i], r, m)
           \in {"own", "below", "newname", "none"}
<1> DEFINE steps == lowerSteps(builtins[k], r)
<1>1. \A s : DOMAIN <<s>> = {1} /\ <<s>>[1] = s
  OBVIOUS
<1>2. i \in DOMAIN steps /\ Mutates(steps[i])
  BY DEF Mutating
<1>3. \/ /\ k = 1 /\ r.call.kind = "fs" /\ steps = planForFs(r)
      \/ /\ k = 2 /\ r.call.kind = "sql" /\ steps = planForSql(r)
      \/ /\ k = 3 /\ steps = httpCreateSteps
      \/ /\ k = 4 /\ r.call.kind = "mcp_tool" /\ steps = messageRetract
      \/ /\ k = 5 /\ steps = <<[NewStep EXCEPT !.kind = "manual"]>>
  BY BuiltinPlans
<1> HIDE DEF steps
<1>4. CASE r.call.kind = "fs" /\ steps = planForFs(r)
  <2>1. steps = <<steps[1]>> /\ steps[1].target \in {"args.to", "args.target"}
    BY <1>4, OneStepPlans
  <2>2. i = 1
    BY <1>1, <1>2, <2>1
  <2> QED
    BY <1>4, <2>1, <2>2 DEF TargetOf, ArgTarget, steps
<1>5. CASE r.call.kind = "sql" /\ steps = planForSql(r)
  <2>1. steps = <<steps[1]>> /\ steps[1].target = "args.target"
    BY <1>5, OneStepPlans
  <2>2. i = 1
    BY <1>1, <1>2, <2>1
  <2> QED
    BY <1>5, <2>1, <2>2 DEF TargetOf, ArgTarget, steps
<1>6. CASE steps = httpCreateSteps
  <2>1. steps = <<steps[1]>> /\ steps[1].target = "bindings.url"
    BY <1>6, OneStepPlans
  <2>2. i = 1
    BY <1>1, <1>2, <2>1
  <2> QED
    BY <2>1, <2>2 DEF TargetOf, steps
<1>7. CASE r.call.kind = "mcp_tool" /\ steps = messageRetract
  <2>1. steps = <<steps[1]>> /\ steps[1].target = "const.target"
    BY <1>7, OneStepPlans
  <2>2. i = 1
    BY <1>1, <1>2, <2>1
  <2> QED
    BY <1>7, <2>1, <2>2 DEF TargetOf, steps
<1>8. CASE steps = <<[NewStep EXCEPT !.kind = "manual"]>>
  <2>1. i = 1
    BY <1>1, <1>2, <1>8
  <2>2. ~Mutates(steps[1])
    BY <1>8, OneStepPlans
  <2> QED
    BY <1>2, <2>1, <2>2
<1> QED
  BY <1>3, <1>4, <1>5, <1>6, <1>7, <1>8

\* What a run may do to other resources.
Touches(x) ==
  /\ "elsewhere" \notin x.places
  /\ x.plan.origin # "registered" => x.places \subseteq {"own", "below", "newname", "none"}
  /\ x.plan.origin = "registered" /\ policy.hosted => x.plan.vouched

LEMMA RunTouches ==
  ASSUME AllStayHome, TypeInv, NEW x, RanNow(x), RanSound(row, x)
  PROVE  Touches(x)
<1> DEFINE p == x.plan
           r == row[p.effect]
           m == Matched(p.effect)
           place(i) == TargetOf(p.steps[i], r, m)
<1>1. PlanFits(p) /\ x.places = {place(i) : i \in Mutating(p.steps)}
  BY DEF RanNow, Places
<1>2. p.effect \in Effect /\ r # NoRow
  BY <1>1 DEF PlanFits
<1>3. r.url \in {"none", "own", "below"}
  BY <1>2, UrlOfRow
<1>4. /\ m.const # "elsewhere"
      /\ r.call.kind = "mcp_tool" => m.const \in {"own", "below", "none"}
  BY MatchedIsHome DEF TypeInv
<1>5. \A i : place(i) # "elsewhere"
  BY <1>3, <1>4, TargetPlaces
<1>6. \/ p.origin = "drafted" /\ ~hasConstRef(p.steps)
      \/ PlanOfManifest(p, r)
  BY <1>1 DEF PlanFits
<1>7. CASE p.origin = "drafted" /\ ~hasConstRef(p.steps)
  <2>1. StructurallyPasses(p.steps, r)
    BY <1>7 DEF RanSound
  <2>2. \A i \in Mutating(p.steps) :
          PlaceOf(p.steps, i, r) \in {"own", "below", "newname", "none"}
    BY <1>3, <2>1, PassIsHome
  <2>3. \A i \in Mutating(p.steps) : place(i) = PlaceOf(p.steps, i, r)
    BY <1>7 DEF hasConstRef, Mutating, PlaceOf, TargetOf
  <2> HIDE DEF place
  <2> QED
    BY <1>1, <1>5, <1>7, <2>2, <2>3 DEF Touches
<1>8. CASE PlanOfManifest(p, r)
  <2>1. PICK n \in Offered :
           /\ gateDeclarativeManifest(n) = "ok" /\ kindPredicate(n, r.call)
           /\ p.origin = n.source /\ (policy.hosted => p.vouched)
           /\ p.steps = lowerSteps(n, r)
    BY <1>8 DEF PlanOfManifest
  <2>2. n.source # "drafted" /\ Typed(n)
    <3>1. n.source # "drafted"
      BY <2>1 DEF gateDeclarativeManifest
    <3>2. Typed(n)
      BY WhereOffered, BuiltinFacts, OfferedFacts, ManifestFacts
    <3> QED
      BY <3>1, <3>2
  <2>3. CASE n.source = "builtin"
    <3>1. PICK k \in 1 .. 5 : n = builtins[k]
      BY <2>1, <2>3, ConstIsHome
    <3>2. \A i \in Mutating(p.steps) : place(i) \in {"own", "below", "newname", "none"}
      BY <1>3, <1>4, <2>1, <3>1, BuiltinIsHome
    <3> HIDE DEF place
    <3> QED
      BY <1>1, <1>5, <2>1, <2>3, <3>2 DEF Touches
  <2>4. CASE n.source = "registered"
    <3> HIDE DEF place
    <3> QED
      BY <1>1, <1>5, <2>1, <2>4 DEF Touches
  <2> QED
    BY <2>2, <2>3, <2>4 DEF Typed
<1> QED
  BY <1>6, <1>7, <1>8

LEMMA TouchesStep ==
  ASSUME AllStayHome
  PROVE  /\ TypeInv /\ GateInv' /\ NothingElseTouched /\ [Next]_vars
         => NothingElseTouched'
<1> SUFFICES ASSUME TypeInv, GateInv', NothingElseTouched, [Next]_vars
             PROVE  NothingElseTouched'
  OBVIOUS
<1>1. policy' = policy /\ \A x \in ran' \ ran : RanNow(x) /\ row' = row
  BY RanGrows
<1>2. \A x : Touches(x)' <=> Touches(x)
  BY <1>1 DEF Touches
<1>3. \A x \in ran : Touches(x)
  BY DEF NothingElseTouched, Touches
<1>4. ASSUME NEW x \in ran' \ ran PROVE Touches(x)
  <2>1. RanSound(row, x)'
    BY DEF GateInv
  <2>2. RanSound(row, x)
    BY <1>1, <2>1 DEF RanSound, StructurallyPasses
  <2> QED
    BY <1>1, <2>2, RunTouches
<1>5. \A x \in ran' : Touches(x)'
  BY <1>2, <1>3, <1>4
<1> QED
  BY <1>5 DEF NothingElseTouched, Touches

\* No run changes a resource of another host, and only a registered manifest names one
\* that is not of the effect itself (plan.ts:634, verifier.ts:430).
THEOREM NothingElseIsTouched ==
  ASSUME AllStayHome
  PROVE  Spec => []NothingElseTouched
<1>1. Init => NothingElseTouched
  BY DEF Init, NothingElseTouched
<1>2. TypeInv /\ GateInv' /\ NothingElseTouched /\ [Next]_vars => NothingElseTouched'
  BY TouchesStep
<1> QED
  BY <1>1, <1>2, TypeInit, TypeStep, GateInit, GateStep, PTL DEF Spec

-----------------------------------------------------------------------------
(* RestoredIfFull.                                                             *)

\* A plan of one step leaves what that step leaves.
LEMMA OneStepOutcome ==
  ASSUME NEW p, NEW m, NEW s, p.steps = <<s>>, Mutates(s),
         After(s, TargetOf(s, row[p.effect], m)) # "same"
  PROVE  Outcome(p, m) = After(s, TargetOf(s, row[p.effect], m))
<1> DEFINE after(i) == After(p.steps[i], TargetOf(p.steps[i], row[p.effect], m))
           changing == {i \in Mutating(p.steps) : after(i) # "same"}
           last == CHOOSE i \in changing : \A j \in changing : j <= i
<1>1. DOMAIN p.steps = {1} /\ p.steps[1] = s
  OBVIOUS
<1>2. changing = {1}
  BY <1>1 DEF Mutating
<1>3. Outcome(p, m) = IF changing = {} THEN world[p.effect].now ELSE after(last)
  BY DEF Outcome
<1> HIDE DEF changing
<1>4. last \in changing
  <2>1. \E i \in changing : \A j \in changing : j <= i
    BY <1>2
  <2> QED
    BY <2>1
<1>5. last = 1
  BY <1>2, <1>4
<1> HIDE DEF last
<1> QED
  BY <1>1, <1>2, <1>3, <1>5

\* The pre-image of a file call says what was there.
LEMMA PreImageOfFile ==
  ASSUME NEW c, c.kind = "fs", NEW before \in {"absent", "file"},
         NEW pre \in Captured(c, before)
  PROVE  pre = "absent" <=> before = "absent"
<1>1. pre \in PreImages(c, before)
  BY DEF Captured, needsPreimageCapture
<1> QED
  BY <1>1 DEF PreImages

LEMMA FileRestored ==
  ASSUME Restorable, TypeInv, NEW p, NEW m, PlanFits(p),
         row[p.effect].call.kind = "fs", p.steps = planForFs(row[p.effect])
  PROVE  Outcome(p, m) = world[p.effect].was
<1> DEFINE e == p.effect
           r == row[e]
           s == planForFs(r)[1]
<1>1. e \in Effect /\ r # NoRow /\ assertUnsafeStatements(p.steps, r)
  BY DEF PlanFits
<1>2. PICK t \in Situations[e] :
        /\ r.call = t.call /\ r.pre \in Captured(t.call, t.before)
        /\ world[e].was = IF t.before = "absent" THEN "gone" ELSE "old"
  <2>1. SealedFor(e)
    BY <1>1 DEF TypeInv
  <2> QED
    BY <2>1 DEF SealedFor
<1>3. /\ t.before # "locked" /\ (t.call.op = "mkdir" => t.before = "absent")
      /\ t.call.op = "rename" => t.before = "file"
  BY <1>1, <1>2 DEF Restorable
<1>4. t.before \in {"absent", "file"}
  BY <1>1, <1>3, SituationFacts
<1>5. r.pre = "absent" <=> t.before = "absent"
  BY <1>2, <1>4, PreImageOfFile
<1>6. /\ p.steps = <<s>>
      /\ IF r.call.op = "rename"
         THEN s.kind = "fs_rename" /\ s.target = "args.to"
         ELSE /\ s.kind = "fs_restore" /\ s.target = "args.target"
              /\ s.source = IF r.pre = "absent" \/ r.call.op = "mkdir"
                            THEN "preimage.absent" ELSE "preimage.blob"
  BY OneStepPlans
<1> HIDE DEF s
<1>7. Mutates(s)
  BY <1>6 DEF Mutates
<1>8. CASE r.call.op = "rename"
  <2>1. TargetOf(s, r, m) = "newname"
    BY <1>6, <1>8 DEF TargetOf
  <2>2. After(s, "newname") = "old"
    BY <1>6, <1>8 DEF After
  <2>3. world[e].was = "old"
    BY <1>2, <1>3, <1>8
  <2> QED
    BY <1>6, <1>7, <2>1, <2>2, <2>3, OneStepOutcome
<1>9. CASE r.call.op # "rename"
  <2>1. TargetOf(s, r, m) = "own"
    BY <1>6, <1>9 DEF TargetOf, ArgTarget
  <2>2. After(s, "own") = IF s.source = "preimage.absent" THEN "gone" ELSE "old"
    BY <1>6, <1>9 DEF After
  <2>3. After(s, "own") = world[e].was
    BY <1>2, <1>3, <1>4, <1>5, <1>6, <1>9, <2>2
  <2>4. world[e].was # "same"
    BY <1>2
  <2> QED
    BY <1>6, <1>7, <2>1, <2>3, <2>4, OneStepOutcome
<1> QED
  BY <1>8, <1>9

LEMMA CreateRestored ==
  ASSUME Restorable, TypeInv, NEW p, NEW m, PlanFits(p),
         row[p.effect].call.kind = "http",
         row[p.effect].call.method \in {"POST", "PUT"},
         row[p.effect].answer.status \in {200, 201, 202}, p.steps = httpCreateSteps
  PROVE  Outcome(p, m) = world[p.effect].was
<1> DEFINE e == p.effect
           r == row[e]
           s == httpCreateSteps[1]
<1>1. /\ p.steps = <<s>> /\ s.kind = "http_request" /\ s.verb = "DELETE"
      /\ s.target = "bindings.url"
  BY OneStepPlans
<1> HIDE DEF s
<1>2. e \in Effect /\ r # NoRow /\ r.url # "none"
  <2>1. DOMAIN p.steps = {1} /\ p.steps[1] = s
    BY <1>1
  <2> QED
    BY <1>1, <2>1 DEF PlanFits
<1>3. PICK t \in Situations[e], binds \in BOOLEAN :
        /\ r.call = t.call /\ r.answer \in Answers[t.call.kind] \cup {NoAnswer}
        /\ r.url = BoundUrl([binds |-> binds], t.call, r.answer)
        /\ world[e].was = IF t.before = "absent" THEN "gone" ELSE "old"
  <2>1. SealedFor(e)
    BY <1>2 DEF TypeInv
  <2> QED
    BY <2>1 DEF SealedFor
<1>4. r.answer # NoAnswer
  BY DEF NoAnswer
<1>5. r.answer.names # "none"
  BY <1>2, <1>3 DEF BoundUrl
<1>6. t.before = "absent" /\ (r.answer.names = "location" \/ t.call.method = "POST")
  BY <1>2, <1>3, <1>4, <1>5 DEF Restorable
<1>7. r.url = "own"
  BY <1>2, <1>3, <1>5, <1>6 DEF BoundUrl, ArgTarget
<1>8. TargetOf(s, r, m) = "own"
  BY <1>1, <1>7 DEF TargetOf
<1>9. After(s, "own") = "gone"
  BY <1>1 DEF After
<1>10. Mutates(s)
  BY <1>1 DEF Mutates
<1> QED
  BY <1>1, <1>3, <1>6, <1>8, <1>9, <1>10, OneStepOutcome

LEMMA RunRestores ==
  ASSUME Restorable, TypeInv, NEW x, RanNow(x), x.plan.full
  PROVE  x.restored
<1> DEFINE p == x.plan
           r == row[p.effect]
           m == Matched(p.effect)
<1>1. /\ PlanFits(p) /\ ~p.cascade
      /\ x.restored <=> Outcome(p, m) = world[p.effect].was
  BY DEF RanNow, MayRun
<1>2. PlanOfManifest(p, r)
  BY <1>1 DEF PlanFits
<1>3. PICK n \in Offered :
         /\ kindPredicate(n, r.call) /\ evalAppliesWhen(n, r.answer)
         /\ (p.full <=> n.full) /\ (p.cascade <=> n.cascade)
         /\ p.steps = lowerSteps(n, r)
  BY <1>2 DEF PlanOfManifest
<1>4. PICK k \in 1 .. 5 : n = builtins[k]
  BY <1>3, WhereOffered DEF Restorable
<1>5. \/ /\ k = 1 /\ r.call.kind = "fs" /\ p.steps = planForFs(r)
      \/ /\ k = 3 /\ r.call.kind = "http" /\ r.call.method \in {"POST", "PUT"}
         /\ p.steps = httpCreateSteps /\ n.statuses = {200, 201, 202}
  BY <1>1, <1>3, <1>4, BuiltinPlans
<1>6. CASE r.call.kind = "fs" /\ p.steps = planForFs(r)
  BY <1>1, <1>6, FileRestored
<1>7. CASE /\ r.call.kind = "http" /\ r.call.method \in {"POST", "PUT"}
           /\ p.steps = httpCreateSteps /\ n.statuses = {200, 201, 202}
  <2>1. r.answer.status \in {200, 201, 202}
    BY <1>3, <1>7 DEF evalAppliesWhen
  <2> QED
    BY <1>1, <1>7, <2>1, CreateRestored
<1> QED
  BY <1>5, <1>6, <1>7

LEMMA RestoredStep ==
  ASSUME Restorable
  PROVE  TypeInv /\ RestoredIfFull /\ [Next]_vars => RestoredIfFull'
<1> SUFFICES ASSUME TypeInv, RestoredIfFull, [Next]_vars PROVE RestoredIfFull'
  OBVIOUS
<1>1. \A x \in ran' \ ran : RanNow(x)
  BY RanGrows
<1>2. \A x \in ran' \ ran : x.plan.full => x.restored
  BY <1>1, RunRestores
<1> QED
  BY <1>2 DEF RestoredIfFull

\* A plan that promises a full reversal and ran has left what was there before the
\* call (fs_write.ts:102, http_create.ts:33), if files can be read and what was created
\* is new.
THEOREM FullIsRestored ==
  ASSUME Restorable
  PROVE  Spec => []RestoredIfFull
<1>1. Init => RestoredIfFull
  BY DEF Init, RestoredIfFull
<1>2. TypeInv /\ RestoredIfFull /\ [Next]_vars => RestoredIfFull'
  BY RestoredStep
<1> QED
  BY <1>1, <1>2, TypeInit, TypeStep, PTL DEF Spec

=============================================================================
