--------------------------- MODULE ExecutorProofs ---------------------------
(***************************************************************************)
(* What holds of Executor for any set of runs, plans, keys and steps, any  *)
(* lease keeper, any ttl and waiting time, with crashes and lost requests. *)
(*                                                                         *)
(*   TInv   types and places; the id of a row is the id in hand            *)
(*   VInv   what a run has logged so far, by where it is                   *)
(*   GInv   without a lapse, the rows of the keys a run holds are its own  *)
(*   CInv   with a coordinator, so are the claims it has won               *)
(*   EInv   which claim stands behind a run that answers ok                *)
(*   OInv   without a lapse, every call of a step is one run's             *)
(*   LInv   without any fault, rows that succeeded took effect             *)
(*   NInv   without any fault, no run has a row it does not know of        *)
(*                                                                         *)
(* Each is inductive.  The actions are taken in two groups: the body of    *)
(* the loop over the steps (Body), which touches no lease and no claim, and *)
(* the actions around it, which write no attempt row and make no call.     *)
(***************************************************************************)
EXTENDS Executor, FiniteSetTheorems, SequenceTheorems, TLAPS

\* Any finite set of numbers can be listed in ascending order: an element's rank
\* is the number of elements up to it.
LEMMA Sortable ==
  ASSUME NEW T \in SUBSET Nat, IsFiniteSet(T)
  PROVE  \E s \in [1 .. Cardinality(T) -> T] :
           \A i, j \in DOMAIN s : i < j => s[i] < s[j]
<1> DEFINE n == Cardinality(T)
           Upto(x) == {y \in T : y <= x}
           rank == [x \in T |-> Cardinality(Upto(x))]
           s == [i \in 1 .. n |-> CHOOSE x \in T : rank[x] = i]
<1>1. n \in Nat
  BY FS_CardinalityType
<1>2. ASSUME NEW x \in T
      PROVE  IsFiniteSet(Upto(x)) /\ Cardinality(Upto(x)) \in 1 .. n
  <2>1. Upto(x) \in SUBSET T /\ x \in Upto(x)
    OBVIOUS
  <2>2. IsFiniteSet(Upto(x)) /\ Cardinality(Upto(x)) <= n
    BY <2>1, FS_Subset
  <2>3. Cardinality(Upto(x)) \in Nat /\ Cardinality(Upto(x)) # 0
    BY <2>1, <2>2, FS_CardinalityType, FS_EmptySet
  <2>4. QED
    BY <1>1, <2>2, <2>3
<1>3. ASSUME NEW x \in T, NEW y \in T, x < y
      PROVE  Cardinality(Upto(x)) < Cardinality(Upto(y))
  <2>0. x \in Nat /\ y \in Nat /\ \A z \in T : z \in Nat
    OBVIOUS
  <2>1. Upto(x) \in SUBSET Upto(y) /\ Upto(x) # Upto(y)
    <3>1. \A z \in T : z <= x => z <= y
      BY <1>3, <2>0
    <3>2. y \in Upto(y) /\ y \notin Upto(x)
      BY <1>3, <2>0
    <3>3. QED
      BY <3>1, <3>2
  <2>2. /\ IsFiniteSet(Upto(y))
        /\ Cardinality(Upto(x)) \in Nat /\ Cardinality(Upto(y)) \in Nat
    BY <1>1, <1>2
  <2>3. Cardinality(Upto(x)) <= Cardinality(Upto(y))
        /\ Cardinality(Upto(x)) # Cardinality(Upto(y))
    BY <2>1, <2>2, FS_Subset
  <2>4. QED
    BY <2>2, <2>3
<1>4. /\ rank \in [T -> 1 .. n]
      /\ \A x, y \in T : x < y => rank[x] < rank[y]
  BY <1>2, <1>3
<1> HIDE DEF rank
<1>5. rank \in Injection(T, 1 .. n)
  <2>1. ASSUME NEW x \in T, NEW y \in T, rank[x] = rank[y] PROVE x = y
    <3>1. ~(x < y) /\ ~(y < x) /\ rank[x] \in Nat
      BY <1>1, <1>4, <2>1
    <3>2. QED
      BY <3>1
  <2>2. QED
    BY <1>4, <2>1 DEF Injection, IsInjective
<1>6. rank \in Surjection(T, 1 .. n)
  <2>1. IsFiniteSet(1 .. n) /\ Cardinality(1 .. n) = n
    BY <1>1, FS_Interval
  <2>2. QED
    BY <1>5, <2>1, FS_Injection
<1>7. \A i \in 1 .. n : s[i] \in T /\ rank[s[i]] = i
  BY <1>6 DEF Surjection
<1>8. s \in [1 .. n -> T]
  BY <1>7
<1>9. ASSUME NEW i \in 1 .. n, NEW j \in 1 .. n, i < j PROVE s[i] < s[j]
  <2>1. s[i] \in T /\ s[j] \in T /\ rank[s[i]] = i /\ rank[s[j]] = j
    BY <1>7
  <2> HIDE DEF s
  <2>0. \A z \in T : z \in Nat
    OBVIOUS
  <2>2. i \in Nat /\ j \in Nat /\ s[i] \in Nat /\ s[j] \in Nat
    <3>1. i \in Nat /\ j \in Nat
      BY <1>1
    <3>2. s[i] \in T /\ s[j] \in T
      BY <2>1
    <3>3. QED
      BY <2>0, <3>1, <3>2
  <2>3. s[i] # s[j]
    BY <1>9, <2>1, <2>2
  <2>4. ~(s[j] < s[i])
    BY <1>4, <1>9, <2>1, <2>2
  <2>5. QED
    BY <2>2, <2>3, <2>4
<1>10. DOMAIN s = 1 .. n
  OBVIOUS
<1> HIDE DEF s
<1>11. QED
  BY <1>8, <1>9, <1>10

\* The keys of a run are the keys of its plan, each of them once.
LEMMA KeysEnumerate ==
  ASSUME NEW r \in Run
  PROVE  /\ Keys(r) \in Seq(Touches[PlanOf[r]])
         /\ Len(Keys(r)) \in Nat /\ Len(Keys(r)) <= Cardinality(Key)
         /\ DOMAIN Keys(r) = 1 .. Len(Keys(r))
         /\ \A n \in 1 .. Len(Keys(r)) :
              Keys(r)[n] \in Touches[PlanOf[r]] /\ Keys(r)[n] \in Key
         /\ \A m, n \in 1 .. Len(Keys(r)) : Keys(r)[m] = Keys(r)[n] => m = n
         /\ \A k \in Touches[PlanOf[r]] :
              \E n \in 1 .. Len(Keys(r)) : Keys(r)[n] = k
         /\ Keys(r) = <<>> <=> Len(Keys(r)) = 0
         /\ Touches[PlanOf[r]] = {} <=> Len(Keys(r)) = 0
         /\ Cardinality(Key) \in Nat
<1> DEFINE T == Touches[PlanOf[r]]
           n == Cardinality(T)
           s == Keys(r)
<1>1. /\ PlanOf[r] \in Plan /\ T \in SUBSET Key /\ T \subseteq Nat
      /\ IsFiniteSet(Key)
  BY ExecutorAssumption DEF Run
<1>2. /\ IsFiniteSet(T) /\ n \in Nat /\ n <= Cardinality(Key)
      /\ Cardinality(Key) \in Nat
  BY <1>1, FS_Subset, FS_CardinalityType
<1>3. /\ s \in [1 .. n -> T]
      /\ \A i, j \in DOMAIN s : i < j => s[i] < s[j]
  <2>1. \E t \in [1 .. n -> T] : \A i, j \in DOMAIN t : i < j => t[i] < t[j]
    BY <1>1, <1>2, Sortable
  <2>2. s = CHOOSE t \in [1 .. n -> T] :
              \A i, j \in DOMAIN t : i < j => t[i] < t[j]
    BY <1>1 DEF Keys, KeySeq
  <2>3. QED
    BY <2>1, <2>2
<1> HIDE DEF s
<1>4. s \in Seq(T) /\ Len(s) = n /\ DOMAIN s = 1 .. n
  BY <1>2, <1>3
<1>5. \A i, j \in 1 .. n : s[i] = s[j] => i = j
  <2> SUFFICES ASSUME NEW i \in 1 .. n, NEW j \in 1 .. n, s[i] = s[j]
               PROVE  i = j
    OBVIOUS
  <2>1. s[i] \in Nat /\ s[j] \in Nat
    BY <1>1, <1>3
  <2>2. ~(i < j) /\ ~(j < i)
    BY <1>2, <1>3, <1>4, <2>1
  <2>3. QED
    BY <1>2, <2>2
<1>6. \A k \in T : \E i \in 1 .. n : s[i] = k
  <2>1. s \in Injection(1 .. n, T)
    BY <1>3, <1>5 DEF Injection, IsInjective
  <2>2. Cardinality(1 .. n) = n
    BY <1>2, FS_Interval
  <2>3. s \in Surjection(1 .. n, T)
    BY <1>2, <2>1, <2>2, FS_Injection
  <2>4. QED
    BY <2>3 DEF Surjection
<1>7. s = <<>> <=> n = 0
  BY <1>2, <1>4, EmptySeq
<1>8. T = {} <=> n = 0
  BY <1>2, FS_EmptySet
<1>9. QED
  BY <1>1, <1>2, <1>3, <1>4, <1>5, <1>6, <1>7, <1>8 DEF s
-----------------------------------------------------------------------------
(* What the moves of a run leave in its record. *)

RunType ==
  [pc : PC, at : Step, pos : 0 .. Cardinality(Key) + 1,
   fence : [Key -> Fence], id : Run \cup {NoHolder},
   deadline : Nat, tries : 0 .. MaxTries,
   code : Codes \cup {"ok", "none", "refused"}]

RowType ==
  [state : {"none", "started", "succeeded", "failed", "in_doubt"},
   id : Run \cup {NoHolder}, code : Codes \cup {"none"}, spent : BOOLEAN]

CallType == [plan : Plan, step : Step, by : Run, id : Run, hit : BOOLEAN]

\* TypeOK, in terms of these sets.
LEMMA Typed == TypeOK <=>
  /\ StoreTypeOK
  /\ run \in [Run -> RunType]
  /\ attempt \in [Plan -> [Step -> RowType]]
  /\ calls \subseteq CallType
  /\ log \subseteq Run \X {"executed", "failed", "escalated"}
  /\ faults \subseteq {"lapse", "lost"}
BY DEF TypeOK, RunType, RowType, CallType

\* A step of one run.
Alone(r) == \A s \in Run : s # r => run'[s] = run[s]

\* The record keeps its place in the plan and what it holds.
Stays(c, d) == d.at = c.at /\ d.fence = c.fence

\* No move but these is made by more than one action.
LEMMA GotoMoves ==
  ASSUME run \in [Run -> RunType], NEW r \in Run, NEW pc \in PC, Goto(r, pc)
  PROVE  /\ run' \in [Run -> RunType] /\ Alone(r) /\ Stays(run[r], run'[r])
         /\ run'[r].pc = pc /\ run'[r].pos = 1
         /\ run'[r].id = run[r].id /\ run'[r].code = run[r].code
<1> DEFINE d == [run[r] EXCEPT !.pc = pc, !.pos = 1]
<1>1. 1 \in 0 .. Cardinality(Key) + 1
  BY KeysEnumerate
<1>2. run' = [run EXCEPT ![r] = d]
  BY DEF Goto
<1>3. d \in RunType
  BY <1>1 DEF RunType
<1>4. QED
  BY <1>2, <1>3 DEF Alone, Stays, RunType

LEMMA ThrowMoves ==
  ASSUME run \in [Run -> RunType], NEW r \in Run,
         NEW code \in Codes \cup {"none"}, Throw(r, code)
  PROVE  /\ run' \in [Run -> RunType] /\ Alone(r) /\ Stays(run[r], run'[r])
         /\ run'[r].pc = "fail" /\ run'[r].pos = run[r].pos
         /\ run'[r].id = run[r].id /\ run'[r].code = code
<1> DEFINE d == [run[r] EXCEPT !.pc = "fail", !.code = code]
<1>1. run' = [run EXCEPT ![r] = d]
  BY DEF Throw
<1>2. d \in RunType
  BY DEF RunType, PC
<1>3. /\ d.at = run[r].at /\ d.fence = run[r].fence /\ d.pc = "fail"
      /\ d.pos = run[r].pos /\ d.id = run[r].id /\ d.code = code
  BY DEF RunType
<1> HIDE DEF d
<1>4. run' \in [Run -> RunType] /\ run'[r] = d
  BY <1>1, <1>2
<1>5. QED
  BY <1>1, <1>3, <1>4 DEF Alone, Stays

LEMMA AdvanceMoves ==
  ASSUME run \in [Run -> RunType], NEW r \in Run,
         run[r].pos <= Len(Keys(r)), Advance(r)
  PROVE  /\ run' \in [Run -> RunType] /\ Alone(r) /\ Stays(run[r], run'[r])
         /\ run'[r].pc = run[r].pc /\ run'[r].pos = run[r].pos + 1
         /\ run'[r].id = run[r].id /\ run'[r].code = run[r].code
<1>1. Len(Keys(r)) \in Nat /\ Len(Keys(r)) <= Cardinality(Key)
      /\ Cardinality(Key) \in Nat
  BY KeysEnumerate
<1>2. QED
  BY <1>1 DEF Advance, RunType, Alone, Stays

LEMMA BackOutMoves ==
  ASSUME run \in [Run -> RunType], NEW r \in Run, NEW pc \in PC, BackOut(r, pc)
  PROVE  /\ run' \in [Run -> RunType] /\ Alone(r) /\ Stays(run[r], run'[r])
         /\ run'[r].pc = pc /\ run'[r].pos = Len(Keys(r))
         /\ run'[r].id = run[r].id /\ run'[r].code = run[r].code
<1>1. Len(Keys(r)) \in Nat /\ Len(Keys(r)) <= Cardinality(Key)
      /\ Cardinality(Key) \in Nat
  BY KeysEnumerate
<1> DEFINE n == Len(Keys(r))
           d == [run[r] EXCEPT !.pc = pc, !.pos = n]
<1>2. run' = [run EXCEPT ![r] = d]
  BY DEF BackOut
<1> HIDE DEF n
<1>3. n \in 0 .. Cardinality(Key) + 1
  BY <1>1 DEF n
<1>4. d \in RunType
  BY <1>3 DEF RunType
<1>5. d.pos = n /\ d.pc = pc /\ d.id = run[r].id /\ d.code = run[r].code
      /\ Stays(run[r], d)
  BY DEF RunType, Stays
<1> HIDE DEF d
<1>6. QED
  BY <1>2, <1>4, <1>5 DEF Alone, n

LEMMA NextStepMoves ==
  ASSUME run \in [Run -> RunType], NEW r \in Run, NextStep(r)
  PROVE  /\ run' \in [Run -> RunType] /\ Alone(r)
         /\ run'[r].fence = run[r].fence
         /\ run'[r].id = run[r].id /\ run'[r].code = run[r].code
         /\ \/ /\ run[r].at < NSteps
               /\ run'[r].pc = "append" /\ run'[r].at = run[r].at + 1
            \/ /\ run[r].at = NSteps
               /\ run'[r].pc = "post" /\ run'[r].at = NSteps
<1> DEFINE pc == IF run[r].at < NSteps THEN "append" ELSE "post"
           at == IF run[r].at < NSteps THEN run[r].at + 1 ELSE run[r].at
           d == [run[r] EXCEPT !.pc = pc, !.at = at]
<1>1. run' = [run EXCEPT ![r] = d]
  BY DEF NextStep
<1>2. pc \in PC /\ at \in Step /\ run[r].at \in Step
  BY ExecutorAssumption DEF PC, Step, RunType
<1>3. d \in RunType
  BY <1>2 DEF RunType
<1>4. d.pc = pc /\ d.at = at /\ d.fence = run[r].fence /\ d.id = run[r].id
      /\ d.code = run[r].code
  BY DEF RunType
<1>5. \/ run[r].at < NSteps /\ pc = "append" /\ at = run[r].at + 1
      \/ run[r].at = NSteps /\ pc = "post" /\ at = NSteps
  BY <1>2, ExecutorAssumption DEF Step
<1> HIDE DEF d, pc, at
<1>6. QED
  BY <1>1, <1>3, <1>4, <1>5 DEF Alone

-----------------------------------------------------------------------------
(* Types.  The loops over the keys stay within them.                         *)

Placed(c, r) ==
  /\ c.pc = "idle" => c.pos = 1
  /\ c.pc \in {"acquire", "intent", "check"} =>
       c.pos >= 1 /\ c.pos <= Len(Keys(r)) + 1
  /\ c.pc \in {"unwind", "release"} => c.pos <= Len(Keys(r))
  /\ c.pc = "record" => c.code \in {"ok", "VR5001", "VR5006"}

\* While a run works on a step it holds the id of the step's row, w.
InStep == {"started", "wait", "doubt", "probe", "check", "run", "record"}
HoldsId(c, w) == c.pc \in InStep => w.state # "none" /\ c.id = w.id

\* A row has the id of a run, and a failure one of the two codes executeStep throws.
RowOk(w) ==
  w.state # "none" =>
    /\ w.id \in Run
    /\ w.state = "failed" => w.code \in {"VR5001", "VR5006"}

\* A row that was appended stays, with its id.
SameIds(a, b) == \A p \in Plan, i \in Step :
  a[p][i].state # "none" => b[p][i].state # "none" /\ b[p][i].id = a[p][i].id

CallIds(cs, a) == \A c \in cs :
  a[c.plan][c.step].state # "none" /\ c.id = a[c.plan][c.step].id

TInv ==
  /\ TypeOK
  /\ \A r \in Run : Placed(run[r], r) /\ HoldsId(run[r], Row(r))
  /\ \A p \in Plan, i \in Step : RowOk(attempt[p][i])
  /\ CallIds(calls, attempt)

\* The key in hand is a key.
LEMMA KeyInHand ==
  ASSUME TInv, NEW r \in Run,
         \/ /\ run[r].pc \in {"acquire", "intent", "check"}
            /\ run[r].pos <= Len(Keys(r))
         \/ /\ run[r].pc \in {"unwind", "release"} /\ run[r].pos > 0
  PROVE  /\ KeyAt(r) \in Key /\ run[r].pos \in 1 .. Len(Keys(r))
         /\ KeyAt(r) = Keys(r)[run[r].pos]
<1>1. run[r].pos \in 1 .. Len(Keys(r))
  BY Typed, KeysEnumerate DEF TInv, Placed, RunType
<1>2. QED
  BY <1>1, KeysEnumerate DEF KeyAt

\* So is the first key of a run that has any.
LEMMA FirstKey ==
  ASSUME NEW r \in Run, Keys(r) # <<>>
  PROVE  Keys(r)[1] \in Key /\ 1 \in 1 .. Len(Keys(r))
<1>1. 1 \in 1 .. Len(Keys(r))
  BY KeysEnumerate
<1>2. QED
  BY <1>1, KeysEnumerate

\* What acquire does to the lease table.
LEMMA Acquired ==
  ASSUME StoreTypeOK, NEW h \in Holder, NEW k \in Key, AcquireLease(h, k)
  PROVE  /\ StoreTypeOK' /\ UNCHANGED <<now, claim>>
         /\ PriorFence(k) + 1 \in Fence /\ PriorFence(k) + 1 > 0
         /\ lease'[k] = [holder |-> h, fence |-> PriorFence(k) + 1,
                         expires |-> now + Ttl]
         /\ \A j \in Key : j # k => \/ lease'[j] = lease[j]
                                    \/ lease[j].expires < now /\ lease'[j] = NoLease
<1> DEFINE f == PriorFence(k) + 1
<1>1. NoLease \in Lease
  BY LeaseAssumption DEF NoLease, Lease, Fence
<1>2. Swept \in [Key -> Lease]
  BY <1>1 DEF Swept, StoreTypeOK
<1>3. PriorFence(k) \in Fence
  BY <1>2 DEF PriorFence, StoreTypeOK, Lease
<1>4. f \in Fence /\ f > 0
  BY <1>3, LeaseAssumption DEF AcquireLease, Fence
<1>5. [holder |-> h, fence |-> f, expires |-> now + Ttl] \in Lease
  BY <1>4, LeaseAssumption DEF Lease, StoreTypeOK
<1>6. /\ lease' = [Swept EXCEPT ![k] = [holder |-> h, fence |-> f,
                                        expires |-> now + Ttl]]
      /\ highWater' = highWater \/ highWater' = [highWater EXCEPT ![k] = f]
      /\ UNCHANGED <<now, claim>>
  BY DEF AcquireLease, GrantLease
<1> HIDE DEF f
<1>7. StoreTypeOK'
  BY <1>2, <1>4, <1>5, <1>6 DEF StoreTypeOK
<1>8. \A j \in Key : Swept[j] = lease[j]
                    \/ (lease[j].expires < now /\ Swept[j] = NoLease)
  BY DEF Swept
<1>9. /\ lease'[k] = [holder |-> h, fence |-> f, expires |-> now + Ttl]
      /\ \A j \in Key : j # k => lease'[j] = Swept[j]
  BY <1>2, <1>6
<1>10. QED
  BY <1>4, <1>6, <1>7, <1>8, <1>9 DEF f

\* release.
LEMMA Released ==
  ASSUME StoreTypeOK, NEW h \in Holder, NEW k \in Key, NEW f \in Fence,
         ReleaseLease(h, k, f)
  PROVE  /\ StoreTypeOK' /\ UNCHANGED <<now, highWater, claim>>
         /\ lease[k].holder = h /\ lease[k].fence = f
         /\ lease' = [lease EXCEPT ![k] = NoLease]
<1>1. NoLease \in Lease
  BY LeaseAssumption DEF NoLease, Lease, Fence
<1>2. QED
  BY <1>1 DEF ReleaseLease, Matches, StoreTypeOK

\* A claim that wins.
LEMMA Won ==
  ASSUME StoreTypeOK, NEW h \in Holder, NEW k \in Key, NEW f \in Fence,
         NEW commit \in BOOLEAN, WinClaim(h, k, f, commit)
  PROVE  /\ StoreTypeOK' /\ UNCHANGED <<now, lease, highWater>>
         /\ ~Loses(h, k, f)
         /\ \A j \in Key : j # k => claim'[j] = claim[j]
         /\ claim'[k].holder = h /\ claim'[k].fence = f
         /\ commit => claim'[k].state = "committed"
<1> DEFINE row == [holder |-> h, fence |-> f,
                   state |-> IF commit \/ claim[k].state = "committed"
                             THEN "committed" ELSE "claimed"]
<1>1. row \in Claim
  BY DEF Claim
<1>2. claim' = [claim EXCEPT ![k] = row] /\ UNCHANGED <<now, lease, highWater>>
      /\ ~Loses(h, k, f)
  BY DEF WinClaim
<1>3. row.holder = h /\ row.fence = f /\ (commit => row.state = "committed")
  OBVIOUS
<1> HIDE DEF row
<1>4. QED
  BY <1>1, <1>2, <1>3 DEF StoreTypeOK

\* The heartbeat moves expiry dates, of rows of the run only.
LEMMA Renewed ==
  ASSUME TypeOK, NEW r \in Run, Heartbeat(r)
  PROVE  /\ StoreTypeOK'
         /\ UNCHANGED <<now, highWater, claim, run, attempt, calls, log, faults>>
         /\ \A k \in Key :
              \/ lease'[k] = lease[k]
              \/ /\ lease[k].holder = r
                 /\ lease'[k] = [lease[k] EXCEPT !.expires = now + Ttl]
<1>1. StoreTypeOK
  BY DEF TypeOK
<1>2. \A k \in Key :
        \/ lease'[k] = lease[k]
        \/ /\ lease[k].holder = r
           /\ lease'[k] = [lease[k] EXCEPT !.expires = now + Ttl]
  <2> SUFFICES ASSUME NEW k \in Key, lease'[k] # lease[k]
               PROVE  /\ lease[k].holder = r
                      /\ lease'[k] = [lease[k] EXCEPT !.expires = now + Ttl]
    OBVIOUS
  <2>1. PICK n \in DOMAIN Keys(r) :
          (\A m \in 1 .. n : Owns(r, Keys(r)[m])) /\ Keys(r)[n] = k
    BY DEF Heartbeat
  <2>2. n \in 1 .. n
    BY <2>1, KeysEnumerate
  <2>3. lease[k].holder = r
    BY <2>1, <2>2 DEF Owns, Matches
  <2>4. QED
    BY <2>3 DEF Heartbeat
<1>3. \A k \in Key : lease'[k] \in Lease
  <2> SUFFICES ASSUME NEW k \in Key PROVE lease'[k] \in Lease
    OBVIOUS
  <2>1. lease[k] \in Lease /\ now + Ttl \in Nat
    BY <1>1, LeaseAssumption DEF StoreTypeOK
  <2>2. [lease[k] EXCEPT !.expires = now + Ttl] \in Lease
    BY <2>1 DEF Lease
  <2>3. QED
    BY <1>2, <2>1, <2>2
<1>4. lease' \in [Key -> Lease]
  BY <1>3 DEF Heartbeat
<1>5. QED
  BY <1>1, <1>2, <1>4 DEF StoreTypeOK, Heartbeat

\* What the base invariant says of the run at hand.
LEMMA Base ==
  ASSUME TInv, NEW r \in Run
  PROVE  /\ TypeOK /\ StoreTypeOK /\ run \in [Run -> RunType] /\ run[r] \in RunType
         /\ attempt \in [Plan -> [Step -> RowType]] /\ calls \subseteq CallType
         /\ Placed(run[r], r) /\ HoldsId(run[r], Row(r))
         /\ PlanOf[r] \in Plan /\ run[r].at \in Step
         /\ Row(r) \in RowType /\ RowOk(Row(r)) /\ Row(r) = attempt[PlanOf[r]][run[r].at]
<1>1. /\ TypeOK /\ StoreTypeOK /\ run \in [Run -> RunType] /\ run[r] \in RunType
      /\ attempt \in [Plan -> [Step -> RowType]] /\ calls \subseteq CallType
  BY Typed DEF TInv
<1>2. PlanOf[r] \in Plan
  BY ExecutorAssumption DEF Run
<1>3. run[r].at \in Step
  BY <1>1 DEF RunType
<1>4. QED
  BY <1>1, <1>2, <1>3 DEF TInv, Row

\* A step of one run that writes no row and makes no call.
LEMMA QuietStep ==
  ASSUME TInv, NEW r \in Run, StoreTypeOK',
         run' \in [Run -> RunType], Alone(r), UNCHANGED <<attempt, calls>>,
         Placed(run'[r], r), HoldsId(run'[r], attempt[PlanOf[r]][run'[r].at]),
         log' \subseteq Run \X {"executed", "failed", "escalated"},
         faults' \subseteq {"lapse", "lost"}
  PROVE  TInv'
<1>1. TypeOK'
  BY Typed DEF TInv, TypeOK, RunType
<1>2. \A s \in Run : Placed(run'[s], s) /\ HoldsId(run'[s], attempt[PlanOf[s]][run'[s].at])
  BY DEF TInv, Alone, Row
<1>3. QED
  BY <1>1, <1>2 DEF TInv, Row

\* A step of one run that writes the row it works on.
LEMMA RowStep ==
  ASSUME TInv, NEW r \in Run, UNCHANGED <<storeVars, calls>>,
         run' \in [Run -> RunType], Alone(r),
         NEW id \in Run, Row(r).state = "none" \/ id = Row(r).id,
         NEW state \in {"started", "succeeded", "failed", "in_doubt"},
         NEW code \in Codes \cup {"none"}, NEW spent \in BOOLEAN,
         state = "failed" => code \in {"VR5001", "VR5006"},
         SetRow(r, state, id, code, spent),
         Placed(run'[r], r), HoldsId(run'[r], attempt'[PlanOf[r]][run'[r].at]),
         log' \subseteq Run \X {"executed", "failed", "escalated"},
         faults' \subseteq {"lapse", "lost"}
  PROVE  TInv' /\ SameIds(attempt, attempt')
<1>0. /\ attempt \in [Plan -> [Step -> RowType]] /\ run \in [Run -> RunType]
      /\ run[r].at \in Step /\ PlanOf[r] \in Plan /\ calls \subseteq CallType
      /\ Row(r) = attempt[PlanOf[r]][run[r].at]
  BY Base
<1>1. /\ attempt' \in [Plan -> [Step -> RowType]]
      /\ \A p \in Plan, i \in Step : (p # PlanOf[r] \/ i # run[r].at) =>
           attempt'[p][i] = attempt[p][i]
      /\ attempt'[PlanOf[r]][run[r].at] =
           [state |-> state, id |-> id, code |-> code, spent |-> spent]
  <2> DEFINE row == [state |-> state, id |-> id, code |-> code, spent |-> spent]
  <2>1. row \in RowType
    BY DEF RowType
  <2>2. attempt' = [attempt EXCEPT ![PlanOf[r]][run[r].at] = row]
    BY DEF SetRow
  <2> HIDE DEF row
  <2>3. /\ attempt' \in [Plan -> [Step -> RowType]]
        /\ \A p \in Plan, i \in Step : (p # PlanOf[r] \/ i # run[r].at) =>
             attempt'[p][i] = attempt[p][i]
        /\ attempt'[PlanOf[r]][run[r].at] = row
    BY <1>0, <2>1, <2>2
  <2>4. QED
    BY <2>3 DEF row
<1>2. TypeOK'
  BY <1>1, Typed DEF TInv, TypeOK, RunType, RowType, StoreTypeOK, storeVars
<1>3. SameIds(attempt, attempt')
  BY <1>0, <1>1 DEF SameIds
<1>4. \A p \in Plan, i \in Step : RowOk(attempt'[p][i])
  BY <1>0, <1>1 DEF TInv, RowOk
<1>5. CallIds(calls, attempt')
  BY <1>0, <1>3 DEF TInv, CallIds, SameIds, CallType
<1>6. \A s \in Run : Placed(run'[s], s) /\ HoldsId(run'[s], attempt'[PlanOf[s]][run'[s].at])
  <2> SUFFICES ASSUME NEW s \in Run, s # r
               PROVE  Placed(run'[s], s) /\ HoldsId(run'[s], attempt'[PlanOf[s]][run'[s].at])
    OBVIOUS
  <2>1. run'[s] = run[s] /\ PlanOf[s] \in Plan /\ run[s].at \in Step
    BY Base DEF Alone
  <2>2. Placed(run[s], s) /\ HoldsId(run[s], attempt[PlanOf[s]][run[s].at])
    BY DEF TInv, Row
  <2>3. QED
    BY <1>3, <2>1, <2>2 DEF SameIds, HoldsId
<1>7. QED
  BY <1>2, <1>3, <1>4, <1>5, <1>6 DEF TInv, Row

\* acquireAll and releaseAll.
LEMMA LoopTyped ==
  ASSUME TInv, NEW r \in Run,
         \/ Start(r) \/ Refuse(r) \/ Acquire(r) \/ Enter(r) \/ AcquireRefused(r)
         \/ ReleaseNext(r) \/ Unwound(r) \/ Finish(r) \/ Crash(r)
  PROVE  TInv' /\ UNCHANGED <<attempt, calls>>
<1> USE Base DEF At
<1>0. /\ StoreTypeOK /\ run \in [Run -> RunType] /\ run[r] \in RunType
      /\ Placed(run[r], r) /\ PlanOf[r] \in Plan /\ run[r].at \in Step
      /\ log \subseteq Run \X {"executed", "failed", "escalated"}
      /\ faults \subseteq {"lapse", "lost"} /\ UNCHANGED <<attempt, calls>>
      /\ Len(Keys(r)) \in Nat
  <2>1. UNCHANGED <<attempt, calls>>
    BY DEF Start, Refuse, Acquire, Enter, AcquireRefused, ReleaseNext, Unwound,
           Finish, Crash
  <2>2. QED
    BY <2>1, KeysEnumerate, Typed DEF TInv
<1>1. CASE Start(r)
  <2>1. StoreTypeOK' /\ log' = log /\ faults' = faults
    BY <1>0, <1>1 DEF Start, storeVars, StoreTypeOK
  <2>2. /\ run' \in [Run -> RunType] /\ Alone(r)
        /\ run'[r].pc = "acquire" /\ run'[r].pos = run[r].pos
    <3>1. now + Wait \in Nat
      BY <1>0, ExecutorAssumption, LeaseAssumption DEF StoreTypeOK
    <3>2. QED
      BY <1>0, <1>1, <3>1 DEF Start, RunType, PC, Alone
  <2>3. Placed(run'[r], r) /\ HoldsId(run'[r], attempt[PlanOf[r]][run'[r].at])
    BY <1>0, <1>1, <2>2 DEF Start, Placed, HoldsId, InStep
  <2>4. QED
    BY <1>0, <2>1, <2>2, <2>3, QuietStep
<1>2. CASE Refuse(r)
  <2>1. StoreTypeOK' /\ log' \subseteq Run \X {"executed", "failed", "escalated"}
        /\ faults' = faults
    BY <1>0, <1>2 DEF Refuse, Write, storeVars, StoreTypeOK
  <2>2. /\ run' \in [Run -> RunType] /\ Alone(r) /\ run'[r].pc = "done"
    BY <1>0, <1>2 DEF Refuse, RunType, PC, Alone
  <2>3. Placed(run'[r], r) /\ HoldsId(run'[r], attempt[PlanOf[r]][run'[r].at])
    BY <2>2 DEF Placed, HoldsId, InStep
  <2>4. QED
    BY <1>0, <2>1, <2>2, <2>3, QuietStep
<1>3. CASE Acquire(r)
  <2>1. KeyAt(r) \in Key /\ run[r].pos \in 1 .. Len(Keys(r))
    BY <1>3, KeyInHand DEF Acquire
  <2>2. StoreTypeOK' /\ PriorFence(KeyAt(r)) + 1 \in Fence
    BY <1>0, <1>3, <2>1, Acquired DEF Acquire, Run
  <2>3. run' \in [Run -> RunType] /\ Alone(r) /\ run'[r].pc = "acquire"
        /\ run'[r].pos = run[r].pos + 1
    <3> DEFINE f == PriorFence(KeyAt(r)) + 1
               k == KeyAt(r)
               d == [run[r] EXCEPT !.pos = @ + 1, !.fence[k] = f]
    <3>1. run' = [run EXCEPT ![r] = d]
      BY <1>0, <1>3 DEF Acquire
    <3>2. f \in Fence /\ k \in Key
      BY <2>1, <2>2
    <3>3. run[r].pc = "acquire"
      BY <1>3 DEF Acquire
    <3>4. run[r].pos + 1 \in 0 .. Cardinality(Key) + 1
      BY <2>1, KeysEnumerate
    <3> HIDE DEF f, k
    <3>5. d \in RunType /\ d.pc = "acquire" /\ d.pos = run[r].pos + 1
      BY <1>0, <3>2, <3>3, <3>4 DEF RunType
    <3> HIDE DEF d
    <3>6. QED
      BY <1>0, <3>1, <3>5 DEF Alone
  <2>4. Placed(run'[r], r) /\ HoldsId(run'[r], attempt[PlanOf[r]][run'[r].at])
    BY <1>0, <2>1, <2>3 DEF Placed, HoldsId, InStep
  <2>5. QED
    BY <1>0, <1>3, <2>2, <2>3, <2>4, QuietStep DEF Acquire
<1>4. CASE Enter(r)
  <2>1. StoreTypeOK' /\ log' = log /\ faults' = faults
    BY <1>0, <1>4 DEF Enter, storeVars, StoreTypeOK
  <2>2. run' \in [Run -> RunType] /\ Alone(r) /\ run'[r].pos = 1
        /\ run'[r].pc \in {"intent", "append"}
    BY <1>0, <1>4, GotoMoves DEF Enter, PC
  <2>3. Placed(run'[r], r) /\ HoldsId(run'[r], attempt[PlanOf[r]][run'[r].at])
    BY <1>0, <2>2 DEF Placed, HoldsId, InStep
  <2>4. QED
    BY <1>0, <2>1, <2>2, <2>3, QuietStep
<1>5. CASE AcquireRefused(r)
  <2>1. KeyAt(r) \in Key
    BY <1>5, KeyInHand DEF AcquireRefused
  <2>2. StoreTypeOK' /\ log' = log /\ faults' \subseteq {"lapse", "lost"}
    <3>1. CASE UNCHANGED storeVars
      BY <1>0, <1>5, <3>1 DEF AcquireRefused, Lose, storeVars, StoreTypeOK
    <3>2. CASE AcquireLease(r, KeyAt(r))
      BY <1>0, <1>5, <2>1, <3>2, Acquired DEF AcquireRefused, Lose, Run
    <3>3. QED
      BY <1>5, <3>1, <3>2 DEF AcquireRefused
  <2>3. run' \in [Run -> RunType] /\ Alone(r) /\ run'[r].pos = Len(Keys(r))
        /\ run'[r].pc = "unwind"
    BY <1>0, <1>5, BackOutMoves DEF AcquireRefused, PC
  <2>4. Placed(run'[r], r) /\ HoldsId(run'[r], attempt[PlanOf[r]][run'[r].at])
    BY <1>0, <2>3 DEF Placed, HoldsId, InStep
  <2>5. QED
    BY <1>0, <2>2, <2>3, <2>4, QuietStep
<1>6. CASE ReleaseNext(r)
  <2>1. KeyAt(r) \in Key /\ run[r].pos \in 1 .. Len(Keys(r))
        /\ run[r].fence[KeyAt(r)] \in Fence
    BY <1>0, <1>6, KeyInHand DEF ReleaseNext, RunType
  <2>2. StoreTypeOK' /\ log' = log /\ faults' \subseteq {"lapse", "lost"}
    <3>1. CASE UNCHANGED storeVars
      BY <1>0, <1>6, <3>1 DEF ReleaseNext, Lose, storeVars, StoreTypeOK
    <3>2. CASE ReleaseLease(r, KeyAt(r), run[r].fence[KeyAt(r)])
      BY <1>0, <1>6, <2>1, <3>2, Released DEF ReleaseNext, Lose, Run
    <3>3. QED
      BY <1>6, <3>1, <3>2 DEF ReleaseNext
  <2>3. run' = [run EXCEPT ![r].pos = 0] \/ run' = [run EXCEPT ![r].pos = @ - 1]
    BY <1>6 DEF ReleaseNext
  <2>4. run' \in [Run -> RunType] /\ Alone(r)
        /\ run'[r].pc = run[r].pc /\ run'[r].pos <= Len(Keys(r))
    <3>1. ASSUME NEW p \in 0 .. Len(Keys(r)), run' = [run EXCEPT ![r].pos = p]
          PROVE  run' \in [Run -> RunType] /\ Alone(r)
                 /\ run'[r].pc = run[r].pc /\ run'[r].pos = p
      <4>1. p \in 0 .. Cardinality(Key) + 1
        BY KeysEnumerate
      <4>2. QED
        BY <1>0, <3>1, <4>1 DEF RunType, Alone
    <3>2. 0 \in 0 .. Len(Keys(r)) /\ run[r].pos - 1 \in 0 .. Len(Keys(r))
      BY <1>0, <2>1
    <3>3. QED
      BY <1>0, <2>3, <3>1, <3>2
  <2>5. Placed(run'[r], r) /\ HoldsId(run'[r], attempt[PlanOf[r]][run'[r].at])
    BY <1>6, <2>4 DEF ReleaseNext, Placed, HoldsId, InStep
  <2>6. QED
    BY <1>0, <2>2, <2>4, <2>5, QuietStep
<1>7. CASE Unwound(r)
  <2>1. StoreTypeOK' /\ log' \subseteq Run \X {"executed", "failed", "escalated"}
        /\ faults' = faults
    BY <1>0, <1>7 DEF Unwound, Write, storeVars, StoreTypeOK
  <2>2. [k \in Key |-> 0] \in [Key -> Fence]
    BY LeaseAssumption DEF Fence
  <2>3. run' \in [Run -> RunType] /\ Alone(r) /\ run'[r].pc \in {"asleep", "done"}
    BY <1>0, <1>7, <2>2 DEF Unwound, RunType, PC, Codes, Alone
  <2>4. Placed(run'[r], r) /\ HoldsId(run'[r], attempt[PlanOf[r]][run'[r].at])
    BY <2>3 DEF Placed, HoldsId, InStep
  <2>5. QED
    BY <1>0, <2>1, <2>3, <2>4, QuietStep
<1>8. CASE Finish(r) \/ Crash(r)
  <2>1. StoreTypeOK' /\ log' = log /\ faults' = faults
    BY <1>0, <1>8 DEF Finish, Crash, storeVars, StoreTypeOK
  <2>2. run' \in [Run -> RunType] /\ Alone(r) /\ run'[r].pc \in {"done", "crashed"}
    <3>1. ASSUME NEW pc \in {"done", "crashed"}, run' = [run EXCEPT ![r].pc = pc]
          PROVE  run' \in [Run -> RunType] /\ Alone(r) /\ run'[r].pc = pc
      BY <1>0, <3>1 DEF RunType, PC, Alone
    <3>2. QED
      BY <1>8, <3>1 DEF Finish, Crash
  <2>3. Placed(run'[r], r) /\ HoldsId(run'[r], attempt[PlanOf[r]][run'[r].at])
    BY <2>2 DEF Placed, HoldsId, InStep
  <2>4. QED
    BY <1>0, <2>1, <2>2, <2>3, QuietStep
<1>9. QED
  BY <1>0, <1>1, <1>2, <1>3, <1>4, <1>5, <1>6, <1>7, <1>8

\* A step that throws, or goes on, leaves the run well placed.
LEMMA ThrowTyped ==
  ASSUME TInv, NEW r \in Run, NEW code \in Codes \cup {"none"}, Throw(r, code)
  PROVE  /\ run' \in [Run -> RunType] /\ Alone(r) /\ Placed(run'[r], r)
         /\ \A w : HoldsId(run'[r], w)
<1>1. run' \in [Run -> RunType] /\ Alone(r) /\ run'[r].pc = "fail"
  BY Base, ThrowMoves
<1>2. QED
  BY <1>1 DEF Placed, HoldsId, InStep

LEMMA NextTyped ==
  ASSUME TInv, NEW r \in Run, NextStep(r)
  PROVE  /\ run' \in [Run -> RunType] /\ Alone(r) /\ Placed(run'[r], r)
         /\ \A w : HoldsId(run'[r], w)
<1>1. run' \in [Run -> RunType] /\ Alone(r) /\ run'[r].pc \in {"append", "post"}
  BY Base, NextStepMoves
<1>2. QED
  BY <1>1 DEF Placed, HoldsId, InStep

LEMMA GotoTyped ==
  ASSUME TInv, NEW r \in Run, NEW pc \in PC \ {"record"}, Goto(r, pc),
         pc \in InStep => run[r].pc \in InStep
  PROVE  /\ run' \in [Run -> RunType] /\ Alone(r)
         /\ pc \in {"append", "intent", "check", "doubt", "probe"} =>
              Placed(run'[r], r)
         /\ HoldsId(run'[r], attempt[PlanOf[r]][run'[r].at])
<1>1. run' \in [Run -> RunType] /\ Alone(r) /\ run'[r].pc = pc
      /\ run'[r].pos = 1 /\ run'[r].at = run[r].at /\ run'[r].id = run[r].id
  BY Base, GotoMoves DEF Stays
<1>2. HoldsId(run[r], attempt[PlanOf[r]][run[r].at])
  BY Base
<1>3. QED
  BY <1>1, <1>2, KeysEnumerate DEF Placed, HoldsId

LEMMA BackOutTyped ==
  ASSUME TInv, NEW r \in Run, BackOut(r, "release")
  PROVE  /\ run' \in [Run -> RunType] /\ Alone(r) /\ Placed(run'[r], r)
         /\ \A w : HoldsId(run'[r], w)
<1>1. run' \in [Run -> RunType] /\ Alone(r) /\ run'[r].pc = "release"
      /\ run'[r].pos = Len(Keys(r))
  BY Base, BackOutMoves DEF PC
<1>2. QED
  BY <1>1, KeysEnumerate DEF Placed, HoldsId, InStep

\* The claims, and the end of a run.
LEMMA ClaimTyped ==
  ASSUME TInv, NEW r \in Run,
         Intent(r) \/ IntentLost(r) \/ Post(r) \/ Commit(r) \/ Fail(r)
  PROVE  TInv' /\ UNCHANGED <<attempt, calls>>
<1> USE DEF At
<1>0. /\ StoreTypeOK /\ run \in [Run -> RunType] /\ run[r] \in RunType
      /\ Placed(run[r], r) /\ PlanOf[r] \in Plan /\ run[r].at \in Step
      /\ log \subseteq Run \X {"executed", "failed", "escalated"}
      /\ faults \subseteq {"lapse", "lost"} /\ UNCHANGED <<attempt, calls>>
      /\ Len(Keys(r)) \in Nat /\ {"VR5005", "VR5002"} \subseteq Codes
  <2>1. UNCHANGED <<attempt, calls>>
    BY DEF Intent, IntentLost, Post, Commit, Fail
  <2>2. QED
    BY <2>1, KeysEnumerate, Base, Typed DEF TInv, Codes
<1>1. CASE Intent(r)
  <2>1. CASE /\ run[r].pos <= Len(Keys(r))
             /\ WinClaim(r, KeyAt(r), run[r].fence[KeyAt(r)], FALSE)
             /\ Advance(r)
    <3>1. KeyAt(r) \in Key /\ run[r].fence[KeyAt(r)] \in Fence /\ run[r].pos >= 1
      BY <1>0, <1>1, <2>1, KeyInHand DEF Intent, RunType
    <3>2. StoreTypeOK'
      BY <1>0, <2>1, <3>1, Won DEF Run
    <3>3. run' \in [Run -> RunType] /\ Alone(r) /\ run'[r].pc = "intent"
          /\ run'[r].pos = run[r].pos + 1
      BY <1>0, <1>1, <2>1, AdvanceMoves DEF Intent
    <3>4. Placed(run'[r], r) /\ HoldsId(run'[r], attempt[PlanOf[r]][run'[r].at])
      BY <1>0, <2>1, <3>1, <3>3 DEF Placed, HoldsId, InStep, RunType
    <3>5. QED
      BY <1>0, <1>1, <3>2, <3>3, <3>4, QuietStep DEF Intent
  <2>2. CASE Goto(r, "append") /\ UNCHANGED storeVars
    <3>1. StoreTypeOK'
      BY <1>0, <2>2 DEF storeVars, StoreTypeOK
    <3>2. run' \in [Run -> RunType] /\ Alone(r) /\ Placed(run'[r], r)
          /\ HoldsId(run'[r], attempt[PlanOf[r]][run'[r].at])
      BY <2>2, GotoTyped DEF PC, InStep
    <3>3. QED
      BY <1>0, <1>1, <3>1, <3>2, QuietStep DEF Intent
  <2>3. QED
    BY <1>1, <2>1, <2>2 DEF Intent
<1>2. CASE IntentLost(r)
  <2>1. KeyAt(r) \in Key /\ run[r].fence[KeyAt(r)] \in Fence
    BY <1>0, <1>2, KeyInHand DEF IntentLost, RunType
  <2>2. StoreTypeOK'
    <3>1. CASE UNCHANGED storeVars
      BY <1>0, <3>1 DEF storeVars, StoreTypeOK
    <3>2. CASE WinClaim(r, KeyAt(r), run[r].fence[KeyAt(r)], FALSE)
      BY <1>0, <2>1, <3>2, Won DEF Run
    <3>3. QED
      BY <1>2, <3>1, <3>2 DEF IntentLost
  <2>3. log' \subseteq Run \X {"executed", "failed", "escalated"}
        /\ faults' \subseteq {"lapse", "lost"}
    <3>1. faults' = faults \/ faults' = faults \cup {"lost"}
      BY <1>2 DEF IntentLost, Lose
    <3>2. log' = log \/ log' = log \cup {<<r, "escalated">>}
      BY <1>2 DEF IntentLost, Write
    <3>3. <<r, "escalated">> \in Run \X {"executed", "failed", "escalated"}
      OBVIOUS
    <3>4. log' \subseteq Run \X {"executed", "failed", "escalated"}
      BY <1>0, <3>2, <3>3
    <3>5. QED
      BY <1>0, <3>1, <3>4
  <2>4. Throw(r, "VR5005")
    BY <1>2 DEF IntentLost
  <2>5. QED
    BY <1>0, <2>2, <2>3, <2>4, ThrowTyped, QuietStep
<1>3. CASE Post(r)
  <2>1. StoreTypeOK' /\ log' \subseteq Run \X {"executed", "failed", "escalated"}
        /\ faults' = faults
    BY <1>0, <1>3 DEF Post, Write, storeVars, StoreTypeOK
  <2>2. CASE Throw(r, "VR5002")
    BY <1>0, <2>1, <2>2, ThrowTyped, QuietStep
  <2>3. CASE run' = [run EXCEPT ![r].pc = "commit", ![r].code = "ok"]
    <3>1. run' \in [Run -> RunType] /\ Alone(r) /\ run'[r].pc = "commit"
      BY <1>0, <2>3 DEF RunType, PC, Alone
    <3>2. Placed(run'[r], r) /\ HoldsId(run'[r], attempt[PlanOf[r]][run'[r].at])
      BY <3>1 DEF Placed, HoldsId, InStep
    <3>3. QED
      BY <1>0, <2>1, <3>1, <3>2, QuietStep
  <2>4. QED
    BY <1>3, <2>2, <2>3 DEF Post
<1>4. CASE Commit(r)
  <2>1. StoreTypeOK'
    <3>1. CASE UNCHANGED storeVars
      BY <1>0, <3>1 DEF storeVars, StoreTypeOK
    <3>2. CASE /\ Coordinated(r)
               /\ WinClaim(r, Keys(r)[1], run[r].fence[Keys(r)[1]], TRUE)
      <4>1. Keys(r)[1] \in Key
        BY <3>2, FirstKey DEF Coordinated
      <4>2. run[r].fence[Keys(r)[1]] \in Fence
        BY <1>0, <4>1 DEF RunType
      <4>3. QED
        BY <1>0, <3>2, <4>1, <4>2, Won DEF Run
    <3>3. QED
      BY <1>4, <3>1, <3>2 DEF Commit
  <2>2. log' = log /\ faults' \subseteq {"lapse", "lost"} /\ BackOut(r, "release")
    BY <1>0, <1>4 DEF Commit, Lose
  <2>3. QED
    BY <1>0, <2>1, <2>2, BackOutTyped, QuietStep
<1>5. CASE Fail(r)
  <2>1. StoreTypeOK'
    BY <1>0, <1>5 DEF Fail, storeVars, StoreTypeOK
  <2>2. log' \subseteq Run \X {"executed", "failed", "escalated"}
        /\ faults' \subseteq {"lapse", "lost"} /\ BackOut(r, "release")
    <3>1. faults' = faults \/ faults' = faults \cup {"lost"}
      BY <1>5 DEF Fail, Lose
    <3>2. log' \subseteq log \cup {<<r, "failed">>, <<r, "escalated">>}
      BY <1>5 DEF Fail
    <3>3. BackOut(r, "release")
      BY <1>5 DEF Fail
    <3>4. {<<r, "failed">>, <<r, "escalated">>}
            \subseteq Run \X {"executed", "failed", "escalated"}
      OBVIOUS
    <3>5. log' \subseteq Run \X {"executed", "failed", "escalated"}
      BY <1>0, <3>2, <3>4
    <3>6. QED
      BY <1>0, <3>1, <3>3, <3>5
  <2>3. QED
    BY <1>0, <2>1, <2>2, BackOutTyped, QuietStep
<1>6. QED
  BY <1>0, <1>1, <1>2, <1>3, <1>4, <1>5

\* The steps of the plan that write no row and make no call.
LEMMA StepTyped ==
  ASSUME TInv, NEW r \in Run,
         TakeOver(r) \/ Started(r) \/ Poll(r) \/ CheckFence(r)
  PROVE  TInv' /\ UNCHANGED <<attempt, calls>>
<1> USE DEF At
<1>0. /\ StoreTypeOK /\ run \in [Run -> RunType] /\ run[r] \in RunType
      /\ Placed(run[r], r) /\ PlanOf[r] \in Plan /\ run[r].at \in Step
      /\ HoldsId(run[r], Row(r)) /\ Row(r) \in RowType
      /\ Row(r) = attempt[PlanOf[r]][run[r].at]
      /\ log \subseteq Run \X {"executed", "failed", "escalated"}
      /\ faults \subseteq {"lapse", "lost"}
      /\ Len(Keys(r)) \in Nat /\ {"VR5005", "VR5010"} \subseteq Codes
      /\ UNCHANGED <<storeVars, attempt, calls, log>>
      /\ faults' = faults \/ faults' = faults \cup {"lost"}
  <2>1. /\ UNCHANGED <<storeVars, attempt, calls, log>>
        /\ faults' = faults \/ faults' = faults \cup {"lost"}
    BY DEF TakeOver, Started, Poll, CheckFence, Lose
  <2>2. QED
    BY <2>1, KeysEnumerate, Base, Typed DEF TInv, Codes
<1>1. StoreTypeOK' /\ log' \subseteq Run \X {"executed", "failed", "escalated"}
      /\ faults' \subseteq {"lapse", "lost"}
  BY <1>0 DEF storeVars, StoreTypeOK
<1> DEFINE Fine == /\ run' \in [Run -> RunType] /\ Alone(r) /\ Placed(run'[r], r)
                   /\ HoldsId(run'[r], attempt[PlanOf[r]][run'[r].at])
<1>2. SUFFICES Fine
  BY <1>0, <1>1, QuietStep
<1>3. ASSUME NEW code \in Codes \cup {"none"}, Throw(r, code) PROVE Fine
  BY <1>3, ThrowTyped
<1>4. ASSUME NextStep(r) PROVE Fine
  BY <1>4, NextTyped
<1>5. ASSUME run[r].pc \in InStep, Goto(r, "doubt") \/ Goto(r, "check") PROVE Fine
  BY <1>5, GotoTyped DEF PC, InStep
<1>6. ASSUME NEW pc \in {"check", "doubt", "started"}, Row(r).state # "none",
             run'[r].pc = pc, run'[r].id = Row(r).id, run'[r].at = run[r].at,
             pc = "check" => run'[r].pos = 1,
             run' \in [Run -> RunType], Alone(r)
      PROVE  Fine
  <2>1. Placed(run'[r], r)
    BY <1>0, <1>6 DEF Placed
  <2>2. HoldsId(run'[r], attempt[PlanOf[r]][run'[r].at])
    BY <1>0, <1>6 DEF HoldsId
  <2>3. QED
    BY <1>6, <2>1, <2>2
<1>7. CASE TakeOver(r)
  <2>1. CASE Row(r).state = "succeeded" /\ NextStep(r)
    BY <1>4, <2>1
  <2>2. CASE /\ Row(r).state = "failed"
             /\ run' = [run EXCEPT ![r].pc = "check", ![r].pos = 1,
                                   ![r].id = IdInHand(r)]
    <3>1. 1 \in 0 .. Cardinality(Key) + 1 /\ Row(r).id \in Run \cup {NoHolder}
      BY <1>0, KeysEnumerate DEF RowType
    <3>2. /\ run'[r].pc = "check" /\ run'[r].id = Row(r).id /\ run'[r].pos = 1
          /\ run'[r].at = run[r].at /\ run' \in [Run -> RunType] /\ Alone(r)
      BY <1>0, <2>2, <3>1 DEF IdInHand, RunType, PC, Alone
    <3>3. QED
      BY <1>6, <2>2, <3>2
  <2>3. CASE Row(r).state = "failed" /\ Throw(r, Row(r).code)
    BY <1>0, <1>3, <2>3 DEF RowType
  <2>4. CASE /\ Row(r).state = "in_doubt"
             /\ run' = [run EXCEPT ![r].pc = "doubt", ![r].id = IdInHand(r)]
    <3>1. /\ run'[r].pc = "doubt" /\ run'[r].id = Row(r).id
          /\ run'[r].at = run[r].at /\ run' \in [Run -> RunType] /\ Alone(r)
      BY <1>0, <2>4 DEF IdInHand, RunType, RowType, PC, Alone
    <3>2. QED
      BY <1>6, <2>4, <3>1
  <2>5. CASE /\ Row(r).state = "started"
             /\ run' = [run EXCEPT ![r].pc = "started", ![r].id = IdInHand(r)]
    <3>1. /\ run'[r].pc = "started" /\ run'[r].id = Row(r).id
          /\ run'[r].at = run[r].at /\ run' \in [Run -> RunType] /\ Alone(r)
      BY <1>0, <2>5 DEF IdInHand, RunType, RowType, PC, Alone
    <3>2. QED
      BY <1>6, <2>5, <3>1
  <2>6. QED
    BY <1>7, <2>1, <2>2, <2>3, <2>4, <2>5 DEF TakeOver
<1>8. CASE Started(r)
  <2>1. run[r].pc = "started"
    BY <1>8 DEF Started
  <2>2. CASE run' = [run EXCEPT ![r].pc = "wait", ![r].deadline = now + Wait]
    <3>1. now + Wait \in Nat
      BY <1>0, ExecutorAssumption, LeaseAssumption DEF StoreTypeOK
    <3>2. /\ run' \in [Run -> RunType] /\ Alone(r) /\ run'[r].pc = "wait"
          /\ run'[r].id = run[r].id /\ run'[r].at = run[r].at
      BY <1>0, <2>2, <3>1 DEF RunType, PC, Alone
    <3>3. QED
      BY <1>0, <2>1, <3>2 DEF Placed, HoldsId, InStep
  <2>3. CASE Goto(r, "check") \/ Throw(r, "VR5010")
    BY <1>0, <1>3, <1>5, <2>1, <2>3 DEF InStep
  <2>4. QED
    BY <1>8, <2>2, <2>3 DEF Started
<1>9. CASE Poll(r)
  <2>1. run[r].pc = "wait"
    BY <1>9 DEF Poll
  <2>2. \/ NextStep(r) \/ Throw(r, Row(r).code) \/ Goto(r, "doubt")
        \/ Throw(r, "VR5005")
    BY <1>9 DEF Poll
  <2>3. QED
    BY <1>0, <1>3, <1>4, <1>5, <2>1, <2>2 DEF InStep, RowType
<1>10. CASE CheckFence(r)
  <2>1. CASE run[r].pos <= Len(Keys(r)) /\ Advance(r)
    <3>1. run' \in [Run -> RunType] /\ Alone(r) /\ run'[r].pc = "check"
          /\ run'[r].pos = run[r].pos + 1 /\ run'[r].id = run[r].id
          /\ run'[r].at = run[r].at
      BY <1>0, <1>10, <2>1, AdvanceMoves DEF CheckFence, Stays
    <3>2. run[r].pos \in Nat
      BY <1>0, KeysEnumerate DEF RunType
    <3>3. QED
      BY <1>0, <1>10, <2>1, <3>1, <3>2 DEF CheckFence, Placed, HoldsId, InStep
  <2>2. CASE run' = [run EXCEPT ![r].pc = "run", ![r].tries = 0]
    <3>1. 0 \in 0 .. MaxTries
      BY ExecutorAssumption
    <3>2. /\ run' \in [Run -> RunType] /\ Alone(r) /\ run'[r].pc = "run"
          /\ run'[r].id = run[r].id /\ run'[r].at = run[r].at
      BY <1>0, <2>2, <3>1 DEF RunType, PC, Alone
    <3>3. QED
      BY <1>0, <1>10, <3>2 DEF CheckFence, Placed, HoldsId, InStep
  <2>3. CASE Throw(r, "VR5010")
    BY <1>0, <1>3, <2>3
  <2>4. QED
    BY <1>10, <2>1, <2>2, <2>3 DEF CheckFence
<1>11. QED
  BY <1>7, <1>8, <1>9, <1>10

\* The steps that write the attempt row.
LEMMA WriterTyped ==
  ASSUME TInv, NEW r \in Run,
         \/ AppendAttempt(r) \/ MarkInDoubt(r) \/ Probe(r) \/ FenceLapsed(r)
         \/ Record(r)
  PROVE  TInv' /\ SameIds(attempt, attempt') /\ calls' = calls
<1> USE DEF At
<1>0. /\ run \in [Run -> RunType] /\ run[r] \in RunType /\ Placed(run[r], r)
      /\ HoldsId(run[r], Row(r)) /\ RowOk(Row(r))
      /\ log \subseteq Run \X {"executed", "failed", "escalated"}
      /\ faults \subseteq {"lapse", "lost"}
      /\ {"VR5001", "VR5006", "VR2020", "VR5010"} \subseteq Codes
      /\ UNCHANGED <<storeVars, calls>>
      /\ faults' \subseteq {"lapse", "lost"}
  <2>1. UNCHANGED <<storeVars, calls>>
        /\ (faults' = faults \/ faults' = faults \cup {"lost"})
    BY DEF AppendAttempt, MarkInDoubt, Probe, FenceLapsed, Record, Lose
  <2>2. QED
    BY <2>1, Base, Typed DEF TInv, Codes
<1>1. ASSUME run[r].pc \in {"doubt", "probe", "check", "record"}
      PROVE  run[r].id \in Run /\ run[r].id = Row(r).id
  BY <1>0, <1>1 DEF HoldsId, RowOk, InStep
<1>2. ASSUME AppendAttempt(r) PROVE TInv' /\ SameIds(attempt, attempt')
  <2>1. 1 \in 0 .. Cardinality(Key) + 1
    BY KeysEnumerate
  <2>2. /\ run' \in [Run -> RunType] /\ Alone(r) /\ run'[r].pc = "check"
        /\ run'[r].pos = 1 /\ run'[r].id = r /\ run'[r].at = run[r].at
    BY <1>0, <1>2, <2>1 DEF AppendAttempt, RunType, PC, Alone
  <2>3. attempt'[PlanOf[r]][run[r].at].state = "started"
        /\ attempt'[PlanOf[r]][run[r].at].id = r
    BY <1>2, Base DEF AppendAttempt, SetRow
  <2>4. Placed(run'[r], r) /\ HoldsId(run'[r], attempt'[PlanOf[r]][run'[r].at])
    BY <2>2, <2>3, KeysEnumerate DEF Placed, HoldsId
  <2>5. Row(r).state = "none" /\ SetRow(r, "started", r, "none", FALSE) /\ log' = log
    <3>1. Row(r) = NoAttempt /\ SetRow(r, "started", r, "none", FALSE) /\ log' = log
      BY <1>2 DEF AppendAttempt
    <3>2. NoAttempt.state = "none"
      BY DEF NoAttempt
    <3>3. QED
      BY <3>1, <3>2
  <2>6. QED
    BY <1>0, <2>2, <2>4, <2>5, RowStep
<1>3. ASSUME MarkInDoubt(r) PROVE TInv' /\ SameIds(attempt, attempt')
  <2>1. run[r].pc = "doubt" /\ Goto(r, "probe") /\ log' = log
        /\ SetRow(r, "in_doubt", run[r].id, "none", FALSE)
    BY <1>3 DEF MarkInDoubt
  <2>2. /\ run' \in [Run -> RunType] /\ Alone(r) /\ run'[r].pc = "probe"
        /\ run'[r].at = run[r].at /\ run'[r].id = run[r].id
    BY <1>0, <2>1, GotoMoves DEF PC, Stays
  <2>3. attempt'[PlanOf[r]][run[r].at].state = "in_doubt"
        /\ attempt'[PlanOf[r]][run[r].at].id = run[r].id
    BY <2>1, Base DEF SetRow
  <2>4. Placed(run'[r], r) /\ HoldsId(run'[r], attempt'[PlanOf[r]][run'[r].at])
    BY <2>2, <2>3 DEF Placed, HoldsId
  <2>5. QED
    BY <1>0, <1>1, <2>1, <2>2, <2>4, RowStep
<1>4. ASSUME Probe(r) PROVE TInv' /\ SameIds(attempt, attempt')
  <2>1. run[r].pc = "probe"
    BY <1>4 DEF Probe
  <2>2. CASE Write(r, "escalated") /\ Throw(r, "VR2020") /\ UNCHANGED attempt
    <3>1. <<r, "escalated">> \in Run \X {"executed", "failed", "escalated"}
      OBVIOUS
    <3>2. log' \subseteq Run \X {"executed", "failed", "escalated"}
      BY <1>0, <2>2, <3>1 DEF Write
    <3>3. StoreTypeOK'
      BY <1>0, Base DEF storeVars, StoreTypeOK
    <3>4. TInv'
      BY <1>0, <2>2, <3>2, <3>3, ThrowTyped, QuietStep
    <3>5. QED
      BY <2>2, <3>4 DEF SameIds
  <2>3. CASE SetRow(r, "failed", run[r].id, "VR5001", FALSE) /\ NextStep(r)
             /\ UNCHANGED log
    BY <1>0, <1>1, <2>1, <2>3, NextTyped, RowStep
  <2>4. CASE SetRow(r, "succeeded", run[r].id, "none", FALSE) /\ NextStep(r)
             /\ UNCHANGED log
    BY <1>0, <1>1, <2>1, <2>4, NextTyped, RowStep
  <2>5. QED
    BY <1>4, <2>2, <2>3, <2>4 DEF Probe
<1>5. ASSUME FenceLapsed(r) PROVE TInv' /\ SameIds(attempt, attempt')
  <2>1. run[r].pc = "check" /\ Throw(r, "VR5010") /\ log' = log
        /\ SetRow(r, "in_doubt", run[r].id, "none", FALSE)
    BY <1>5 DEF FenceLapsed
  <2>2. QED
    BY <1>0, <1>1, <2>1, ThrowTyped, RowStep
<1>6. ASSUME Record(r) PROVE TInv' /\ SameIds(attempt, attempt')
  <2>1. run[r].pc = "record" /\ log' = log
    BY <1>6 DEF Record
  <2>2. CASE SetRow(r, "succeeded", run[r].id, "none", FALSE) /\ NextStep(r)
    BY <1>0, <1>1, <2>1, <2>2, NextTyped, RowStep
  <2>3. CASE Failed(r) /\ SetRow(r, "failed", run[r].id, run[r].code, TRUE)
             /\ Throw(r, run[r].code)
    <3>1. run[r].code \in {"VR5001", "VR5006"}
      BY <1>0, <2>1, <2>3 DEF Placed, Failed
    <3>2. QED
      BY <1>0, <1>1, <2>1, <2>3, <3>1, ThrowTyped, RowStep
  <2>4. QED
    BY <1>6, <2>2, <2>3 DEF Record
<1>7. QED
  BY <1>0, <1>2, <1>3, <1>4, <1>5, <1>6

\* What a call of executeStep does to the run and the history.
LEMMA CallMoves ==
  ASSUME TInv, NEW r \in Run, CallStep(r)
  PROVE  /\ run' \in [Run -> RunType] /\ Alone(r) /\ Stays(run[r], run'[r])
         /\ run'[r].id = run[r].id /\ run[r].pc = "run"
         /\ \/ run'[r].pc = "run" /\ run'[r].code = run[r].code
            \/ /\ run'[r].pc = "record"
               /\ run'[r].code \in {"ok", "VR5001", "VR5006"}
         /\ \E hit \in BOOLEAN :
              /\ calls' = calls \cup {[plan |-> PlanOf[r], step |-> run[r].at,
                                       by |-> r, id |-> run[r].id, hit |-> hit]}
              /\ run'[r].pc = "record" /\ run'[r].code = "ok" => hit
         /\ UNCHANGED <<storeVars, attempt, log, faults>>
<1>0. run \in [Run -> RunType] /\ run[r] \in RunType
  BY Base
<1>1. ASSUME NEW code \in {"ok", "VR5001", "VR5006"},
             run' = [run EXCEPT ![r].pc = "record", ![r].code = code]
      PROVE  /\ run' \in [Run -> RunType] /\ Alone(r) /\ Stays(run[r], run'[r])
             /\ run'[r].id = run[r].id /\ run'[r].pc = "record"
             /\ run'[r].code = code
  <2>1. code \in Codes \cup {"ok", "none", "refused"}
    BY DEF Codes
  <2>2. QED
    BY <1>0, <1>1, <2>1 DEF RunType, PC, Alone, Stays
<1>2. ASSUME run[r].tries + 1 < MaxTries, run[r].pc = "run",
             run' = [run EXCEPT ![r].tries = @ + 1]
      PROVE  /\ run' \in [Run -> RunType] /\ Alone(r) /\ Stays(run[r], run'[r])
             /\ run'[r].id = run[r].id /\ run'[r].pc = "run"
             /\ run'[r].code = run[r].code
  <2>1. run[r].tries + 1 \in 0 .. MaxTries
    BY <1>0, <1>2, ExecutorAssumption DEF RunType
  <2>2. QED
    BY <1>0, <1>2, <2>1 DEF RunType, Alone, Stays
<1>3. run[r].pc = "run" /\ UNCHANGED <<storeVars, attempt, log, faults>>
  BY DEF CallStep, At
<1>4. CASE /\ Call(r, TRUE)
           /\ run' = [run EXCEPT ![r].pc = "record", ![r].code = "ok"]
  BY <1>1, <1>3, <1>4 DEF Call
<1>5. ASSUME NEW hit \in BOOLEAN, Call(r, hit), run[r].tries + 1 < MaxTries,
             run' = [run EXCEPT ![r].tries = @ + 1]
      PROVE  /\ run' \in [Run -> RunType] /\ Alone(r) /\ Stays(run[r], run'[r])
             /\ run'[r].id = run[r].id /\ run'[r].pc = "run"
             /\ run'[r].code = run[r].code
             /\ calls' = calls \cup {[plan |-> PlanOf[r], step |-> run[r].at,
                                      by |-> r, id |-> run[r].id, hit |-> hit]}
  BY <1>2, <1>3, <1>5 DEF Call
<1>6. ASSUME NEW hit \in BOOLEAN, NEW code \in {"VR5001", "VR5006"}, Call(r, hit),
             run' = [run EXCEPT ![r].pc = "record", ![r].code = code]
      PROVE  /\ run' \in [Run -> RunType] /\ Alone(r) /\ Stays(run[r], run'[r])
             /\ run'[r].id = run[r].id /\ run'[r].pc = "record"
             /\ run'[r].code = code
             /\ calls' = calls \cup {[plan |-> PlanOf[r], step |-> run[r].at,
                                      by |-> r, id |-> run[r].id, hit |-> hit]}
  BY <1>1, <1>6 DEF Call
<1>7. QED
  BY <1>3, <1>4, <1>5, <1>6 DEF CallStep

LEMMA CallTyped ==
  ASSUME TInv, NEW r \in Run, CallStep(r)
  PROVE  TInv' /\ attempt' = attempt
<1>0. /\ HoldsId(run[r], Row(r)) /\ RowOk(Row(r)) /\ PlanOf[r] \in Plan
      /\ run[r].at \in Step /\ Row(r) = attempt[PlanOf[r]][run[r].at]
      /\ StoreTypeOK /\ calls \subseteq CallType
  BY Base
<1>1. PICK hit \in BOOLEAN :
        calls' = calls \cup {[plan |-> PlanOf[r], step |-> run[r].at,
                              by |-> r, id |-> run[r].id, hit |-> hit]}
  BY CallMoves
<1>2. /\ run' \in [Run -> RunType] /\ Alone(r) /\ run'[r].at = run[r].at
      /\ run'[r].id = run[r].id /\ run[r].pc = "run"
      /\ \/ run'[r].pc = "run"
         \/ run'[r].pc = "record" /\ run'[r].code \in {"ok", "VR5001", "VR5006"}
      /\ UNCHANGED <<storeVars, attempt, log, faults>>
  BY CallMoves DEF Stays
<1>3. Row(r).state # "none" /\ run[r].id = Row(r).id /\ run[r].id \in Run
  BY <1>0, <1>2 DEF HoldsId, RowOk, InStep
<1>4. calls' \subseteq CallType
  BY <1>0, <1>1, <1>3 DEF CallType
<1>5. CallIds(calls', attempt')
  BY <1>0, <1>1, <1>2, <1>3 DEF CallIds, TInv
<1>6. StoreTypeOK'
  BY <1>0, <1>2 DEF StoreTypeOK, storeVars
<1>7. TypeOK'
  <2>1. TypeOK
    BY Base
  <2>2. QED
    BY <1>2, <1>4, <1>6, <2>1 DEF TypeOK, RunType, CallType
<1>8. \A s \in Run : Placed(run'[s], s)
                       /\ HoldsId(run'[s], attempt[PlanOf[s]][run'[s].at])
  <2>1. Placed(run'[r], r) /\ HoldsId(run'[r], attempt[PlanOf[r]][run'[r].at])
    BY <1>0, <1>2, <1>3 DEF Placed, HoldsId
  <2>2. QED
    BY <1>2, <2>1 DEF TInv, Alone, Row
<1>9. QED
  BY <1>2, <1>5, <1>7, <1>8 DEF TInv, Row

\* The clock moves every sleeper, and nothing else of a run.
LEMMA ClockMoves ==
  ASSUME TypeOK, Clock
  PROVE  /\ run' \in [Run -> RunType] /\ UNCHANGED <<lease, claim, highWater>>
         /\ now' = now + 1 /\ UNCHANGED <<attempt, calls, log>>
         /\ \A s \in Run :
              IF run[s].pc = "asleep"
              THEN run'[s].pc = "acquire" /\ run'[s].pos = 1
                   /\ run'[s].at = run[s].at /\ run'[s].fence = run[s].fence
              ELSE run'[s] = run[s]
<1>0. run \in [Run -> RunType]
  BY Typed
<1>1. 1 \in 0 .. Cardinality(Key) + 1 \/ Run = {}
  BY KeysEnumerate
<1>2. \A s \in Run : [run[s] EXCEPT !.pc = "acquire", !.pos = 1] \in RunType
  BY <1>0, <1>1 DEF RunType, PC
<1>3. \A s \in Run :
        run'[s] = IF run[s].pc = "asleep"
                  THEN [run[s] EXCEPT !.pc = "acquire", !.pos = 1] ELSE run[s]
  BY DEF Clock, At
<1>4. run' \in [Run -> RunType]
  <2>1. \A s \in Run : run'[s] \in RunType
    BY <1>0, <1>2, <1>3
  <2>2. QED
    BY <2>1 DEF Clock
<1>5. \A s \in Run :
        IF run[s].pc = "asleep"
        THEN run'[s].pc = "acquire" /\ run'[s].pos = 1
             /\ run'[s].at = run[s].at /\ run'[s].fence = run[s].fence
        ELSE run'[s] = run[s]
  <2> SUFFICES ASSUME NEW s \in Run, run[s].pc = "asleep"
               PROVE  run'[s].pc = "acquire" /\ run'[s].pos = 1
                      /\ run'[s].at = run[s].at /\ run'[s].fence = run[s].fence
    BY <1>3
  <2>1. run'[s] = [run[s] EXCEPT !.pc = "acquire", !.pos = 1] /\ run[s] \in RunType
    BY <1>0, <1>3
  <2>2. QED
    BY <2>1 DEF RunType
<1>6. Tick /\ UNCHANGED <<attempt, calls, log>>
  BY DEF Clock
<1>7. QED
  BY <1>4, <1>5, <1>6 DEF Tick

LEMMA AroundTyped ==
  ASSUME TInv, (\E r \in Run : Heartbeat(r)) \/ Clock \/ UNCHANGED vars
  PROVE  TInv' /\ UNCHANGED <<attempt, calls>>
<1>0. TypeOK
  BY DEF TInv
<1>1. CASE \E r \in Run : Heartbeat(r)
  <2>1. StoreTypeOK' /\ UNCHANGED <<run, attempt, calls, log, faults>>
    BY <1>0, <1>1, Renewed
  <2>2. QED
    BY <2>1 DEF TInv, TypeOK, Row
<1>2. CASE Clock
  <2>1. /\ run' \in [Run -> RunType] /\ UNCHANGED <<attempt, calls>>
        /\ \A s \in Run :
              IF run[s].pc = "asleep"
              THEN run'[s].pc = "acquire" /\ run'[s].pos = 1
              ELSE run'[s] = run[s]
    BY <1>0, <1>2, ClockMoves
  <2>2. TypeOK'
    <3>1. StoreTypeOK'
      <4>1. Tick
        BY <1>2 DEF Clock
      <4>2. now \in 0 .. MaxTime /\ MaxTime \in Nat
        BY <1>0, LeaseAssumption DEF TypeOK, StoreTypeOK
      <4>3. now' \in 0 .. MaxTime
        BY <4>1, <4>2 DEF Tick
      <4>4. QED
        BY <1>0, <4>1, <4>3 DEF Tick, TypeOK, StoreTypeOK
    <3>2. faults' \subseteq {"lapse", "lost"}
      BY <1>0, <1>2 DEF Clock, TypeOK
    <3>3. QED
      BY <1>0, <1>2, <2>1, <3>1, <3>2 DEF Clock, TypeOK, RunType
  <2>3. \A s \in Run : Placed(run'[s], s)
                        /\ HoldsId(run'[s], attempt[PlanOf[s]][run'[s].at])
    <3> SUFFICES ASSUME NEW s \in Run
                 PROVE  Placed(run'[s], s)
                        /\ HoldsId(run'[s], attempt[PlanOf[s]][run'[s].at])
      OBVIOUS
    <3>1. CASE run[s].pc = "asleep"
      BY <2>1, <3>1, KeysEnumerate DEF Placed, HoldsId, InStep
    <3>2. CASE run[s].pc # "asleep"
      BY <2>1, <3>2 DEF TInv, Row
    <3>3. QED
      BY <3>1, <3>2
  <2>4. QED
    BY <2>1, <2>2, <2>3 DEF TInv, Row
<1>3. CASE UNCHANGED vars
  BY <1>3 DEF vars, storeVars, TInv, TypeOK, StoreTypeOK, Row
<1>4. QED
  BY <1>1, <1>2, <1>3

-----------------------------------------------------------------------------

LEMMA TypeInit == Init => TInv
<1> SUFFICES ASSUME Init PROVE TInv
  OBVIOUS
<1>1. StoreTypeOK
  BY LeaseAssumption DEF Init, StoreInit, StoreTypeOK, NoLease, NoClaim, Lease,
     Claim, Fence
<1>2. run \in [Run -> RunType]
  <2> SUFFICES ASSUME NEW r \in Run
               PROVE  [pc |-> "idle", at |-> 1, pos |-> 1,
                       fence |-> [k \in Key |-> 0], id |-> NoHolder,
                       deadline |-> 0, tries |-> 0, code |-> "none"] \in RunType
    BY DEF Init
  <2>1. 1 \in 0 .. Cardinality(Key) + 1
    BY KeysEnumerate
  <2>2. [k \in Key |-> 0] \in [Key -> Fence] /\ 1 \in Step /\ 0 \in 0 .. MaxTries
    BY LeaseAssumption, ExecutorAssumption DEF Fence, Step
  <2>3. QED
    BY <2>1, <2>2 DEF RunType, PC
<1>3. attempt \in [Plan -> [Step -> RowType]]
  BY DEF Init, NoAttempt, RowType
<1>4. TypeOK
  BY <1>1, <1>2, <1>3, Typed DEF Init
<1>5. \A r \in Run : Placed(run[r], r) /\ HoldsId(run[r], Row(r))
  BY KeysEnumerate DEF Init, Placed, HoldsId, InStep
<1>6. \A p \in Plan, i \in Step : RowOk(attempt[p][i])
  BY DEF Init, NoAttempt, RowOk
<1>7. QED
  BY <1>4, <1>5, <1>6 DEF TInv, CallIds, Init

\* No step changes the id of a row that exists.
LEMMA TypeStep == TInv /\ [Next]_vars => TInv' /\ SameIds(attempt, attempt')
<1> SUFFICES ASSUME TInv, [Next]_vars PROVE TInv' /\ SameIds(attempt, attempt')
  OBVIOUS
<1>1. attempt' = attempt => SameIds(attempt, attempt')
  BY DEF SameIds
<1>2. CASE \E r \in Run : Start(r) \/ Refuse(r) \/ Progress(r) \/ Crash(r)
  BY <1>1, <1>2, LoopTyped, ClaimTyped, StepTyped, WriterTyped, CallTyped
     DEF Progress
<1>3. CASE (\E r \in Run : Heartbeat(r)) \/ Clock \/ UNCHANGED vars
  BY <1>1, <1>3, AroundTyped
<1>4. QED
  BY <1>2, <1>3 DEF Next

LEMMA BaseHolds == Spec => []TInv
<1>1. QED
  BY TypeInit, TypeStep, PTL DEF Spec

\* Every state of the executor is well-typed, whichever keeper keeps the leases
\* and whatever is lost or dies.
THEOREM TypeCorrect == Spec => []TypeOK
<1>1. TInv => TypeOK
  BY DEF TInv
<1>2. QED
  BY <1>1, BaseHolds, PTL

\* A step is only ever called under the id of its first attempt row
\* (handleExistingAttempt keeps it in a takeover, execute.ts).
THEOREM AttemptIdIsKept == Spec => []OneAttemptId
<1>1. TInv => OneAttemptId
  BY DEF TInv, CallIds, OneAttemptId
<1>2. QED
  BY <1>1, BaseHolds, PTL
-----------------------------------------------------------------------------
(* The body of the loop over the steps, seen from outside: it moves one run,  *)
(* keeps its fences, touches neither leases nor claims, and logs nothing but  *)
(* the escalation of a VR2020.                                                *)

BodyPC == {"append", "started", "wait", "doubt", "probe", "check", "run", "record"}

Body(r) ==
  \/ AppendAttempt(r) \/ TakeOver(r) \/ Started(r) \/ Poll(r) \/ MarkInDoubt(r)
  \/ Probe(r) \/ CheckFence(r) \/ FenceLapsed(r) \/ CallStep(r) \/ Record(r)

\* What is thrown in the body, and what is logged with it.
ThrownInBody(r) ==
  /\ run'[r].pc = "fail"
  /\ \/ run'[r].code \in {"VR5001", "VR5005", "VR5006", "VR5010"} /\ log' = log
     \/ run'[r].code = "VR2020" /\ Write(r, "escalated")

LEMMA BodyMoves ==
  ASSUME TInv, NEW r \in Run, Body(r)
  PROVE  /\ Alone(r) /\ run'[r].fence = run[r].fence
         /\ run[r].pc \in BodyPC /\ UNCHANGED storeVars
         /\ faults' = faults \/ faults' = faults \cup {"lost"}
         /\ \/ run'[r].pc \in BodyPC \cup {"post"} /\ log' = log
            \/ ThrownInBody(r)
<1> USE DEF At
<1>0. /\ run \in [Run -> RunType] /\ run[r] \in RunType /\ Placed(run[r], r)
      /\ RowOk(Row(r)) /\ {"VR5001", "VR5005", "VR5006", "VR5010", "VR2020"} \subseteq Codes
  BY Base DEF Codes
<1>1. /\ run[r].pc \in BodyPC /\ UNCHANGED storeVars
      /\ faults' = faults \/ faults' = faults \cup {"lost"}
  BY DEF Body, BodyPC, AppendAttempt, TakeOver, Started, Poll, MarkInDoubt, Probe,
         CheckFence, FenceLapsed, CallStep, Record, Lose
<1> DEFINE On == /\ Alone(r) /\ run'[r].fence = run[r].fence
                 /\ run'[r].pc \in BodyPC \cup {"post"}
           Out(code) == /\ Alone(r) /\ run'[r].fence = run[r].fence
                        /\ run'[r].pc = "fail" /\ run'[r].code = code
<1>2. SUFFICES \/ On /\ log' = log
               \/ /\ \E code \in {"VR5001", "VR5005", "VR5006", "VR5010"} : Out(code)
                  /\ log' = log
               \/ Out("VR2020") /\ Write(r, "escalated")
  BY <1>1 DEF ThrownInBody
<1>3. ASSUME NextStep(r) PROVE On
  BY <1>0, <1>3, NextStepMoves DEF BodyPC
<1>4. ASSUME NEW code \in Codes, Throw(r, code) PROVE Out(code)
  BY <1>0, <1>4, ThrowMoves DEF Stays
<1>5. ASSUME NEW pc \in {"check", "doubt", "probe"}, Goto(r, pc) PROVE On
  BY <1>0, <1>5, GotoMoves DEF BodyPC, PC, Stays
<1> HIDE DEF Out
<1>6. CASE AppendAttempt(r)
  BY <1>0, <1>6 DEF AppendAttempt, RunType, BodyPC, Alone
<1>7. CASE TakeOver(r)
  <2>1. CASE NextStep(r)
    BY <1>3, <1>7, <2>1 DEF TakeOver
  <2>2. CASE run' = [run EXCEPT ![r].pc = "check", ![r].pos = 1, ![r].id = IdInHand(r)]
    BY <1>0, <1>7, <2>2 DEF TakeOver, RunType, BodyPC, Alone
  <2>3. CASE Row(r).state = "failed" /\ Throw(r, Row(r).code)
    <3>1. Row(r).code \in {"VR5001", "VR5006"}
      BY <1>0, <2>3 DEF RowOk
    <3>2. QED
      BY <1>0, <1>4, <1>7, <2>3, <3>1 DEF TakeOver
  <2>4. CASE run' = [run EXCEPT ![r].pc = "doubt", ![r].id = IdInHand(r)]
    BY <1>0, <1>7, <2>4 DEF TakeOver, RunType, BodyPC, Alone
  <2>5. CASE run' = [run EXCEPT ![r].pc = "started", ![r].id = IdInHand(r)]
    BY <1>0, <1>7, <2>5 DEF TakeOver, RunType, BodyPC, Alone
  <2>6. QED
    BY <1>7, <2>1, <2>2, <2>3, <2>4, <2>5 DEF TakeOver
<1>8. CASE Started(r)
  <2>1. CASE run' = [run EXCEPT ![r].pc = "wait", ![r].deadline = now + Wait]
    BY <1>0, <1>8, <2>1 DEF Started, RunType, BodyPC, Alone
  <2>2. CASE Goto(r, "check") \/ Throw(r, "VR5010")
    BY <1>0, <1>4, <1>5, <1>8, <2>2 DEF Started
  <2>3. QED
    BY <1>8, <2>1, <2>2 DEF Started
<1>9. CASE Poll(r)
  <2>1. CASE NextStep(r) \/ Goto(r, "doubt") \/ Throw(r, "VR5005")
    BY <1>0, <1>3, <1>4, <1>5, <1>9, <2>1 DEF Poll
  <2>2. CASE Row(r).state = "failed" /\ Throw(r, Row(r).code)
    <3>1. Row(r).code \in {"VR5001", "VR5006"}
      BY <1>0, <2>2 DEF RowOk
    <3>2. QED
      BY <1>0, <1>4, <1>9, <2>2, <3>1 DEF Poll
  <2>3. QED
    BY <1>9, <2>1, <2>2 DEF Poll
<1>10. CASE MarkInDoubt(r)
  BY <1>0, <1>5, <1>10 DEF MarkInDoubt
<1>11. CASE Probe(r)
  BY <1>0, <1>3, <1>4, <1>11 DEF Probe
<1>12. CASE CheckFence(r)
  <2>1. CASE run' = [run EXCEPT ![r].pc = "run", ![r].tries = 0]
    BY <1>0, <1>12, <2>1 DEF CheckFence, RunType, BodyPC, Alone
  <2>2. CASE run[r].pos <= Len(Keys(r)) /\ Advance(r)
    BY <1>0, <1>12, <2>2, AdvanceMoves DEF CheckFence, BodyPC, Stays
  <2>3. CASE Throw(r, "VR5010")
    BY <1>0, <1>4, <1>12, <2>3 DEF CheckFence
  <2>4. QED
    BY <1>12, <2>1, <2>2, <2>3 DEF CheckFence
<1>13. CASE FenceLapsed(r)
  BY <1>0, <1>4, <1>13 DEF FenceLapsed
<1>14. CASE CallStep(r)
  BY <1>14, CallMoves DEF BodyPC, Stays
<1>15. CASE Record(r)
  <2>1. CASE NextStep(r)
    BY <1>3, <1>15, <2>1 DEF Record
  <2>2. CASE Failed(r) /\ Throw(r, run[r].code)
    <3>1. run[r].code \in {"VR5001", "VR5006"}
      BY <1>0, <1>15, <2>2 DEF Record, Placed, Failed
    <3>2. QED
      BY <1>0, <1>4, <1>15, <2>2, <3>1 DEF Record
  <2>3. QED
    BY <1>15, <2>1, <2>2 DEF Record
<1>16. QED
  BY <1>6, <1>7, <1>8, <1>9, <1>10, <1>11, <1>12, <1>13, <1>14, <1>15 DEF Body

\* The same of the actions around the body, one by one.
Becomes(r, pc) == Alone(r) /\ run'[r].fence = run[r].fence /\ run'[r].pc = pc

LEMMA OuterMoves ==
  ASSUME TInv, NEW r \in Run
  PROVE  /\ Start(r) => /\ Becomes(r, "acquire") /\ run'[r].pos = run[r].pos
                        /\ run'[r].code = run[r].code
         /\ Refuse(r) => Becomes(r, "done") /\ run'[r].code = "refused"
         /\ Acquire(r) => /\ Alone(r) /\ run'[r].pc = "acquire"
                          /\ run'[r].pos = run[r].pos + 1
                          /\ run'[r].code = run[r].code
                          /\ run'[r].fence = [run[r].fence EXCEPT
                               ![KeyAt(r)] = PriorFence(KeyAt(r)) + 1]
         /\ Enter(r) => /\ Becomes(r, IF Coordinated(r) THEN "intent" ELSE "append")
                        /\ run'[r].pos = 1 /\ run'[r].code = run[r].code
         /\ AcquireRefused(r) => /\ Becomes(r, "unwind") /\ run'[r].pos = Len(Keys(r))
                                 /\ run'[r].code = run[r].code
         /\ ReleaseNext(r) => /\ Becomes(r, run[r].pc) /\ run'[r].code = run[r].code
                              /\ run'[r].pos \in {0, run[r].pos - 1}
         /\ Unwound(r) => /\ Alone(r) /\ run'[r].fence = [k \in Key |-> 0]
                          /\ \/ run'[r].pc = "asleep" /\ run'[r].code = run[r].code
                             \/ run'[r].pc = "done" /\ run'[r].code = "VR5005"
         /\ Intent(r) => /\ run'[r].code = run[r].code
                         /\ \/ Becomes(r, "intent") /\ run'[r].pos = run[r].pos + 1
                            \/ Becomes(r, "append")
         /\ IntentLost(r) => Becomes(r, "fail") /\ run'[r].code = "VR5005"
         /\ Post(r) => \/ Becomes(r, "commit") /\ run'[r].code = "ok"
                       \/ Becomes(r, "fail") /\ run'[r].code = "VR5002"
         /\ Commit(r) \/ Fail(r) => /\ Becomes(r, "release")
                                    /\ run'[r].pos = Len(Keys(r))
                                    /\ run'[r].code = run[r].code
         /\ Finish(r) => Becomes(r, "done") /\ run'[r].code = run[r].code
         /\ Crash(r) => /\ Becomes(r, "crashed") /\ run'[r].at = run[r].at
                        /\ run'[r].code = run[r].code
<1>0. /\ run \in [Run -> RunType] /\ run[r] \in RunType
      /\ {"VR5002", "VR5005"} \subseteq Codes
  BY Base DEF Codes
<1>1. Start(r) => /\ Becomes(r, "acquire") /\ run'[r].pos = run[r].pos
                        /\ run'[r].code = run[r].code
  BY <1>0 DEF Start, RunType, Alone, Becomes
<1>2. Refuse(r) => Becomes(r, "done") /\ run'[r].code = "refused"
  BY <1>0 DEF Refuse, RunType, Alone, Becomes
<1>3. ASSUME Acquire(r)
      PROVE  /\ Alone(r) /\ run'[r].pc = "acquire" /\ run'[r].pos = run[r].pos + 1
             /\ run'[r].code = run[r].code
             /\ run'[r].fence = [run[r].fence EXCEPT
                                   ![KeyAt(r)] = PriorFence(KeyAt(r)) + 1]
  <2> DEFINE f == PriorFence(KeyAt(r)) + 1
             k == KeyAt(r)
             d == [run[r] EXCEPT !.pos = @ + 1, !.fence[k] = f]
  <2>1. run' = [run EXCEPT ![r] = d] /\ run[r].pc = "acquire"
    BY <1>0, <1>3 DEF Acquire, At
  <2> HIDE DEF f, k
  <2>2. d.pc = run[r].pc /\ d.pos = run[r].pos + 1 /\ d.code = run[r].code
        /\ d.fence = [run[r].fence EXCEPT ![k] = f]
    BY <1>0 DEF RunType
  <2> HIDE DEF d
  <2>3. Alone(r) /\ run'[r] = d
    BY <1>0, <2>1 DEF Alone
  <2>4. QED
    BY <2>1, <2>2, <2>3 DEF f, k
<1>4. Enter(r) => /\ Becomes(r, IF Coordinated(r) THEN "intent" ELSE "append")
                  /\ run'[r].pos = 1 /\ run'[r].code = run[r].code
  BY <1>0, GotoMoves DEF Enter, PC, Becomes, Stays
<1>5. AcquireRefused(r) => /\ Becomes(r, "unwind") /\ run'[r].pos = Len(Keys(r))
                           /\ run'[r].code = run[r].code
  BY <1>0, BackOutMoves DEF AcquireRefused, PC, Becomes, Stays
<1>6. ReleaseNext(r) => /\ Becomes(r, run[r].pc) /\ run'[r].code = run[r].code
                        /\ run'[r].pos \in {0, run[r].pos - 1}
  <2>1. ASSUME NEW p, run' = [run EXCEPT ![r].pos = p]
        PROVE  /\ Becomes(r, run[r].pc) /\ run'[r].code = run[r].code
               /\ run'[r].pos = p
    BY <1>0, <2>1 DEF RunType, Alone, Becomes
  <2>2. ReleaseNext(r) => \/ run' = [run EXCEPT ![r].pos = 0]
                          \/ run' = [run EXCEPT ![r].pos = run[r].pos - 1]
    BY <1>0 DEF ReleaseNext
  <2>3. QED
    BY <2>1, <2>2
<1>7. Unwound(r) => /\ Alone(r) /\ run'[r].fence = [k \in Key |-> 0]
                    /\ \/ run'[r].pc = "asleep" /\ run'[r].code = run[r].code
                       \/ run'[r].pc = "done" /\ run'[r].code = "VR5005"
  BY <1>0 DEF Unwound, RunType, Alone
<1>8. Intent(r) => /\ run'[r].code = run[r].code
                   /\ \/ Becomes(r, "intent") /\ run'[r].pos = run[r].pos + 1
                      \/ Becomes(r, "append")
  BY <1>0, GotoMoves, AdvanceMoves DEF Intent, At, PC, Becomes, Stays
<1>9. IntentLost(r) => Becomes(r, "fail") /\ run'[r].code = "VR5005"
  BY <1>0, ThrowMoves DEF IntentLost, Becomes, Stays
<1>10. Post(r) => \/ Becomes(r, "commit") /\ run'[r].code = "ok"
                  \/ Becomes(r, "fail") /\ run'[r].code = "VR5002"
  <2>1. run' = [run EXCEPT ![r].pc = "commit", ![r].code = "ok"] =>
          Becomes(r, "commit") /\ run'[r].code = "ok"
    BY <1>0 DEF RunType, Alone, Becomes
  <2>2. Throw(r, "VR5002") => Becomes(r, "fail") /\ run'[r].code = "VR5002"
    BY <1>0, ThrowMoves DEF Becomes, Stays
  <2>3. QED
    BY <2>1, <2>2 DEF Post
<1>11. Commit(r) \/ Fail(r) => /\ Becomes(r, "release")
                               /\ run'[r].pos = Len(Keys(r))
                               /\ run'[r].code = run[r].code
  <2>1. Commit(r) \/ Fail(r) => BackOut(r, "release")
    BY DEF Commit, Fail
  <2>2. QED
    BY <1>0, <2>1, BackOutMoves DEF PC, Becomes, Stays
<1>12. Finish(r) => Becomes(r, "done") /\ run'[r].code = run[r].code
  BY <1>0 DEF Finish, RunType, Alone, Becomes
<1>13. Crash(r) => /\ Becomes(r, "crashed") /\ run'[r].at = run[r].at
                        /\ run'[r].code = run[r].code
  BY <1>0 DEF Crash, RunType, Alone, Becomes
<1>14. QED
  BY <1>1, <1>2, <1>3, <1>4, <1>5, <1>6, <1>7, <1>8, <1>9, <1>10, <1>11, <1>12,
     <1>13

-----------------------------------------------------------------------------
(* What the ledger says of a run, at each place of its code.                  *)

Reported(c, r, lg) ==
  /\ c.pc \notin {"fail", "commit", "release", "done", "crashed"} =>
       <<r, "executed">> \notin lg /\ <<r, "failed">> \notin lg
         /\ <<r, "escalated">> \notin lg
  /\ c.pc = "fail" =>
       /\ <<r, "executed">> \notin lg /\ c.code # "ok"
       /\ c.code = "VR2020" => <<r, "escalated">> \in lg
  /\ c.pc = "commit" =>
       c.code = "ok" /\ <<r, "executed">> \in lg /\ <<r, "failed">> \notin lg
         /\ <<r, "escalated">> \notin lg
  /\ c.pc \in {"release", "done"} =>
       /\ (<<r, "executed">> \in lg) <=> (c.code = "ok")
       /\ (<<r, "failed">> \in lg \/ <<r, "escalated">> \in lg) <=> (c.code # "ok")

VInv == TInv /\ \A r \in Run : Reported(run[r], r, log)

\* A run logs in its own name.
OwnLog(r) == \A s \in Run : s # r =>
  \A kind \in {"executed", "failed", "escalated"} :
    <<s, kind>> \in log' <=> <<s, kind>> \in log

LEMMA VerdictOfOne ==
  ASSUME VInv, NEW r \in Run, TInv', Alone(r), OwnLog(r),
         Reported(run'[r], r, log')
  PROVE  VInv'
<1>1. ASSUME NEW s \in Run, s # r PROVE Reported(run'[s], s, log')
  <2>1. run'[s] = run[s] /\ Reported(run[s], s, log)
    BY <1>1 DEF Alone, VInv
  <2>2. \A kind \in {"executed", "failed", "escalated"} :
          <<s, kind>> \in log' <=> <<s, kind>> \in log
    BY <1>1 DEF OwnLog
  <2>3. QED
    BY <2>1, <2>2 DEF Reported
<1>2. QED
  BY <1>1 DEF VInv

\* The body logs nothing of a run, or the escalation it then fails with.
LEMMA VerdictBody ==
  ASSUME VInv, NEW r \in Run, TInv', Body(r)
  PROVE  VInv'
<1>1. /\ Alone(r) /\ run[r].pc \in BodyPC
      /\ \/ run'[r].pc \in BodyPC \cup {"post"} /\ log' = log
         \/ ThrownInBody(r)
  BY BodyMoves DEF VInv
<1>2. <<r, "executed">> \notin log /\ <<r, "failed">> \notin log
      /\ <<r, "escalated">> \notin log
  BY <1>1 DEF VInv, Reported, BodyPC
<1>3. CASE run'[r].pc \in BodyPC \cup {"post"} /\ log' = log
  <2>1. OwnLog(r) /\ Reported(run'[r], r, log')
    BY <1>2, <1>3 DEF OwnLog, Reported, BodyPC
  <2>2. QED
    BY <1>1, <2>1, VerdictOfOne
<1>4. CASE ThrownInBody(r)
  <2>1. OwnLog(r) /\ Reported(run'[r], r, log')
    BY <1>2, <1>4 DEF ThrownInBody, OwnLog, Reported, Write
  <2>2. QED
    BY <1>1, <2>1, VerdictOfOne
<1>5. QED
  BY <1>1, <1>3, <1>4

\* Outside the body only a refusal, the ends of acquireAll, a lost claim, Post and the
\* catch block log anything.
LEMMA VerdictOuter ==
  ASSUME VInv, NEW r \in Run, TInv',
         \/ Start(r) \/ Refuse(r) \/ Acquire(r) \/ Enter(r) \/ AcquireRefused(r)
         \/ ReleaseNext(r) \/ Unwound(r) \/ Intent(r) \/ IntentLost(r) \/ Post(r)
         \/ Commit(r) \/ Fail(r) \/ Finish(r) \/ Crash(r)
  PROVE  VInv'
<1> USE DEF At
<1>0. TInv /\ Reported(run[r], r, log)
  BY DEF VInv
<1>1. SUFFICES Alone(r) /\ OwnLog(r) /\ Reported(run'[r], r, log')
  BY VerdictOfOne
<1>2. CASE Start(r) \/ Acquire(r) \/ Enter(r) \/ AcquireRefused(r) \/ Intent(r)
  <2>1. log' = log /\ run[r].pc \in {"idle", "acquire", "intent"}
    BY <1>2 DEF Start, Acquire, Enter, AcquireRefused, Intent
  <2>2. Alone(r) /\ run'[r].pc \in {"acquire", "intent", "append", "unwind"}
    BY <1>0, <1>2, OuterMoves DEF Becomes
  <2>3. QED
    BY <1>0, <2>1, <2>2 DEF OwnLog, Reported
<1>3. CASE Refuse(r)
  <2>1. run[r].pc = "idle" /\ Write(r, "escalated")
    BY <1>3 DEF Refuse
  <2>2. Alone(r) /\ run'[r].pc = "done" /\ run'[r].code = "refused"
    BY <1>0, <1>3, OuterMoves DEF Becomes
  <2>3. QED
    BY <1>0, <2>1, <2>2 DEF Write, OwnLog, Reported
<1>4. CASE ReleaseNext(r) \/ Finish(r) \/ Commit(r)
  <2>1. log' = log
    BY <1>4 DEF ReleaseNext, Finish, Commit
  <2>2. /\ Alone(r) /\ run'[r].code = run[r].code
        /\ \/ run[r].pc = "unwind" /\ run'[r].pc = "unwind"
           \/ run[r].pc \in {"release", "commit"} /\ run'[r].pc \in {"release", "done"}
    BY <1>0, <1>4, OuterMoves DEF Becomes, ReleaseNext, Finish, Commit
  <2>3. QED
    BY <1>0, <2>1, <2>2 DEF OwnLog, Reported
<1>5. CASE Unwound(r)
  <2>1. run[r].pc = "unwind"
    BY <1>5 DEF Unwound
  <2>2. Alone(r)
        /\ \/ run'[r].pc = "asleep" /\ log' = log
           \/ run'[r].pc = "done" /\ run'[r].code = "VR5005" /\ Write(r, "escalated")
    <3>1. Alone(r)
      BY <1>0, <1>5, OuterMoves
    <3>2. CASE /\ run' = [run EXCEPT ![r].pc = "asleep",
                                      ![r].fence = [k \in Key |-> 0]]
               /\ log' = log
      BY <1>0, <3>1, <3>2, Base DEF RunType
    <3>3. CASE /\ run' = [run EXCEPT ![r].pc = "done", ![r].code = "VR5005",
                                      ![r].fence = [k \in Key |-> 0]]
               /\ Write(r, "escalated")
      BY <1>0, <3>1, <3>3, Base DEF RunType
    <3>4. QED
      BY <1>5, <3>2, <3>3 DEF Unwound
  <2>3. QED
    BY <1>0, <2>1, <2>2 DEF Write, OwnLog, Reported
<1>6. CASE IntentLost(r)
  <2>1. run[r].pc = "intent" /\ (log' = log \/ Write(r, "escalated"))
    BY <1>6 DEF IntentLost
  <2>2. Alone(r) /\ run'[r].pc = "fail" /\ run'[r].code = "VR5005"
    BY <1>0, <1>6, OuterMoves DEF Becomes
  <2>3. QED
    BY <1>0, <2>1, <2>2 DEF Write, OwnLog, Reported
<1>7. CASE Post(r)
  <2>1. run[r].pc = "post"
    BY <1>7 DEF Post
  <2>2. CASE Write(r, "executed")
             /\ run' = [run EXCEPT ![r].pc = "commit", ![r].code = "ok"]
    <3>1. Alone(r) /\ run'[r].pc = "commit" /\ run'[r].code = "ok"
      BY <1>0, <2>2, Base DEF RunType, Alone
    <3>2. QED
      BY <1>0, <2>1, <2>2, <3>1 DEF Write, OwnLog, Reported
  <2>3. CASE log' = log /\ Throw(r, "VR5002")
    <3>1. Alone(r) /\ run'[r].pc = "fail" /\ run'[r].code = "VR5002"
      BY <1>0, <2>3, Base, ThrowMoves DEF Codes
    <3>2. QED
      BY <1>0, <2>1, <2>3, <3>1 DEF OwnLog, Reported
  <2>4. QED
    BY <1>7, <2>2, <2>3 DEF Post
<1>8. CASE Fail(r)
  <2>1. /\ run[r].pc = "fail"
        /\ log' \subseteq log \cup {<<r, "failed">>, <<r, "escalated">>}
        /\ log \subseteq log'
        /\ run[r].code # "VR2020" => <<r, "failed">> \in log'
    BY <1>8 DEF Fail
  <2>2. Alone(r) /\ run'[r].pc = "release" /\ run'[r].code = run[r].code
    BY <1>0, <1>8, OuterMoves DEF Becomes
  <2>3. OwnLog(r)
    BY <2>1 DEF OwnLog
  <2>4. <<r, "executed">> \notin log' /\ run[r].code # "ok"
        /\ (<<r, "failed">> \in log' \/ <<r, "escalated">> \in log')
    BY <1>0, <2>1 DEF Reported
  <2>5. QED
    BY <2>2, <2>3, <2>4 DEF Reported
<1>9. CASE Crash(r)
  <2>1. log' = log
    BY <1>9 DEF Crash
  <2>2. Alone(r) /\ run'[r].pc = "crashed"
    BY <1>0, <1>9, OuterMoves DEF Becomes
  <2>3. QED
    BY <2>1, <2>2 DEF OwnLog, Reported
<1>10. QED
  BY <1>2, <1>3, <1>4, <1>5, <1>6, <1>7, <1>8, <1>9

LEMMA VerdictStep == VInv /\ [Next]_vars => VInv'
<1> SUFFICES ASSUME VInv, [Next]_vars PROVE VInv'
  OBVIOUS
<1>0. TInv /\ TInv' /\ TypeOK
  BY TypeStep DEF VInv, TInv
<1>1. CASE \E r \in Run : Body(r)
  BY <1>0, <1>1, VerdictBody
<1>2. CASE \E r \in Run : Start(r) \/ Refuse(r) \/ Acquire(r) \/ Enter(r)
             \/ AcquireRefused(r) \/ ReleaseNext(r) \/ Unwound(r) \/ Intent(r)
             \/ IntentLost(r) \/ Post(r) \/ Commit(r) \/ Fail(r) \/ Finish(r)
             \/ Crash(r)
  BY <1>0, <1>2, VerdictOuter
<1>3. CASE \E r \in Run : Heartbeat(r)
  BY <1>0, <1>3, Renewed DEF VInv
<1>4. CASE Clock
  <2>1. log' = log /\ \A s \in Run :
              IF run[s].pc = "asleep" THEN run'[s].pc = "acquire"
              ELSE run'[s] = run[s]
    BY <1>0, <1>4, ClockMoves
  <2>2. \A s \in Run : Reported(run'[s], s, log')
    BY <2>1 DEF VInv, Reported
  <2>3. QED
    BY <1>0, <2>2 DEF VInv
<1>5. CASE UNCHANGED vars
  BY <1>0, <1>5 DEF vars, VInv
<1>6. QED
  BY <1>1, <1>2, <1>3, <1>4, <1>5 DEF Next, Progress, Body

\* The ledger says how each run ended (the events and escalations of executePlan and of
\* its catch block).
THEOREM VerdictIsTold == Spec => []VerdictMatchesLog
<1>1. Init => VInv
  BY TypeInit DEF Init, VInv, Reported
<1>2. VInv => VerdictMatchesLog
  BY DEF VInv, Reported, VerdictMatchesLog
<1>3. QED
  BY <1>1, <1>2, VerdictStep, PTL DEF Spec
-----------------------------------------------------------------------------
(* Leases.  As long as none has expired, a run that has acquired a key has its *)
(* row, with the fence it remembers, until it releases it.                    *)

AllLive == \A k \in Key : lease[k] # NoLease => lease[k].expires > now

Gripped(c, r, n) ==
  \/ c.pc = "acquire" /\ n < c.pos
  \/ c.pc \in Beating
  \/ c.pc \in {"unwind", "release"} /\ n <= c.pos /\ c.fence[Keys(r)[n]] # 0

Grips(c, r, ls) == \A n \in 1 .. Len(Keys(r)) : Gripped(c, r, n) =>
  ls[Keys(r)[n]].holder = r /\ ls[Keys(r)[n]].fence = c.fence[Keys(r)[n]]

\* Fences of keys that are not acquired are 0.
Fresh(c, r) ==
  /\ c.pc \in {"idle", "asleep"} => \A k \in Key : c.fence[k] = 0
  /\ c.pc = "acquire" =>
       \A n \in 1 .. Len(Keys(r)) : n >= c.pos => c.fence[Keys(r)[n]] = 0

GInv ==
  /\ TInv
  /\ \A r \in Run : Fresh(run[r], r)
  /\ "lapse" \notin faults => AllLive /\ \A r \in Run : Grips(run[r], r, lease)

\* The rows of the other runs stay.
OthersRows(r) == \A k \in Key, s \in Run : s # r /\ lease[k].holder = s =>
  lease'[k].holder = s /\ lease'[k].fence = lease[k].fence

LEMMA GripOfOne ==
  ASSUME GInv, NEW r \in Run, TInv', Alone(r), Fresh(run'[r], r),
         "lapse" \notin faults' =>
           /\ "lapse" \notin faults /\ AllLive' /\ OthersRows(r)
           /\ Grips(run'[r], r, lease')
  PROVE  GInv'
<1>1. \A s \in Run : Fresh(run'[s], s)
  BY DEF GInv, Alone
<1>2. ASSUME "lapse" \notin faults', NEW s \in Run, s # r
      PROVE  Grips(run'[s], s, lease')
  <2>1. run'[s] = run[s] /\ Grips(run[s], s, lease)
    BY <1>2 DEF Alone, GInv
  <2>2. \A n \in 1 .. Len(Keys(s)) : Keys(s)[n] \in Key
    BY KeysEnumerate
  <2>3. QED
    BY <1>2, <2>1, <2>2 DEF Grips, OthersRows
<1>3. QED
  BY <1>1, <1>2 DEF GInv

\* No row is touched.
LEMMA RowsKept ==
  ASSUME UNCHANGED storeVars, NEW r \in Run
  PROVE  OthersRows(r) /\ (AllLive => AllLive') /\ lease' = lease
BY DEF storeVars, OthersRows, AllLive

\* A row that is acquired was not another run's.
LEMMA RowsAcquired ==
  ASSUME TypeOK, AllLive, NEW r \in Run, NEW k \in Key, AcquireLease(r, k)
  PROVE  /\ OthersRows(r) /\ AllLive'
         /\ lease'[k].holder = r /\ lease'[k].fence = PriorFence(k) + 1
         /\ \A j \in Key : j # k /\ lease[j].holder = r =>
              lease'[j].holder = r /\ lease'[j].fence = lease[j].fence
<1>1. StoreTypeOK
  BY DEF TypeOK
<1>2. /\ lease'[k] = [holder |-> r, fence |-> PriorFence(k) + 1,
                      expires |-> now + Ttl]
      /\ now' = now
      /\ \A j \in Key : j # k => \/ lease'[j] = lease[j]
                                 \/ lease[j].expires < now /\ lease'[j] = NoLease
  BY <1>1, Acquired DEF Run
<1>3. \A j \in Key : lease[j].expires \in Nat /\ now \in Nat /\ now + Ttl > now
  BY <1>1, LeaseAssumption DEF StoreTypeOK, Lease
<1>4. \A j \in Key, s \in Run : lease[j].holder = s => lease[j] # NoLease
  BY LeaseAssumption DEF NoLease, Run
<1>5. \A j \in Key : j # k /\ lease[j] # NoLease => lease'[j] = lease[j]
  BY <1>2, <1>3 DEF AllLive
<1>6. AllLive'
  BY <1>2, <1>3, <1>5 DEF AllLive
<1>7. \A s \in Run : s # r => lease[k].holder # s
  <2>1. ~Busy(r, k)
    BY DEF AcquireLease
  <2>2. QED
    BY <1>4, <2>1 DEF Busy, Live, AllLive
<1>8. OthersRows(r)
  BY <1>4, <1>5, <1>7 DEF OthersRows
<1>9. QED
  BY <1>2, <1>4, <1>5, <1>6, <1>8

\* A row that is released was the run's.
LEMMA RowsReleased ==
  ASSUME TypeOK, AllLive, NEW r \in Run, NEW k \in Key, NEW f \in Fence,
         ReleaseLease(r, k, f)
  PROVE  /\ OthersRows(r) /\ AllLive'
         /\ \A j \in Key : j # k => lease'[j] = lease[j]
<1>1. StoreTypeOK
  BY DEF TypeOK
<1>2. /\ lease[k].holder = r /\ lease' = [lease EXCEPT ![k] = NoLease] /\ now' = now
  BY <1>1, Released DEF Run
<1>3. lease \in [Key -> Lease]
  BY <1>1 DEF StoreTypeOK
<1>4. QED
  BY <1>2, <1>3 DEF OthersRows, AllLive

LEMMA GripBody ==
  ASSUME GInv, NEW r \in Run, TInv', Body(r)
  PROVE  GInv'
<1>1. /\ Alone(r) /\ run'[r].fence = run[r].fence
      /\ run[r].pc \in Beating /\ UNCHANGED storeVars
      /\ run'[r].pc \in BodyPC \cup {"post", "fail"}
      /\ "lapse" \notin faults' => "lapse" \notin faults
  BY BodyMoves DEF GInv, ThrownInBody, BodyPC, Beating
<1>2. Fresh(run'[r], r)
  BY <1>1 DEF Fresh, BodyPC
<1>3. Grips(run[r], r, lease) => Grips(run'[r], r, lease)
  BY <1>1 DEF Grips, Gripped
<1>4. QED
  BY <1>1, <1>2, <1>3, GripOfOne, RowsKept DEF GInv

LEMMA GripOuter ==
  ASSUME GInv, NEW r \in Run, TInv',
         \/ Start(r) \/ Refuse(r) \/ Acquire(r) \/ Enter(r) \/ AcquireRefused(r)
         \/ ReleaseNext(r) \/ Unwound(r) \/ Intent(r) \/ IntentLost(r) \/ Post(r)
         \/ Commit(r) \/ Fail(r) \/ Finish(r) \/ Crash(r)
  PROVE  GInv' /\ ("lapse" \notin faults' => OthersRows(r))
<1> USE DEF At
<1>0. /\ TInv /\ TypeOK /\ run[r] \in RunType /\ Fresh(run[r], r)
      /\ Placed(run[r], r) /\ StoreTypeOK
  BY Base DEF GInv
<1>1. /\ Len(Keys(r)) \in Nat
      /\ \A n \in 1 .. Len(Keys(r)) : Keys(r)[n] \in Key
      /\ \A m, n \in 1 .. Len(Keys(r)) : Keys(r)[m] = Keys(r)[n] => m = n
  BY KeysEnumerate
<1>2. "lapse" \notin faults' =>
        "lapse" \notin faults /\ AllLive /\ Grips(run[r], r, lease)
  <2>1. faults' = faults \/ faults' = faults \cup {"lost"}
    BY DEF Start, Refuse, Acquire, Enter, AcquireRefused, ReleaseNext, Unwound,
           Intent, IntentLost, Post, Commit, Fail, Finish, Crash, Lose
  <2>2. QED
    BY <2>1 DEF GInv
<1>3. SUFFICES /\ Alone(r) /\ Fresh(run'[r], r)
               /\ AllLive /\ Grips(run[r], r, lease) =>
                    AllLive' /\ OthersRows(r) /\ Grips(run'[r], r, lease')
  BY <1>2, GripOfOne
<1>4. ASSUME UNCHANGED <<now, lease>>
      PROVE  OthersRows(r) /\ (AllLive => AllLive')
  BY <1>4 DEF OthersRows, AllLive
<1>5. CASE Start(r)
  <2>1. UNCHANGED <<now, lease>> /\ run[r].pc = "idle"
    BY <1>5 DEF Start, storeVars
  <2>2. Becomes(r, "acquire") /\ run'[r].pos = 1
    BY <1>0, <1>5, <2>1, OuterMoves DEF Placed
  <2>3. QED
    BY <1>0, <1>1, <1>4, <2>1, <2>2 DEF Becomes, Fresh, Grips, Gripped, Beating
<1>6. CASE Refuse(r) \/ Finish(r) \/ Crash(r)
  <2>1. UNCHANGED <<now, lease>>
    BY <1>6 DEF Refuse, Finish, Crash, storeVars
  <2>2. Alone(r) /\ run'[r].pc \in {"done", "crashed"}
    BY <1>0, <1>6, OuterMoves DEF Becomes
  <2>3. QED
    BY <1>4, <2>1, <2>2 DEF Fresh, Grips, Gripped, Beating
<1>7. CASE Acquire(r)
  <2> DEFINE k == KeyAt(r)
             f == PriorFence(k) + 1
  <2>1. /\ k \in Key /\ run[r].pos \in 1 .. Len(Keys(r)) /\ k = Keys(r)[run[r].pos]
        /\ AcquireLease(r, k) /\ run[r].pc = "acquire"
    BY <1>0, <1>7, KeyInHand DEF Acquire
  <2>2. /\ Alone(r) /\ run'[r].pc = "acquire" /\ run'[r].pos = run[r].pos + 1
        /\ run'[r].fence = [run[r].fence EXCEPT ![k] = f]
    BY <1>0, <1>7, OuterMoves
  <2> HIDE DEF k
  <2>3. run'[r].fence[k] = f /\ \A j \in Key : j # k =>
          run'[r].fence[j] = run[r].fence[j]
    BY <1>0, <2>1, <2>2 DEF RunType
  <2>4. Fresh(run'[r], r)
    BY <1>0, <1>1, <2>1, <2>2, <2>3 DEF Fresh
  <2>5. ASSUME AllLive, Grips(run[r], r, lease)
        PROVE  AllLive' /\ OthersRows(r) /\ Grips(run'[r], r, lease')
    <3>1. /\ OthersRows(r) /\ AllLive'
          /\ lease'[k].holder = r /\ lease'[k].fence = f
          /\ \A j \in Key : j # k /\ lease[j].holder = r =>
               lease'[j].holder = r /\ lease'[j].fence = lease[j].fence
      BY <1>0, <2>1, <2>5, RowsAcquired
    <3> HIDE DEF f
    <3>2. ASSUME NEW n \in 1 .. Len(Keys(r)), n < run[r].pos + 1
          PROVE  /\ lease'[Keys(r)[n]].holder = r
                 /\ lease'[Keys(r)[n]].fence = run'[r].fence[Keys(r)[n]]
      <4>1. CASE n = run[r].pos
        BY <2>1, <2>3, <3>1, <4>1
      <4>2. CASE n < run[r].pos
        <5>1. Keys(r)[n] \in Key /\ Keys(r)[n] # k
          BY <1>1, <2>1, <4>2
        <5>2. lease[Keys(r)[n]].holder = r
              /\ lease[Keys(r)[n]].fence = run[r].fence[Keys(r)[n]]
          BY <2>1, <2>5, <4>2 DEF Grips, Gripped
        <5>3. QED
          BY <2>3, <3>1, <5>1, <5>2
      <4>3. QED
        BY <2>1, <3>2, <4>1, <4>2
    <3>3. Grips(run'[r], r, lease')
      BY <2>2, <3>2 DEF Grips, Gripped, Beating
    <3>4. QED
      BY <3>1, <3>3
  <2>6. QED
    BY <2>2, <2>4, <2>5
<1>8. CASE Enter(r)
  <2>1. UNCHANGED <<now, lease>> /\ run[r].pc = "acquire" /\ run[r].pos > Len(Keys(r))
    BY <1>8 DEF Enter, storeVars
  <2>2. Alone(r) /\ run'[r].fence = run[r].fence /\ run'[r].pc \in {"intent", "append"}
    BY <1>0, <1>8, OuterMoves DEF Becomes
  <2>3. Grips(run[r], r, lease) => Grips(run'[r], r, lease)
    BY <1>0, <1>1, <2>1, <2>2 DEF Grips, Gripped, RunType
  <2>4. QED
    BY <1>4, <2>1, <2>2, <2>3 DEF Fresh
<1>9. CASE AcquireRefused(r)
  <2> DEFINE k == KeyAt(r)
  <2>1. /\ k \in Key /\ run[r].pos \in 1 .. Len(Keys(r)) /\ k = Keys(r)[run[r].pos]
        /\ run[r].pc = "acquire"
    BY <1>0, <1>9, KeyInHand DEF AcquireRefused
  <2> HIDE DEF k
  <2>2. /\ Alone(r) /\ run'[r].fence = run[r].fence /\ run'[r].pc = "unwind"
        /\ run'[r].pos = Len(Keys(r))
    BY <1>0, <1>9, OuterMoves DEF Becomes
  <2>3. \A n \in 1 .. Len(Keys(r)) : Gripped(run'[r], r, n) => n < run[r].pos
    <3>1. \A n \in 1 .. Len(Keys(r)) : n >= run[r].pos => run[r].fence[Keys(r)[n]] = 0
      BY <1>0, <2>1 DEF Fresh
    <3>2. QED
      BY <1>1, <2>1, <2>2, <3>1 DEF Gripped, Beating
  <2>4. CASE UNCHANGED storeVars
    <3>1. UNCHANGED <<now, lease>>
      BY <2>4 DEF storeVars
    <3>2. Grips(run[r], r, lease) => Grips(run'[r], r, lease')
      BY <2>1, <2>2, <2>3, <3>1 DEF Grips, Gripped
    <3>3. QED
      BY <1>4, <2>2, <3>1, <3>2 DEF Fresh
  <2>5. ASSUME AcquireLease(r, k), AllLive, Grips(run[r], r, lease)
        PROVE  AllLive' /\ OthersRows(r) /\ Grips(run'[r], r, lease')
    <3>1. /\ OthersRows(r) /\ AllLive'
          /\ \A j \in Key : j # k /\ lease[j].holder = r =>
               lease'[j].holder = r /\ lease'[j].fence = lease[j].fence
      BY <1>0, <2>1, <2>5, RowsAcquired
    <3>2. ASSUME NEW n \in 1 .. Len(Keys(r)), n < run[r].pos
          PROVE  /\ lease'[Keys(r)[n]].holder = r
                 /\ lease'[Keys(r)[n]].fence = run'[r].fence[Keys(r)[n]]
      <4>1. Keys(r)[n] \in Key /\ Keys(r)[n] # k
        BY <1>1, <2>1, <3>2
      <4>2. lease[Keys(r)[n]].holder = r
            /\ lease[Keys(r)[n]].fence = run[r].fence[Keys(r)[n]]
        BY <2>1, <2>5, <3>2 DEF Grips, Gripped
      <4>3. QED
        BY <2>2, <3>1, <4>1, <4>2
    <3>3. QED
      BY <2>3, <3>1, <3>2 DEF Grips
  <2>6. QED
    BY <1>9, <2>2, <2>4, <2>5 DEF AcquireRefused, Fresh, k
<1>10. CASE ReleaseNext(r)
  <2> DEFINE k == KeyAt(r)
             f == run[r].fence[k]
  <2>1. /\ k \in Key /\ run[r].pos \in 1 .. Len(Keys(r)) /\ k = Keys(r)[run[r].pos]
        /\ run[r].pc \in {"unwind", "release"}
    BY <1>0, <1>10, KeyInHand DEF ReleaseNext
  <2> HIDE DEF k
  <2>2. f \in Fence
    BY <1>0, <2>1 DEF RunType
  <2>3. /\ Alone(r) /\ run'[r].fence = run[r].fence /\ run'[r].pc = run[r].pc
        /\ run'[r].pos \in {0, run[r].pos - 1}
    BY <1>0, <1>10, OuterMoves DEF Becomes
  <2>4. \A n \in 1 .. Len(Keys(r)) : Gripped(run'[r], r, n) =>
          n < run[r].pos /\ Gripped(run[r], r, n)
    BY <1>1, <2>1, <2>3 DEF Gripped, Beating
  <2>5. CASE UNCHANGED storeVars
    <3>1. UNCHANGED <<now, lease>>
      BY <2>5 DEF storeVars
    <3>2. Grips(run[r], r, lease) => Grips(run'[r], r, lease')
      BY <2>3, <2>4, <3>1 DEF Grips
    <3>3. QED
      BY <1>4, <2>1, <2>3, <3>1, <3>2 DEF Fresh
  <2>6. ASSUME ReleaseLease(r, k, f), AllLive, Grips(run[r], r, lease)
        PROVE  AllLive' /\ OthersRows(r) /\ Grips(run'[r], r, lease')
    <3>1. OthersRows(r) /\ AllLive' /\ \A j \in Key : j # k => lease'[j] = lease[j]
      BY <1>0, <2>1, <2>2, <2>6, RowsReleased
    <3>2. \A n \in 1 .. Len(Keys(r)) : n < run[r].pos =>
            Keys(r)[n] \in Key /\ Keys(r)[n] # k
      BY <1>1, <2>1
    <3>3. Grips(run'[r], r, lease')
      BY <2>3, <2>4, <2>6, <3>1, <3>2 DEF Grips
    <3>4. QED
      BY <3>1, <3>3
  <2>7. QED
    BY <1>10, <2>1, <2>3, <2>5, <2>6 DEF ReleaseNext, Fresh, k
<1>11. CASE Unwound(r)
  <2>1. UNCHANGED <<now, lease>>
    BY <1>11 DEF Unwound, storeVars
  <2>2. Alone(r) /\ run'[r].pc \in {"asleep", "done"}
        /\ run'[r].fence = [k \in Key |-> 0]
    BY <1>0, <1>11, OuterMoves
  <2>3. QED
    BY <1>4, <2>1, <2>2 DEF Fresh, Grips, Gripped, Beating
<1>12. CASE Intent(r) \/ IntentLost(r) \/ Post(r)
  <2>1. UNCHANGED <<now, lease>> /\ run[r].pc \in Beating
    BY <1>12 DEF Intent, IntentLost, Post, WinClaim, Beating, storeVars
  <2>2. Alone(r) /\ run'[r].fence = run[r].fence
        /\ run'[r].pc \in {"intent", "append", "fail", "commit"}
    BY <1>0, <1>12, OuterMoves DEF Becomes
  <2>3. Grips(run[r], r, lease) => Grips(run'[r], r, lease)
    BY <2>1, <2>2 DEF Grips, Gripped
  <2>4. QED
    BY <1>4, <2>1, <2>2, <2>3 DEF Fresh
<1>13. CASE Commit(r) \/ Fail(r)
  <2>1. UNCHANGED <<now, lease>> /\ run[r].pc \in Beating
    BY <1>13 DEF Commit, Fail, WinClaim, Beating, storeVars
  <2>2. Alone(r) /\ run'[r].fence = run[r].fence /\ run'[r].pc = "release"
    BY <1>0, <1>13, OuterMoves DEF Becomes
  <2>3. Grips(run[r], r, lease) => Grips(run'[r], r, lease)
    BY <2>1, <2>2 DEF Grips, Gripped
  <2>4. QED
    BY <1>4, <2>1, <2>2, <2>3 DEF Fresh
<1>14. QED
  BY <1>5, <1>6, <1>7, <1>8, <1>9, <1>10, <1>11, <1>12, <1>13

\* The clock says when a lease expires; the heartbeat only puts it off.
LEMMA GripAround ==
  ASSUME GInv, TInv', (\E r \in Run : Heartbeat(r)) \/ Clock \/ UNCHANGED vars
  PROVE  GInv'
<1>0. TypeOK /\ StoreTypeOK
  BY DEF GInv, TInv, TypeOK
<1>1. ASSUME NEW r \in Run, Heartbeat(r) PROVE GInv'
  <2>1. /\ UNCHANGED <<now, run, faults>>
        /\ \A k \in Key :
              \/ lease'[k] = lease[k]
              \/ /\ lease[k].holder = r
                 /\ lease'[k] = [lease[k] EXCEPT !.expires = now + Ttl]
    BY <1>0, <1>1, Renewed
  <2>2. \A k \in Key : lease[k] \in Lease /\ now + Ttl > now
    BY <1>0, LeaseAssumption DEF StoreTypeOK
  <2>3. \A k \in Key : lease'[k].holder = lease[k].holder
                        /\ lease'[k].fence = lease[k].fence
    BY <2>1, <2>2 DEF Lease
  <2>4. AllLive => AllLive'
    <3> SUFFICES ASSUME AllLive, NEW k \in Key, lease'[k] # NoLease
                 PROVE  lease'[k].expires > now
      BY <2>1 DEF AllLive
    <3>1. CASE lease'[k] = lease[k]
      BY <3>1 DEF AllLive
    <3>2. CASE lease'[k] = [lease[k] EXCEPT !.expires = now + Ttl]
      <4>1. lease'[k].expires = now + Ttl
        BY <2>2, <3>2 DEF Lease
      <4>2. QED
        BY <2>2, <4>1
    <3>3. QED
      BY <2>1, <3>1, <3>2
  <2>5. \A s \in Run : Grips(run[s], s, lease) => Grips(run[s], s, lease')
    BY <2>3, KeysEnumerate DEF Grips
  <2>6. QED
    BY <2>1, <2>4, <2>5 DEF GInv
<1>2. CASE Clock
  <2>1. /\ UNCHANGED lease /\ now' = now + 1
        /\ \A s \in Run :
              IF run[s].pc = "asleep"
              THEN run'[s].pc = "acquire" /\ run'[s].pos = 1
                   /\ run'[s].fence = run[s].fence
              ELSE run'[s] = run[s]
    BY <1>0, <1>2, ClockMoves
  <2>2. \A s \in Run : Fresh(run'[s], s)
    <3> SUFFICES ASSUME NEW s \in Run, run[s].pc = "asleep" PROVE Fresh(run'[s], s)
      BY <2>1 DEF GInv
    <3>1. \A n \in 1 .. Len(Keys(s)) : Keys(s)[n] \in Key
      BY KeysEnumerate
    <3>2. QED
      BY <2>1, <3>1 DEF GInv, Fresh
  <2>3. ASSUME "lapse" \notin faults'
        PROVE  "lapse" \notin faults /\ AllLive'
    <3>1. \A k \in Key : lease[k] # NoLease => ~(lease[k].expires <= now')
      BY <1>2, <2>3 DEF Clock
    <3>2. \A k \in Key : lease[k].expires \in Nat /\ now' \in Nat
      BY <1>0, <2>1, LeaseAssumption DEF StoreTypeOK, Lease
    <3>3. "lapse" \notin faults
      BY <1>2, <2>3 DEF Clock
    <3>4. QED
      BY <2>1, <3>1, <3>2, <3>3 DEF AllLive
  <2>4. \A s \in Run : Grips(run[s], s, lease) => Grips(run'[s], s, lease)
    BY <2>1, KeysEnumerate DEF Grips, Gripped, Beating
  <2>5. QED
    BY <2>1, <2>2, <2>3, <2>4 DEF GInv
<1>3. CASE UNCHANGED vars
  BY <1>3 DEF vars, storeVars, GInv, AllLive
<1>4. QED
  BY <1>1, <1>2, <1>3

LEMMA GripStep == GInv /\ [Next]_vars => GInv'
<1> SUFFICES ASSUME GInv, [Next]_vars PROVE GInv'
  OBVIOUS
<1>0. TInv'
  BY TypeStep DEF GInv
<1>1. CASE \E r \in Run : Body(r)
  BY <1>0, <1>1, GripBody
<1>2. CASE \E r \in Run : Start(r) \/ Refuse(r) \/ Acquire(r) \/ Enter(r)
             \/ AcquireRefused(r) \/ ReleaseNext(r) \/ Unwound(r) \/ Intent(r)
             \/ IntentLost(r) \/ Post(r) \/ Commit(r) \/ Fail(r) \/ Finish(r)
             \/ Crash(r)
  BY <1>0, <1>2, GripOuter
<1>3. CASE (\E r \in Run : Heartbeat(r)) \/ Clock \/ UNCHANGED vars
  BY <1>0, <1>3, GripAround
<1>4. QED
  BY <1>1, <1>2, <1>3 DEF Next, Progress, Body

LEMMA GripInit == Init => GInv
<1> SUFFICES ASSUME Init PROVE GInv
  OBVIOUS
<1>1. TInv
  BY TypeInit
<1>2. \A r \in Run : Fresh(run[r], r) /\ Grips(run[r], r, lease)
  BY DEF Init, Fresh, Grips, Gripped, Beating
<1>3. AllLive
  BY DEF Init, StoreInit, AllLive
<1>4. QED
  BY <1>1, <1>2, <1>3 DEF GInv

\* A lease row has one holder: two runs that share a key are not both between their
\* fence checks and their records (acquireAll, checkFence and heartbeatAll of
\* engine/lease.ts).
LEMMA OneGrip ==
  ASSUME GInv, "lapse" \notin faults, NEW r \in Run, NEW s \in Run,
         run[r].pc \in Beating, run[s].pc \in Beating,
         Touches[PlanOf[r]] \cap Touches[PlanOf[s]] # {}
  PROVE  r = s
<1>1. PICK k \in Touches[PlanOf[r]] : k \in Touches[PlanOf[s]]
  OBVIOUS
<1>2. PICK m \in 1 .. Len(Keys(r)) : Keys(r)[m] = k
  BY KeysEnumerate
<1>3. PICK n \in 1 .. Len(Keys(s)) : Keys(s)[n] = k
  BY <1>1, KeysEnumerate
<1>4. lease[k].holder = r /\ lease[k].holder = s
  BY <1>2, <1>3 DEF GInv, Grips, Gripped
<1>5. QED
  BY <1>4

\* The inductive invariant of the leases: as long as none expires, the rows of the keys
\* a run has acquired are its own, with the fences it remembers.
THEOREM LeasesHold == Spec => []GInv
<1>1. QED
  BY GripInit, GripStep, PTL DEF Spec

\* While a run is between its fence check and its record no other run that shares a key
\* with it is there, unless a lease expired.
THEOREM CallsAreExclusive == Spec => []ExclusiveCalls
<1>1. GInv => ExclusiveCalls
  BY OneGrip DEF ExclusiveCalls, Busied, Beating
<1>2. QED
  BY <1>1, LeasesHold, PTL

-----------------------------------------------------------------------------
(* Claims.  As long as no lease has expired, a run at work on its plan has the *)
(* claim of every key, and one that answered ok has committed its first key.  *)

Claimed(c, r, n) ==
  \/ c.pc = "intent" /\ n < c.pos
  \/ c.pc \in BodyPC \cup {"post", "commit"}

Claims(c, r, cl) == \A n \in 1 .. Len(Keys(r)) : Claimed(c, r, n) =>
  cl[Keys(r)[n]].holder = r /\ cl[Keys(r)[n]].fence = c.fence[Keys(r)[n]]

\* r has committed the claim of its first key.
Committed(r, cl) == cl[Keys(r)[1]].holder = r /\ cl[Keys(r)[1]].state = "committed"

HasCommitted(c) == c.pc \in {"release", "done"} /\ c.code = "ok"

CInv ==
  /\ GInv /\ VInv
  /\ Keeper = "coordinator" =>
       /\ "lapse" \notin faults => \A r \in Run : Claims(run[r], r, claim)
       /\ faults = {} => \A r \in Run :
            Keys(r) # <<>> /\ HasCommitted(run[r]) => Committed(r, claim)

\* A claim that a step of r wins is of a key it holds the lease of, so that no other
\* run at work has it; and it does not replace a committed one.
OthersClaims(r) ==
  /\ \A k \in Key, s \in Run : s # r /\ lease[k].holder = s =>
       claim'[k] = claim[k]
  /\ \A k \in Key, s \in Run :
       s # r /\ claim[k].holder = s /\ claim[k].state = "committed" =>
         claim'[k] = claim[k]

Untaken(r) ==
  Keeper = "coordinator" /\ "lapse" \notin faults' => OthersClaims(r)

LEMMA ClaimOfOne ==
  ASSUME CInv, NEW r \in Run, GInv', VInv', Alone(r), Keeper = "coordinator",
         faults' = {} => faults = {},
         "lapse" \notin faults' =>
           "lapse" \notin faults /\ OthersClaims(r) /\ Claims(run'[r], r, claim'),
         faults' = {} /\ Keys(r) # <<>> /\ HasCommitted(run'[r]) =>
           Committed(r, claim')
  PROVE  CInv' /\ Untaken(r)
<1>1. ASSUME "lapse" \notin faults', NEW s \in Run, s # r
      PROVE  Claims(run'[s], s, claim')
  <2>1. /\ run'[s] = run[s] /\ Claims(run[s], s, claim) /\ OthersClaims(r)
        /\ Grips(run[s], s, lease)
    BY <1>1 DEF Alone, CInv, GInv
  <2>2. \A n \in 1 .. Len(Keys(s)) : Claimed(run[s], s, n) => Gripped(run[s], s, n)
    BY DEF Claimed, Gripped, BodyPC, Beating
  <2>3. \A n \in 1 .. Len(Keys(s)) : Keys(s)[n] \in Key
    BY KeysEnumerate
  <2>4. QED
    BY <1>1, <2>1, <2>2, <2>3 DEF Claims, Grips, OthersClaims
<1>2. ASSUME faults' = {}, NEW s \in Run, s # r, Keys(s) # <<>>, HasCommitted(run'[s])
      PROVE  Committed(s, claim')
  <2>1. run'[s] = run[s] /\ Committed(s, claim) /\ OthersClaims(r)
    BY <1>2 DEF Alone, CInv
  <2>2. Keys(s)[1] \in Key
    BY <1>2, FirstKey
  <2>3. QED
    BY <1>2, <2>1, <2>2 DEF Committed, OthersClaims
<1>3. QED
  BY <1>1, <1>2 DEF CInv, Untaken

\* A claim that is won.
LEMMA ClaimWon ==
  ASSUME TypeOK, AllLive, NEW r \in Run, NEW k \in Key, NEW f \in Fence,
         NEW commit \in BOOLEAN, WinClaim(r, k, f, commit)
  PROVE  OthersClaims(r)
<1>1. /\ ~Loses(r, k, f) /\ \A j \in Key : j # k => claim'[j] = claim[j]
  BY Won DEF TypeOK, Run
<1>2. \A s \in Run : s # r => lease[k].holder # s
  <2>1. \A s \in Run : lease[k].holder = s => lease[k] # NoLease
    BY LeaseAssumption DEF NoLease, Run
  <2>2. QED
    BY <1>1, <2>1 DEF Loses, LeasedElsewhere, Matches, Live, AllLive
<1>3. \A s \in Run : s # r /\ claim[k].holder = s => claim[k].state # "committed"
  <2>1. \A s \in Run : claim[k].holder = s => claim[k] # NoClaim
    BY LeaseAssumption DEF NoClaim, Run
  <2>2. QED
    BY <1>1, <2>1 DEF Loses, ForeignClaim
<1>4. QED
  BY <1>1, <1>2, <1>3 DEF OthersClaims

\* Steps that leave the claims alone.
LEMMA ClaimQuiet ==
  ASSUME CInv, NEW r \in Run, GInv', VInv', Alone(r), claim' = claim,
         faults' = faults \/ faults' = faults \cup {"lost"},
         \A n \in 1 .. Len(Keys(r)) : Claimed(run'[r], r, n) =>
           Claimed(run[r], r, n)
             /\ run'[r].fence[Keys(r)[n]] = run[r].fence[Keys(r)[n]],
         HasCommitted(run'[r]) => HasCommitted(run[r])
  PROVE  CInv' /\ Untaken(r)
<1>1. CASE Keeper # "coordinator"
  BY <1>1 DEF CInv, Untaken
<1>2. CASE Keeper = "coordinator"
  <2>1. (faults' = {} => faults = {}) /\ ("lapse" \notin faults' => "lapse" \notin faults)
    OBVIOUS
  <2>2. OthersClaims(r)
    BY DEF OthersClaims
  <2>3. "lapse" \notin faults' => Claims(run'[r], r, claim')
    BY <1>2, <2>1 DEF CInv, Claims
  <2>4. faults' = {} /\ Keys(r) # <<>> /\ HasCommitted(run'[r]) => Committed(r, claim')
    BY <1>2, <2>1 DEF CInv, Committed
  <2>5. QED
    BY <1>2, <2>1, <2>2, <2>3, <2>4, ClaimOfOne
<1>3. QED
  BY <1>1, <1>2

LEMMA ClaimBody ==
  ASSUME CInv, NEW r \in Run, GInv', VInv', Body(r)
  PROVE  CInv' /\ Untaken(r)
<1>1. /\ Alone(r) /\ run'[r].fence = run[r].fence
      /\ run[r].pc \in BodyPC /\ claim' = claim
      /\ run'[r].pc \in BodyPC \cup {"post", "fail"}
      /\ faults' = faults \/ faults' = faults \cup {"lost"}
  BY BodyMoves DEF CInv, GInv, ThrownInBody, storeVars
<1>2. /\ \A n \in 1 .. Len(Keys(r)) : Claimed(run'[r], r, n) => Claimed(run[r], r, n)
      /\ ~HasCommitted(run'[r])
  BY <1>1 DEF Claimed, BodyPC, HasCommitted
<1>3. QED
  BY <1>1, <1>2, ClaimQuiet

LEMMA ClaimOuter ==
  ASSUME CInv, NEW r \in Run, GInv', VInv',
         \/ Start(r) \/ Refuse(r) \/ Acquire(r) \/ Enter(r) \/ AcquireRefused(r)
         \/ ReleaseNext(r) \/ Unwound(r) \/ Intent(r) \/ IntentLost(r) \/ Post(r)
         \/ Commit(r) \/ Fail(r) \/ Finish(r) \/ Crash(r)
  PROVE  CInv' /\ Untaken(r)
<1> USE DEF At
<1>0. /\ TInv /\ TypeOK /\ run[r] \in RunType /\ Placed(run[r], r)
      /\ StoreTypeOK /\ Reported(run[r], r, log)
      /\ Len(Keys(r)) \in Nat
  BY Base, KeysEnumerate DEF CInv, GInv, VInv
<1>1. faults' = faults \/ faults' = faults \cup {"lost"}
  BY DEF Start, Refuse, Acquire, Enter, AcquireRefused, ReleaseNext, Unwound,
         Intent, IntentLost, Post, Commit, Fail, Finish, Crash, Lose
<1>2. (faults' = {} => faults = {}) /\ ("lapse" \notin faults' => "lapse" \notin faults)
  BY <1>1
<1>3. CASE Start(r) \/ Refuse(r) \/ Acquire(r) \/ AcquireRefused(r) \/ ReleaseNext(r)
             \/ Unwound(r) \/ Finish(r) \/ Crash(r) \/ Fail(r)
  <2>1. claim' = claim
    BY <1>3 DEF Start, Refuse, Acquire, AcquireRefused, ReleaseNext, Unwound, Finish,
           Crash, Fail, storeVars, AcquireLease, ReleaseLease
  <2>2. Alone(r) /\ \A n : ~Claimed(run'[r], r, n)
    <3>1. Alone(r) /\ run'[r].pc \in {"acquire", "done", "unwind", "release", "asleep",
                                      "crashed"}
      BY <1>0, <1>3, OuterMoves DEF Becomes, ReleaseNext
    <3>2. QED
      BY <3>1 DEF Claimed, BodyPC
  <2>3. HasCommitted(run'[r]) => HasCommitted(run[r])
    <3>1. CASE Start(r) \/ Refuse(r) \/ Acquire(r) \/ AcquireRefused(r) \/ Unwound(r)
                 \/ Crash(r)
      BY <1>0, <3>1, OuterMoves DEF Becomes, HasCommitted
    <3>2. CASE ReleaseNext(r) \/ Finish(r)
      BY <1>0, <3>2, OuterMoves DEF Becomes, HasCommitted, Finish
    <3>3. CASE Fail(r)
      <4>1. run'[r].code = run[r].code /\ run[r].pc = "fail"
        BY <1>0, <3>3, OuterMoves DEF Fail
      <4>2. QED
        BY <1>0, <4>1 DEF HasCommitted, Reported
    <3>4. QED
      BY <1>3, <3>1, <3>2, <3>3
  <2>4. QED
    BY <1>1, <2>1, <2>2, <2>3, ClaimQuiet
<1>4. CASE Post(r)
  <2>1. claim' = claim /\ run[r].pc = "post"
    BY <1>4 DEF Post, storeVars
  <2>2. Alone(r) /\ run'[r].fence = run[r].fence /\ run'[r].pc \in {"commit", "fail"}
    BY <1>0, <1>4, OuterMoves DEF Becomes
  <2>3. /\ \A n \in 1 .. Len(Keys(r)) : Claimed(run'[r], r, n) => Claimed(run[r], r, n)
        /\ ~HasCommitted(run'[r])
    BY <2>1, <2>2 DEF Claimed, HasCommitted
  <2>4. QED
    BY <1>1, <2>1, <2>2, <2>3, ClaimQuiet
<1>5. CASE Enter(r)
  <2>1. claim' = claim /\ run[r].pc = "acquire"
    BY <1>5 DEF Enter, storeVars
  <2>2. Alone(r) /\ run'[r].fence = run[r].fence /\ run'[r].pos = 1
        /\ run'[r].pc = IF Coordinated(r) THEN "intent" ELSE "append"
    BY <1>0, <1>5, OuterMoves DEF Becomes
  <2>3. ~HasCommitted(run'[r])
    BY <2>2 DEF HasCommitted
  <2>4. CASE Keeper # "coordinator"
    BY <2>4 DEF CInv, Untaken
  <2>5. CASE Keeper = "coordinator"
    <3>1. \A n \in 1 .. Len(Keys(r)) : ~Claimed(run'[r], r, n)
      BY <2>2, <2>5, KeysEnumerate DEF Coordinated, Claimed, BodyPC
    <3>2. QED
      BY <1>1, <2>1, <2>2, <2>3, <3>1, ClaimQuiet
  <2>6. QED
    BY <2>4, <2>5
<1>6. CASE Intent(r)
  <2>1. CASE claim' = claim /\ run[r].pos > Len(Keys(r)) /\ Goto(r, "append")
    <3>1. run[r].pc = "intent"
      BY <1>6 DEF Intent
    <3>2. Alone(r) /\ run'[r].fence = run[r].fence /\ run'[r].pc = "append"
      BY <1>0, <2>1, Base, GotoMoves DEF PC, Stays
    <3>3. /\ \A n \in 1 .. Len(Keys(r)) : Claimed(run'[r], r, n) => Claimed(run[r], r, n)
          /\ ~HasCommitted(run'[r])
      BY <1>0, <2>1, <3>1, <3>2 DEF Claimed, HasCommitted, RunType
    <3>4. QED
      BY <1>1, <2>1, <3>2, <3>3, ClaimQuiet
  <2>2. CASE /\ run[r].pos <= Len(Keys(r))
             /\ WinClaim(r, KeyAt(r), run[r].fence[KeyAt(r)], FALSE)
             /\ Advance(r)
    <3> DEFINE k == KeyAt(r)
    <3>1. /\ k \in Key /\ run[r].pos \in 1 .. Len(Keys(r)) /\ k = Keys(r)[run[r].pos]
          /\ run[r].pc = "intent"
      BY <1>0, <1>6, <2>2, KeyInHand DEF Intent
    <3> HIDE DEF k
    <3>2. run[r].fence[k] \in Fence
      BY <1>0, <3>1 DEF RunType
    <3>3. /\ claim'[k].holder = r /\ claim'[k].fence = run[r].fence[k]
          /\ \A j \in Key : j # k => claim'[j] = claim[j]
      <4>1. WinClaim(r, k, run[r].fence[k], FALSE)
        BY <2>2 DEF k
      <4>2. claim \in [Key -> Claim]
        BY <1>0 DEF StoreTypeOK
      <4>3. QED
        BY <3>1, <4>1, <4>2 DEF WinClaim
    <3>4. /\ Alone(r) /\ run'[r].fence = run[r].fence /\ run'[r].pc = "intent"
          /\ run'[r].pos = run[r].pos + 1
      BY <1>0, <2>2, <3>1, Base, AdvanceMoves DEF Stays
    <3>5. Keeper = "coordinator" /\ ~HasCommitted(run'[r])
      BY <2>2, <3>4 DEF WinClaim, HasCommitted
    <3>6. ASSUME "lapse" \notin faults
          PROVE  OthersClaims(r) /\ Claims(run'[r], r, claim')
      <4>1. OthersClaims(r)
        BY <1>0, <2>2, <3>1, <3>2, <3>6, ClaimWon DEF CInv, GInv, k
      <4>2. Claims(run[r], r, claim)
        BY <3>5, <3>6 DEF CInv
      <4>3. ASSUME NEW n \in 1 .. Len(Keys(r)), n < run[r].pos + 1
            PROVE  /\ claim'[Keys(r)[n]].holder = r
                   /\ claim'[Keys(r)[n]].fence = run'[r].fence[Keys(r)[n]]
        <5>1. CASE n = run[r].pos
          BY <3>1, <3>3, <3>4, <5>1
        <5>2. CASE n < run[r].pos
          <6>1. Keys(r)[n] \in Key /\ Keys(r)[n] # k
            BY <3>1, <5>2, KeysEnumerate
          <6>2. QED
            BY <3>1, <3>3, <3>4, <4>2, <5>2, <6>1 DEF Claims, Claimed
        <5>3. QED
          BY <3>1, <4>3, <5>1, <5>2
      <4>4. Claims(run'[r], r, claim')
        BY <3>4, <4>3 DEF Claims, Claimed, BodyPC
      <4>5. QED
        BY <4>1, <4>4
    <3>7. QED
      BY <1>2, <3>4, <3>5, <3>6, ClaimOfOne
  <2>3. QED
    BY <1>6, <2>1, <2>2 DEF Intent, storeVars
<1>7. CASE IntentLost(r)
  <2>1. Alone(r) /\ run'[r].pc = "fail"
    BY <1>0, <1>7, OuterMoves DEF Becomes
  <2>2. (\A n : ~Claimed(run'[r], r, n)) /\ ~HasCommitted(run'[r])
    BY <2>1 DEF Claimed, HasCommitted, BodyPC
  <2>3. CASE claim' = claim
    BY <1>1, <2>1, <2>2, <2>3, ClaimQuiet
  <2>4. CASE WinClaim(r, KeyAt(r), run[r].fence[KeyAt(r)], FALSE)
    <3>1. KeyAt(r) \in Key
      BY <1>0, <1>7, KeyInHand DEF IntentLost
    <3>2. run[r].fence[KeyAt(r)] \in Fence
      BY <1>0, <3>1 DEF RunType
    <3>3. "lapse" \notin faults => OthersClaims(r)
      BY <1>0, <2>4, <3>1, <3>2, ClaimWon DEF CInv, GInv
    <3>4. Claims(run'[r], r, claim')
      BY <2>2 DEF Claims
    <3>5. Keeper = "coordinator"
      BY <2>4 DEF WinClaim
    <3>6. QED
      BY <1>2, <2>1, <2>2, <3>3, <3>4, <3>5, ClaimOfOne
  <2>5. QED
    BY <1>7, <2>3, <2>4 DEF IntentLost, storeVars
<1>8. CASE Commit(r)
  <2> DEFINE k == Keys(r)[1]
             f == run[r].fence[k]
  <2>1. /\ Alone(r) /\ run'[r].pc = "release" /\ run[r].pc = "commit"
        /\ run'[r].code = run[r].code
    BY <1>0, <1>8, OuterMoves DEF Becomes, Commit
  <2>2. \A n : ~Claimed(run'[r], r, n)
    BY <2>1 DEF Claimed, BodyPC
  <2>3. CASE Keeper # "coordinator"
    BY <2>3 DEF CInv, Untaken
  <2>4. CASE Keeper = "coordinator" /\ Keys(r) = <<>>
    <3>1. claim' = claim
      BY <1>8, <2>4 DEF Commit, Coordinated, storeVars
    <3>2. OthersClaims(r) /\ Claims(run'[r], r, claim')
      BY <2>2, <3>1 DEF OthersClaims, Claims
    <3>3. QED
      BY <1>2, <2>1, <2>4, <3>2, ClaimOfOne
  <2>5. CASE Keeper = "coordinator" /\ Keys(r) # <<>>
    <3>1. k \in Key /\ 1 \in 1 .. Len(Keys(r)) /\ Coordinated(r)
      BY <2>5, FirstKey DEF Coordinated
    <3>2. f \in Fence
      BY <1>0, <3>1 DEF RunType
    <3>3. Claims(run'[r], r, claim')
      BY <2>2 DEF Claims
    <3>4. CASE WinClaim(r, k, f, TRUE)
      <4>1. "lapse" \notin faults => OthersClaims(r)
        BY <1>0, <3>1, <3>2, <3>4, ClaimWon DEF CInv, GInv
      <4>2. Committed(r, claim')
        <5> HIDE DEF k, f
        <5>1. claim'[k].holder = r /\ claim'[k].state = "committed"
          BY <1>0, <3>1, <3>2, <3>4, Won DEF Run
        <5>2. QED
          BY <5>1 DEF Committed, k
      <4>3. QED
        BY <1>2, <2>1, <2>5, <3>3, <4>1, <4>2, ClaimOfOne
    <3>5. CASE claim' = claim /\ ("lost" \in faults' \/ Loses(r, k, f))
      <4>1. OthersClaims(r)
        BY <3>5 DEF OthersClaims
      <4>2. ASSUME faults' = {} PROVE FALSE
        <5>1. Loses(r, k, f) /\ faults = {}
          BY <1>2, <3>5, <4>2
        <5>2. lease[k].holder = r /\ lease[k].fence = f
          BY <2>1, <3>1, <5>1 DEF CInv, GInv, Grips, Gripped, Beating
        <5>3. claim[k].holder = r /\ claim[k].fence = f
          BY <2>1, <2>5, <3>1, <5>1 DEF CInv, Claims, Claimed
        <5>4. QED
          BY <5>1, <5>2, <5>3 DEF Loses, LeasedElsewhere, ForeignClaim, Matches
      <4>3. QED
        BY <1>2, <2>1, <2>5, <3>3, <4>1, <4>2, ClaimOfOne
    <3>6. QED
      BY <1>8, <3>1, <3>4, <3>5 DEF Commit, Lose, storeVars
  <2>6. QED
    BY <2>3, <2>4, <2>5
<1>9. QED
  BY <1>3, <1>4, <1>5, <1>6, <1>7, <1>8

LEMMA ClaimStep == CInv /\ [Next]_vars => CInv'
<1> SUFFICES ASSUME CInv, [Next]_vars PROVE CInv'
  OBVIOUS
<1>0. GInv' /\ VInv' /\ TypeOK
  BY GripStep, VerdictStep DEF CInv, GInv, TInv
<1>1. CASE \E r \in Run : Body(r)
  BY <1>0, <1>1, ClaimBody
<1>2. CASE \E r \in Run : Start(r) \/ Refuse(r) \/ Acquire(r) \/ Enter(r)
             \/ AcquireRefused(r) \/ ReleaseNext(r) \/ Unwound(r) \/ Intent(r)
             \/ IntentLost(r) \/ Post(r) \/ Commit(r) \/ Fail(r) \/ Finish(r)
             \/ Crash(r)
  BY <1>0, <1>2, ClaimOuter
<1>3. CASE \E r \in Run : Heartbeat(r)
  BY <1>0, <1>3, Renewed DEF CInv
<1>4. CASE Clock
  <2>1. claim' = claim /\ \A s \in Run :
          run'[s] = run[s] \/ run'[s].pc = "acquire"
    BY <1>0, <1>4, ClockMoves
  <2>2. faults \subseteq faults'
    BY <1>4 DEF Clock
  <2>3. ASSUME NEW s \in Run
        PROVE  /\ Claims(run[s], s, claim) => Claims(run'[s], s, claim')
               /\ HasCommitted(run'[s]) => HasCommitted(run[s])
    BY <2>1 DEF Claims, Claimed, BodyPC, HasCommitted
  <2>4. Keeper = "coordinator" /\ "lapse" \notin faults' =>
          \A s \in Run : Claims(run'[s], s, claim')
    BY <2>2, <2>3 DEF CInv
  <2>5. Keeper = "coordinator" /\ faults' = {} => \A s \in Run :
          Keys(s) # <<>> /\ HasCommitted(run'[s]) => Committed(s, claim')
    BY <2>1, <2>2, <2>3 DEF CInv, Committed
  <2>6. QED
    BY <1>0, <2>4, <2>5 DEF CInv
<1>5. CASE UNCHANGED vars
  BY <1>0, <1>5 DEF vars, storeVars, CInv
<1>6. QED
  BY <1>1, <1>2, <1>3, <1>4, <1>5 DEF Next, Progress, Body

\* The inductive invariant of the claims: as long as no lease expires, a run at work on
\* its plan has the claims its intents won, and keeps the first of them once it has
\* committed it.
THEOREM ClaimsHold == Spec => []CInv
<1>1. Init => CInv
  <2> SUFFICES ASSUME Init PROVE CInv
    OBVIOUS
  <2>1. GInv /\ VInv
    BY GripInit, TypeInit DEF Init, VInv, Reported
  <2>2. \A r \in Run : Claims(run[r], r, claim) /\ ~HasCommitted(run[r])
    BY DEF Init, Claims, Claimed, BodyPC, HasCommitted
  <2>3. QED
    BY <2>1, <2>2 DEF CInv
<1>2. QED
  BY <1>1, ClaimStep, PTL DEF Spec

\* With a coordinator no step is called before every key of the plan is claimed by the
\* run that calls it (the intents of execute.ts come before the first attempt).
THEOREM ClaimsComeFirst == Spec => []ClaimedBeforeCall
<1>1. CInv => ClaimedBeforeCall
  <2> SUFFICES ASSUME CInv, NEW r \in Run, Keeper = "coordinator", Busied(r),
                      NEW k \in Touches[PlanOf[r]], "lapse" \notin faults
               PROVE  claim[k].holder = r /\ claim[k].fence = run[r].fence[k]
    BY DEF ClaimedBeforeCall
  <2>1. PICK n \in 1 .. Len(Keys(r)) : Keys(r)[n] = k
    BY KeysEnumerate
  <2>2. QED
    BY <2>1 DEF CInv, Claims, Claimed, Busied, BodyPC
<1>2. QED
  BY <1>1, ClaimsHold, PTL

\* Whoever has an ok in hand is at work with its claims, has committed, or died holding
\* the lease of a claim or after a commit: no other run can take the claim from it.
Sure(c, r, ls, cl) ==
  /\ c.pc \in BodyPC \cup {"post", "commit", "release", "done", "crashed"}
  /\ c.pc = "crashed" =>
       \/ cl[Keys(r)[1]].holder = r /\ ls[Keys(r)[1]].holder = r
       \/ Committed(r, cl)

EInv ==
  /\ CInv
  /\ Keeper = "coordinator" /\ faults = {} =>
       \A r \in Run : Keys(r) # <<>> /\ run[r].code = "ok" =>
         Sure(run[r], r, lease, claim)

LEMMA SureOfOne ==
  ASSUME EInv, NEW r \in Run, CInv', Alone(r), Untaken(r),
         faults' = faults \/ faults' = faults \cup {"lost"},
         "lapse" \notin faults' => OthersRows(r),
         Keeper = "coordinator" /\ faults' = {} /\ Keys(r) # <<>>
           /\ run'[r].code = "ok" => Sure(run'[r], r, lease', claim')
  PROVE  EInv'
<1> SUFFICES ASSUME Keeper = "coordinator", faults' = {}, NEW s \in Run, s # r,
                    Keys(s) # <<>>, run'[s].code = "ok"
             PROVE  Sure(run'[s], s, lease', claim')
  BY DEF EInv
<1>1. run'[s] = run[s] /\ Sure(run[s], s, lease, claim)
  BY DEF Alone, EInv
<1>2. OthersRows(r) /\ OthersClaims(r) /\ Keys(s)[1] \in Key
  BY FirstKey DEF Untaken
<1>3. QED
  BY <1>1, <1>2 DEF Sure, Committed, OthersRows, OthersClaims

LEMMA SureStep == EInv /\ [Next]_vars => EInv'
<1> SUFFICES ASSUME EInv, [Next]_vars PROVE EInv'
  OBVIOUS
<1> USE DEF At
<1>0. /\ CInv /\ CInv' /\ GInv /\ GInv' /\ VInv /\ VInv' /\ TInv /\ TypeOK
  BY ClaimStep DEF EInv, CInv, GInv, TInv
<1>1. ASSUME NEW r \in Run, Body(r) PROVE EInv'
  <2>1. /\ Alone(r) /\ UNCHANGED storeVars
        /\ faults' = faults \/ faults' = faults \cup {"lost"}
        /\ run'[r].pc \in BodyPC \cup {"post"} \/ ThrownInBody(r)
    BY <1>0, <1>1, BodyMoves
  <2>2. Untaken(r) /\ OthersRows(r)
    BY <1>0, <1>1, <2>1, ClaimBody, RowsKept
  <2>3. run'[r].code = "ok" => Sure(run'[r], r, lease', claim')
    BY <2>1 DEF ThrownInBody, Sure, BodyPC
  <2>4. QED
    BY <1>0, <2>1, <2>2, <2>3, SureOfOne
<1>2. ASSUME NEW r \in Run,
             \/ Start(r) \/ Refuse(r) \/ Acquire(r) \/ Enter(r) \/ AcquireRefused(r)
             \/ ReleaseNext(r) \/ Unwound(r) \/ Intent(r) \/ IntentLost(r) \/ Post(r)
             \/ Commit(r) \/ Fail(r) \/ Finish(r) \/ Crash(r)
      PROVE  EInv'
  <2>1. /\ Untaken(r)
        /\ "lapse" \notin faults' => OthersRows(r)
    <3>1. Untaken(r)
      BY <1>0, <1>2, ClaimOuter
    <3>2. "lapse" \notin faults' => OthersRows(r)
      BY <1>0, <1>2, GripOuter DEF GInv
    <3>3. QED
      BY <3>1, <3>2
  <2>2. faults' = faults \/ faults' = faults \cup {"lost"}
    BY <1>2 DEF Start, Refuse, Acquire, Enter, AcquireRefused, ReleaseNext, Unwound,
           Intent, IntentLost, Post, Commit, Fail, Finish, Crash, Lose
  <2>3. Alone(r)
    BY <1>0, <1>2, OuterMoves DEF Becomes
  <2>4. ASSUME Keeper = "coordinator", faults' = {}, Keys(r) # <<>>,
               run'[r].code = "ok"
        PROVE  Sure(run'[r], r, lease', claim')
    <3>0. faults = {}
      BY <2>2, <2>4
    <3>1. run[r].code = "ok" =>
            run[r].pc \in BodyPC \cup {"post", "commit", "release", "done", "crashed"}
      BY <2>4, <3>0 DEF EInv, Sure
    <3>2. CASE Start(r) \/ Acquire(r) \/ Enter(r) \/ AcquireRefused(r) \/ Unwound(r)
                 \/ Intent(r)
      <4>1. run[r].pc \in {"idle", "acquire", "unwind", "intent"}
        BY <3>2 DEF Start, Acquire, Enter, AcquireRefused, Unwound, Intent
      <4>2. run'[r].code # "ok"
        BY <1>0, <3>1, <3>2, <4>1, OuterMoves DEF BodyPC
      <4>3. QED
        BY <2>4, <4>2
    <3>3. CASE Refuse(r) \/ IntentLost(r)
      BY <1>0, <2>4, <3>3, OuterMoves
    <3>4. CASE ReleaseNext(r)
      <4>1. run'[r].pc = run[r].pc /\ run'[r].code = run[r].code
            /\ run[r].pc \in {"unwind", "release"}
        BY <1>0, <3>4, OuterMoves DEF Becomes, ReleaseNext
      <4>2. QED
        BY <2>4, <3>1, <4>1 DEF Sure, BodyPC
    <3>5. CASE Post(r) \/ Commit(r) \/ Fail(r) \/ Finish(r)
      <4>1. run'[r].pc \in {"commit", "fail", "release", "done"}
            /\ (run'[r].pc = "fail" => run'[r].code = "VR5002")
        BY <1>0, <3>5, OuterMoves DEF Becomes
      <4>2. QED
        BY <2>4, <4>1 DEF Sure
    <3>6. CASE Crash(r)
      <4>1. /\ run'[r].pc = "crashed" /\ run[r].code = "ok"
            /\ run[r].pc \notin {"done", "crashed"}
            /\ UNCHANGED <<lease, claim>>
        BY <1>0, <2>4, <3>6, OuterMoves DEF Becomes, Crash, storeVars
      <4>2. 1 \in 1 .. Len(Keys(r))
        BY <2>4, FirstKey
      <4>3. CASE run[r].pc \in BodyPC \cup {"post", "commit"}
        <5>1. Claimed(run[r], r, 1) /\ Gripped(run[r], r, 1)
          BY <4>3 DEF Claimed, Gripped, BodyPC, Beating
        <5>2. claim[Keys(r)[1]].holder = r /\ lease[Keys(r)[1]].holder = r
          BY <1>0, <2>4, <3>0, <4>2, <5>1 DEF CInv, GInv, Claims, Grips
        <5>3. QED
          BY <4>1, <5>2 DEF Sure
      <4>4. CASE run[r].pc = "release"
        <5>1. Committed(r, claim)
          BY <1>0, <2>4, <3>0, <4>1, <4>4 DEF CInv, HasCommitted
        <5>2. QED
          BY <4>1, <5>1 DEF Sure, Committed
      <4>5. QED
        BY <3>1, <4>1, <4>3, <4>4
    <3>7. QED
      BY <1>2, <3>2, <3>3, <3>4, <3>5, <3>6
  <2>5. QED
    BY <1>0, <2>1, <2>2, <2>3, <2>4, SureOfOne
<1>3. ASSUME NEW r \in Run, Heartbeat(r) PROVE EInv'
  <2>1. /\ UNCHANGED <<claim, run, faults>> /\ StoreTypeOK
        /\ \A k \in Key : \/ lease'[k] = lease[k]
                          \/ lease'[k] = [lease[k] EXCEPT !.expires = now + Ttl]
    BY <1>0, <1>3, Renewed DEF TypeOK
  <2>2. \A k \in Key : lease'[k].holder = lease[k].holder
    BY <2>1 DEF StoreTypeOK, Lease
  <2>3. QED
    BY <1>0, <2>1, <2>2, FirstKey DEF EInv, Sure, Committed
<1>4. CASE Clock
  <2>1. UNCHANGED <<lease, claim>> /\ \A s \in Run :
          run[s].pc = "asleep" \/ run'[s] = run[s]
    BY <1>0, <1>4, ClockMoves
  <2>2. \A s \in Run : run[s].pc = "asleep" => run'[s].code = run[s].code
    BY <1>0, <1>4, Base DEF Clock, RunType
  <2>3. faults \subseteq faults'
    BY <1>4 DEF Clock
  <2>4. QED
    BY <1>0, <2>1, <2>2, <2>3 DEF EInv, Sure, Committed, BodyPC
<1>5. CASE UNCHANGED vars
  BY <1>0, <1>5 DEF vars, storeVars, EInv
<1>6. QED
  BY <1>1, <1>2, <1>3, <1>4, <1>5 DEF Next, Progress, Body

\* Of the runs of different sagas whose plans start with the same resource one at most
\* answers ok: the commit of the first key decides (CoordinatorStore.conflict).
THEOREM OneOkDecides == Spec => []OneOkPerFirstKey
<1>1. Init => EInv
  <2> SUFFICES ASSUME Init PROVE EInv
    OBVIOUS
  <2>1. GInv /\ VInv
    BY GripInit, TypeInit DEF Init, VInv, Reported
  <2>2. \A r \in Run : Claims(run[r], r, claim) /\ ~HasCommitted(run[r])
                        /\ run[r].code # "ok"
    BY DEF Init, Claims, Claimed, BodyPC, HasCommitted
  <2>3. QED
    BY <2>1, <2>2 DEF CInv, EInv
<1>2. EInv => OneOkPerFirstKey
  <2> SUFFICES ASSUME EInv, NEW r \in Run, NEW s \in Run,
                      Coordinated(r), Coordinated(s), r # s,
                      Keys(r)[1] = Keys(s)[1], faults = {},
                      run[r].pc = "done", run[r].code = "ok", run[s].code = "ok"
               PROVE  FALSE
    BY DEF OneOkPerFirstKey
  <2>1. Committed(r, claim)
    BY DEF EInv, CInv, Coordinated, HasCommitted
  <2>2. Sure(run[s], s, lease, claim) /\ 1 \in 1 .. Len(Keys(s))
    BY FirstKey DEF EInv, Coordinated
  <2>3. CASE run[s].pc \in BodyPC \cup {"post", "commit"}
    BY <2>1, <2>2, <2>3 DEF EInv, CInv, Claims, Claimed, Coordinated, Committed
  <2>4. CASE run[s].pc \in {"release", "done"}
    BY <2>1, <2>4 DEF EInv, CInv, Coordinated, HasCommitted, Committed
  <2>5. CASE run[s].pc = "crashed"
    BY <2>1, <2>2, <2>5 DEF Sure, Committed
  <2>6. QED
    BY <2>2, <2>3, <2>4, <2>5 DEF Sure
<1>3. QED
  BY <1>1, <1>2, SureStep, PTL DEF Spec

-----------------------------------------------------------------------------
(* Calls.  As long as no lease has expired, a step of a plan with keys is     *)
(* called by one run only.                                                    *)

\* A row that no run calls the step of again.
Final(w) == w.state = "succeeded" \/ (w.state = "failed" /\ w.spent)

\* The caller has not recorded what came of its call, or died before it could; the
\* leases of the plan are still its own.
Pending(c, rn, ls) ==
  /\ PlanOf[c.by] = c.plan /\ rn[c.by].at = c.step
  /\ rn[c.by].pc \in {"run", "record", "crashed"}
  /\ \A k \in Touches[c.plan] : ls[k].holder = c.by

\* The calls of the step a run works on.
Mine(c, r, cs) == \A d \in cs : d.plan = PlanOf[r] /\ d.step = c.at =>
  /\ c.pc \notin {"started", "wait", "doubt", "probe", "check"}
  /\ c.pc \in {"run", "record"} => d.by = r

OneCaller(cs) == \A c, d \in cs :
  c.plan = d.plan /\ c.step = d.step /\ Touches[c.plan] # {} => c.by = d.by

OInv ==
  /\ GInv
  /\ "lapse" \notin faults =>
       /\ OneCaller(calls)
       /\ \A c \in calls : Touches[c.plan] # {} =>
            Final(attempt[c.plan][c.step]) \/ Pending(c, run, lease)
       /\ \A r \in Run : Touches[PlanOf[r]] # {} => Mine(run[r], r, calls)

\* A run at work on a step whose row is not final has no calls of the step but its own.
LEMMA NoOtherCaller ==
  ASSUME OInv, "lapse" \notin faults, NEW r \in Run, Touches[PlanOf[r]] # {},
         run[r].pc \in Beating, NEW c \in calls,
         c.plan = PlanOf[r], c.step = run[r].at, ~Final(Row(r))
  PROVE  c.by = r /\ run[r].pc \in {"run", "record"}
<1>1. TInv /\ c \in CallType /\ Row(r) = attempt[c.plan][c.step]
  BY Base DEF OInv, GInv
<1>2. Pending(c, run, lease) /\ c.by \in Run
  BY <1>1 DEF OInv, CallType
<1>3. PICK k \in Touches[PlanOf[r]] : TRUE
  OBVIOUS
<1>4. PICK n \in 1 .. Len(Keys(r)) : Keys(r)[n] = k
  BY <1>3, KeysEnumerate
<1>5. lease[k].holder = r
  BY <1>4 DEF OInv, GInv, Grips, Gripped
<1>6. c.by = r
  BY <1>2, <1>3, <1>5 DEF Pending
<1>7. QED
  BY <1>2, <1>6 DEF Pending, Beating

\* The obligations of the other runs, when r takes a step that makes no call.
LEMMA CallsOfOne ==
  ASSUME OInv, NEW r \in Run, GInv', Alone(r), calls' = calls,
         "lapse" \notin faults' =>
           /\ "lapse" \notin faults /\ OthersRows(r)
           /\ Touches[PlanOf[r]] # {} => Mine(run'[r], r, calls)
           /\ \A c \in calls : Touches[c.plan] # {} =>
                /\ Final(attempt[c.plan][c.step]) => Final(attempt'[c.plan][c.step])
                /\ c.by = r /\ Pending(c, run, lease) =>
                     Final(attempt'[c.plan][c.step]) \/ Pending(c, run', lease')
  PROVE  OInv'
<1> SUFFICES ASSUME "lapse" \notin faults'
             PROVE  /\ OneCaller(calls')
                    /\ \A c \in calls' : Touches[c.plan] # {} =>
                         Final(attempt'[c.plan][c.step]) \/ Pending(c, run', lease')
                    /\ \A s \in Run : Touches[PlanOf[s]] # {} =>
                         Mine(run'[s], s, calls')
  BY DEF OInv
<1>1. OneCaller(calls')
  BY DEF OInv
<1>2. \A s \in Run : Touches[PlanOf[s]] # {} => Mine(run'[s], s, calls')
  BY DEF OInv, Alone
<1>3. ASSUME NEW c \in calls, Touches[c.plan] # {}
      PROVE  Final(attempt'[c.plan][c.step]) \/ Pending(c, run', lease')
  <2>1. c \in CallType /\ c.by \in Run /\ Touches[c.plan] \subseteq Key
    <3>1. calls \subseteq CallType
      BY Base DEF OInv, GInv
    <3>2. QED
      BY <3>1, ExecutorAssumption DEF CallType
  <2>2. ASSUME c.by # r, Pending(c, run, lease) PROVE Pending(c, run', lease')
    BY <2>1, <2>2 DEF Pending, Alone, OthersRows
  <2>3. QED
    BY <1>3, <2>1, <2>2 DEF OInv
<1>4. QED
  BY <1>1, <1>2, <1>3

\* Outside the body only a crash concerns calls.
LEMMA CallsOuter ==
  ASSUME OInv, NEW r \in Run, GInv',
         \/ Start(r) \/ Refuse(r) \/ Acquire(r) \/ Enter(r) \/ AcquireRefused(r)
         \/ ReleaseNext(r) \/ Unwound(r) \/ Intent(r) \/ IntentLost(r) \/ Post(r)
         \/ Commit(r) \/ Fail(r) \/ Finish(r) \/ Crash(r)
  PROVE  OInv'
<1> USE DEF At
<1>0. GInv /\ TInv /\ TInv'
  BY DEF OInv, GInv
<1>1. UNCHANGED <<attempt, calls>>
      /\ (faults' = faults \/ faults' = faults \cup {"lost"})
  BY DEF Start, Refuse, Acquire, Enter, AcquireRefused, ReleaseNext, Unwound,
         Intent, IntentLost, Post, Commit, Fail, Finish, Crash, Lose
<1>2. "lapse" \notin faults' => "lapse" \notin faults /\ OthersRows(r)
  BY <1>0, <1>1, GripOuter
<1>3. Alone(r) /\ run'[r].pc \notin InStep
  <2>1. Alone(r) /\ (run'[r].pc \in {"acquire", "done", "unwind", "release", "asleep",
                                     "crashed", "intent", "append", "fail", "commit"})
    BY <1>0, OuterMoves DEF Becomes, ReleaseNext
  <2>2. QED
    BY <2>1 DEF InStep
<1>4. Mine(run'[r], r, calls)
  BY <1>3 DEF Mine, InStep
<1>5. CASE Crash(r)
  <2>1. run'[r].pc = "crashed" /\ run'[r].at = run[r].at /\ lease' = lease
    BY <1>0, <1>5, OuterMoves DEF Becomes, Crash, storeVars
  <2>2. \A c : c.by = r /\ Pending(c, run, lease) => Pending(c, run', lease')
    BY <2>1 DEF Pending
  <2>3. QED
    BY <1>1, <1>2, <1>3, <1>4, <2>2, CallsOfOne
<1>6. CASE ~Crash(r)
  <2>1. run[r].pc \notin {"run", "record", "crashed"}
    BY <1>6 DEF Start, Refuse, Acquire, Enter, AcquireRefused, ReleaseNext, Unwound,
           Intent, IntentLost, Post, Commit, Fail, Finish
  <2>2. \A c : c.by = r => ~Pending(c, run, lease)
    BY <2>1 DEF Pending
  <2>3. QED
    BY <1>1, <1>2, <1>3, <1>4, <2>2, CallsOfOne
<1>7. QED
  BY <1>5, <1>6

\* A row that is written: what it becomes, and that it is the only one.
OtherRowsStay(r) == \A p \in Plan, i \in Step :
  ~(p = PlanOf[r] /\ i = run[r].at) => attempt'[p][i] = attempt[p][i]

LEMMA RowWritten ==
  ASSUME TInv, NEW r \in Run, NEW state, NEW id, NEW code, NEW spent,
         SetRow(r, state, id, code, spent)
  PROVE  /\ OtherRowsStay(r)
         /\ attempt'[PlanOf[r]][run[r].at] =
              [state |-> state, id |-> id, code |-> code, spent |-> spent]
BY Base DEF SetRow, OtherRowsStay

\* Where the steps that make no call leave the run: done with the step, or still at
\* it with no call of it made yet, since its row was not final.
Untried(r) ==
  \/ run[r].pc \in InStep \ {"run", "record"}
  \/ run[r].pc = "append" /\ ~Final(Row(r))

LEMMA BodyCalls ==
  ASSUME TInv, NEW r \in Run, Body(r), ~CallStep(r)
  PROVE  /\ calls' = calls
         /\ \/ run'[r].pc \in {"append", "post", "fail"}
            \/ run'[r].at = run[r].at /\ Untried(r)
         /\ \/ attempt' = attempt
            \/ OtherRowsStay(r) /\ Untried(r)
            \/ OtherRowsStay(r) /\ Final(attempt'[PlanOf[r]][run[r].at])
         /\ run[r].pc = "record" => Final(attempt'[PlanOf[r]][run[r].at])
<1> USE DEF At
<1>0. /\ run \in [Run -> RunType] /\ run[r] \in RunType /\ Placed(run[r], r)
      /\ RowOk(Row(r)) /\ {"VR5001", "VR5005", "VR5006", "VR5010", "VR2020"} \subseteq Codes
      /\ {"check", "doubt", "probe"} \subseteq PC
  BY Base DEF Codes, PC
<1>1. NextStep(r) => run'[r].pc \in {"append", "post"}
  BY <1>0, NextStepMoves
<1>2. \A code \in Codes : Throw(r, code) => run'[r].pc = "fail"
  BY <1>0, ThrowMoves
<1>3. \A pc \in {"check", "doubt", "probe"} : Goto(r, pc) => run'[r].at = run[r].at
  BY <1>0, GotoMoves DEF Stays
<1>4. CASE AppendAttempt(r)
  <2>1. Row(r) = NoAttempt /\ run[r].pc = "append" /\ calls' = calls
        /\ SetRow(r, "started", r, "none", FALSE)
        /\ run' = [run EXCEPT ![r].pc = "check", ![r].pos = 1, ![r].id = r]
    BY <1>4 DEF AppendAttempt
  <2>2. Untried(r)
    BY <2>1 DEF Untried, Final, NoAttempt
  <2>3. run'[r].at = run[r].at
    BY <1>0, <2>1 DEF RunType
  <2>4. QED
    BY <2>1, <2>2, <2>3, RowWritten
<1>5. CASE TakeOver(r)
  <2>0. run[r].pc = "append" /\ UNCHANGED <<attempt, calls>>
    BY <1>5 DEF TakeOver
  <2>1. CASE NextStep(r)
    BY <1>1, <2>0, <2>1
  <2>2. CASE Row(r).state = "failed" /\ Throw(r, Row(r).code)
    <3>1. Row(r).code \in Codes
      BY <1>0, <2>2 DEF RowOk
    <3>2. QED
      BY <1>2, <2>0, <2>2, <3>1
  <2>3. CASE \/ /\ Row(r).state = "failed" /\ Retryable(r)
                /\ run' = [run EXCEPT ![r].pc = "check", ![r].pos = 1,
                                      ![r].id = IdInHand(r)]
             \/ /\ Row(r).state = "in_doubt"
                /\ run' = [run EXCEPT ![r].pc = "doubt", ![r].id = IdInHand(r)]
             \/ /\ Row(r).state = "started"
                /\ run' = [run EXCEPT ![r].pc = "started", ![r].id = IdInHand(r)]
    <3>1. run'[r].at = run[r].at
      BY <1>0, <2>3 DEF RunType
    <3>2. ~Final(Row(r))
      BY <2>3 DEF Final, Retryable
    <3>3. QED
      BY <2>0, <3>1, <3>2 DEF Untried
  <2>4. QED
    BY <1>5, <2>1, <2>2, <2>3 DEF TakeOver
<1>6. CASE Started(r)
  <2>0. run[r].pc = "started" /\ UNCHANGED <<attempt, calls>> /\ Untried(r)
    BY <1>6 DEF Started, Untried, InStep
  <2>1. CASE run' = [run EXCEPT ![r].pc = "wait", ![r].deadline = now + Wait]
    BY <1>0, <2>0, <2>1 DEF RunType
  <2>2. CASE Goto(r, "check") \/ Throw(r, "VR5010")
    BY <1>0, <1>2, <1>3, <2>0, <2>2
  <2>3. QED
    BY <1>6, <2>1, <2>2 DEF Started
<1>7. CASE Poll(r)
  <2>0. run[r].pc = "wait" /\ UNCHANGED <<attempt, calls>> /\ Untried(r)
    BY <1>7 DEF Poll, Untried, InStep
  <2>1. CASE NextStep(r) \/ Goto(r, "doubt") \/ Throw(r, "VR5005")
    BY <1>0, <1>1, <1>2, <1>3, <2>0, <2>1
  <2>2. CASE Row(r).state = "failed" /\ Throw(r, Row(r).code)
    <3>1. Row(r).code \in Codes
      BY <1>0, <2>2 DEF RowOk
    <3>2. QED
      BY <1>2, <2>0, <2>2, <3>1
  <2>3. QED
    BY <1>7, <2>1, <2>2 DEF Poll
<1>8. CASE MarkInDoubt(r)
  <2>1. run[r].pc = "doubt" /\ calls' = calls /\ Goto(r, "probe") /\ Untried(r)
        /\ SetRow(r, "in_doubt", run[r].id, "none", FALSE)
    BY <1>8 DEF MarkInDoubt, Untried, InStep
  <2>2. QED
    BY <1>3, <2>1, RowWritten
<1>9. CASE Probe(r)
  <2>0. run[r].pc = "probe" /\ calls' = calls /\ Untried(r)
    BY <1>9 DEF Probe, Untried, InStep
  <2>1. CASE Throw(r, "VR2020") /\ UNCHANGED attempt
    BY <1>0, <1>2, <2>0, <2>1
  <2>2. CASE SetRow(r, "failed", run[r].id, "VR5001", FALSE) /\ NextStep(r)
    BY <1>1, <2>0, <2>2, RowWritten
  <2>3. CASE SetRow(r, "succeeded", run[r].id, "none", FALSE) /\ NextStep(r)
    BY <1>1, <2>0, <2>3, RowWritten
  <2>4. QED
    BY <1>9, <2>1, <2>2, <2>3 DEF Probe
<1>10. CASE CheckFence(r)
  <2>0. run[r].pc = "check" /\ UNCHANGED <<attempt, calls>> /\ Untried(r)
    BY <1>10 DEF CheckFence, Untried, InStep
  <2>1. CASE run' = [run EXCEPT ![r].pc = "run", ![r].tries = 0]
    BY <1>0, <2>0, <2>1 DEF RunType
  <2>2. CASE run[r].pos <= Len(Keys(r)) /\ Advance(r)
    BY <1>0, <2>0, <2>2, AdvanceMoves DEF Stays
  <2>3. CASE Throw(r, "VR5010")
    BY <1>0, <1>2, <2>0, <2>3
  <2>4. QED
    BY <1>10, <2>1, <2>2, <2>3 DEF CheckFence
<1>11. CASE FenceLapsed(r)
  <2>1. run[r].pc = "check" /\ calls' = calls /\ Throw(r, "VR5010") /\ Untried(r)
        /\ SetRow(r, "in_doubt", run[r].id, "none", FALSE)
    BY <1>11 DEF FenceLapsed, Untried, InStep
  <2>2. QED
    BY <1>0, <1>2, <2>1, RowWritten
<1>12. CASE Record(r)
  <2>0. run[r].pc = "record" /\ calls' = calls
    BY <1>12 DEF Record
  <2>1. CASE SetRow(r, "succeeded", run[r].id, "none", FALSE) /\ NextStep(r)
    <3>0. attempt'[PlanOf[r]][run[r].at].state = "succeeded"
      BY <2>1, Base DEF SetRow
    <3>1. OtherRowsStay(r) /\ Final(attempt'[PlanOf[r]][run[r].at])
      BY <2>1, <3>0, RowWritten DEF Final
    <3>2. QED
      BY <1>1, <2>0, <2>1, <3>1
  <2>2. CASE /\ Failed(r)
             /\ SetRow(r, "failed", run[r].id, run[r].code, TRUE)
             /\ Throw(r, run[r].code)
    <3>1. run[r].code \in Codes
      BY <1>0, <2>0, <2>2 DEF Placed, Failed
    <3>0. /\ attempt'[PlanOf[r]][run[r].at].state = "failed"
          /\ attempt'[PlanOf[r]][run[r].at].spent = TRUE
      BY <2>2, Base DEF SetRow
    <3>2. OtherRowsStay(r) /\ Final(attempt'[PlanOf[r]][run[r].at])
      BY <2>2, <3>0, RowWritten DEF Final
    <3>3. QED
      BY <1>2, <2>0, <2>2, <3>1, <3>2
  <2>3. QED
    BY <1>12, <2>1, <2>2 DEF Record
<1>13. QED
  BY <1>4, <1>5, <1>6, <1>7, <1>8, <1>9, <1>10, <1>11, <1>12 DEF Body

\* A step of the body that makes no call: a row that is written had no calls yet, or
\* is final now.
LEMMA CallsBody ==
  ASSUME OInv, NEW r \in Run, GInv', Body(r), ~CallStep(r)
  PROVE  OInv'
<1>0. GInv /\ TInv /\ TInv'
  BY DEF OInv, GInv
<1>1. /\ Alone(r) /\ UNCHANGED storeVars /\ OthersRows(r)
      /\ run[r].pc \in BodyPC
      /\ "lapse" \notin faults' => "lapse" \notin faults
  BY <1>0, BodyMoves, RowsKept
<1>2. calls' = calls
  BY <1>0, BodyCalls
<1> SUFFICES ASSUME "lapse" \notin faults'
             PROVE  /\ Touches[PlanOf[r]] # {} => Mine(run'[r], r, calls)
                    /\ \A c \in calls : Touches[c.plan] # {} =>
                         /\ Final(attempt[c.plan][c.step]) =>
                              Final(attempt'[c.plan][c.step])
                         /\ c.by = r /\ Pending(c, run, lease) =>
                              Final(attempt'[c.plan][c.step])
                                \/ Pending(c, run', lease')
  BY <1>1, <1>2, CallsOfOne
<1>3. ASSUME Untried(r), Touches[PlanOf[r]] # {}, NEW c \in calls,
             c.plan = PlanOf[r], c.step = run[r].at
      PROVE  FALSE
  <2>1. CASE run[r].pc \in InStep \ {"run", "record"}
    BY <1>1, <1>3, <2>1 DEF OInv, Mine, InStep
  <2>2. CASE run[r].pc = "append" /\ ~Final(Row(r))
    BY <1>1, <1>3, <2>2, NoOtherCaller DEF Beating
  <2>3. QED
    BY <1>3, <2>1, <2>2 DEF Untried
<1>4. Touches[PlanOf[r]] # {} => Mine(run'[r], r, calls)
  <2>1. CASE run'[r].pc \in {"append", "post", "fail"}
    BY <2>1 DEF Mine
  <2>2. CASE run'[r].at = run[r].at /\ Untried(r)
    BY <1>3, <2>2 DEF Mine
  <2>3. QED
    BY <1>0, <2>1, <2>2, BodyCalls
<1>5. ASSUME NEW c \in calls, Touches[c.plan] # {}
      PROVE  /\ Final(attempt[c.plan][c.step]) => Final(attempt'[c.plan][c.step])
             /\ c.by = r /\ Pending(c, run, lease) =>
                  Final(attempt'[c.plan][c.step]) \/ Pending(c, run', lease')
  <2>1. c.plan \in Plan /\ c.step \in Step
    BY <1>0, Base DEF CallType
  <2>2. Final(attempt[c.plan][c.step]) => Final(attempt'[c.plan][c.step])
    <3>1. CASE c.plan = PlanOf[r] /\ c.step = run[r].at
      BY <1>0, <1>3, <1>5, <3>1, BodyCalls
    <3>2. CASE ~(c.plan = PlanOf[r] /\ c.step = run[r].at)
      BY <1>0, <2>1, <3>2, BodyCalls DEF OtherRowsStay
    <3>3. QED
      BY <3>1, <3>2
  <2>3. ASSUME c.by = r, Pending(c, run, lease)
        PROVE  Final(attempt'[c.plan][c.step])
    <3>1. /\ c.plan = PlanOf[r] /\ c.step = run[r].at
          /\ run[r].pc \in {"run", "record", "crashed"}
      BY <2>3 DEF Pending
    <3>2. run[r].pc # "run"
      BY <1>1 DEF Body, At, AppendAttempt, TakeOver, Started, Poll, MarkInDoubt,
             Probe, CheckFence, FenceLapsed, Record
    <3>3. run[r].pc = "record"
      BY <1>1, <3>1, <3>2 DEF BodyPC
    <3>4. QED
      BY <1>0, <3>1, <3>3, BodyCalls
  <2>4. QED
    BY <2>2, <2>3
<1>6. QED
  BY <1>4, <1>5

\* A call: it is the run's own, which holds the leases of the plan, and so were those
\* made of the step before.
LEMMA CallsMade ==
  ASSUME OInv, NEW r \in Run, GInv', CallStep(r)
  PROVE  OInv'
<1>0. GInv /\ TInv /\ TInv'
  BY DEF OInv, GInv
<1>1. /\ Alone(r) /\ run'[r].at = run[r].at /\ run[r].pc = "run"
      /\ run'[r].pc \in {"run", "record"}
      /\ UNCHANGED <<storeVars, attempt, log, faults>>
  BY <1>0, CallMoves DEF Stays
<1>2. PICK hit \in BOOLEAN :
        calls' = calls \cup {[plan |-> PlanOf[r], step |-> run[r].at,
                              by |-> r, id |-> run[r].id, hit |-> hit]}
  BY <1>0, CallMoves
<1> DEFINE new == [plan |-> PlanOf[r], step |-> run[r].at,
                   by |-> r, id |-> run[r].id, hit |-> hit]
<1>3. new.plan = PlanOf[r] /\ new.step = run[r].at /\ new.by = r
      /\ calls' = calls \cup {new}
  BY <1>2
<1> HIDE DEF new
<1> SUFFICES ASSUME "lapse" \notin faults
             PROVE  /\ OneCaller(calls')
                    /\ \A c \in calls' : Touches[c.plan] # {} =>
                         Final(attempt'[c.plan][c.step]) \/ Pending(c, run', lease')
                    /\ \A s \in Run : Touches[PlanOf[s]] # {} =>
                         Mine(run'[s], s, calls')
  BY <1>1 DEF OInv
<1>4. ASSUME NEW d \in calls, d.plan = PlanOf[r], d.step = run[r].at,
             Touches[PlanOf[r]] # {}
      PROVE  d.by = r
  BY <1>1, <1>4 DEF OInv, Mine
<1>5. OneCaller(calls')
  BY <1>3, <1>4 DEF OInv, OneCaller
<1>6. Touches[PlanOf[r]] # {} => Mine(run'[r], r, calls')
  BY <1>1, <1>3, <1>4 DEF Mine
<1>7. ASSUME NEW s \in Run, s # r, Touches[PlanOf[s]] # {}
      PROVE  Mine(run'[s], s, calls')
  <2>1. run'[s] = run[s] /\ Mine(run[s], s, calls)
    BY <1>1, <1>7 DEF Alone, OInv
  <2>2. ASSUME PlanOf[s] = PlanOf[r], run[s].pc \in InStep PROVE FALSE
    BY <1>0, <1>1, <1>7, <2>2, OneGrip DEF InStep, Beating
  <2>3. QED
    BY <1>3, <2>1, <2>2 DEF Mine, InStep
<1>8. ASSUME NEW c \in calls', Touches[c.plan] # {}
      PROVE  Final(attempt'[c.plan][c.step]) \/ Pending(c, run', lease')
  <2>1. CASE c \in calls
    <3>1. Pending(c, run, lease) => Pending(c, run', lease')
      <4>1. c.by \in Run /\ lease' = lease
        BY <1>0, <1>1, <2>1, Base DEF CallType, storeVars
      <4>2. QED
        BY <1>1, <4>1 DEF Pending, Alone
    <3>2. QED
      BY <1>1, <1>8, <2>1, <3>1 DEF OInv
  <2>2. CASE c = new
    <3>1. \A k \in Touches[PlanOf[r]] : lease'[k].holder = r
      <4> SUFFICES ASSUME NEW k \in Touches[PlanOf[r]] PROVE lease[k].holder = r
        BY <1>1 DEF storeVars
      <4>1. PICK n \in 1 .. Len(Keys(r)) : Keys(r)[n] = k
        BY KeysEnumerate
      <4>2. QED
        BY <1>0, <1>1, <4>1 DEF GInv, Grips, Gripped, Beating
    <3>2. QED
      BY <1>1, <1>3, <2>2, <3>1 DEF Pending
  <2>3. QED
    BY <1>3, <2>1, <2>2
<1>9. QED
  BY <1>5, <1>6, <1>7, <1>8

LEMMA CallsAround ==
  ASSUME OInv, GInv', (\E r \in Run : Heartbeat(r)) \/ Clock \/ UNCHANGED vars
  PROVE  OInv'
<1>0. GInv /\ TInv /\ TypeOK /\ StoreTypeOK
  BY DEF OInv, GInv, TInv, TypeOK
<1>1. \A c \in calls : c.by \in Run /\ Touches[c.plan] \subseteq Key
  BY <1>0, Typed, ExecutorAssumption DEF CallType
<1>2. ASSUME NEW r \in Run, Heartbeat(r) PROVE OInv'
  <2>1. /\ UNCHANGED <<run, attempt, calls, faults>>
        /\ \A k \in Key : \/ lease'[k] = lease[k]
                          \/ lease'[k] = [lease[k] EXCEPT !.expires = now + Ttl]
    BY <1>0, <1>2, Renewed
  <2>2. \A k \in Key : lease'[k].holder = lease[k].holder
    BY <1>0, <2>1 DEF StoreTypeOK, Lease
  <2>3. \A c \in calls : Pending(c, run, lease) => Pending(c, run, lease')
    BY <1>1, <2>2 DEF Pending
  <2>4. QED
    BY <2>1, <2>3 DEF OInv
<1>3. CASE Clock
  <2>1. /\ UNCHANGED <<lease, attempt, calls>>
        /\ \A s \in Run : run[s].pc = "asleep" \/ run'[s] = run[s]
        /\ \A s \in Run : run[s].pc = "asleep" => run'[s].pc = "acquire"
    BY <1>0, <1>3, ClockMoves DEF Clock
  <2>2. "lapse" \notin faults' => "lapse" \notin faults
    BY <1>3 DEF Clock
  <2>3. \A c \in calls : Pending(c, run, lease) => Pending(c, run', lease)
    BY <1>1, <2>1 DEF Pending
  <2>4. \A s \in Run : Mine(run[s], s, calls) => Mine(run'[s], s, calls)
    BY <2>1 DEF Mine
  <2>5. QED
    BY <2>1, <2>2, <2>3, <2>4 DEF OInv
<1>4. CASE UNCHANGED vars
  BY <1>4 DEF vars, storeVars, OInv
<1>5. QED
  BY <1>2, <1>3, <1>4

LEMMA CallsStep == OInv /\ [Next]_vars => OInv'
<1> SUFFICES ASSUME OInv, [Next]_vars PROVE OInv'
  OBVIOUS
<1>0. GInv'
  BY GripStep DEF OInv
<1>1. CASE \E r \in Run : Body(r)
  BY <1>0, <1>1, CallsBody, CallsMade
<1>2. CASE \E r \in Run : Start(r) \/ Refuse(r) \/ Acquire(r) \/ Enter(r)
             \/ AcquireRefused(r) \/ ReleaseNext(r) \/ Unwound(r) \/ Intent(r)
             \/ IntentLost(r) \/ Post(r) \/ Commit(r) \/ Fail(r) \/ Finish(r)
             \/ Crash(r)
  BY <1>0, <1>2, CallsOuter
<1>3. CASE (\E r \in Run : Heartbeat(r)) \/ Clock \/ UNCHANGED vars
  BY <1>0, <1>3, CallsAround
<1>4. QED
  BY <1>1, <1>2, <1>3 DEF Next, Progress, Body

\* The same step of the same plan is called by two runs only if a lease expired on the
\* way: a takeover (handleExistingAttempt) finds the row final, or was not called yet.
THEOREM CallsAreNotRepeated == Spec => []SecondCallerNeedsLapse
<1>1. Init => OInv
  <2> SUFFICES ASSUME Init PROVE OInv
    OBVIOUS
  <2>1. GInv /\ calls = {}
    BY GripInit DEF Init
  <2>2. QED
    BY <2>1 DEF OInv, OneCaller, Mine
<1>2. OInv => SecondCallerNeedsLapse
  BY DEF OInv, OneCaller, SecondCallerNeedsLapse
<1>3. QED
  BY <1>1, <1>2, CallsStep, PTL DEF Spec
-----------------------------------------------------------------------------
(* Success.  As long as no lease has expired and nothing was lost, no row of a *)
(* plan with keys is ever in doubt, and one that succeeded took effect.        *)

Lands(p, i, cs) == \E c \in cs : c.plan = p /\ c.step = i /\ c.hit

\* A run has seen every step before the one it is at take effect.
Through(c, p, cs) ==
  /\ c.pc \notin {"wait", "doubt", "probe"}
  /\ c.pc = "record" /\ c.code = "ok" => Lands(p, c.at, cs)
  /\ \A i \in Step : i < c.at \/ c.pc \in {"post", "commit"} => Lands(p, i, cs)

RowSure(w, p, i, cs) ==
  w.state # "in_doubt" /\ (w.state = "succeeded" => Lands(p, i, cs))

Told(r, lg, cs) ==
  <<r, "executed">> \in lg => \A i \in Step : Lands(PlanOf[r], i, cs)

LInv ==
  /\ GInv
  /\ faults = {} =>
       /\ \A r \in Run : Touches[PlanOf[r]] # {} =>
            Through(run[r], PlanOf[r], calls) /\ Told(r, log, calls)
       /\ \A p \in Plan, i \in Step : Touches[p] # {} =>
            RowSure(attempt[p][i], p, i, calls)

\* What has landed stays landed.
LEMMA LandsStays ==
  ASSUME NEW cs, NEW ds, cs \subseteq ds
  PROVE  /\ \A p, i : Lands(p, i, cs) => Lands(p, i, ds)
         /\ \A w, p, i : RowSure(w, p, i, cs) => RowSure(w, p, i, ds)
         /\ \A c, p : Through(c, p, cs) => Through(c, p, ds)
         /\ \A r, lg : Told(r, lg, cs) => Told(r, lg, ds)
<1>1. \A p, i : Lands(p, i, cs) => Lands(p, i, ds)
  BY DEF Lands
<1>2. QED
  BY <1>1 DEF RowSure, Through, Told

\* A move within the step, or out of the loop.
LEMMA ThroughStays ==
  ASSUME NEW c, NEW d, NEW p, NEW cs, Through(c, p, cs), d.at = c.at,
         d.pc \notin {"wait", "doubt", "probe", "record", "post", "commit"}
  PROVE  Through(d, p, cs)
BY DEF Through

\* On to the next step, from one that has landed.
LEMMA ThroughNext ==
  ASSUME TInv, NEW r \in Run, NEW p, NEW cs, Through(run[r], p, cs), NextStep(r),
         Lands(p, run[r].at, cs)
  PROVE  Through(run'[r], p, cs)
<1>1. run \in [Run -> RunType] /\ run[r].at \in Step
  BY Base
<1>2. \/ run'[r].pc = "append" /\ run'[r].at = run[r].at + 1
      \/ run'[r].pc = "post" /\ run[r].at = NSteps /\ run'[r].at = NSteps
  BY <1>1, NextStepMoves
<1>3. \A i \in Step : i <= run[r].at => Lands(p, i, cs)
  <2>1. \A i \in Step : i <= run[r].at => i < run[r].at \/ i = run[r].at
    BY <1>1 DEF Step
  <2>2. QED
    BY <2>1 DEF Through
<1>4. \A i \in Step : /\ i <= NSteps
                      /\ i < run[r].at + 1 => i <= run[r].at
                      /\ i < NSteps => i <= NSteps
  BY <1>1, ExecutorAssumption DEF Step
<1>5. CASE run'[r].pc = "append" /\ run'[r].at = run[r].at + 1
  BY <1>3, <1>4, <1>5 DEF Through
<1>6. CASE run'[r].pc = "post" /\ run[r].at = NSteps /\ run'[r].at = NSteps
  BY <1>3, <1>4, <1>6 DEF Through
<1>7. QED
  BY <1>2, <1>5, <1>6

\* The keys a run holds are live: it is neither superseded nor lapsed.
LEMMA StillHeld ==
  ASSUME GInv, "lapse" \notin faults, NEW r \in Run, run[r].pc \in Beating,
         NEW n \in 1 .. Len(Keys(r))
  PROVE  /\ Held(r, Keys(r)[n])
         /\ ~Lapsed(r, Keys(r)[n]) /\ ~Superseded(r, Keys(r)[n])
<1>1. Keys(r)[n] \in Key
  BY KeysEnumerate
<1>2. /\ lease[Keys(r)[n]].holder = r
      /\ lease[Keys(r)[n]].fence = run[r].fence[Keys(r)[n]]
  BY DEF GInv, Grips, Gripped
<1>3. lease[Keys(r)[n]] # NoLease
  BY <1>2, LeaseAssumption DEF NoLease, Run
<1>4. Live(Keys(r)[n])
  BY <1>1, <1>3 DEF GInv, AllLive, Live
<1>5. QED
  BY <1>2, <1>4 DEF Held, Owns, Matches, Lapsed, Superseded

LEMMA LandOfOne ==
  ASSUME LInv, NEW r \in Run, GInv', Alone(r), calls \subseteq calls',
         \A s \in Run : s # r /\ <<s, "executed">> \in log' => <<s, "executed">> \in log,
         faults' = {} =>
           /\ faults = {}
           /\ Touches[PlanOf[r]] # {} =>
                Through(run'[r], PlanOf[r], calls') /\ Told(r, log', calls')
           /\ \A p \in Plan, i \in Step : Touches[p] # {} =>
                \/ attempt'[p][i] = attempt[p][i]
                \/ RowSure(attempt'[p][i], p, i, calls')
  PROVE  LInv'
<1> SUFFICES ASSUME faults' = {}
             PROVE  /\ \A s \in Run : Touches[PlanOf[s]] # {} =>
                         Through(run'[s], PlanOf[s], calls') /\ Told(s, log', calls')
                    /\ \A p \in Plan, i \in Step : Touches[p] # {} =>
                         RowSure(attempt'[p][i], p, i, calls')
  BY DEF LInv
<1>1. ASSUME NEW s \in Run, Touches[PlanOf[s]] # {}
      PROVE  Through(run'[s], PlanOf[s], calls') /\ Told(s, log', calls')
  <2>1. CASE s = r
    BY <1>1, <2>1
  <2>2. CASE s # r
    <3>1. Through(run[s], PlanOf[s], calls) /\ Told(s, log, calls)
      BY <1>1 DEF LInv
    <3>2. Through(run[s], PlanOf[s], calls') /\ Told(s, log, calls')
      BY <3>1, LandsStays
    <3>3. QED
      BY <2>2, <3>2 DEF Alone, Told
  <2>3. QED
    BY <2>1, <2>2
<1>2. ASSUME NEW p \in Plan, NEW i \in Step, Touches[p] # {}
      PROVE  RowSure(attempt'[p][i], p, i, calls')
  <2>1. RowSure(attempt[p][i], p, i, calls)
    BY <1>2 DEF LInv
  <2>2. QED
    BY <1>2, <2>1, LandsStays
<1>3. QED
  BY <1>1, <1>2

\* The body, of a run whose plan has keys, when nothing was lost: it never waits for a
\* row or doubts one, and what it records as succeeded has taken effect.
LEMMA LandBody ==
  ASSUME LInv, NEW r \in Run, TInv', Body(r), faults' = {},
         Touches[PlanOf[r]] # {}
  PROVE  /\ Through(run'[r], PlanOf[r], calls')
         /\ \/ attempt' = attempt
            \/ /\ OtherRowsStay(r)
               /\ RowSure(attempt'[PlanOf[r]][run[r].at], PlanOf[r], run[r].at, calls')
<1> USE DEF At
<1>0. /\ GInv /\ TInv /\ run \in [Run -> RunType] /\ run[r] \in RunType
      /\ Placed(run[r], r) /\ RowOk(Row(r)) /\ PlanOf[r] \in Plan /\ run[r].at \in Step
      /\ Row(r) = attempt[PlanOf[r]][run[r].at]
      /\ {"VR5001", "VR5005", "VR5006", "VR5010", "VR2020"} \subseteq Codes
      /\ {"check", "doubt", "probe"} \subseteq PC
  BY Base DEF LInv, GInv, Codes, PC
<1>1. faults = {} /\ ~Lose
  BY <1>0, BodyMoves DEF Lose
<1>2. /\ Through(run[r], PlanOf[r], calls)
      /\ RowSure(Row(r), PlanOf[r], run[r].at, calls)
  BY <1>0, <1>1 DEF LInv
<1>3. /\ Keys(r) # <<>> /\ 1 \in 1 .. Len(Keys(r))
      /\ run[r].pc \in Beating
  BY <1>0, KeysEnumerate, FirstKey, BodyMoves DEF BodyPC, Beating
<1>4. \A n \in 1 .. Len(Keys(r)) :
        ~Lapsed(r, Keys(r)[n]) /\ ~Superseded(r, Keys(r)[n])
  BY <1>0, <1>1, <1>3, StillHeld
<1>5. ASSUME NEW code \in Codes, Throw(r, code) PROVE Through(run'[r], PlanOf[r], calls)
  BY <1>0, <1>2, <1>5, ThrowMoves, ThroughStays DEF Stays
<1>6. CASE AppendAttempt(r)
  <2>1. /\ calls' = calls /\ SetRow(r, "started", r, "none", FALSE)
        /\ run' = [run EXCEPT ![r].pc = "check", ![r].pos = 1, ![r].id = r]
    BY <1>6 DEF AppendAttempt
  <2>2. run'[r].at = run[r].at /\ run'[r].pc = "check"
    BY <1>0, <2>1 DEF RunType
  <2>3. attempt'[PlanOf[r]][run[r].at].state = "started"
    BY <1>0, <2>1, Base DEF SetRow
  <2>4. QED
    BY <1>0, <1>2, <2>1, <2>2, <2>3, ThroughStays, RowWritten DEF RowSure
<1>7. CASE TakeOver(r)
  <2>0. UNCHANGED <<attempt, calls>> /\ Row(r).state # "in_doubt"
    BY <1>2, <1>7 DEF TakeOver, RowSure
  <2>1. CASE Row(r).state = "succeeded" /\ NextStep(r)
    BY <1>0, <1>2, <2>0, <2>1, ThroughNext DEF RowSure
  <2>2. CASE Row(r).state = "failed" /\ Throw(r, Row(r).code)
    <3>1. Row(r).code \in Codes
      BY <1>0, <2>2 DEF RowOk
    <3>2. QED
      BY <1>5, <2>0, <2>2, <3>1
  <2>3. CASE \/ run' = [run EXCEPT ![r].pc = "check", ![r].pos = 1,
                                   ![r].id = IdInHand(r)]
             \/ run' = [run EXCEPT ![r].pc = "started", ![r].id = IdInHand(r)]
    <3>1. run'[r].at = run[r].at /\ run'[r].pc \in {"check", "started"}
      BY <1>0, <2>3 DEF RunType
    <3>2. QED
      BY <1>2, <2>0, <3>1, ThroughStays
  <2>4. QED
    BY <1>7, <2>0, <2>1, <2>2, <2>3 DEF TakeOver
<1>8. CASE Started(r)
  <2>1. UNCHANGED <<attempt, calls>> /\ Goto(r, "check")
    BY <1>1, <1>3, <1>4, <1>8 DEF Started
  <2>2. QED
    BY <1>0, <1>2, <2>1, GotoMoves, ThroughStays DEF Stays
<1>9. CASE Poll(r) \/ MarkInDoubt(r) \/ Probe(r)
  BY <1>2, <1>9 DEF Poll, MarkInDoubt, Probe, Through
<1>10. CASE CheckFence(r)
  <2>0. UNCHANGED <<attempt, calls>> /\ run[r].pc = "check"
    BY <1>10 DEF CheckFence
  <2>1. CASE run' = [run EXCEPT ![r].pc = "run", ![r].tries = 0]
    <3>1. run'[r].at = run[r].at /\ run'[r].pc = "run"
      BY <1>0, <2>1 DEF RunType
    <3>2. QED
      BY <1>2, <2>0, <3>1, ThroughStays
  <2>2. CASE run[r].pos <= Len(Keys(r)) /\ Advance(r)
    <3>1. run'[r].at = run[r].at /\ run'[r].pc = "check"
      BY <1>0, <2>0, <2>2, AdvanceMoves DEF Stays
    <3>2. QED
      BY <1>2, <2>0, <3>1, ThroughStays
  <2>3. CASE Throw(r, "VR5010")
    BY <1>0, <1>5, <2>0, <2>3
  <2>4. QED
    BY <1>10, <2>1, <2>2, <2>3 DEF CheckFence
<1>11. CASE FenceLapsed(r)
  <2>1. run[r].pc = "check" /\ run[r].pos <= Len(Keys(r)) /\ Lapsed(r, KeyAt(r))
    BY <1>1, <1>11 DEF FenceLapsed
  <2>2. KeyAt(r) = Keys(r)[run[r].pos] /\ run[r].pos \in 1 .. Len(Keys(r))
    BY <1>0, <2>1, KeyInHand
  <2>3. QED
    BY <1>4, <2>1, <2>2
<1>12. CASE CallStep(r)
  <2>1. /\ run'[r].at = run[r].at /\ run[r].pc = "run" /\ attempt' = attempt
        /\ \/ run'[r].pc = "run"
           \/ run'[r].pc = "record"
    BY <1>0, <1>12, CallMoves DEF Stays
  <2>2. PICK hit \in BOOLEAN :
          /\ calls' = calls \cup {[plan |-> PlanOf[r], step |-> run[r].at,
                                   by |-> r, id |-> run[r].id, hit |-> hit]}
          /\ run'[r].pc = "record" /\ run'[r].code = "ok" => hit
    BY <1>0, <1>12, CallMoves
  <2>3. Through(run[r], PlanOf[r], calls')
    BY <1>2, <2>2, LandsStays
  <2>4. run'[r].pc = "record" /\ run'[r].code = "ok" => Lands(PlanOf[r], run[r].at, calls')
    <3> DEFINE new == [plan |-> PlanOf[r], step |-> run[r].at, by |-> r,
                       id |-> run[r].id, hit |-> TRUE]
    <3> SUFFICES ASSUME run'[r].pc = "record", run'[r].code = "ok"
                 PROVE  Lands(PlanOf[r], run[r].at, calls')
      OBVIOUS
    <3>1. hit = TRUE
      BY <2>2
    <3>2. new \in calls'
      BY <2>2, <3>1
    <3>3. new.plan = PlanOf[r] /\ new.step = run[r].at /\ new.hit
      OBVIOUS
    <3>4. QED
      BY <3>2, <3>3 DEF Lands
  <2>5. QED
    BY <2>1, <2>3, <2>4 DEF Through
<1>13. CASE Record(r)
  <2>0. run[r].pc = "record" /\ calls' = calls
    BY <1>13 DEF Record
  <2>1. CASE ~Failed(r) /\ SetRow(r, "succeeded", run[r].id, "none", FALSE)
             /\ NextStep(r)
    <3>1. Lands(PlanOf[r], run[r].at, calls)
      BY <1>2, <2>0, <2>1 DEF Failed, Through
    <3>2. attempt'[PlanOf[r]][run[r].at].state = "succeeded"
      BY <1>0, <2>1, Base DEF SetRow
    <3>3. QED
      BY <1>0, <1>2, <2>0, <2>1, <3>1, <3>2, ThroughNext, RowWritten DEF RowSure
  <2>2. CASE /\ Failed(r)
             /\ SetRow(r, "failed", run[r].id, run[r].code, TRUE)
             /\ Throw(r, run[r].code)
    <3>1. run[r].code \in Codes
      BY <1>0, <2>0, <2>2 DEF Placed, Failed
    <3>2. attempt'[PlanOf[r]][run[r].at].state = "failed"
      BY <1>0, <2>2, Base DEF SetRow
    <3>3. OtherRowsStay(r)
      BY <1>0, <2>2, RowWritten
    <3>4. QED
      BY <1>5, <2>0, <2>2, <3>1, <3>2, <3>3 DEF RowSure
  <2>3. QED
    BY <1>13, <2>1, <2>2 DEF Record
<1>14. QED
  BY <1>6, <1>7, <1>8, <1>9, <1>10, <1>11, <1>12, <1>13 DEF Body

LEMMA LandBodyStep ==
  ASSUME LInv, NEW r \in Run, GInv', Body(r)
  PROVE  LInv'
<1>0. TInv /\ TInv' /\ run[r].at \in Step
  BY Base DEF LInv, GInv
<1>1. /\ Alone(r) /\ (faults' = faults \/ faults' = faults \cup {"lost"})
      /\ log' = log \/ Write(r, "escalated")
  BY <1>0, BodyMoves DEF ThrownInBody
<1>2. calls \subseteq calls'
  <2>1. CASE CallStep(r)
    BY <1>0, <2>1, CallMoves
  <2>2. CASE ~CallStep(r)
    BY <1>0, <2>2, BodyCalls
  <2>3. QED
    BY <2>1, <2>2
<1>3. \A s \in Run : <<s, "executed">> \in log' => <<s, "executed">> \in log
  <2>1. \A s \in Run : <<s, "executed">> # <<r, "escalated">>
    OBVIOUS
  <2>2. QED
    BY <1>1, <2>1 DEF Write
<1>4. attempt' = attempt \/ OtherRowsStay(r)
  <2>1. CASE CallStep(r)
    BY <1>0, <2>1, CallMoves
  <2>2. CASE ~CallStep(r)
    BY <1>0, <2>2, BodyCalls
  <2>3. QED
    BY <2>1, <2>2
<1>5. ASSUME faults' = {} PROVE faults = {}
  BY <1>1, <1>5
<1>6. ASSUME faults' = {}, Touches[PlanOf[r]] # {}
      PROVE  Through(run'[r], PlanOf[r], calls') /\ Told(r, log', calls')
  <2>1. Through(run'[r], PlanOf[r], calls')
    BY <1>0, <1>6, LandBody
  <2>2. Told(r, log, calls)
    BY <1>5, <1>6 DEF LInv
  <2>3. Told(r, log, calls')
    BY <1>2, <2>2, LandsStays
  <2>4. QED
    BY <1>3, <2>1, <2>3 DEF Told
<1>7. ASSUME faults' = {}, NEW p \in Plan, NEW i \in Step, Touches[p] # {}
      PROVE  attempt'[p][i] = attempt[p][i] \/ RowSure(attempt'[p][i], p, i, calls')
  <2>1. CASE p = PlanOf[r] /\ i = run[r].at
    BY <1>0, <1>7, <2>1, LandBody
  <2>2. CASE ~(p = PlanOf[r] /\ i = run[r].at)
    BY <1>4, <2>2 DEF OtherRowsStay
  <2>3. QED
    BY <2>1, <2>2
<1>8. QED
  BY <1>1, <1>2, <1>3, <1>5, <1>6, <1>7, LandOfOne

\* Outside the body a run stays at its step, and only Post tells it was executed.
LEMMA OuterStays ==
  ASSUME TInv, NEW r \in Run,
         \/ Start(r) \/ Refuse(r) \/ Acquire(r) \/ Enter(r) \/ AcquireRefused(r)
         \/ ReleaseNext(r) \/ Unwound(r) \/ Intent(r) \/ IntentLost(r) \/ Post(r)
         \/ Commit(r) \/ Fail(r) \/ Finish(r) \/ Crash(r)
  PROVE  /\ run'[r].at = run[r].at
         /\ \/ \A s \in Run : <<s, "executed">> \in log' => <<s, "executed">> \in log
            \/ /\ Post(r)
               /\ \A s \in Run : s # r /\ <<s, "executed">> \in log' =>
                    <<s, "executed">> \in log
<1>0. run \in [Run -> RunType] /\ run[r] \in RunType
  BY Base
<1>1. \A s \in Run, kind \in {"failed", "escalated"} :
        /\ <<s, "executed">> # <<r, kind>>
        /\ <<s, "executed">> = <<r, "executed">> => s = r
  OBVIOUS
<1>2. CASE Start(r)
  BY <1>0, <1>2 DEF Start, RunType
<1>3. CASE Refuse(r)
  BY <1>0, <1>1, <1>3 DEF Refuse, RunType, Write
<1>4. CASE Acquire(r)
  BY <1>0, <1>4 DEF Acquire, RunType
<1>5. CASE Enter(r)
  BY <1>0, <1>5 DEF Enter, Goto, RunType
<1>6. CASE AcquireRefused(r)
  BY <1>0, <1>6 DEF AcquireRefused, BackOut, RunType
<1>7. CASE ReleaseNext(r)
  BY <1>0, <1>7 DEF ReleaseNext, RunType
<1>8. CASE Unwound(r)
  BY <1>0, <1>1, <1>8 DEF Unwound, RunType, Write
<1>9. CASE Intent(r)
  BY <1>0, <1>9 DEF Intent, Advance, Goto, RunType
<1>10. CASE IntentLost(r)
  BY <1>0, <1>1, <1>10 DEF IntentLost, Throw, RunType, Write
<1>11. CASE Post(r)
  BY <1>0, <1>1, <1>11 DEF Post, Throw, RunType, Write
<1>12. CASE Commit(r)
  BY <1>0, <1>12 DEF Commit, BackOut, RunType
<1>13. CASE Fail(r)
  <2>1. run'[r].at = run[r].at
    BY <1>0, <1>13 DEF Fail, BackOut, RunType
  <2>2. \A e \in log' : e \in log \/ e = <<r, "failed">> \/ e = <<r, "escalated">>
    BY <1>13 DEF Fail
  <2>3. QED
    BY <1>1, <2>1, <2>2
<1>14. CASE Finish(r)
  BY <1>0, <1>14 DEF Finish, RunType
<1>15. CASE Crash(r)
  BY <1>0, <1>15 DEF Crash, RunType
<1>16. QED
  BY <1>2, <1>3, <1>4, <1>5, <1>6, <1>7, <1>8, <1>9, <1>10, <1>11, <1>12, <1>13,
     <1>14, <1>15

LEMMA LandOuter ==
  ASSUME LInv, NEW r \in Run, GInv',
         \/ Start(r) \/ Refuse(r) \/ Acquire(r) \/ Enter(r) \/ AcquireRefused(r)
         \/ ReleaseNext(r) \/ Unwound(r) \/ Intent(r) \/ IntentLost(r) \/ Post(r)
         \/ Commit(r) \/ Fail(r) \/ Finish(r) \/ Crash(r)
  PROVE  LInv'
<1> USE DEF At
<1>0. TInv /\ TInv'
  BY DEF LInv, GInv
<1>1. UNCHANGED <<attempt, calls>>
      /\ (faults' = faults \/ faults' = faults \cup {"lost"})
  BY DEF Start, Refuse, Acquire, Enter, AcquireRefused, ReleaseNext, Unwound,
         Intent, IntentLost, Post, Commit, Fail, Finish, Crash, Lose
<1>2. /\ Alone(r)
      /\ run'[r].pc \in {"acquire", "done", "unwind", "release", "asleep", "crashed",
                         "intent", "append", "fail"}
           \/ Post(r)
  BY <1>0, OuterMoves DEF Becomes, ReleaseNext
<1>3. ASSUME faults' = {}, Touches[PlanOf[r]] # {}
      PROVE  Through(run'[r], PlanOf[r], calls) /\ Told(r, log', calls)
  <2>1. Through(run[r], PlanOf[r], calls) /\ Told(r, log, calls)
    BY <1>1, <1>3 DEF LInv
  <2>2. run'[r].at = run[r].at
    BY <1>0, OuterStays
  <2>3. CASE ~Post(r)
    <3>1. Through(run'[r], PlanOf[r], calls)
      BY <1>2, <2>1, <2>2, <2>3, ThroughStays
    <3>2. QED
      BY <1>0, <2>1, <2>3, <3>1, OuterStays DEF Told
  <2>4. CASE Post(r)
    <3>1. run[r].pc = "post" /\ run'[r].pc \in {"commit", "fail"}
      BY <1>0, <2>4, OuterMoves DEF Post, Becomes
    <3>2. \A i \in Step : Lands(PlanOf[r], i, calls)
      BY <2>1, <3>1 DEF Through
    <3>3. QED
      BY <3>1, <3>2 DEF Through, Told
  <2>5. QED
    BY <2>3, <2>4
<1>4. \A s \in Run : s # r /\ <<s, "executed">> \in log' => <<s, "executed">> \in log
  BY <1>0, OuterStays
<1>5. QED
  BY <1>1, <1>2, <1>3, <1>4, LandOfOne

LEMMA LandAround ==
  ASSUME LInv, GInv', (\E r \in Run : Heartbeat(r)) \/ Clock \/ UNCHANGED vars
  PROVE  LInv'
<1>0. TypeOK
  BY DEF LInv, GInv, TInv
<1>1. ASSUME NEW r \in Run, Heartbeat(r) PROVE LInv'
  BY <1>0, <1>1, Renewed DEF LInv
<1>2. CASE Clock
  <2>1. UNCHANGED <<attempt, calls, log>> /\ (faults' = {} => faults = {})
    BY <1>2 DEF Clock
  <2>2. ASSUME NEW s \in Run, NEW p, Through(run[s], p, calls)
        PROVE  Through(run'[s], p, calls)
    <3>1. CASE run[s].pc = "asleep"
      <4>1. run'[s].pc = "acquire" /\ run'[s].at = run[s].at
        BY <1>0, <1>2, <3>1, Typed DEF Clock, At, RunType
      <4>2. QED
        BY <2>2, <4>1, ThroughStays
    <3>2. CASE run[s].pc # "asleep"
      BY <1>0, <1>2, <2>2, <3>2, ClockMoves
    <3>3. QED
      BY <3>1, <3>2
  <2>3. QED
    BY <2>1, <2>2 DEF LInv
<1>3. CASE UNCHANGED vars
  BY <1>3 DEF vars, storeVars, LInv
<1>4. QED
  BY <1>1, <1>2, <1>3

LEMMA LandStep == LInv /\ [Next]_vars => LInv'
<1> SUFFICES ASSUME LInv, [Next]_vars PROVE LInv'
  OBVIOUS
<1>0. GInv'
  BY GripStep DEF LInv
<1>1. CASE \E r \in Run : Body(r)
  BY <1>0, <1>1, LandBodyStep
<1>2. CASE \E r \in Run : Start(r) \/ Refuse(r) \/ Acquire(r) \/ Enter(r)
             \/ AcquireRefused(r) \/ ReleaseNext(r) \/ Unwound(r) \/ Intent(r)
             \/ IntentLost(r) \/ Post(r) \/ Commit(r) \/ Fail(r) \/ Finish(r)
             \/ Crash(r)
  BY <1>0, <1>2, LandOuter
<1>3. CASE (\E r \in Run : Heartbeat(r)) \/ Clock \/ UNCHANGED vars
  BY <1>0, <1>3, LandAround
<1>4. QED
  BY <1>1, <1>2, <1>3 DEF Next, Progress, Body

\* compensation_executed (the end of executePlan) is only logged once every step of
\* the plan took effect, as long as no lease expired and no request was lost.
THEOREM SuccessIsReal == Spec => []ExecutedMeansLanded
<1>1. Init => LInv
  <2> SUFFICES ASSUME Init PROVE LInv
    OBVIOUS
  <2>1. GInv
    BY GripInit
  <2>2. \A r \in Run : run[r].pc = "idle" /\ run[r].at = 1
    BY DEF Init
  <2>3. \A i \in Step : ~(i < 1)
    BY ExecutorAssumption DEF Step
  <2>4. \A p \in Plan, i \in Step : attempt[p][i].state = "none"
    BY DEF Init, NoAttempt
  <2>5. log = {}
    BY DEF Init
  <2>6. QED
    BY <2>1, <2>2, <2>3, <2>4, <2>5 DEF LInv, Through, Told, RowSure
<1>2. LInv => ExecutedMeansLanded
  BY DEF LInv, Told, ExecutedMeansLanded, Landed, Lands
<1>3. QED
  BY <1>1, <1>2, LandStep, PTL DEF Spec
-----------------------------------------------------------------------------
(* Leaks.  As long as no lease has expired and nothing was lost, a run has no *)
(* rows but of keys it knows it has acquired, unless it died.                 *)

Owned(c, r, ls) == \A k \in Key : ls[k].holder = r =>
  \E n \in 1 .. Len(Keys(r)) : Keys(r)[n] = k
    /\ (c.pc = "crashed" \/ (Gripped(c, r, n) /\ c.fence[k] # 0))

NInv == GInv /\ (faults = {} => \A r \in Run : Owned(run[r], r, lease))

\* No other run gets a row, and the run itself none but those it has.
OnlyFor(r) == \A k \in Key, s \in Run :
  s # r /\ lease'[k].holder = s => lease[k].holder = s
NoneFor(r) == \A k \in Key : lease'[k].holder = r => lease[k].holder = r

LEMMA OwnedOfOne ==
  ASSUME NInv, NEW r \in Run, GInv', Alone(r),
         faults' = {} => faults = {} /\ OnlyFor(r) /\ Owned(run'[r], r, lease')
  PROVE  NInv'
<1>1. ASSUME faults' = {}, NEW s \in Run, s # r PROVE Owned(run'[s], s, lease')
  BY <1>1 DEF NInv, Alone, OnlyFor, Owned
<1>2. QED
  BY <1>1 DEF NInv

\* A run that holds on to what it had, and one that had nothing.
LEMMA OwnedStays ==
  ASSUME NEW r \in Run, NEW c, NEW d, Owned(c, r, lease), NoneFor(r),
         c.pc # "crashed", d.fence = c.fence,
         \A n \in 1 .. Len(Keys(r)) : Gripped(c, r, n) /\ c.fence[Keys(r)[n]] # 0 =>
           d.pc = "crashed" \/ Gripped(d, r, n)
  PROVE  Owned(d, r, lease')
BY DEF Owned, NoneFor

LEMMA OwnedNone ==
  ASSUME NEW r \in Run, NEW c, NEW d, Owned(c, r, lease), NoneFor(r),
         c.pc # "crashed", \A n \in 1 .. Len(Keys(r)) : ~Gripped(c, r, n)
  PROVE  Owned(d, r, lease')
BY DEF Owned, NoneFor

\* Who gets rows when one is acquired or released.
LEMMA RowsGranted ==
  ASSUME TypeOK, NEW r \in Run, NEW k \in Key, AcquireLease(r, k)
  PROVE  /\ OnlyFor(r) /\ PriorFence(k) + 1 # 0
         /\ \A j \in Key : j # k /\ lease'[j].holder = r => lease[j].holder = r
<1>1. StoreTypeOK
  BY DEF TypeOK
<1>2. /\ lease'[k] = [holder |-> r, fence |-> PriorFence(k) + 1,
                      expires |-> now + Ttl]
      /\ PriorFence(k) + 1 \in Fence
      /\ \A j \in Key : j # k => \/ lease'[j] = lease[j]
                                 \/ lease[j].expires < now /\ lease'[j] = NoLease
  BY <1>1, Acquired DEF Run
<1>3. \A s \in Run : NoLease.holder # s
  BY LeaseAssumption DEF NoLease, Run
<1>4. OnlyFor(r) /\ \A j \in Key : j # k /\ lease'[j].holder = r => lease[j].holder = r
  BY <1>2, <1>3 DEF OnlyFor
<1>5. PriorFence(k) \in Nat
  BY <1>1, LeaseAssumption DEF PriorFence, Swept, StoreTypeOK, Lease, Fence, NoLease
<1>6. QED
  BY <1>4, <1>5

LEMMA RowsDropped ==
  ASSUME TypeOK, NEW r \in Run, NEW k \in Key, NEW f \in Fence, ReleaseLease(r, k, f)
  PROVE  /\ OnlyFor(r) /\ NoneFor(r) /\ lease'[k].holder # r
<1>1. lease \in [Key -> Lease]
  BY DEF TypeOK, StoreTypeOK
<1>2. lease' = [lease EXCEPT ![k] = NoLease]
  BY DEF ReleaseLease
<1>3. \A s \in Run : NoLease.holder # s
  BY LeaseAssumption DEF NoLease, Run
<1>4. QED
  BY <1>1, <1>2, <1>3 DEF OnlyFor, NoneFor

LEMMA OwnedBody ==
  ASSUME NInv, NEW r \in Run, GInv', Body(r)
  PROVE  NInv'
<1>1. /\ Alone(r) /\ run'[r].fence = run[r].fence /\ lease' = lease
      /\ run[r].pc \in Beating /\ run[r].pc # "crashed"
      /\ run'[r].pc \in Beating
      /\ faults' = {} => faults = {}
  BY BodyMoves DEF NInv, GInv, ThrownInBody, BodyPC, Beating, storeVars
<1>2. OnlyFor(r) /\ NoneFor(r)
  BY <1>1 DEF OnlyFor, NoneFor
<1>3. Owned(run[r], r, lease) => Owned(run'[r], r, lease')
  BY <1>1, <1>2, OwnedStays DEF Gripped
<1>4. QED
  BY <1>1, <1>2, <1>3, OwnedOfOne DEF NInv

LEMMA OwnedOuter ==
  ASSUME NInv, NEW r \in Run, GInv',
         \/ Start(r) \/ Refuse(r) \/ Acquire(r) \/ Enter(r) \/ AcquireRefused(r)
         \/ ReleaseNext(r) \/ Unwound(r) \/ Intent(r) \/ IntentLost(r) \/ Post(r)
         \/ Commit(r) \/ Fail(r) \/ Finish(r) \/ Crash(r)
  PROVE  NInv'
<1> USE DEF At
<1>0. /\ GInv /\ TInv /\ TInv' /\ TypeOK /\ run[r] \in RunType /\ Placed(run[r], r)
      /\ Fresh(run[r], r)
  BY Base DEF NInv, GInv
<1>1. /\ Len(Keys(r)) \in Nat
      /\ \A n \in 1 .. Len(Keys(r)) : Keys(r)[n] \in Key
      /\ \A m, n \in 1 .. Len(Keys(r)) : Keys(r)[m] = Keys(r)[n] => m = n
  BY KeysEnumerate
<1>2. Alone(r)
  BY <1>0, OuterMoves DEF Becomes
<1>3. SUFFICES ASSUME faults' = {}
               PROVE  OnlyFor(r) /\ Owned(run'[r], r, lease')
  <2>1. faults' = faults \/ faults' = faults \cup {"lost"}
    BY DEF Start, Refuse, Acquire, Enter, AcquireRefused, ReleaseNext, Unwound,
           Intent, IntentLost, Post, Commit, Fail, Finish, Crash, Lose
  <2>2. QED
    BY <1>2, <1>3, <2>1, OwnedOfOne
<1>4. /\ faults = {} /\ ~Lose
      /\ Owned(run[r], r, lease) /\ Grips(run[r], r, lease)
  <2>1. faults' = faults \/ faults' = faults \cup {"lost"}
    BY DEF Start, Refuse, Acquire, Enter, AcquireRefused, ReleaseNext, Unwound,
           Intent, IntentLost, Post, Commit, Fail, Finish, Crash, Lose
  <2>2. QED
    BY <1>0, <1>3, <2>1 DEF Lose, NInv, GInv
<1>5. lease' = lease => OnlyFor(r) /\ NoneFor(r)
  BY DEF OnlyFor, NoneFor
<1>6. CASE Start(r) \/ Refuse(r) \/ Unwound(r) \/ Finish(r)
  <2>1. /\ lease' = lease
        /\ \/ run[r].pc = "idle"
           \/ run[r].pc \in {"unwind", "release"} /\ run[r].pos = 0
    BY <1>6 DEF Start, Refuse, Unwound, Finish, storeVars
  <2>2. \A n \in 1 .. Len(Keys(r)) : ~Gripped(run[r], r, n)
    BY <1>1, <2>1 DEF Gripped, Beating
  <2>3. QED
    BY <1>4, <1>5, <2>1, <2>2, OwnedNone
<1>7. CASE Acquire(r)
  <2> DEFINE k == KeyAt(r)
             f == PriorFence(k) + 1
  <2>1. /\ k \in Key /\ run[r].pos \in 1 .. Len(Keys(r)) /\ k = Keys(r)[run[r].pos]
        /\ AcquireLease(r, k) /\ run[r].pc = "acquire"
    BY <1>0, <1>7, KeyInHand DEF Acquire
  <2>2. /\ run'[r].pc = "acquire" /\ run'[r].pos = run[r].pos + 1
        /\ run'[r].fence = [run[r].fence EXCEPT ![k] = f]
    BY <1>0, <1>7, OuterMoves
  <2> HIDE DEF k
  <2>3. run'[r].fence[k] = f /\ \A j \in Key : j # k =>
          run'[r].fence[j] = run[r].fence[j]
    BY <1>0, <2>1, <2>2 DEF RunType
  <2>4. /\ OnlyFor(r) /\ f # 0
        /\ \A j \in Key : j # k /\ lease'[j].holder = r => lease[j].holder = r
    BY <1>0, <2>1, RowsGranted
  <2> HIDE DEF f
  <2>5. ASSUME NEW j \in Key, lease'[j].holder = r
        PROVE  \E n \in 1 .. Len(Keys(r)) : Keys(r)[n] = j
                 /\ Gripped(run'[r], r, n) /\ run'[r].fence[j] # 0
    <3>1. CASE j = k
      BY <2>1, <2>2, <2>3, <2>4, <3>1 DEF Gripped
    <3>2. CASE j # k
      <4>1. PICK n \in 1 .. Len(Keys(r)) : Keys(r)[n] = j
              /\ Gripped(run[r], r, n) /\ run[r].fence[j] # 0
        BY <1>4, <2>1, <2>4, <2>5, <3>2 DEF Owned
      <4>2. n < run[r].pos + 1
        BY <2>1, <4>1 DEF Gripped, Beating
      <4>3. QED
        BY <2>2, <2>3, <3>2, <4>1, <4>2 DEF Gripped
    <3>3. QED
      BY <3>1, <3>2
  <2>6. QED
    BY <2>4, <2>5 DEF Owned
<1>8. CASE Enter(r) \/ Intent(r) \/ IntentLost(r) \/ Post(r)
  <2>1. /\ lease' = lease /\ run[r].pc # "crashed"
        /\ run'[r].fence = run[r].fence /\ run'[r].pc \in Beating
    <3>1. lease' = lease /\ run[r].pc # "crashed"
      BY <1>8 DEF Enter, Intent, IntentLost, Post, WinClaim, storeVars
    <3>2. run'[r].fence = run[r].fence /\ run'[r].pc \in Beating
      BY <1>0, <1>8, OuterMoves DEF Becomes, Beating
    <3>3. QED
      BY <3>1, <3>2
  <2>2. QED
    BY <1>4, <1>5, <2>1, OwnedStays DEF Gripped
<1>9. CASE AcquireRefused(r) \/ Commit(r) \/ Fail(r)
  <2>1. lease' = lease /\ run[r].pc \in {"acquire", "commit", "fail"}
    BY <1>4, <1>9 DEF AcquireRefused, Commit, Fail, WinClaim, storeVars
  <2>2. /\ run'[r].fence = run[r].fence /\ run'[r].pc \in {"unwind", "release"}
        /\ run'[r].pos = Len(Keys(r))
    BY <1>0, <1>9, OuterMoves DEF Becomes
  <2>3. \A n \in 1 .. Len(Keys(r)) : run[r].fence[Keys(r)[n]] # 0 =>
          Gripped(run'[r], r, n)
    BY <1>1, <2>2 DEF Gripped
  <2>4. QED
    BY <1>4, <1>5, <2>1, <2>2, <2>3, OwnedStays
<1>10. CASE ReleaseNext(r)
  <2> DEFINE k == KeyAt(r)
             f == run[r].fence[k]
  <2>1. /\ k \in Key /\ run[r].pos \in 1 .. Len(Keys(r)) /\ k = Keys(r)[run[r].pos]
        /\ run[r].pc \in {"unwind", "release"}
    BY <1>0, <1>10, KeyInHand DEF ReleaseNext
  <2>2. \/ (f = 0 \/ lease[k] = NoLease) /\ run' = [run EXCEPT ![r].pos = @ - 1]
             /\ UNCHANGED storeVars
        \/ ReleaseLease(r, k, f) /\ run' = [run EXCEPT ![r].pos = @ - 1]
        \/ f # 0 /\ Superseded(r, k)
    BY <1>4, <1>10 DEF ReleaseNext
  <2> HIDE DEF k
  <2>3. f \in Fence /\ run \in [Run -> RunType]
    BY <1>0, <2>1, Base DEF RunType
  <2>4. ~(f # 0 /\ Superseded(r, k))
    <3> SUFFICES ASSUME f # 0, Superseded(r, k) PROVE FALSE
      OBVIOUS
    <3>1. Gripped(run[r], r, run[r].pos)
      BY <2>1 DEF Gripped
    <3>2. lease[k].holder = r /\ lease[k].fence = f
      BY <1>4, <2>1, <3>1 DEF Grips
    <3>3. QED
      BY <3>2 DEF Superseded, Owns, Matches
  <2>5. ASSUME run' = [run EXCEPT ![r].pos = @ - 1], OnlyFor(r), NoneFor(r),
               lease'[k].holder # r
        PROVE  Owned(run'[r], r, lease')
    <3>1. /\ run'[r].pc = run[r].pc /\ run'[r].pos = run[r].pos - 1
          /\ run'[r].fence = run[r].fence
      BY <2>3, <2>5 DEF RunType
    <3>2. ASSUME NEW j \in Key, lease'[j].holder = r
          PROVE  \E n \in 1 .. Len(Keys(r)) : Keys(r)[n] = j
                   /\ Gripped(run'[r], r, n) /\ run'[r].fence[j] # 0
      <4>1. PICK n \in 1 .. Len(Keys(r)) : Keys(r)[n] = j
              /\ Gripped(run[r], r, n) /\ run[r].fence[j] # 0
        BY <1>4, <2>1, <2>5, <3>2 DEF Owned, NoneFor
      <4>2. n # run[r].pos /\ n <= run[r].pos
        BY <2>1, <2>5, <3>2, <4>1 DEF Gripped, Beating
      <4>3. n <= run[r].pos - 1
        BY <1>1, <2>1, <4>1, <4>2
      <4>4. QED
        BY <2>1, <3>1, <4>1, <4>3 DEF Gripped
    <3>3. QED
      BY <3>2 DEF Owned
  <2>6. CASE (f = 0 \/ lease[k] = NoLease) /\ run' = [run EXCEPT ![r].pos = @ - 1]
             /\ UNCHANGED storeVars
    <3>1. lease' = lease
      BY <2>6 DEF storeVars
    <3>2. lease[k].holder # r
      <4>1. NoLease.holder # r
        BY LeaseAssumption DEF NoLease, Run
      <4>2. f = 0 => lease[k].holder # r
        BY <1>4, <2>1 DEF Owned
      <4>3. QED
        BY <2>6, <4>1, <4>2
    <3>3. QED
      BY <1>5, <2>5, <2>6, <3>1, <3>2
  <2>7. CASE ReleaseLease(r, k, f) /\ run' = [run EXCEPT ![r].pos = @ - 1]
    BY <1>0, <2>1, <2>3, <2>5, <2>7, RowsDropped
  <2>8. QED
    BY <2>2, <2>4, <2>6, <2>7 DEF k
<1>11. CASE Crash(r)
  <2>1. lease' = lease /\ run[r].pc # "crashed" /\ run'[r].pc = "crashed"
        /\ run'[r].fence = run[r].fence
    BY <1>0, <1>11, OuterMoves DEF Crash, Becomes, storeVars
  <2>2. QED
    BY <1>4, <1>5, <2>1, OwnedStays
<1>12. QED
  BY <1>6, <1>7, <1>8, <1>9, <1>10, <1>11

LEMMA OwnedAround ==
  ASSUME NInv, GInv', (\E r \in Run : Heartbeat(r)) \/ Clock \/ UNCHANGED vars
  PROVE  NInv'
<1>0. TypeOK /\ StoreTypeOK
  BY DEF NInv, GInv, TInv, TypeOK
<1>1. ASSUME NEW r \in Run, Heartbeat(r) PROVE NInv'
  <2>1. /\ UNCHANGED <<run, faults>>
        /\ \A k \in Key : \/ lease'[k] = lease[k]
                          \/ lease'[k] = [lease[k] EXCEPT !.expires = now + Ttl]
    BY <1>0, <1>1, Renewed
  <2>2. \A k \in Key : lease'[k].holder = lease[k].holder
    BY <1>0, <2>1 DEF StoreTypeOK, Lease
  <2>3. QED
    BY <2>1, <2>2 DEF NInv, Owned
<1>2. CASE Clock
  <2>1. /\ UNCHANGED lease /\ (faults' = {} => faults = {})
        /\ \A s \in Run : run[s].pc = "asleep" \/ run'[s] = run[s]
    BY <1>0, <1>2, ClockMoves DEF Clock
  <2>2. ASSUME NEW s \in Run, Owned(run[s], s, lease) PROVE Owned(run'[s], s, lease)
    <3>1. CASE run[s].pc = "asleep"
      BY <2>2, <3>1 DEF Owned, Gripped, Beating
    <3>2. CASE run[s].pc # "asleep"
      BY <2>1, <2>2, <3>2
    <3>3. QED
      BY <3>1, <3>2
  <2>3. QED
    BY <2>1, <2>2 DEF NInv
<1>3. CASE UNCHANGED vars
  BY <1>3 DEF vars, storeVars, NInv
<1>4. QED
  BY <1>1, <1>2, <1>3

LEMMA OwnedStep == NInv /\ [Next]_vars => NInv'
<1> SUFFICES ASSUME NInv, [Next]_vars PROVE NInv'
  OBVIOUS
<1>0. GInv'
  BY GripStep DEF NInv
<1>1. CASE \E r \in Run : Body(r)
  BY <1>0, <1>1, OwnedBody
<1>2. CASE \E r \in Run : Start(r) \/ Refuse(r) \/ Acquire(r) \/ Enter(r)
             \/ AcquireRefused(r) \/ ReleaseNext(r) \/ Unwound(r) \/ Intent(r)
             \/ IntentLost(r) \/ Post(r) \/ Commit(r) \/ Fail(r) \/ Finish(r)
             \/ Crash(r)
  BY <1>0, <1>2, OwnedOuter
<1>3. CASE (\E r \in Run : Heartbeat(r)) \/ Clock \/ UNCHANGED vars
  BY <1>0, <1>3, OwnedAround
<1>4. QED
  BY <1>1, <1>2, <1>3 DEF Next, Progress, Body

\* releaseAll (engine/lease.ts) leaves none of the leases of a finished run behind,
\* whatever way the run ended, as long as no lease expired and no request was lost.
THEOREM NothingLeaks == Spec => []NoLeak
<1>1. Init => NInv
  <2> SUFFICES ASSUME Init PROVE NInv
    OBVIOUS
  <2>1. GInv
    BY GripInit
  <2>2. \A k \in Key, r \in Run : lease[k].holder # r
    BY LeaseAssumption DEF Init, StoreInit, NoLease, Run
  <2>3. QED
    BY <2>1, <2>2 DEF NInv, Owned
<1>2. NInv => NoLeak
  BY DEF NInv, Owned, NoLeak, Gripped, Beating
<1>3. QED
  BY <1>1, <1>2, OwnedStep, PTL DEF Spec
=============================================================================
