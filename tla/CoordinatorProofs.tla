------------------------- MODULE CoordinatorProofs --------------------------
(***************************************************************************)
(* Proofs about Coordinator, for any number of keys and holders, any lease *)
(* duration and any bound on time and fences.  The inductive invariant     *)
(* ties every row of the lease table to the high-water mark of its key,    *)
(* and every commit that was answered "winner" to the claim row.           *)
(***************************************************************************)
EXTENDS Coordinator, TLAPS

\* A row is the newest grant of its key: its fence is the high-water mark.
RowAtMark ==
  \A k \in Key : lease[k] # NoLease =>
    /\ lease[k].fence = highWater[k]
    /\ [key |-> k, holder |-> lease[k].holder, fence |-> lease[k].fence]
         \in granted

\* No grant was ever made above the mark, and none of fence 0.
GrantsUnderMark ==
  \A g \in granted : g.fence \in 1 .. highWater[g.key]

\* A commit that won is still what the claim row says.
WinnerIsOnRecord ==
  \A g \in told : claim[g.key] =
    [holder |-> g.holder, fence |-> g.fence, state |-> "committed"]

IInv == TypeOK /\ RowAtMark /\ GrantsUnderMark /\ WinnerIsOnRecord

-----------------------------------------------------------------------------
(* Lemmas about the store's operators. *)

\* With a coordinator the sweep is the identity, and grants count on from the
\* high-water mark.
LEMMA CoordinatorFences ==
  ASSUME Keeper = "coordinator", TypeOK
  PROVE  Swept = lease /\ \A k \in Key : PriorFence(k) = highWater[k]
<1>1. Swept = lease
  BY DEF Swept, TypeOK, StoreTypeOK
<1>2. QED
  BY <1>1 DEF PriorFence

\* In any keeper the fence a grant counts on from is a fence.
LEMMA PriorFenceType ==
  ASSUME TypeOK, NEW k \in Key
  PROVE  PriorFence(k) \in Fence /\ Swept \in [Key -> Lease]
<1>1. NoLease \in Lease
  BY LeaseAssumption DEF NoLease, Lease, Fence
<1>2. Swept \in [Key -> Lease]
  BY <1>1 DEF Swept, TypeOK, StoreTypeOK
<1>3. QED
  BY <1>2 DEF PriorFence, TypeOK, StoreTypeOK, Lease

-----------------------------------------------------------------------------
(* Type correctness, for each of the three keepers. *)

\* The tables of a new store, and empty histories, are well-typed.
LEMMA TypeInit == Init => TypeOK
BY LeaseAssumption DEF Init, StoreInit, TypeOK, StoreTypeOK, NoLease, NoClaim,
   Lease, Claim, Fence, Grant

\* No request, and no tick, breaks the types of the tables.
LEMMA TypeStep == TypeOK /\ [Next]_vars => TypeOK'
<1> SUFFICES ASSUME TypeOK, [Next]_vars PROVE TypeOK'
  OBVIOUS
<1> USE LeaseAssumption DEF TypeOK, StoreTypeOK
<1>1. ASSUME NEW h \in Holder, NEW k \in Key, Acquire(h, k)
      PROVE  TypeOK'
  <2> DEFINE f == PriorFence(k) + 1
  <2>1. f \in Fence
    BY <1>1, PriorFenceType DEF Acquire, AcquireLease, Fence
  <2>2. [holder |-> h, fence |-> f, expires |-> now + Ttl] \in Lease
    BY <2>1 DEF Lease
  <2>3. lease' \in [Key -> Lease]
    BY <1>1, <2>2, PriorFenceType DEF Acquire, AcquireLease, GrantLease
  <2>4. highWater' \in [Key -> Fence]
    BY <1>1, <2>1 DEF Acquire, AcquireLease, GrantLease
  <2>5. granted' \in SUBSET Grant /\ told' \in SUBSET granted'
    BY <1>1, <2>1 DEF Acquire, AcquireLease, Grant
  <2>6. QED
    BY <1>1, <2>3, <2>4, <2>5 DEF Acquire, AcquireLease
<1>2. ASSUME NEW g \in granted, Renew(g)
      PROVE  TypeOK'
  BY <1>2 DEF Renew, RenewLease, Lease, Grant
<1>3. ASSUME NEW g \in granted, Release(g)
      PROVE  TypeOK'
  <2>1. NoLease \in Lease
    BY DEF NoLease, Lease, Fence
  <2>2. QED
    BY <1>3, <2>1 DEF Release, ReleaseLease
<1>4. ASSUME NEW g \in granted, Intent(g)
      PROVE  TypeOK'
  BY <1>4 DEF Intent, WinClaim, Claim, Grant
<1>5. ASSUME NEW g \in granted, Commit(g)
      PROVE  TypeOK'
  BY <1>5 DEF Commit, WinClaim, Claim, Grant
<1>6. CASE Clock
  BY <1>6 DEF Clock, Tick
<1>7. CASE UNCHANGED vars
  BY <1>7 DEF vars, storeVars
<1>8. QED
  BY <1>1, <1>2, <1>3, <1>4, <1>5, <1>6, <1>7 DEF Next

\* Every reachable table holds rows of its type, whichever keeper keeps it.
THEOREM TypeCorrect == Spec => []TypeOK
<1>1. QED
  BY TypeInit, TypeStep, PTL DEF Spec

-----------------------------------------------------------------------------
(* The inductive step, one lemma per request. *)

\* acquire: the new row is at the new mark, which is above every earlier grant.
LEMMA AcquireStep ==
  ASSUME Keeper = "coordinator", IInv, TypeOK',
         NEW h \in Holder, NEW k \in Key, Acquire(h, k)
  PROVE  IInv'
<1> DEFINE f == highWater[k] + 1
<1>1. PriorFence(k) = highWater[k] /\ Swept = lease
  BY CoordinatorFences DEF IInv
<1>2. /\ lease' = [lease EXCEPT ![k] =
                     [holder |-> h, fence |-> f, expires |-> now + Ttl]]
      /\ highWater' = [highWater EXCEPT ![k] = f]
      /\ granted' = granted \cup {[key |-> k, holder |-> h, fence |-> f]}
      /\ UNCHANGED <<claim, told>>
  BY <1>1 DEF Acquire, AcquireLease, GrantLease
<1>3. highWater[k] \in Nat /\ \A j \in Key : highWater[j] \in Nat
  BY LeaseAssumption DEF IInv, TypeOK, StoreTypeOK, Fence
<1>4. RowAtMark'
  BY <1>2 DEF IInv, RowAtMark, TypeOK, StoreTypeOK
<1>5. GrantsUnderMark'
  <2> SUFFICES ASSUME NEW g \in granted'
               PROVE  g.fence \in 1 .. highWater'[g.key]
    BY DEF GrantsUnderMark
  <2>1. CASE g \in granted
    <3>1. g.key \in Key /\ g.fence \in 1 .. highWater[g.key]
      BY <2>1 DEF IInv, GrantsUnderMark, TypeOK, Grant
    <3>2. QED
      BY <1>2, <1>3, <3>1 DEF IInv, TypeOK, StoreTypeOK
  <2>2. CASE g = [key |-> k, holder |-> h, fence |-> f]
    BY <1>2, <1>3, <2>2 DEF IInv, TypeOK, StoreTypeOK
  <2>3. QED
    BY <1>2, <2>1, <2>2
<1>6. WinnerIsOnRecord'
  BY <1>2 DEF IInv, WinnerIsOnRecord
<1>7. QED
  BY <1>4, <1>5, <1>6 DEF IInv

\* renew moves nothing but the expiry of a row.
LEMMA RenewStep ==
  ASSUME IInv, TypeOK', NEW g \in granted, Renew(g)
  PROVE  IInv'
<1>1. g.key \in Key
  BY DEF IInv, TypeOK, Grant
<1>2. g.fence # 0
  BY DEF IInv, GrantsUnderMark
<1>3. lease[g.key] # NoLease
  BY <1>2 DEF Renew, RenewLease, Matches, NoLease
<1>4. RowAtMark'
  BY <1>1, <1>3
  DEF IInv, RowAtMark, TypeOK, StoreTypeOK, Renew, RenewLease, Lease
<1>5. QED
  BY <1>4 DEF IInv, GrantsUnderMark, WinnerIsOnRecord, Renew, RenewLease

\* release drops a row; the mark and the claims stay.
LEMMA ReleaseStep ==
  ASSUME IInv, TypeOK', NEW g \in granted, Release(g)
  PROVE  IInv'
<1>1. RowAtMark'
  BY DEF IInv, RowAtMark, TypeOK, StoreTypeOK, Release, ReleaseLease
<1>2. QED
  BY <1>1 DEF IInv, GrantsUnderMark, WinnerIsOnRecord, Release, ReleaseLease

\* A claim that is won for a grant does not disturb an earlier winner: either
\* the key had none, or it is that same grant.
LEMMA WinClaimKeepsWinner ==
  ASSUME IInv, NEW g \in granted, NEW commit \in BOOLEAN,
         WinClaim(g.holder, g.key, g.fence, commit),
         NEW w \in told
  PROVE  /\ claim'[w.key] = claim[w.key]
         /\ w.key = g.key => w = g
<1>1. g.key \in Key /\ w.key \in Key /\ w \in granted
      /\ g \in Grant /\ w \in Grant
  BY DEF IInv, TypeOK, Grant
<1>2. claim[w.key] =
        [holder |-> w.holder, fence |-> w.fence, state |-> "committed"]
  BY DEF IInv, WinnerIsOnRecord
<1>3. CASE w.key # g.key
  BY <1>1, <1>3 DEF WinClaim, IInv, TypeOK, StoreTypeOK
<1>4. CASE w.key = g.key
  <2>1. claim[g.key] # NoClaim /\ claim[g.key].state = "committed"
    BY <1>2, <1>4 DEF NoClaim
  <2>2. ~ForeignClaim(g.holder, g.key, g.fence)
    BY <2>1 DEF WinClaim, Loses
  <2>3. w.holder = g.holder /\ w.fence = g.fence
    BY <1>2, <1>4, <2>1, <2>2 DEF ForeignClaim
  <2>4. w = g
    BY <1>1, <1>4, <2>3 DEF Grant
  <2>5. claim'[g.key] =
          [holder |-> g.holder, fence |-> g.fence, state |-> "committed"]
    BY <1>1, <2>1 DEF WinClaim, IInv, TypeOK, StoreTypeOK
  <2>6. QED
    BY <1>2, <1>4, <2>4, <2>5
<1>5. QED
  BY <1>3, <1>4

\* An intent that wins leaves every commit that won on record.
LEMMA IntentStep ==
  ASSUME IInv, TypeOK', NEW g \in granted, Intent(g)
  PROVE  IInv'
<1>1. WinnerIsOnRecord'
  <2> SUFFICES ASSUME NEW w \in told
               PROVE  claim'[w.key] = claim[w.key]
    BY DEF IInv, WinnerIsOnRecord, Intent
  <2>1. WinClaim(g.holder, g.key, g.fence, FALSE)
    BY DEF Intent
  <2>2. QED
    BY <2>1, WinClaimKeepsWinner
<1>2. QED
  BY <1>1 DEF IInv, RowAtMark, GrantsUnderMark, Intent, WinClaim

\* A commit that wins finds no other commit on record, and becomes it.
LEMMA CommitStep ==
  ASSUME IInv, TypeOK', NEW g \in granted, Commit(g)
  PROVE  IInv'
<1>1. WinClaim(g.holder, g.key, g.fence, TRUE) /\ told' = told \cup {g}
  BY DEF Commit
<1>2. g.key \in Key
  BY DEF IInv, TypeOK, Grant
<1>3. claim'[g.key] =
        [holder |-> g.holder, fence |-> g.fence, state |-> "committed"]
  BY <1>1, <1>2 DEF WinClaim, IInv, TypeOK, StoreTypeOK
<1>4. ASSUME NEW w \in told PROVE claim'[w.key] = claim[w.key]
  BY <1>1, WinClaimKeepsWinner
<1>5. WinnerIsOnRecord'
  BY <1>1, <1>3, <1>4 DEF IInv, WinnerIsOnRecord
<1>6. QED
  BY <1>5 DEF IInv, RowAtMark, GrantsUnderMark, Commit, WinClaim

\* Every request, and a tick, preserves the inductive invariant.
LEMMA IInvStep ==
  ASSUME Keeper = "coordinator", IInv, [Next]_vars
  PROVE  IInv'
<1>1. TypeOK'
  BY TypeStep DEF IInv
<1>2. CASE Clock
  BY <1>1, <1>2 DEF IInv, RowAtMark, GrantsUnderMark, WinnerIsOnRecord,
     Clock, Tick
<1>3. CASE UNCHANGED vars
  BY <1>1, <1>3 DEF IInv, RowAtMark, GrantsUnderMark, WinnerIsOnRecord,
     vars, storeVars
<1>4. QED
  BY <1>1, <1>2, <1>3, AcquireStep, RenewStep, ReleaseStep, IntentStep,
     CommitStep DEF Next

\* An empty store satisfies it.
LEMMA IInvInit == Init => IInv
BY TypeInit DEF Init, StoreInit, IInv, RowAtMark, GrantsUnderMark,
   WinnerIsOnRecord

\* So it holds for ever: rows at the mark, grants under it, winners on record.
THEOREM Inductive ==
  ASSUME Keeper = "coordinator"
  PROVE  Spec => []IInv
<1>1. IInv /\ [Next]_vars => IInv'
  BY IInvStep
<1>2. QED
  BY IInvInit, <1>1, PTL DEF Spec

-----------------------------------------------------------------------------
(* What the coordinator promises. *)

\* A lease row is always the newest grant of its key: a holder whose fence is
\* not the row's was superseded.
THEOREM NewestGrant ==
  ASSUME Keeper = "coordinator"
  PROVE  Spec => []RowIsNewestGrant
<1>1. IInv => RowIsNewestGrant
  BY DEF IInv, RowAtMark, GrantsUnderMark, RowIsNewestGrant
<1>2. QED
  BY <1>1, Inductive, PTL

\* At most one commit per key is ever told it won.
THEOREM OneWinner ==
  ASSUME Keeper = "coordinator"
  PROVE  Spec => []OneCommittedWinner
<1>1. IInv => OneCommittedWinner
  <2> SUFFICES ASSUME IInv, NEW g1 \in told, NEW g2 \in told,
                      g1.key = g2.key
               PROVE  g1 = g2
    BY DEF OneCommittedWinner
  <2>1. g1 \in Grant /\ g2 \in Grant
    BY DEF IInv, TypeOK
  <2>2. g1.holder = g2.holder /\ g1.fence = g2.fence
    <3>1. claim[g1.key] =
            [holder |-> g1.holder, fence |-> g1.fence, state |-> "committed"]
      BY DEF IInv, WinnerIsOnRecord
    <3>2. claim[g2.key] =
            [holder |-> g2.holder, fence |-> g2.fence, state |-> "committed"]
      BY DEF IInv, WinnerIsOnRecord
    <3>3. QED
      BY <3>1, <3>2
  <2>3. QED
    BY <2>1, <2>2 DEF Grant
<1>2. QED
  BY <1>1, Inductive, PTL

\* Each grant's fence is above every earlier grant's on the key.
THEOREM FencesIncrease ==
  ASSUME Keeper = "coordinator"
  PROVE  Spec => FenceNeverReused
<1> DEFINE Step ==
      \A k \in Key : \A g \in granted :
        (lease'[k] # NoLease /\ lease'[k].fence # lease[k].fence
           /\ g.key = k) => g.fence < lease'[k].fence
<1>1. ASSUME IInv, [Next]_vars PROVE Step \/ UNCHANGED vars
  <2> SUFFICES ASSUME NEW k \in Key, NEW g \in granted,
                      lease'[k] # NoLease, lease'[k].fence # lease[k].fence,
                      g.key = k
               PROVE  g.fence < lease'[k].fence
    OBVIOUS
  <2>1. IInv' /\ RowAtMark'
    BY <1>1, IInvStep DEF IInv
  <2>2. g.fence \in 1 .. highWater[k] /\ g.fence \in Nat
    BY <1>1 DEF IInv, GrantsUnderMark, TypeOK, StoreTypeOK, Grant, Fence
  <2>3. PICK h \in Holder : Acquire(h, k)
    <3>1. ASSUME NEW h \in Holder, NEW j \in Key, Acquire(h, j), j # k
          PROVE  FALSE
      BY <1>1, <3>1, CoordinatorFences
      DEF IInv, Acquire, AcquireLease, GrantLease, TypeOK, StoreTypeOK
    <3>2. ASSUME NEW r \in granted, Renew(r) PROVE FALSE
      BY <1>1, <3>2
      DEF IInv, Renew, RenewLease, TypeOK, StoreTypeOK, Grant, Lease
    <3>3. ASSUME NEW r \in granted, Release(r) PROVE FALSE
      BY <1>1, <3>3
      DEF IInv, Release, ReleaseLease, TypeOK, StoreTypeOK, Grant
    <3>4. lease' # lease
      OBVIOUS
    <3>5. QED
      BY <1>1, <3>1, <3>2, <3>3, <3>4
      DEF Next, Intent, Commit, WinClaim, Clock, Tick, vars, storeVars
  <2>4. lease'[k].fence = highWater[k] + 1
    BY <1>1, <2>3, CoordinatorFences
    DEF IInv, Acquire, AcquireLease, GrantLease, TypeOK, StoreTypeOK
  <2>5. highWater[k] \in Nat
    BY <1>1 DEF IInv, TypeOK, StoreTypeOK, Fence
  <2>6. QED
    BY <2>2, <2>4, <2>5
<1>2. QED
  BY <1>1, Inductive, PTL DEF Spec, FenceNeverReused

\* During a live lease only its holder moves the claim, whoever keeps leases.
THEOREM ClaimsFollowLeases == Spec => ClaimFollowsLiveLease
<1> DEFINE Step ==
      \A k \in Key :
        (claim'[k] # claim[k] /\ lease[k] # NoLease /\ Live(k)) =>
          Matches(claim'[k].holder, k, claim'[k].fence)
<1>1. ASSUME TypeOK, [Next]_vars PROVE Step \/ UNCHANGED vars
  <2> SUFFICES ASSUME NEW k \in Key, claim'[k] # claim[k],
                      lease[k] # NoLease, Live(k)
               PROVE  Matches(claim'[k].holder, k, claim'[k].fence)
    OBVIOUS
  <2>1. ASSUME NEW g \in granted, NEW commit \in BOOLEAN,
               WinClaim(g.holder, g.key, g.fence, commit)
        PROVE  Matches(claim'[k].holder, k, claim'[k].fence)
    <3>1. g.key = k
      BY <1>1, <2>1 DEF WinClaim, TypeOK, StoreTypeOK, Grant
    <3>2. claim'[k].holder = g.holder /\ claim'[k].fence = g.fence
      BY <1>1, <2>1, <3>1 DEF WinClaim, TypeOK, StoreTypeOK
    <3>3. QED
      BY <2>1, <3>1, <3>2 DEF WinClaim, Loses, LeasedElsewhere
  <2>2. claim' # claim
    OBVIOUS
  <2>3. QED
    BY <1>1, <2>1, <2>2
    DEF Next, Acquire, AcquireLease, Renew, RenewLease, Release,
        ReleaseLease, Intent, Commit, Clock, Tick, vars, storeVars
<1>2. QED
  BY <1>1, TypeCorrect, PTL DEF Spec, ClaimFollowsLiveLease

=============================================================================
