----------------------------- MODULE LeaseStore -----------------------------
(***************************************************************************)
(* The tables behind VekRevert's per-resource leases, and the claim table  *)
(* of the cross-ledger coordinator.  Three keepers hold leases:            *)
(*                                                                         *)
(*   "coordinator"  CoordinatorStore, which remembers a fence high-water   *)
(*                  mark per key (sdk-ts/src/coordinate/store.ts);         *)
(*   "memory"       createMemoryLedger, the map of the in-process ledger;  *)
(*   "sql"          the SQLite / Postgres ledger                           *)
(*                  (both in sdk-ts/src/ledger/types.ts).                  *)
(*                                                                         *)
(* The module has no specification of its own: Coordinator lets arbitrary  *)
(* clients call the tables, Executor drives them from executePlan.         *)
(***************************************************************************)
EXTENDS Integers, FiniteSets

CONSTANTS
  Key,        \* resource keys
  Holder,     \* lease holders, `{pid}:{saga}:{runId}`, one per executePlan
  NoHolder,   \* stands for the holder of an absent row
  Keeper,     \* which of the three tables keeps the leases
  Ttl,        \* lease duration in clock ticks
  MaxTime,    \* bound: the clock stops here
  MaxFence    \* bound: no fence above this is granted

ASSUME LeaseAssumption ==
  /\ NoHolder \notin Holder
  /\ Keeper \in {"coordinator", "memory", "sql"}
  /\ Ttl \in Nat \ {0}
  /\ MaxTime \in Nat
  /\ MaxFence \in Nat

VARIABLES
  now,        \* the clock every keeper compares expires_at with
  lease,      \* the lease table: one row per key, or NoLease
  highWater,  \* coord_fence_hw: last fence of the key (coordinator only)
  claim       \* coord_claims: one row per key, or NoClaim

storeVars == <<now, lease, highWater, claim>>

Fence == 0 .. MaxFence
NoLease == [holder |-> NoHolder, fence |-> 0, expires |-> 0]
NoClaim == [holder |-> NoHolder, fence |-> 0, state |-> "none"]

Lease == [holder : Holder \cup {NoHolder}, fence : Fence, expires : Nat]
Claim == [holder : Holder \cup {NoHolder}, fence : Fence,
          state : {"none", "claimed", "committed"}]

StoreTypeOK ==
  /\ now \in 0 .. MaxTime
  /\ lease \in [Key -> Lease]
  /\ highWater \in [Key -> Fence]
  /\ claim \in [Key -> Claim]

StoreInit ==
  /\ now = 0
  /\ lease = [k \in Key |-> NoLease]
  /\ highWater = [k \in Key |-> 0]
  /\ claim = [k \in Key |-> NoClaim]

-----------------------------------------------------------------------------
(* Lease rows. *)

Live(k) == lease[k].expires > now
Matches(h, k, f) == lease[k].holder = h /\ lease[k].fence = f

\* Mutant: a lease can be stolen while its last tick is running.
Busy_EarlySteal(h, k) ==
  lease[k] # NoLease /\ lease[k].holder # h /\ lease[k].expires > now + 1

\* acquire answers VR5005: another holder's row has not expired.
Busy(h, k) == lease[k] # NoLease /\ lease[k].holder # h /\ Live(k)

\* The SQL keeper starts every acquire by deleting the rows of any key whose
\* expires_at is strictly in the past.
Swept ==
  [k \in Key |-> IF Keeper = "sql" /\ lease[k].expires < now
                 THEN NoLease ELSE lease[k]]

\* Mutant: the coordinator, like a ledger, counts on from the row it has.
PriorFence_FromRow(k) == Swept[k].fence

\* The fence a new grant counts on from: the high-water mark in the
\* coordinator, the row itself (0 when there is none) in a ledger.
PriorFence(k) ==
  IF Keeper = "coordinator" THEN highWater[k] ELSE Swept[k].fence

GrantLease(h, k, f) ==
  /\ lease' = [Swept EXCEPT ![k] =
                 [holder |-> h, fence |-> f, expires |-> now + Ttl]]
  /\ highWater' = IF Keeper = "coordinator"
                  THEN [highWater EXCEPT ![k] = f] ELSE highWater

AcquireLease(h, k) ==
  /\ ~Busy(h, k)
  /\ PriorFence(k) < MaxFence
  /\ GrantLease(h, k, PriorFence(k) + 1)
  /\ UNCHANGED <<now, claim>>

\* renew asks only for the row's holder and fence: it revives an expired row.
RenewLease(h, k, f) ==
  /\ Matches(h, k, f)
  /\ lease' = [lease EXCEPT ![k].expires = now + Ttl]
  /\ UNCHANGED <<now, highWater, claim>>

\* release deletes the row; the high-water mark stays.
ReleaseLease(h, k, f) ==
  /\ Matches(h, k, f)
  /\ lease' = [lease EXCEPT ![k] = NoLease]
  /\ UNCHANGED <<now, highWater, claim>>

-----------------------------------------------------------------------------
(* Claims: CoordinatorStore.conflict. *)

ForeignClaim(h, k, f) ==
  claim[k] # NoClaim /\ (claim[k].holder # h \/ claim[k].fence # f)

LeasedElsewhere(h, k, f) ==
  lease[k] # NoLease /\ ~Matches(h, k, f) /\ Live(k)

\* Mutants: one of the two checks is dropped.
Loses_NoCommitCheck(h, k, f) == LeasedElsewhere(h, k, f)
Loses_NoLeaseCheck(h, k, f) ==
  ForeignClaim(h, k, f) /\ claim[k].state = "committed"

\* An intent or a commit gets the verdict "loser".
Loses(h, k, f) ==
  \/ LeasedElsewhere(h, k, f)
  \/ ForeignClaim(h, k, f) /\ claim[k].state = "committed"

\* Mutant: the row stores the request's phase instead of the claim's state.
WinClaim_RawPhase(h, k, f, commit) ==
  /\ Keeper = "coordinator"
  /\ ~Loses(h, k, f)
  /\ claim' = [claim EXCEPT ![k] =
       [holder |-> h, fence |-> f,
        state |-> IF commit THEN "committed" ELSE "intent"]]
  /\ UNCHANGED <<now, lease, highWater>>

\* Otherwise it wins and the claim row is overwritten: nothing asks whether the
\* caller still holds a lease, or how its fence compares with the old row's.
WinClaim(h, k, f, commit) ==
  /\ Keeper = "coordinator"
  /\ ~Loses(h, k, f)
  /\ claim' = [claim EXCEPT ![k] =
       [holder |-> h, fence |-> f,
        state |-> IF commit \/ claim[k].state = "committed"
                  THEN "committed" ELSE "claimed"]]
  /\ UNCHANGED <<now, lease, highWater>>

\* A report of VR5006 writes nothing.
ReportVerdict(h, k, f) ==
  IF ForeignClaim(h, k, f) THEN "loser" ELSE "in_doubt"

-----------------------------------------------------------------------------

Tick ==
  /\ now < MaxTime
  /\ now' = now + 1
  /\ UNCHANGED <<lease, highWater, claim>>

=============================================================================
