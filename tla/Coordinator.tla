---------------------------- MODULE Coordinator -----------------------------
(***************************************************************************)
(* The cross-ledger coordinator under arbitrary clients.  A client may     *)
(* send any request at any time for any fence acquire ever returned to it, *)
(* so a request that was delayed, duplicated or sent by a holder that was  *)
(* stolen from in the meantime is one of the requests explored.  The       *)
(* server handles one request at a time (one Node event loop, synchronous  *)
(* SQLite), hence one action per request.                                  *)
(***************************************************************************)
EXTENDS LeaseStore

VARIABLES
  granted,  \* history: every <<key, holder, fence>> that acquire returned
  told      \* history: the commits that were answered "winner"

vars == <<storeVars, granted, told>>

Grant == [key : Key, holder : Holder, fence : Fence]

Init == StoreInit /\ granted = {} /\ told = {}

TypeOK == StoreTypeOK /\ granted \in SUBSET Grant /\ told \in SUBSET granted

-----------------------------------------------------------------------------
(* One action per request of the wire protocol. *)

Acquire(h, k) ==
  /\ AcquireLease(h, k)
  /\ granted' = granted \cup
       {[key |-> k, holder |-> h, fence |-> PriorFence(k) + 1]}
  /\ UNCHANGED told

Renew(g) ==
  RenewLease(g.holder, g.key, g.fence) /\ UNCHANGED <<granted, told>>

Release(g) ==
  ReleaseLease(g.holder, g.key, g.fence) /\ UNCHANGED <<granted, told>>

Intent(g) ==
  WinClaim(g.holder, g.key, g.fence, FALSE) /\ UNCHANGED <<granted, told>>

Commit(g) ==
  /\ WinClaim(g.holder, g.key, g.fence, TRUE)
  /\ told' = told \cup {g}
  /\ UNCHANGED granted

Clock == Tick /\ UNCHANGED <<granted, told>>

Next ==
  \/ \E h \in Holder, k \in Key : Acquire(h, k)
  \/ \E g \in granted : Renew(g)
  \/ \E g \in granted : Release(g)
  \/ \E g \in granted : Intent(g)
  \/ \E g \in granted : Commit(g)
  \/ Clock

Spec == Init /\ [][Next]_vars

-----------------------------------------------------------------------------
(* Properties. *)

\* A fence is never reused: each grant on a key is above every earlier grant on
\* that key, across releases, steals of expired leases and re-acquires by the
\* same holder (CoordinatorStore.acquire and the coord_fence_hw table).
FenceNeverReused ==
  [][\A k \in Key : \A g \in granted :
       (lease'[k] # NoLease /\ lease'[k].fence # lease[k].fence
          /\ g.key = k) => g.fence < lease'[k].fence]_vars

\* Whatever row is in the lease table is the newest grant of its key, and it is
\* in the hands of the client that grant was made to.  Every fence check of the
\* engine (inspectFence) rests on this: a holder whose fence differs from the
\* row's has been superseded, and is never the rightful owner.
RowIsNewestGrant ==
  \A k \in Key : lease[k] # NoLease =>
    /\ [key |-> k, holder |-> lease[k].holder, fence |-> lease[k].fence]
         \in granted
    /\ \A g \in granted : g.key = k => g.fence <= lease[k].fence

\* At most one commit per key is ever answered "winner", however requests are
\* delayed, repeated or interleaved with steals: no two clients can both be told
\* that their compensation is the one that counts (CoordinatorStore.conflict).
OneCommittedWinner ==
  \A g1, g2 \in told : g1.key = g2.key => g1 = g2

\* While a lease is live, only its holder can move the claim of that key: a
\* client that was stolen from cannot overwrite its successor's claim during the
\* successor's lease.
ClaimFollowsLiveLease ==
  [][\A k \in Key :
       (claim'[k] # claim[k] /\ lease[k] # NoLease /\ Live(k)) =>
         Matches(claim'[k].holder, k, claim'[k].fence)]_vars

\* docs/coordination.md:402-404: once B has claimed with a higher fence after a
\* steal, A's later commit is VR5010 or "loser".  So no commit may be answered
\* "winner" while another holder's claim with a higher fence stands.
StaleCommitLoses ==
  [][\A g \in told' \ told :
       claim[g.key].holder \in {g.holder, NoHolder}
         \/ claim[g.key].fence < g.fence]_vars

=============================================================================
