------------------------------ MODULE Executor ------------------------------
(***************************************************************************)
(* executePlan (sdk-ts/src/engine/execute.ts) and the lease engine under it *)
(* (sdk-ts/src/engine/lease.ts): concurrent runs of compensation plans that *)
(* take the leases of the plan's resource keys in sorted order, claim them  *)
(* at the coordinator when there is one, and then, step by step, append or *)
(* take over the attempt row, check every fence, call the outside world    *)
(* and record what came of it.                                             *)
(*                                                                         *)
(* A lease holder is one run.  Every await of the code that touches shared *)
(* state is an action of its own, so runs interleave there; a run may die  *)
(* at any of them, and with a remote lease keeper requests may be lost on   *)
(* their way out or on their way back.                                     *)
(***************************************************************************)
EXTENDS LeaseStore, Sequences

CONSTANTS
  Plan,      \* compensation plans (two sagas compensating have two plans)
  Touches,   \* resource keys of the effect each plan compensates
  PlanOf,    \* the plan each run executes
  NSteps,    \* steps per plan
  MaxTries,  \* limits.maxCompensationRetries
  Wait,      \* lease.waitMs
  CanCrash,  \* runs whose process may die
  Lossy      \* whether requests to the coordinator may get lost

ASSUME ExecutorAssumption ==
  /\ Key \subseteq Nat              \* the order sortedResourceKeys sorts by
  /\ IsFiniteSet(Key)
  /\ Touches \in [Plan -> SUBSET Key]
  /\ PlanOf \in [Holder -> Plan]
  /\ NSteps \in Nat \ {0}
  /\ MaxTries \in Nat \ {0}
  /\ Wait \in Nat
  /\ CanCrash \subseteq Holder
  /\ Lossy \in BOOLEAN

VARIABLES
  run,      \* control state of every executePlan call
  attempt,  \* attempts table: idempotency key = <<plan, step>>
  calls,    \* history: the calls executeStep made, and whether they applied
  log,      \* ledger events and escalations, by the run that wrote them
  faults    \* history: "lapse" (a lease expired), "lost" (an RPC was lost)

vars == <<storeVars, run, attempt, calls, log, faults>>

Run == Holder
Step == 1 .. NSteps

\* sortedResourceKeys: a plan's keys without duplicates, ascending.
KeySeq == [p \in Plan |->
  CHOOSE s \in [1 .. Cardinality(Touches[p]) -> Touches[p]] :
    \A i, j \in DOMAIN s : i < j => s[i] < s[j]]

Keys(r) == KeySeq[PlanOf[r]]
KeyAt(r) == Keys(r)[run[r].pos]
Row(r) == attempt[PlanOf[r]][run[r].at]
Coordinated(r) == Keeper = "coordinator" /\ Keys(r) # <<>>

Codes == {"VR5001", "VR5002", "VR5005", "VR5006", "VR5010", "VR2020"}
NoAttempt == [state |-> "none", id |-> NoHolder, code |-> "none",
              spent |-> FALSE]

PC == {"idle", "acquire", "unwind", "asleep", "intent", "append", "started",
       "wait", "doubt", "probe", "check", "run", "record", "post", "commit",
       "fail", "release", "done", "crashed"}

\* The body of the try block, during which the heartbeat interval is set.
Beating == {"intent", "append", "started", "wait", "doubt", "probe", "check",
            "run", "record", "post", "commit", "fail"}

\* id is the attempt id of the row in hand (named after the run that made it),
\* code what a run is about to throw, or "ok".
TypeOK ==
  /\ StoreTypeOK
  /\ run \in [Run -> [pc : PC, at : Step, pos : 0 .. Cardinality(Key) + 1,
                      fence : [Key -> Fence], id : Run \cup {NoHolder},
                      deadline : Nat, tries : 0 .. MaxTries,
                      code : Codes \cup {"ok", "none", "refused"}]]
  /\ attempt \in [Plan -> [Step ->
       [state : {"none", "started", "succeeded", "failed", "in_doubt"},
        id : Run \cup {NoHolder}, code : Codes \cup {"none"},
        spent : BOOLEAN]]]
  /\ calls \subseteq [plan : Plan, step : Step, by : Run, id : Run,
                      hit : BOOLEAN]
  /\ log \subseteq Run \X {"executed", "failed", "escalated"}
  /\ faults \subseteq {"lapse", "lost"}

Init ==
  /\ StoreInit
  /\ run = [r \in Run |->
       [pc |-> "idle", at |-> 1, pos |-> 1, fence |-> [k \in Key |-> 0],
        id |-> NoHolder, deadline |-> 0, tries |-> 0, code |-> "none"]]
  /\ attempt = [p \in Plan |-> [i \in Step |-> NoAttempt]]
  /\ calls = {}
  /\ log = {}
  /\ faults = {}

-----------------------------------------------------------------------------
(* Moves of one run. *)

At(r, pc) == run[r].pc = pc
Goto(r, pc) == run' = [run EXCEPT ![r].pc = pc, ![r].pos = 1]
Throw(r, code) == run' = [run EXCEPT ![r].pc = "fail", ![r].code = code]
Advance(r) == run' = [run EXCEPT ![r].pos = @ + 1]

\* Mutant: the loop starts one key too low.
BackOut_OffByOne(r, pc) ==
  run' = [run EXCEPT ![r].pc = pc,
                     ![r].pos = IF Keys(r) = <<>> THEN 0 ELSE Len(Keys(r)) - 1]

\* To the release loop, which walks the keys backwards.
BackOut(r, pc) == run' = [run EXCEPT ![r].pc = pc, ![r].pos = Len(Keys(r))]

\* Mutant: the step index runs past the last step.
NextStep_NoBound(r) ==
  run' = [run EXCEPT ![r].pc = IF run[r].at < NSteps THEN "append" ELSE "post",
                     ![r].at = @ + 1]

NextStep(r) ==
  run' = [run EXCEPT ![r].pc = IF run[r].at < NSteps THEN "append" ELSE "post",
                     ![r].at = IF @ < NSteps THEN @ + 1 ELSE @]

SetRow(r, state, id, code, spent) ==
  attempt' = [attempt EXCEPT ![PlanOf[r]][run[r].at] =
    [state |-> state, id |-> id, code |-> code, spent |-> spent]]

Write(r, kind) == log' = log \cup {<<r, kind>>}

\* Fence statuses: "ok"; "fenced" or "held_elsewhere"; "expired" or "missing".
Owns(r, k) == Matches(r, k, run[r].fence[k])
Held(r, k) == Owns(r, k) /\ Live(k)
Superseded(r, k) == lease[k] # NoLease /\ ~Owns(r, k)
Lapsed(r, k) == ~Held(r, k) /\ ~Superseded(r, k)

\* Mutant: the deadline is taken anew at every poll.
Elapsed_Sliding(r) == now >= now + Wait

\* A deadline of this run has passed; so have all at the clock's bound.
Elapsed(r) == now >= run[r].deadline \/ now = MaxTime

Lose == Lossy /\ faults' = faults \cup {"lost"}

-----------------------------------------------------------------------------
(* acquireAll *)

Start(r) ==
  /\ At(r, "idle")
  /\ run' = [run EXCEPT ![r].pc = "acquire", ![r].deadline = now + Wait]
  /\ UNCHANGED <<storeVars, attempt, calls, log, faults>>

\* Drafted plans, verifier rejections, T4 effects and cascade risk are
\* escalated before anything else happens.
Refuse(r) ==
  /\ At(r, "idle")
  /\ run' = [run EXCEPT ![r].pc = "done", ![r].code = "refused"]
  /\ Write(r, "escalated")
  /\ UNCHANGED <<storeVars, attempt, calls, faults>>

Acquire(r) ==
  /\ At(r, "acquire") /\ run[r].pos <= Len(Keys(r))
  /\ AcquireLease(r, KeyAt(r))
  /\ run' = [run EXCEPT ![r].pos = @ + 1,
               ![r].fence[KeyAt(r)] = PriorFence(KeyAt(r)) + 1]
  /\ UNCHANGED <<attempt, calls, log, faults>>

\* Every key is held; with a coordinator the claims come first.
Enter(r) ==
  /\ At(r, "acquire") /\ run[r].pos > Len(Keys(r))
  /\ Goto(r, IF Coordinated(r) THEN "intent" ELSE "append")
  /\ UNCHANGED <<storeVars, attempt, calls, log, faults>>

\* VR5005: the key is taken, or the keeper cannot be reached (and may or may
\* not have granted the lease).
AcquireRefused(r) ==
  /\ At(r, "acquire") /\ run[r].pos <= Len(Keys(r))
  /\ \/ Busy(r, KeyAt(r)) /\ UNCHANGED <<storeVars, faults>>
     \/ AcquireLease(r, KeyAt(r)) /\ Lose
     \/ UNCHANGED storeVars /\ Lose
  /\ BackOut(r, "unwind")
  /\ UNCHANGED <<attempt, calls, log>>

\* releaseAll: one key of the loop.  VR5010 ends it with the rest unreleased.
ReleaseNext(r) ==
  /\ run[r].pc \in {"unwind", "release"} /\ run[r].pos > 0
  /\ LET k == KeyAt(r) f == run[r].fence[k] IN
       \/ /\ f = 0 \/ lease[k] = NoLease
          /\ run' = [run EXCEPT ![r].pos = @ - 1]
          /\ UNCHANGED <<storeVars, faults>>
       \/ /\ f # 0 /\ ReleaseLease(r, k, f)
          /\ run' = [run EXCEPT ![r].pos = @ - 1]
          /\ UNCHANGED faults
       \/ /\ f # 0 /\ Superseded(r, k)
          /\ run' = [run EXCEPT ![r].pos = 0]
          /\ UNCHANGED <<storeVars, faults>>
       \/ /\ f # 0 /\ Lose
          /\ run' = [run EXCEPT ![r].pos = @ - 1]
          /\ UNCHANGED storeVars
  /\ UNCHANGED <<attempt, calls, log>>

Unwound(r) ==
  /\ At(r, "unwind") /\ run[r].pos = 0
  /\ \/ /\ ~Elapsed(r)
        /\ run' = [run EXCEPT ![r].pc = "asleep",
                              ![r].fence = [k \in Key |-> 0]]
        /\ UNCHANGED log
     \/ /\ Elapsed(r)
        /\ run' = [run EXCEPT ![r].pc = "done", ![r].code = "VR5005",
                              ![r].fence = [k \in Key |-> 0]]
        /\ Write(r, "escalated")
  /\ UNCHANGED <<storeVars, attempt, calls, faults>>

-----------------------------------------------------------------------------
(* Claims. *)

\* Mutant: the intent is submitted for the first key only.
Intent_FirstKey(r) ==
  /\ At(r, "intent")
  /\ WinClaim(r, KeyAt(r), run[r].fence[KeyAt(r)], FALSE)
  /\ Goto(r, "append")
  /\ UNCHANGED <<attempt, calls, log, faults>>

Intent(r) ==
  /\ At(r, "intent")
  /\ \/ /\ run[r].pos <= Len(Keys(r))
        /\ WinClaim(r, KeyAt(r), run[r].fence[KeyAt(r)], FALSE)
        /\ Advance(r)
     \/ /\ run[r].pos > Len(Keys(r))
        /\ Goto(r, "append")
        /\ UNCHANGED storeVars
  /\ UNCHANGED <<attempt, calls, log, faults>>

IntentLost(r) ==
  /\ At(r, "intent") /\ run[r].pos <= Len(Keys(r))
  /\ LET k == KeyAt(r) f == run[r].fence[k] IN
       \/ /\ Loses(r, k, f)
          /\ Write(r, "escalated")
          /\ UNCHANGED <<storeVars, faults>>
       \/ /\ Lose
          /\ WinClaim(r, k, f, FALSE) \/ UNCHANGED storeVars
          /\ UNCHANGED log
  /\ Throw(r, "VR5005")
  /\ UNCHANGED <<attempt, calls>>

-----------------------------------------------------------------------------
(* One step of the plan: the attempt row. *)

AppendAttempt(r) ==
  /\ At(r, "append") /\ Row(r) = NoAttempt
  /\ SetRow(r, "started", r, "none", FALSE)
  /\ run' = [run EXCEPT ![r].pc = "check", ![r].pos = 1, ![r].id = r]
  /\ UNCHANGED <<storeVars, calls, log, faults>>

\* Mutant: every VR5001 is retried, however many tries it has used up.
Retryable_Always(r) == Row(r).code = "VR5001"

\* Only a VR5001 that carries no count of tries (one a probe recorded) is
\* retried: a failure recorded after the calls has used them all up.
Retryable(r) == Row(r).code = "VR5001" /\ ~Row(r).spent

\* Mutant: a takeover runs under an attempt id of its own.
IdInHand_Own(r) == r

\* A takeover keeps the attempt id of the row.
IdInHand(r) == Row(r).id

\* The row exists already: handleExistingAttempt.
TakeOver(r) ==
  /\ At(r, "append") /\ Row(r) # NoAttempt
  /\ \/ /\ Row(r).state = "succeeded"
        /\ NextStep(r)
     \/ /\ Row(r).state = "failed" /\ Retryable(r)
        /\ run' = [run EXCEPT ![r].pc = "check", ![r].pos = 1,
                              ![r].id = IdInHand(r)]
     \/ /\ Row(r).state = "failed" /\ ~Retryable(r)
        /\ Throw(r, Row(r).code)
     \/ /\ Row(r).state = "in_doubt"
        /\ run' = [run EXCEPT ![r].pc = "doubt", ![r].id = IdInHand(r)]
     \/ /\ Row(r).state = "started"
        /\ run' = [run EXCEPT ![r].pc = "started", ![r].id = IdInHand(r)]
  /\ UNCHANGED <<storeVars, attempt, calls, log, faults>>

\* A "started" row is re-executed at once by a run that holds the first key,
\* and waited for by one that has lost it, or whose plan has none.
Started(r) ==
  /\ At(r, "started")
  /\ LET k == Keys(r)[1] IN
       \/ /\ Keys(r) # <<>> /\ Held(r, k)
          /\ Goto(r, "check")
          /\ UNCHANGED faults
       \/ /\ Keys(r) # <<>> /\ Superseded(r, k)
          /\ Throw(r, "VR5010")
          /\ UNCHANGED faults
       \/ /\ Keys(r) = <<>> \/ Lapsed(r, k)
          /\ run' = [run EXCEPT ![r].pc = "wait", ![r].deadline = now + Wait]
          /\ UNCHANGED faults
       \/ /\ Keys(r) # <<>> /\ Lose
          /\ run' = [run EXCEPT ![r].pc = "wait", ![r].deadline = now + Wait]
  /\ UNCHANGED <<storeVars, attempt, calls, log>>

\* One poll of the wait loop, or the look after it.
Poll(r) ==
  /\ At(r, "wait")
  /\ LET has == Keys(r) # <<>> /\ lease[Keys(r)[1]] # NoLease
         live == has /\ Live(Keys(r)[1])
         mine == has /\ lease[Keys(r)[1]].holder = r IN
       \/ /\ \/ Row(r).state = "succeeded" /\ NextStep(r)
             \/ Row(r).state = "failed" /\ Throw(r, Row(r).code)
             \/ Row(r).state = "in_doubt" /\ Goto(r, "doubt")
             \/ Row(r).state = "started" /\ has /\ ~live /\ Goto(r, "doubt")
             \/ Row(r).state = "started" /\ Elapsed(r)
                  /\ IF live /\ ~mine THEN Throw(r, "VR5005")
                                    ELSE Goto(r, "doubt")
          /\ UNCHANGED faults
       \/ /\ Row(r).state = "started" /\ Elapsed(r) /\ has /\ Lose
          /\ Goto(r, "doubt")
  /\ UNCHANGED <<storeVars, attempt, calls, log>>

-----------------------------------------------------------------------------
(* In doubt. *)

\* The row goes to in_doubt on the strength of what was read earlier.
MarkInDoubt(r) ==
  /\ At(r, "doubt")
  /\ SetRow(r, "in_doubt", run[r].id, "none", FALSE)
  /\ Goto(r, "probe")
  /\ UNCHANGED <<storeVars, calls, log, faults>>

\* The probe looks at the compensated effect, not at the step: "not_landed"
\* once a compensation has removed it.  A restored resource still answers
\* "landed".
Probe(r) ==
  /\ At(r, "probe")
  /\ \/ /\ Write(r, "escalated")
        /\ Throw(r, "VR2020")
        /\ UNCHANGED attempt
     \/ /\ \E c \in calls : c.plan = PlanOf[r] /\ c.hit
        /\ SetRow(r, "failed", run[r].id, "VR5001", FALSE)
        /\ NextStep(r)
        /\ UNCHANGED log
     \/ /\ SetRow(r, "succeeded", run[r].id, "none", FALSE)
        /\ NextStep(r)
        /\ UNCHANGED log
  /\ UNCHANGED <<storeVars, calls, faults>>

-----------------------------------------------------------------------------
(* Fence check, call and record. *)

CheckFence(r) ==
  /\ At(r, "check")
  /\ \/ /\ run[r].pos > Len(Keys(r))
        /\ run' = [run EXCEPT ![r].pc = "run", ![r].tries = 0]
     \/ /\ run[r].pos <= Len(Keys(r)) /\ Held(r, KeyAt(r))
        /\ Advance(r)
     \/ /\ run[r].pos <= Len(Keys(r)) /\ Superseded(r, KeyAt(r))
        /\ Throw(r, "VR5010")
  /\ UNCHANGED <<storeVars, attempt, calls, log, faults>>

FenceLapsed(r) ==
  /\ At(r, "check") /\ run[r].pos <= Len(Keys(r))
  /\ \/ Lapsed(r, KeyAt(r)) /\ UNCHANGED faults
     \/ Lose
  /\ SetRow(r, "in_doubt", run[r].id, "none", FALSE)
  /\ Throw(r, "VR5010")
  /\ UNCHANGED <<storeVars, calls, log>>

Call(r, hit) ==
  calls' = calls \cup {[plan |-> PlanOf[r], step |-> run[r].at, by |-> r,
                        id |-> run[r].id, hit |-> hit]}

\* executeStep.  A VR5001 leaves open whether the request took effect, and is
\* retried on the spot; VR5006 says the resource had changed.
CallStep(r) ==
  /\ At(r, "run")
  /\ \/ /\ Call(r, TRUE)
        /\ run' = [run EXCEPT ![r].pc = "record", ![r].code = "ok"]
     \/ \E hit \in BOOLEAN :
          /\ Call(r, hit)
          /\ run[r].tries + 1 < MaxTries
          /\ run' = [run EXCEPT ![r].tries = @ + 1]
     \/ \E hit \in BOOLEAN, code \in {"VR5001", "VR5006"} :
          /\ code = "VR5006" => ~hit
          /\ Call(r, hit)
          /\ run' = [run EXCEPT ![r].pc = "record", ![r].code = code]
  /\ UNCHANGED <<storeVars, attempt, log, faults>>

\* Mutant: the error of the last retry is lost.
Failed_Forgets(r) == run[r].code = "VR5006"

\* executeStep's last try threw.
Failed(r) == run[r].code # "ok"

Record(r) ==
  /\ At(r, "record")
  /\ \/ /\ ~Failed(r)
        /\ SetRow(r, "succeeded", run[r].id, "none", FALSE)
        /\ NextStep(r)
     \/ /\ Failed(r)
        /\ SetRow(r, "failed", run[r].id, run[r].code, TRUE)
        /\ Throw(r, run[r].code)
  /\ UNCHANGED <<storeVars, calls, log, faults>>

-----------------------------------------------------------------------------
(* The end of a run. *)

\* Mutant: compensation_executed is appended before the postconditions are
\* evaluated.
Post_LogsFirst(r) ==
  /\ At(r, "post")
  /\ Write(r, "executed")
  /\ \/ run' = [run EXCEPT ![r].pc = "commit", ![r].code = "ok"]
     \/ Throw(r, "VR5002")
  /\ UNCHANGED <<storeVars, attempt, calls, faults>>

\* Postconditions, then the compensation_executed event.
Post(r) ==
  /\ At(r, "post")
  /\ \/ /\ Write(r, "executed")
        /\ run' = [run EXCEPT ![r].pc = "commit", ![r].code = "ok"]
     \/ /\ Throw(r, "VR5002")
        /\ UNCHANGED log
  /\ UNCHANGED <<storeVars, attempt, calls, faults>>

\* Mutant: the commit is never sent.
Commit_Forgotten(r) ==
  /\ At(r, "commit")
  /\ BackOut(r, "release")
  /\ UNCHANGED <<storeVars, attempt, calls, log, faults>>

\* Only the first key is committed, and its verdict is not looked at.
Commit(r) ==
  /\ At(r, "commit")
  /\ LET k == Keys(r)[1] f == run[r].fence[k] IN
       \/ ~Coordinated(r) /\ UNCHANGED <<storeVars, faults>>
       \/ Coordinated(r) /\ WinClaim(r, k, f, TRUE) /\ UNCHANGED faults
       \/ Coordinated(r) /\ Loses(r, k, f) /\ UNCHANGED <<storeVars, faults>>
       \/ Coordinated(r) /\ Lose
            /\ (WinClaim(r, k, f, TRUE) \/ UNCHANGED storeVars)
  /\ BackOut(r, "release")
  /\ UNCHANGED <<attempt, calls, log>>

\* The catch block.  A VR5006 is reported to the coordinator, and escalated
\* when the answer is that another run's claim stands.
Fail(r) ==
  /\ At(r, "fail")
  /\ LET k == Keys(r)[1]
         beaten == run[r].code = "VR5006" /\ Coordinated(r)
                     /\ ReportVerdict(r, k, run[r].fence[k]) = "loser"
         failed == IF run[r].code = "VR2020" THEN {} ELSE {<<r, "failed">>} IN
       \/ /\ log' = log \cup failed
                    \cup (IF beaten THEN {<<r, "escalated">>} ELSE {})
          /\ UNCHANGED faults
       \/ /\ beaten /\ Lose
          /\ log' = log \cup failed
  /\ BackOut(r, "release")
  /\ UNCHANGED <<storeVars, attempt, calls>>

Finish(r) ==
  /\ At(r, "release") /\ run[r].pos = 0
  /\ run' = [run EXCEPT ![r].pc = "done"]
  /\ UNCHANGED <<storeVars, attempt, calls, log, faults>>

-----------------------------------------------------------------------------
(* What happens around the runs. *)

\* heartbeatAll renews key after key and stops at the first one lost.
Heartbeat(r) ==
  LET renewed == {n \in DOMAIN Keys(r) :
                    \A m \in 1 .. n : Owns(r, Keys(r)[m])} IN
  /\ run[r].pc \in Beating
  /\ lease' = [k \in Key |->
       IF \E n \in renewed : Keys(r)[n] = k
       THEN [lease[k] EXCEPT !.expires = now + Ttl] ELSE lease[k]]
  /\ UNCHANGED <<now, highWater, claim, run, attempt, calls, log, faults>>

Crash(r) ==
  /\ r \in CanCrash /\ run[r].pc \notin {"idle", "done", "crashed"}
  /\ run' = [run EXCEPT ![r].pc = "crashed"]
  /\ UNCHANGED <<storeVars, attempt, calls, log, faults>>

\* Time passes, and wakes the runs that sleep between two rounds of acquireAll.
Clock ==
  /\ Tick
  /\ run' = [r \in Run |-> IF At(r, "asleep")
               THEN [run[r] EXCEPT !.pc = "acquire", !.pos = 1] ELSE run[r]]
  /\ faults' = IF \E k \in Key : lease[k] # NoLease /\ lease[k].expires <= now'
               THEN faults \cup {"lapse"} ELSE faults
  /\ UNCHANGED <<attempt, calls, log>>

Progress(r) ==
  \/ Acquire(r) \/ Enter(r) \/ AcquireRefused(r) \/ ReleaseNext(r)
  \/ Unwound(r) \/ Intent(r) \/ IntentLost(r) \/ AppendAttempt(r) \/ TakeOver(r)
  \/ Started(r) \/ Poll(r) \/ MarkInDoubt(r) \/ Probe(r) \/ CheckFence(r)
  \/ FenceLapsed(r) \/ CallStep(r) \/ Record(r) \/ Post(r) \/ Commit(r)
  \/ Fail(r) \/ Finish(r)

Next ==
  \/ \E r \in Run : Start(r) \/ Refuse(r) \/ Progress(r) \/ Heartbeat(r)
                      \/ Crash(r)
  \/ Clock

Spec == Init /\ [][Next]_vars

\* Promises settle and timers fire: a run that can go on does, and time passes.
FairSpec == Spec /\ WF_vars(Clock) /\ \A r \in Run : WF_vars(Progress(r))

-----------------------------------------------------------------------------
(* Properties. *)

\* Every call that is ever made for a step carries the attempt id of the row
\* that was first appended for it, whichever run makes it: this id is what the
\* far end can recognise a repeated compensation by.
OneAttemptId ==
  \A c, d \in calls : c.plan = d.plan /\ c.step = d.step => c.id = d.id

\* The same step of the same plan is called by two runs only if a lease expired
\* on the way: a run that fails, loses a race or arrives late never repeats what
\* an earlier run of the plan has called.
SecondCallerNeedsLapse ==
  \A c, d \in calls :
    (c.plan = d.plan /\ c.step = d.step /\ c.by # d.by
       /\ Touches[c.plan] # {}) => "lapse" \in faults

Landed(p, i) == \E c \in calls : c.plan = p /\ c.step = i /\ c.hit

\* A run that recorded compensation_executed has had every step of its plan take
\* effect, by its own call or an earlier run's, as long as no lease expired and
\* no request was lost.
ExecutedMeansLanded ==
  \A r \in Run : (<<r, "executed">> \in log /\ faults = {}
                     /\ Touches[PlanOf[r]] # {}) =>
    \A i \in Step : Landed(PlanOf[r], i)

\* README.md:130: partial failures propagate as explicit states, never silent
\* success.  No run reports a plan executed of which no step took effect.
NoSilentSuccess ==
  \A r \in Run : <<r, "executed">> \in log =>
    \E i \in Step : Landed(PlanOf[r], i)

\* While a run is between its fence check and its record no other run that
\* shares a key with it is there, unless a lease expired.
Busied(r) == run[r].pc \in {"run", "record"}
ExclusiveCalls ==
  \A r, s \in Run :
    (r # s /\ Busied(r) /\ Busied(s)
       /\ Touches[PlanOf[r]] \cap Touches[PlanOf[s]] # {}) =>
    "lapse" \in faults

\* A finished run leaves no lease behind, whatever way it ended, unless a lease
\* expired or a request was lost.
NoLeak ==
  \A r \in Run, k \in Key :
    (run[r].pc = "done" /\ lease[k].holder = r) => faults # {}

\* The ledger says how each finished run ended: compensation_executed exactly
\* for the runs that answered ok, and a failure event or an escalation for all
\* others.
VerdictMatchesLog ==
  \A r \in Run : run[r].pc = "done" =>
    /\ (<<r, "executed">> \in log) <=> (run[r].code = "ok")
    /\ ({<<r, "failed">>, <<r, "escalated">>} \cap log = {})
         <=> (run[r].code = "ok")

\* With a coordinator no step is called before every key of the plan is claimed
\* by the run that calls it, unless it was stolen from.
ClaimedBeforeCall ==
  \A r \in Run : (Keeper = "coordinator" /\ Busied(r)) =>
    \A k \in Touches[PlanOf[r]] :
      \/ claim[k].holder = r /\ claim[k].fence = run[r].fence[k]
      \/ "lapse" \in faults

\* Of the runs of different sagas whose plans start with the same resource, one
\* at most answers ok: the others lose the claim to its commit.
OneOkPerFirstKey ==
  \A r, s \in Run :
    (Coordinated(r) /\ Coordinated(s) /\ r # s /\ Keys(r)[1] = Keys(s)[1]
       /\ PlanOf[r] # PlanOf[s] /\ faults = {}) =>
    ~(run[r].pc = "done" /\ run[r].code = "ok" /\ run[s].code = "ok")

\* A call of executePlan comes to an end, whatever the other runs do and
\* wherever they die: no lease, claim or attempt row can hold it up for ever.
Ends ==
  \A r \in Run : run[r].pc # "idle" ~> run[r].pc \in {"done", "crashed"}

=============================================================================
