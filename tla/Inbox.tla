-------------------------------- MODULE Inbox --------------------------------
(***************************************************************************)
(* Escalations and their answers (sdk-ts/src/escalate/vekinbox.ts, sink.ts, *)
(* and escalate, status and onResume of sdk-ts/src/index.ts).  A request is *)
(* posted to the inbox of the humans, logged as escalation_raised and kept  *)
(* in the memory of the process under a key made of saga, seq and reason.   *)
(* The answer comes back as a webhook, may be delivered more than once and  *)
(* late, and finds its request by that key.  An approval executes the plan  *)
(* the request holds; executePlan is one step here (Executor models it).    *)
(*                                                                         *)
(* A plan is named by its hash.  The inbox and the humans are external.     *)
(***************************************************************************)
EXTENDS Integers, FiniteSets

CONSTANTS
  Effect,       \* effects of one saga
  Plan,         \* plan hashes
  PlanFor,      \* the effect a plan compensates
  Kind,         \* what executePlan does with it: "runs", "gated", "refused"
  NoPlan,       \* the absence of a plan
  Reason,       \* reason codes that are raised
  MaxEscalated, \* bound: requests raised by VekRevert.escalate
  MaxRequests,  \* bound: requests ever raised, those of VR6004 included
  MaxAnswers,   \* bound: deliveries of webhooks
  Echoes,       \* whether answers carry the plan_hash of their request
  Worker        \* handlers of webhooks that may run at the same time

ASSUME InboxAssumption ==
  /\ Effect # {} /\ Reason # {}
  /\ PlanFor \in [Plan -> Effect]
  /\ Kind \in [Plan -> {"runs", "gated", "refused"}]
  /\ NoPlan \notin Plan
  /\ MaxRequests \in Nat \ {0} /\ MaxEscalated \in 1 .. MaxRequests
  /\ MaxAnswers \in Nat
  /\ Echoes \in BOOLEAN

VARIABLES
  comp,      \* effects table: compensation state
  request,   \* the raises, by number: what they hold and how far they got
  store,     \* memory: the newest request under a key
  answer,    \* external: what the human said to a request
  sent,      \* external: how often the answer was delivered
  delivered, \* external: how many webhooks were delivered
  early,     \* history: requests answered before raise was through with them
  handler,   \* control state of onResume
  granted,   \* approval_granted events: the plan, and the answer behind it
  executed,  \* escalation_resolved events with executed: true, by request
  closed,    \* number of escalation_resolved events
  raised,    \* number of escalation_raised events
  attempt,   \* attempts table: what came of a plan
  calls      \* history: calls made for a plan and answered ok

vars == <<comp, request, store, answer, sent, delivered, early, handler, granted,
          executed, closed, raised, attempt, calls>>

Request == 1 .. MaxRequests
Key == Effect \X Reason

Action == {"approve_compensation", "mark_manually_resolved", "decline",
           "request_changes"}

\* ACTIONS: what the inbox offers for a reason.
Offered == [c \in {"t4_irreversible", "unresolved_in_doubt", "window_expired",
                   "lease_unavailable", "cascade_risk", "drafted_not_allowed",
                   "verifier_rejected", "compile_rejected",
                   "compensation_failed"} |->
  CASE c \in {"t4_irreversible", "unresolved_in_doubt", "window_expired"} ->
         {"mark_manually_resolved", "decline"}
    [] c \in {"lease_unavailable", "cascade_risk", "drafted_not_allowed"} ->
         {"approve_compensation", "decline"}
    [] c = "verifier_rejected" ->
         {"approve_compensation", "decline", "request_changes"}
    [] c = "compile_rejected" -> {"decline", "request_changes"}
    [] c = "compensation_failed" ->
         {"approve_compensation", "mark_manually_resolved", "decline"}]

\* standing: any state of an effect that is neither escalated nor settled.
TypeOK ==
  /\ comp \in [Effect -> {"standing", "escalated", "compensated",
                          "manually_resolved"}]
  /\ request \in [Request ->
       [pc : {"unused", "logging", "storing", "raised", "lost"},
        effect : Effect, reason : Reason, plan : Plan \cup {NoPlan},
        shown : BOOLEAN]]
  /\ store \in [Key -> Request \cup {0}]
  /\ answer \in [Request -> Action \cup {"none"}]
  /\ sent \in [Request -> 0 .. MaxAnswers]
  /\ delivered \in 0 .. MaxAnswers
  /\ early \subseteq Request
  /\ handler \in [Worker ->
       [pc : {"idle", "mark", "resolve", "grant", "execute"},
        from : Request \cup {0}, of : Request \cup {0}, executed : BOOLEAN]]
  /\ granted \subseteq [plan : Plan, by : Request]
  /\ executed \subseteq Request
  /\ closed \in 0 .. MaxAnswers
  /\ raised \in 0 .. MaxRequests + MaxAnswers
  /\ attempt \in [Plan -> {"none", "succeeded", "failed"}]
  /\ calls \in [Plan -> 0 .. MaxAnswers]

Unused ==
  [pc |-> "unused", effect |-> CHOOSE e \in Effect : TRUE,
   reason |-> CHOOSE c \in Reason : TRUE, plan |-> NoPlan, shown |-> FALSE]

Idle == [pc |-> "idle", from |-> 0, of |-> 0, executed |-> FALSE]

Init ==
  /\ comp = [e \in Effect |-> "standing"]
  /\ request = [i \in Request |-> Unused]
  /\ store = [k \in Key |-> 0]
  /\ answer = [i \in Request |-> "none"]
  /\ sent = [i \in Request |-> 0]
  /\ delivered = 0
  /\ early = {}
  /\ handler = [w \in Worker |-> Idle]
  /\ granted = {}
  /\ executed = {}
  /\ closed = 0
  /\ raised = 0
  /\ attempt = [p \in Plan |-> "none"]
  /\ calls = [p \in Plan |-> 0]

KeyOf(i) == <<request[i].effect, request[i].reason>>

-----------------------------------------------------------------------------
(* Raising. *)

\* raise up to its first append: the plan is the caller's, or what the registry's
\* match compiles to by now, or none; the post has reached the inbox, or there is
\* no inbox or no connection to it.
Begin(i, e, c, p) ==
  /\ request[i].pc = "unused"
  /\ \A j \in Request : j < i => request[j].pc # "unused"
  /\ \E ok \in BOOLEAN :
       request' = [request EXCEPT ![i] =
         [pc |-> "logging", effect |-> e, reason |-> c, plan |-> p,
          shown |-> ok]]

\* VekRevert.escalate: plan(), then raise.
Escalate(i, e, c) ==
  /\ i <= MaxEscalated
  /\ \E p \in {q \in Plan : PlanFor[q] = e} \cup {NoPlan} : Begin(i, e, c, p)
  /\ UNCHANGED <<comp, store, answer, sent, delivered, early, handler, granted,
                 executed, closed, raised, attempt, calls>>

\* Mutant: the state is named after the event.
LogRaised_Event(e) ==
  /\ raised' = raised + 1
  /\ comp' = [comp EXCEPT ![e] = "escalation_raised"]

\* escalation_raised, from here or from the sink; the fold escalates the effect.
LogRaised(e) ==
  /\ raised' = raised + 1
  /\ comp' = [comp EXCEPT ![e] = "escalated"]

Log(i) ==
  /\ request[i].pc = "logging"
  /\ LogRaised(request[i].effect)
  /\ request' = [request EXCEPT ![i].pc = "storing"]
  /\ UNCHANGED <<store, answer, sent, delivered, early, handler, granted, executed,
                 closed, attempt, calls>>

\* The append fails, in the sink as well: raise throws, and nothing is stored.
LogFails(i) ==
  /\ request[i].pc = "logging"
  /\ request' = [request EXCEPT ![i].pc = "lost"]
  /\ UNCHANGED <<comp, store, answer, sent, delivered, early, handler, granted,
                 executed, closed, raised, attempt, calls>>

\* A request under the same key is replaced.
Store(i) ==
  /\ request[i].pc = "storing"
  /\ store' = [store EXCEPT ![KeyOf(i)] = i]
  /\ request' = [request EXCEPT ![i].pc = "raised"]
  /\ UNCHANGED <<comp, answer, sent, delivered, early, handler, granted, executed,
                 closed, raised, attempt, calls>>

-----------------------------------------------------------------------------
(* Answering. *)

\* Mutant: the hash the human saw is not compared.
HashMatches_Any(stored, i) == TRUE

\* claimed, the hash in the answer, is that of the plan in memory.
HashMatches(stored, i) == Echoes => request[stored].plan = request[i].plan

\* The body of onResume up to its first await.  The human who sees the request
\* picks one of the actions, once, and the answer is delivered, now and perhaps
\* again.  Its signature and time are right; with a wrong one, or for a key that
\* is not (or no longer, or not yet) in memory, the code answers VR6003.
Receive(w, i, a) ==
  LET stored == store[KeyOf(i)] IN
  /\ handler[w].pc = "idle"
  /\ request[i].shown /\ a \in Offered[request[i].reason]
  /\ answer[i] \in {"none", a} /\ delivered < MaxAnswers
  /\ answer' = [answer EXCEPT ![i] = a]
  /\ sent' = [sent EXCEPT ![i] = @ + 1]
  /\ delivered' = delivered + 1
  /\ early' = IF request[i].pc = "raised" THEN early ELSE early \cup {i}
  /\ CASE stored = 0 -> UNCHANGED <<request, handler>>
       [] stored # 0 /\ a = "mark_manually_resolved" ->
            /\ handler' = [handler EXCEPT ![w] =
                 [Idle EXCEPT !.pc = "mark", !.from = i, !.of = stored]]
            /\ UNCHANGED request
       [] stored # 0 /\ a = "decline" ->
            /\ handler' = [handler EXCEPT ![w] =
                 [Idle EXCEPT !.pc = "resolve", !.from = i, !.of = stored]]
            /\ UNCHANGED request
       [] stored # 0 /\ a \notin {"mark_manually_resolved", "decline"} ->
            IF request[stored].plan = NoPlan                       \* VR3001
            THEN UNCHANGED <<request, handler>>
            ELSE IF HashMatches(stored, i)
            THEN /\ handler' = [handler EXCEPT ![w] =
                      [Idle EXCEPT !.pc = "grant", !.from = i, !.of = stored]]
                 /\ UNCHANGED request
            ELSE /\ \E j \in Request :                             \* VR6004
                      Begin(j, request[stored].effect, request[stored].reason,
                            request[stored].plan)
                 /\ UNCHANGED handler
  /\ UNCHANGED <<comp, store, granted, executed, closed, raised, attempt, calls>>

Stored(w) == request[handler[w].of]
Planned(w) == Stored(w).plan

\* The row is written before the event.
Mark(w) ==
  /\ handler[w].pc = "mark"
  /\ comp' = [comp EXCEPT ![Stored(w).effect] = "manually_resolved"]
  /\ handler' = [handler EXCEPT ![w].pc = "resolve"]
  /\ UNCHANGED <<request, store, answer, sent, delivered, early, granted, executed,
                 closed, raised, attempt, calls>>

\* escalation_resolved, folded to manually_resolved whatever the action was.
Resolve(w) ==
  /\ handler[w].pc = "resolve"
  /\ comp' = [comp EXCEPT ![Stored(w).effect] = "manually_resolved"]
  /\ executed' = IF handler[w].executed THEN executed \cup {handler[w].of}
                 ELSE executed
  /\ closed' = closed + 1
  /\ handler' = [handler EXCEPT ![w] = Idle]
  /\ UNCHANGED <<request, store, answer, sent, delivered, early, granted, raised,
                 attempt, calls>>

\* approval_granted, then putPlan.
Grant(w) ==
  /\ handler[w].pc = "grant"
  /\ granted' = granted \cup {[plan |-> Planned(w), by |-> handler[w].from]}
  /\ handler' = [handler EXCEPT ![w].pc = "execute"]
  /\ UNCHANGED <<comp, request, store, answer, sent, delivered, early, executed,
                 closed, raised, attempt, calls>>

Finish(w) ==
  handler' = [handler EXCEPT ![w].pc = "resolve", ![w].executed = TRUE]

Throw(w) == handler' = [handler EXCEPT ![w] = Idle]

\* Mutant: the attempt row is not looked up.
Done_Never(p) == FALSE

\* lookupAttempt: a plan that succeeded is not called again.
Done(p) == attempt[p] = "succeeded"

\* A gate of executePlan: it escalates through the sink and answers ok: false,
\* which onResume does not look at, or throws.
Gated(w) ==
  /\ handler[w].pc = "execute" /\ Kind[Planned(w)] # "runs"
  /\ LogRaised(Stored(w).effect)
  /\ IF Kind[Planned(w)] = "gated" THEN Finish(w) ELSE Throw(w)
  /\ UNCHANGED <<request, store, answer, sent, delivered, early, granted, executed,
                 closed, attempt, calls>>

\* The plan is executed, or was.
Succeed(w) ==
  /\ handler[w].pc = "execute" /\ Kind[Planned(w)] = "runs"
  /\ attempt' = [attempt EXCEPT ![Planned(w)] = "succeeded"]
  /\ calls' = [calls EXCEPT ![Planned(w)] = IF Done(Planned(w)) THEN @ ELSE @ + 1]
  /\ comp' = [comp EXCEPT ![Stored(w).effect] = "compensated"]
  /\ Finish(w)
  /\ UNCHANGED <<request, store, answer, sent, delivered, early, granted, executed,
                 closed, raised>>

\* No lease, a failed step, a doubt: the effect is left standing or escalated.
Fail(w) ==
  /\ handler[w].pc = "execute" /\ Kind[Planned(w)] = "runs"
  /\ \/ LogRaised(Stored(w).effect) /\ UNCHANGED attempt
     \/ /\ ~Done(Planned(w))
        /\ comp' = [comp EXCEPT ![Stored(w).effect] = "standing"]
        /\ attempt' = [attempt EXCEPT ![Planned(w)] = "failed"]
        /\ UNCHANGED raised
  /\ Throw(w)
  /\ UNCHANGED <<request, store, answer, sent, delivered, early, granted, executed,
                 closed, calls>>

\* The process dies: the requests it kept are gone, the inbox keeps them.
Crash ==
  /\ store' = [k \in Key |-> 0]
  /\ handler' = [w \in Worker |-> Idle]
  /\ request' = [i \in Request |->
       IF request[i].pc \in {"logging", "storing"}
       THEN [request[i] EXCEPT !.pc = "lost"] ELSE request[i]]
  /\ UNCHANGED <<comp, answer, sent, delivered, early, granted, executed, closed,
                 raised, attempt, calls>>

-----------------------------------------------------------------------------

Next ==
  \/ \E i \in Request :
       \/ \E e \in Effect, c \in Reason : Escalate(i, e, c)
       \/ Log(i) \/ LogFails(i) \/ Store(i)
       \/ \E w \in Worker, a \in Action : Receive(w, i, a)
  \/ \E w \in Worker :
       Mark(w) \/ Resolve(w) \/ Grant(w) \/ Gated(w) \/ Succeed(w) \/ Fail(w)
  \/ Crash

Spec == Init /\ [][Next]_vars

-----------------------------------------------------------------------------
(* status. *)

\* Mutant: every event of the effect counts, granted approvals too.
open_escalations_Granted ==
  LET n == raised - closed - Cardinality(granted)
  IN IF n > 0 THEN n ELSE 0

open_escalations ==
  LET n == raised - closed IN IF n > 0 THEN n ELSE 0

(* Properties. *)

\* vekinbox.ts:1, "Approval binds to plan_hash": a plan is executed for an
\* answer only if that answer was given to a request which showed this plan, and
\* was neither a refusal nor a statement that the human had settled it; however
\* the requests of a key replaced each other and the answers overtook them.
ApprovalBinds ==
  \A g \in granted :
    /\ request[g.by].shown /\ request[g.by].plan = g.plan
    /\ answer[g.by] \notin {"none", "decline", "mark_manually_resolved"}

\* idempotency.ts:1, "the double-execution gate": however often an approval is
\* delivered, and however many requests carried the plan, it is called once and
\* only after an approval is on record.
ExecutedOnce ==
  \A p \in Plan :
    /\ calls[p] <= 1
    /\ calls[p] > 0 => \E g \in granted : g.plan = p

\* As long as no answer was delivered twice or came before its request was
\* raised, an escalated effect shows in the count of open escalations, in every
\* interleaving of raises, answers, crashes and plans that escalate again.
NothingForgotten ==
  (early = {} /\ \A i \in Request : sent[i] <= 1) =>
    \A e \in Effect : comp[e] = "escalated" => open_escalations > 0

\* README.md:130, "never silent success": an escalation that is recorded as
\* resolved by executing its plan has had its plan executed.
ResolvedMeansExecuted ==
  \A i \in executed : attempt[request[i].plan] = "succeeded"

\* vekinbox.ts:1: only the approval of a plan executes it, not a request to
\* change it.
OnlyApprovals ==
  \A g \in granted : answer[g.by] = "approve_compensation"

=============================================================================
