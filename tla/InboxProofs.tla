------------------------------ MODULE InboxProofs ------------------------------
(***************************************************************************)
(* Proofs about Inbox, for any number of requests, answers, plans and       *)
(* handlers: a plan is executed only for an answer to a request that showed *)
(* it, if answers carry the hash, and only once; the counters have a bound; *)
(* and the count of open escalations forgets none.                          *)
(***************************************************************************)
EXTENDS Inbox, FiniteSetTheorems, TLAPS

RequestType ==
  [pc : {"unused", "logging", "storing", "raised", "lost"},
   effect : Effect, reason : Reason, plan : Plan \cup {NoPlan}, shown : BOOLEAN]

HandlerType ==
  [pc : {"idle", "mark", "resolve", "grant", "execute"},
   from : Request \cup {0}, of : Request \cup {0}, executed : BOOLEAN]

\* The types the argument needs; the bounds of the counters are not among them.
Types ==
  /\ request \in [Request -> RequestType]
  /\ store \in [Key -> Request \cup {0}]
  /\ answer \in [Request -> Action \cup {"none"}]
  /\ handler \in [Worker -> HandlerType]
  /\ granted \subseteq [plan : Plan, by : Request]
  /\ attempt \in [Plan -> {"none", "succeeded", "failed"}]
  /\ calls \in [Plan -> Nat]

\* A request that was raised is never used again for another.
Raised(i, r) == r[i].pc # "unused"

RequestsKeep ==
  /\ \A i \in Request : request[i].shown => Raised(i, request)
  /\ \A k \in Key : store[k] # 0 => Raised(store[k], request)

\* The answer to request i asks for plan p, which this request showed.
Asks(i, p, r, a) ==
  /\ r[i].shown /\ r[i].plan = p
  /\ a[i] \notin {"none", "decline", "mark_manually_resolved"}

\* A handler works on a request that was raised.  Where it is about to execute, the
\* plan in memory is the one its answer asks for.
HandlerOk(h, r, a, g) ==
  /\ h.pc # "idle" => h.of \in Request /\ Raised(h.of, r)
  /\ h.pc \in {"grant", "execute"} =>
       h.from \in Request /\ r[h.of].plan \in Plan /\ Asks(h.from, r[h.of].plan, r, a)
  /\ h.pc = "execute" => [plan |-> r[h.of].plan, by |-> h.from] \in g

CallsOnRecord == \A p \in Plan : calls[p] > 0 => attempt[p] = "succeeded"

IInv ==
  /\ Types /\ RequestsKeep /\ ApprovalBinds /\ ExecutedOnce /\ CallsOnRecord
  /\ \A w \in Worker : HandlerOk(handler[w], request, answer, granted)

-----------------------------------------------------------------------------
(* What steps leave alone. *)

\* A raised request keeps its plan and what was shown of it, an answer stands.
Keeps(r, a) ==
  \A i \in Request :
    /\ r[i].shown => Raised(i, r)
    /\ Raised(i, request) =>
         Raised(i, r) /\ r[i].plan = request[i].plan /\ r[i].shown = request[i].shown
    /\ answer[i] # "none" => a[i] = answer[i]

\* What a handler rests on stays true.
LEMMA HandlerStays ==
  ASSUME RequestsKeep, NEW h \in HandlerType, NEW r, NEW a, NEW g, Keeps(r, a),
         HandlerOk(h, request, answer, granted), granted \subseteq g
  PROVE  HandlerOk(h, r, a, g)
<1>1. CASE h.pc = "idle"
  BY <1>1 DEF HandlerOk
<1>2. CASE h.pc # "idle"
  <2>1. h.of \in Request /\ Raised(h.of, request)
    BY <1>2 DEF HandlerOk
  <2>2. Raised(h.of, r) /\ r[h.of].plan = request[h.of].plan
    BY <2>1 DEF Keeps
  <2>3. ASSUME h.pc \in {"grant", "execute"}
        PROVE  /\ h.from \in Request /\ r[h.of].plan \in Plan
               /\ Asks(h.from, r[h.of].plan, r, a)
    <3>1. /\ h.from \in Request /\ request[h.of].plan \in Plan
          /\ Asks(h.from, request[h.of].plan, request, answer)
      BY <2>3 DEF HandlerOk
    <3>2. Raised(h.from, request)
      BY <3>1 DEF RequestsKeep, Asks
    <3>3. QED
      BY <2>2, <3>1, <3>2 DEF Keeps, Asks
  <2>4. QED
    BY <2>1, <2>2, <2>3 DEF HandlerOk
<1>3. QED
  BY <1>1, <1>2

\* So does every approval on record.
LEMMA ApprovalStays ==
  ASSUME Types, RequestsKeep, ApprovalBinds, NEW r, NEW a, Keeps(r, a),
         NEW g \in granted
  PROVE  Asks(g.by, g.plan, r, a)
<1>1. g.by \in Request
  BY DEF Types
<1>2. Asks(g.by, g.plan, request, answer)
  BY DEF ApprovalBinds, Asks
<1>3. QED
  BY <1>1, <1>2 DEF Keeps, Asks, RequestsKeep

\* A step that executes nothing has to show the handler it moves and the store.
LEMMA Kept ==
  ASSUME IInv, Types', Keeps(request', answer'),
         \A k \in Key : store'[k] # 0 => Raised(store'[k], request'),
         UNCHANGED <<attempt, calls>> \/ (ExecutedOnce' /\ CallsOnRecord'),
         granted \subseteq granted',
         \A g \in granted' : g \in granted \/ Asks(g.by, g.plan, request', answer'),
         \A w \in Worker : \/ handler'[w] = handler[w]
                           \/ HandlerOk(handler'[w], request', answer', granted')
  PROVE  IInv'
<1>1. Types /\ RequestsKeep /\ ApprovalBinds /\ ExecutedOnce /\ CallsOnRecord
      /\ \A w \in Worker : HandlerOk(handler[w], request, answer, granted)
  BY DEF IInv
<1>2. \A w \in Worker : HandlerOk(handler'[w], request', answer', granted')
  <2> SUFFICES ASSUME NEW w \in Worker, handler'[w] = handler[w]
               PROVE  HandlerOk(handler[w], request', answer', granted')
    OBVIOUS
  <2>1. handler[w] \in HandlerType
    BY <1>1 DEF Types
  <2>2. QED
    BY <1>1, <2>1, HandlerStays
<1>3. RequestsKeep'
  BY DEF RequestsKeep, Keeps
<1>4. \A g \in granted' : Asks(g.by, g.plan, request', answer')
  BY <1>1, ApprovalStays
<1>5. ApprovalBinds'
  BY <1>4 DEF ApprovalBinds, Asks
<1>6. ExecutedOnce' /\ CallsOnRecord'
  BY <1>1 DEF ExecutedOnce, CallsOnRecord
<1>7. QED
  BY <1>2, <1>3, <1>5, <1>6 DEF IInv

\* Beginning to raise takes a number that was never used.
LEMMA Begun ==
  ASSUME Types, RequestsKeep, NEW i \in Request, NEW e \in Effect, NEW c \in Reason,
         NEW p \in Plan \cup {NoPlan}, Begin(i, e, c, p)
  PROVE  /\ request' \in [Request -> RequestType]
         /\ \A a : (\A j \in Request : answer[j] # "none" => a[j] = answer[j]) =>
              Keeps(request', a)
<1>1. PICK ok \in BOOLEAN :
        request' = [request EXCEPT ![i] =
          [pc |-> "logging", effect |-> e, reason |-> c, plan |-> p, shown |-> ok]]
  BY DEF Begin
<1>2. request[i].pc = "unused"
  BY DEF Begin
<1>3. request' \in [Request -> RequestType]
  BY <1>1 DEF Types, RequestType
<1>4. \A j \in Request : j # i => request'[j] = request[j]
  BY <1>1 DEF Types
<1>5. request'[i].pc = "logging"
  BY <1>1 DEF Types
<1>6. QED
  BY <1>2, <1>3, <1>4, <1>5 DEF Keeps, Raised, RequestsKeep

\* A request goes from place to place with what it holds.
LEMMA Moved ==
  ASSUME Types, RequestsKeep, NEW i \in Request, Raised(i, request),
         NEW pc \in {"logging", "storing", "raised", "lost"},
         request' = [request EXCEPT ![i].pc = pc]
  PROVE  /\ request' \in [Request -> RequestType] /\ Raised(i, request')
         /\ Keeps(request', answer)
<1>1. request[i] \in RequestType
  BY DEF Types
<1>2. request' \in [Request -> RequestType]
  BY DEF Types, RequestType
<1>3. /\ request'[i].pc = pc /\ request'[i].plan = request[i].plan
      /\ request'[i].shown = request[i].shown
      /\ \A j \in Request : j # i => request'[j] = request[j]
  BY <1>1 DEF Types, RequestType
<1>4. QED
  BY <1>2, <1>3 DEF Keeps, Raised, RequestsKeep

-----------------------------------------------------------------------------
(* The steps. *)

\* Nothing was raised at first.
LEMMA InvInit == Init => IInv
<1> SUFFICES ASSUME Init PROVE IInv
  OBVIOUS
<1>1. Unused \in RequestType /\ Unused.pc = "unused" /\ ~Unused.shown
  BY InboxAssumption DEF Unused, RequestType
<1>2. Idle \in HandlerType /\ Idle.pc = "idle"
  BY DEF Idle, HandlerType
<1>3. Types
  BY <1>1, <1>2 DEF Init, Types
<1>4. RequestsKeep
  BY <1>1 DEF Init, RequestsKeep
<1>5. \A w \in Worker : HandlerOk(handler[w], request, answer, granted)
  BY <1>2 DEF Init, HandlerOk
<1>6. ApprovalBinds /\ ExecutedOnce /\ CallsOnRecord
  BY DEF Init, ApprovalBinds, ExecutedOnce, CallsOnRecord
<1>7. QED
  BY <1>3, <1>4, <1>5, <1>6 DEF IInv

\* A new request has a number of its own.
LEMMA EscalateInv ==
  ASSUME IInv, NEW i \in Request, NEW e \in Effect, NEW c \in Reason, Escalate(i, e, c)
  PROVE  IInv'
<1>1. Types /\ RequestsKeep
  BY DEF IInv
<1>2. PICK p \in Plan \cup {NoPlan} : Begin(i, e, c, p)
  BY DEF Escalate
<1>3. UNCHANGED <<store, answer, handler, granted, attempt, calls>>
  BY DEF Escalate
<1>4. request' \in [Request -> RequestType] /\ Keeps(request', answer')
  BY <1>1, <1>2, <1>3, Begun
<1>5. Types'
  BY <1>1, <1>3, <1>4 DEF Types
<1>6. \A k \in Key : store'[k] # 0 => Raised(store'[k], request')
  BY <1>1, <1>3, <1>4 DEF RequestsKeep, Keeps, Types
<1>7. QED
  BY <1>3, <1>4, <1>5, <1>6, Kept

\* raise: the append and what is kept in memory.
LEMMA RaiseInv ==
  ASSUME IInv, NEW i \in Request, Log(i) \/ LogFails(i) \/ Store(i)
  PROVE  IInv'
<1>1. Types /\ RequestsKeep /\ Raised(i, request)
  BY DEF IInv, Log, LogFails, Store, Raised
<1>2. PICK pc \in {"logging", "storing", "raised", "lost"} :
        request' = [request EXCEPT ![i].pc = pc]
  BY DEF Log, LogFails, Store
<1>3. UNCHANGED <<answer, handler, granted, attempt, calls>>
  BY DEF Log, LogFails, Store
<1>4. /\ request' \in [Request -> RequestType] /\ Raised(i, request')
      /\ Keeps(request', answer')
  BY <1>1, <1>2, <1>3, Moved
<1>5. store' = store \/ \E k \in Key : store' = [store EXCEPT ![k] = i]
  <2>1. KeyOf(i) \in Key
    BY <1>1 DEF KeyOf, Key, Types, RequestType
  <2>2. QED
    BY <2>1 DEF Log, LogFails, Store
<1>6. store' \in [Key -> Request \cup {0}]
  BY <1>1, <1>5 DEF Types
<1>7. Types'
  BY <1>1, <1>3, <1>4, <1>6 DEF Types
<1>8. \A k \in Key : store'[k] # 0 => Raised(store'[k], request')
  BY <1>1, <1>4, <1>5 DEF RequestsKeep, Keeps, Types
<1>9. QED
  BY <1>3, <1>4, <1>7, <1>8, Kept

\* The answer is bound to the plan in memory by the hash it carries.
LEMMA ReceiveInv ==
  ASSUME IInv, Echoes, NEW w \in Worker, NEW i \in Request, NEW a \in Action,
         Receive(w, i, a)
  PROVE  IInv'
<1> DEFINE stored == store[KeyOf(i)]
<1>1. Types /\ RequestsKeep
  BY DEF IInv
<1>2. /\ request[i].shown /\ answer[i] \in {"none", a}
      /\ answer' = [answer EXCEPT ![i] = a]
      /\ UNCHANGED <<store, granted, attempt, calls>>
  BY DEF Receive
<1>3. answer' \in [Request -> Action \cup {"none"}] /\ answer'[i] = a
      /\ \A j \in Request : answer[j] # "none" => answer'[j] = answer[j]
  BY <1>1, <1>2 DEF Types
<1>4. KeyOf(i) \in Key /\ stored \in Request \cup {0}
      /\ (stored # 0 => Raised(stored, request))
  <2>1. KeyOf(i) \in Key
    BY <1>1 DEF KeyOf, Key, Types, RequestType
  <2>2. QED
    BY <1>1, <2>1 DEF Types, RequestsKeep
<1> DEFINE Moves(pc) == handler' = [handler EXCEPT ![w] =
             [pc |-> pc, from |-> i, of |-> stored, executed |-> FALSE]]
<1>5. \/ UNCHANGED <<request, handler>>
      \/ stored # 0 /\ UNCHANGED request /\ (Moves("mark") \/ Moves("resolve"))
      \/ /\ stored # 0 /\ UNCHANGED request /\ Moves("grant")
         /\ a \notin {"mark_manually_resolved", "decline"}
         /\ request[stored].plan # NoPlan /\ request[stored].plan = request[i].plan
      \/ /\ stored # 0 /\ UNCHANGED handler
         /\ \E j \in Request : Begin(j, request[stored].effect, request[stored].reason,
                                     request[stored].plan)
  <2>1. CASE stored = 0
    BY <2>1 DEF Receive
  <2>2. CASE stored # 0 /\ a = "mark_manually_resolved"
    BY <2>2 DEF Receive, Idle
  <2>3. CASE stored # 0 /\ a = "decline"
    BY <2>3 DEF Receive, Idle
  <2>4. CASE stored # 0 /\ a \notin {"mark_manually_resolved", "decline"}
    <3>1. \/ UNCHANGED <<request, handler>>
          \/ /\ request[stored].plan # NoPlan /\ HashMatches(stored, i)
             /\ UNCHANGED request /\ Moves("grant")
          \/ /\ UNCHANGED handler
             /\ \E j \in Request : Begin(j, request[stored].effect,
                                         request[stored].reason, request[stored].plan)
      BY <2>4 DEF Receive, Idle
    <3>2. request[stored].plan # NoPlan /\ HashMatches(stored, i)
            => request[stored].plan = request[i].plan
      BY DEF HashMatches
    <3> HIDE DEF stored
    <3> QED
      BY <2>4, <3>1, <3>2
  <2>5. QED
    BY <2>1, <2>2, <2>3, <2>4
<1> HIDE DEF stored
<1>6. request' \in [Request -> RequestType] /\ Keeps(request', answer')
  <2>1. CASE UNCHANGED request
    BY <1>1, <1>3, <2>1 DEF Keeps, RequestsKeep, Types
  <2>2. ASSUME stored # 0, NEW j \in Request,
               Begin(j, request[stored].effect, request[stored].reason,
                     request[stored].plan)
        PROVE  request' \in [Request -> RequestType] /\ Keeps(request', answer')
    <3>1. request[stored] \in RequestType
      BY <1>1, <1>4, <2>2 DEF Types
    <3>2. /\ request[stored].effect \in Effect /\ request[stored].reason \in Reason
          /\ request[stored].plan \in Plan \cup {NoPlan}
      BY <3>1 DEF RequestType
    <3>3. QED
      BY <1>1, <1>3, <2>2, <3>2, Begun
  <2>3. QED
    BY <1>5, <2>1, <2>2
<1>7. \A k \in Key : store'[k] # 0 => Raised(store'[k], request')
  BY <1>1, <1>2, <1>6 DEF RequestsKeep, Keeps, Types
<1>8. CASE UNCHANGED handler
  <2>1. Types'
    BY <1>1, <1>2, <1>3, <1>6, <1>8 DEF Types
  <2>2. QED
    BY <1>2, <1>6, <1>7, <1>8, <2>1, Kept
<1>9. ASSUME NEW pc \in {"mark", "resolve", "grant"}, Moves(pc), stored # 0,
             UNCHANGED request,
             pc = "grant" =>
               /\ a \notin {"mark_manually_resolved", "decline"}
               /\ request[stored].plan # NoPlan
               /\ request[stored].plan = request[i].plan
      PROVE  IInv'
  <2> DEFINE h == [pc |-> pc, from |-> i, of |-> stored, executed |-> FALSE]
  <2>1. h \in HandlerType
    BY <1>4 DEF HandlerType
  <2>2. handler' \in [Worker -> HandlerType] /\ handler'[w] = h
        /\ \A v \in Worker : v # w => handler'[v] = handler[v]
    BY <1>1, <1>9, <2>1 DEF Types
  <2>3. Types'
    BY <1>1, <1>2, <1>3, <1>6, <2>2 DEF Types
  <2>4. pc = "grant" => /\ request'[stored].plan \in Plan
                        /\ Asks(i, request'[stored].plan, request', answer')
    <3>1. request[stored] \in RequestType
      BY <1>1, <1>4, <1>9 DEF Types
    <3>2. pc = "grant" => request[stored].plan \in Plan
      BY <3>1, <1>9 DEF RequestType
    <3>3. a # "none"
      BY DEF Action
    <3>4. QED
      BY <1>2, <1>3, <1>9, <3>2, <3>3 DEF Asks
  <2>5. HandlerOk(h, request', answer', granted')
    <3>1. stored \in Request /\ Raised(stored, request')
      BY <1>4, <1>9
    <3>2. QED
      BY <3>1, <2>4 DEF HandlerOk
  <2> HIDE DEF h
  <2>6. QED
    BY <1>2, <1>6, <1>7, <2>2, <2>3, <2>5, Kept
<1>10. QED
  BY <1>5, <1>8, <1>9

\* One handler goes from place to place; requests and answers are left alone.
LEMMA MoveInv ==
  ASSUME IInv, NEW w \in Worker, NEW h \in HandlerType,
         handler' = [handler EXCEPT ![w] = h],
         UNCHANGED <<request, store, answer>>,
         granted' \subseteq [plan : Plan, by : Request], granted \subseteq granted',
         \A g \in granted' : g \in granted \/ Asks(g.by, g.plan, request, answer),
         attempt' \in [Plan -> {"none", "succeeded", "failed"}],
         calls' \in [Plan -> Nat],
         UNCHANGED <<attempt, calls>> \/ (ExecutedOnce' /\ CallsOnRecord'),
         HandlerOk(h, request, answer, granted')
  PROVE  IInv'
<1>1. Types /\ RequestsKeep
  BY DEF IInv
<1>2. handler' \in [Worker -> HandlerType] /\ handler'[w] = h
      /\ \A v \in Worker : v # w => handler'[v] = handler[v]
  BY <1>1 DEF Types
<1>3. Types'
  BY <1>1, <1>2 DEF Types
<1>4. Keeps(request', answer')
  BY <1>1 DEF Keeps, RequestsKeep
<1>5. \A k \in Key : store'[k] # 0 => Raised(store'[k], request')
  BY <1>1 DEF RequestsKeep
<1>6. QED
  BY <1>2, <1>3, <1>4, <1>5, Kept

\* What a handler that is not idle holds.
LEMMA AtWork ==
  ASSUME IInv, NEW w \in Worker, handler[w].pc # "idle"
  PROVE  /\ Types /\ handler[w] \in HandlerType
         /\ HandlerOk(handler[w], request, answer, granted)
         /\ handler[w].of \in Request /\ Raised(handler[w].of, request)
         /\ granted \subseteq [plan : Plan, by : Request]
         /\ attempt \in [Plan -> {"none", "succeeded", "failed"}]
         /\ calls \in [Plan -> Nat] /\ ExecutedOnce /\ CallsOnRecord
BY DEF IInv, Types, HandlerOk

\* The row and escalation_resolved.
LEMMA CloseInv ==
  ASSUME IInv, NEW w \in Worker, Mark(w) \/ Resolve(w)
  PROVE  IInv'
<1>1. handler[w].pc \in {"mark", "resolve"}
      /\ UNCHANGED <<request, store, answer, granted, attempt, calls>>
  BY DEF Mark, Resolve
<1>2. /\ Types /\ handler[w] \in HandlerType /\ handler[w].of \in Request
      /\ Raised(handler[w].of, request)
      /\ granted \subseteq [plan : Plan, by : Request]
      /\ attempt \in [Plan -> {"none", "succeeded", "failed"}]
      /\ calls \in [Plan -> Nat]
  BY <1>1, AtWork
<1>3. PICK h \in {[handler[w] EXCEPT !.pc = "resolve"], Idle} :
        handler' = [handler EXCEPT ![w] = h]
  BY DEF Mark, Resolve
<1>4. h \in HandlerType /\ HandlerOk(h, request, answer, granted')
  <2>1. CASE h = Idle
    BY <2>1 DEF Idle, HandlerType, HandlerOk
  <2>2. CASE h = [handler[w] EXCEPT !.pc = "resolve"]
    <3>1. h \in HandlerType /\ h.pc = "resolve" /\ h.of = handler[w].of
      BY <1>2, <2>2 DEF HandlerType
    <3>2. QED
      BY <1>2, <3>1 DEF HandlerOk
  <2>3. QED
    BY <1>3, <2>1, <2>2
<1>5. QED
  BY <1>1, <1>2, <1>3, <1>4, MoveInv

\* approval_granted names the plan in memory and the answer.
LEMMA GrantInv ==
  ASSUME IInv, NEW w \in Worker, Grant(w)
  PROVE  IInv'
<1> DEFINE h == [handler[w] EXCEPT !.pc = "execute"]
           g == [plan |-> Planned(w), by |-> handler[w].from]
<1>1. /\ handler[w].pc = "grant" /\ granted' = granted \cup {g}
      /\ handler' = [handler EXCEPT ![w] = h]
      /\ UNCHANGED <<request, store, answer, attempt, calls>>
  BY DEF Grant
<1>2. /\ Types /\ handler[w] \in HandlerType /\ handler[w].of \in Request
      /\ Raised(handler[w].of, request)
      /\ granted \subseteq [plan : Plan, by : Request]
      /\ attempt \in [Plan -> {"none", "succeeded", "failed"}]
      /\ calls \in [Plan -> Nat]
      /\ HandlerOk(handler[w], request, answer, granted)
  BY <1>1, AtWork
<1>3. /\ handler[w].from \in Request /\ Planned(w) \in Plan
      /\ Asks(handler[w].from, Planned(w), request, answer)
  BY <1>1, <1>2 DEF HandlerOk, Planned, Stored
<1>4. /\ g \in [plan : Plan, by : Request]
      /\ Asks(g.by, g.plan, request, answer)
  BY <1>3
<1>5. /\ h \in HandlerType /\ h.pc = "execute" /\ h.of = handler[w].of
      /\ h.from = handler[w].from
  BY <1>2 DEF HandlerType
<1>6. HandlerOk(h, request, answer, granted')
  <2>1. [plan |-> request[h.of].plan, by |-> h.from] \in granted'
    BY <1>1, <1>5 DEF Planned, Stored
  <2>2. QED
    BY <1>2, <1>3, <1>5, <2>1 DEF HandlerOk, Planned, Stored
<1> HIDE DEF h, g
<1>7. QED
  BY <1>1, <1>2, <1>4, <1>5, <1>6, MoveInv

\* After executePlan a handler goes on to resolve, or it has thrown.
LEMMA After ==
  ASSUME NEW w \in Worker, NEW h \in HandlerType, h = handler[w], h.pc = "execute",
         h.of \in Request, Raised(h.of, request), Finish(w) \/ Throw(w)
  PROVE  \E d \in HandlerType :
           /\ handler' = [handler EXCEPT ![w] = d]
           /\ \A g : HandlerOk(d, request, answer, g)
<1>1. CASE Throw(w)
  <2>1. Idle \in HandlerType /\ \A g : HandlerOk(Idle, request, answer, g)
    BY DEF Idle, HandlerType, HandlerOk
  <2>2. QED
    BY <1>1, <2>1 DEF Throw
<1>2. CASE Finish(w)
  <2> DEFINE d == [h EXCEPT !.pc = "resolve", !.executed = TRUE]
  <2>1. d \in HandlerType /\ d.pc = "resolve" /\ d.of = h.of
    BY DEF HandlerType
  <2>2. handler' = [handler EXCEPT ![w] = d]
    BY <1>2 DEF Finish
  <2> HIDE DEF d
  <2>3. \A g : HandlerOk(d, request, answer, g)
    BY <2>1 DEF HandlerOk
  <2>4. QED
    BY <2>1, <2>2, <2>3
<1>3. QED
  BY <1>1, <1>2

\* An attempt that succeeded stays so, and is not called again.
LEMMA ExecuteInv ==
  ASSUME IInv, NEW w \in Worker, Gated(w) \/ Succeed(w) \/ Fail(w)
  PROVE  IInv'
<1> DEFINE h == handler[w]
           p == Planned(w)
<1>1. h.pc = "execute" /\ UNCHANGED <<request, store, answer, granted>>
      /\ (Finish(w) \/ Throw(w))
  BY DEF Gated, Succeed, Fail
<1>2. /\ Types /\ h \in HandlerType /\ h.of \in Request /\ Raised(h.of, request)
      /\ granted \subseteq [plan : Plan, by : Request]
      /\ attempt \in [Plan -> {"none", "succeeded", "failed"}]
      /\ calls \in [Plan -> Nat] /\ ExecutedOnce /\ CallsOnRecord
      /\ HandlerOk(h, request, answer, granted)
  BY <1>1, AtWork
<1>3. PICK d \in HandlerType :
        /\ handler' = [handler EXCEPT ![w] = d]
        /\ \A g : HandlerOk(d, request, answer, g)
  BY <1>1, <1>2, After
<1>4. p \in Plan /\ \E g \in granted : g.plan = p
  BY <1>1, <1>2 DEF HandlerOk, Planned, Stored
<1> HIDE DEF p
<1>5. CASE UNCHANGED <<attempt, calls>>
  BY <1>1, <1>2, <1>3, <1>5, MoveInv
<1>6. CASE Succeed(w)
  <2>1. /\ attempt' = [attempt EXCEPT ![p] = "succeeded"]
        /\ calls' = [calls EXCEPT ![p] = IF Done(p) THEN @ ELSE @ + 1]
    BY <1>6 DEF Succeed, p
  <2>2. ~Done(p) => calls[p] = 0
    BY <1>2, <1>4 DEF CallsOnRecord, Done
  <2>3. /\ attempt' \in [Plan -> {"none", "succeeded", "failed"}]
        /\ calls' \in [Plan -> Nat] /\ calls'[p] <= 1
        /\ \A q \in Plan : q # p => calls'[q] = calls[q] /\ attempt'[q] = attempt[q]
        /\ attempt'[p] = "succeeded"
    BY <1>2, <1>4, <2>1, <2>2 DEF ExecutedOnce
  <2>4. ExecutedOnce' /\ CallsOnRecord'
    BY <1>1, <1>2, <1>4, <2>3 DEF ExecutedOnce, CallsOnRecord
  <2>5. QED
    BY <1>1, <1>2, <1>3, <2>3, <2>4, MoveInv
<1>7. CASE ~Done(p) /\ attempt' = [attempt EXCEPT ![p] = "failed"] /\ UNCHANGED calls
  <2>1. /\ attempt' \in [Plan -> {"none", "succeeded", "failed"}]
        /\ \A q \in Plan : q # p => attempt'[q] = attempt[q]
    BY <1>2, <1>4, <1>7
  <2>2. calls[p] = 0
    BY <1>2, <1>4, <1>7 DEF CallsOnRecord, Done
  <2>3. ExecutedOnce' /\ CallsOnRecord'
    BY <1>1, <1>2, <1>7, <2>1, <2>2 DEF ExecutedOnce, CallsOnRecord
  <2>4. QED
    BY <1>1, <1>2, <1>3, <1>7, <2>1, <2>3, MoveInv
<1>8. QED
  BY <1>5, <1>6, <1>7 DEF Gated, Fail, p

\* A crash loses the store and the handlers, and no request is used again.
LEMMA CrashInv ==
  ASSUME IInv, Crash
  PROVE  IInv'
<1>1. Types /\ RequestsKeep
  BY DEF IInv
<1>2. \A i \in Request :
        /\ request'[i] \in RequestType
        /\ request'[i].plan = request[i].plan /\ request'[i].shown = request[i].shown
        /\ request'[i].pc = "unused" <=> request[i].pc = "unused"
  <2> SUFFICES ASSUME NEW i \in Request
               PROVE  /\ request'[i] \in RequestType
                      /\ request'[i].plan = request[i].plan
                      /\ request'[i].shown = request[i].shown
                      /\ request'[i].pc = "unused" <=> request[i].pc = "unused"
    OBVIOUS
  <2>1. request[i] \in RequestType
    BY <1>1 DEF Types
  <2>2. \/ request'[i] = request[i]
        \/ request[i].pc # "unused" /\ request'[i] = [request[i] EXCEPT !.pc = "lost"]
    BY DEF Crash
  <2>3. QED
    BY <2>1, <2>2 DEF RequestType
<1>3. request' \in [Request -> RequestType]
  BY <1>2 DEF Crash
<1>4. Idle \in HandlerType /\ Idle.pc = "idle"
  BY DEF Idle, HandlerType
<1>5. /\ store' = [k \in Key |-> 0] /\ handler' = [w \in Worker |-> Idle]
      /\ UNCHANGED <<answer, granted, attempt, calls>>
  BY DEF Crash
<1>6. Types'
  BY <1>1, <1>3, <1>4, <1>5 DEF Types
<1>7. Keeps(request', answer')
  BY <1>1, <1>2, <1>5 DEF Keeps, Raised, RequestsKeep
<1>8. \A w \in Worker : HandlerOk(handler'[w], request', answer', granted')
  BY <1>4, <1>5 DEF HandlerOk
<1>9. QED
  BY <1>5, <1>6, <1>7, <1>8, Kept

\* Every step keeps the invariant when answers carry the hash.
LEMMA InvStep == IInv /\ Echoes /\ [Next]_vars => IInv'
<1> SUFFICES ASSUME IInv, Echoes, [Next]_vars PROVE IInv'
  OBVIOUS
<1>1. CASE UNCHANGED vars
  BY <1>1 DEF vars, IInv, Types, RequestsKeep, ApprovalBinds, ExecutedOnce,
              CallsOnRecord
<1>2. QED
  BY <1>1, EscalateInv, RaiseInv, ReceiveInv, CloseInv, GrantInv, ExecuteInv, CrashInv
     DEF Next

\* What vekinbox.ts:1 and idempotency.ts:1 promise rests on this: a handler that is
\* about to execute holds the plan its answer asks for.
THEOREM Inductive == Echoes /\ Spec => []IInv
<1> SUFFICES ASSUME Echoes PROVE Spec => []IInv
  OBVIOUS
<1>1. IInv /\ [Next]_vars => IInv'
  BY InvStep
<1>2. QED
  BY InvInit, <1>1, PTL DEF Spec

\* vekinbox.ts:1, "Approval binds to plan_hash": a plan is executed for an answer only
\* if the request that was answered showed it and the answer was no refusal.
THEOREM ApprovalsBind == Echoes /\ Spec => []ApprovalBinds
<1>1. IInv => ApprovalBinds
  BY DEF IInv
<1>2. QED
  BY <1>1, Inductive, PTL

\* idempotency.ts:1, "the double-execution gate": a plan is called once, and only
\* after an approval is on record.
THEOREM CalledOnce == Echoes /\ Spec => []ExecutedOnce
<1>1. IInv => ExecutedOnce
  BY DEF IInv
<1>2. QED
  BY <1>1, Inductive, PTL
-----------------------------------------------------------------------------
(* The bounds of the counters: an escalation_resolved event and a busy handler each *)
(* have a webhook of their own, an escalation_raised event has a request or a       *)
(* webhook.  None of this rests on answers carrying the hash.                       *)

Busy == {w \in Worker : handler[w].pc # "idle"}
Executing == {w \in Worker : handler[w].pc \in {"grant", "execute"}}
Fresh == {i \in Request : request[i].pc \in {"unused", "logging"}}

Typed ==
  /\ Types
  /\ comp \in [Effect -> {"standing", "escalated", "compensated", "manually_resolved"}]
  /\ sent \in [Request -> Nat] /\ \A i \in Request : sent[i] <= delivered
  /\ delivered \in 0 .. MaxAnswers
  /\ early \subseteq Request /\ executed \subseteq Request
  /\ closed \in Nat /\ raised \in Nat

\* A busy handler has its requests, and a plan where it is about to execute one.
Holds(h, r) ==
  h.pc # "idle" =>
    /\ h.from \in Request /\ h.of \in Request /\ Raised(h.of, r)
    /\ h.pc \in {"grant", "execute"} => r[h.of].plan \in Plan

Balanced ==
  /\ IsFiniteSet(Busy)
  /\ closed + Cardinality(Busy) <= delivered
  /\ raised + Cardinality(Fresh) + Cardinality(Executing) <= MaxRequests + delivered

TInv ==
  /\ Typed /\ RequestsKeep /\ CallsOnRecord /\ Balanced
  /\ \A w \in Worker : Holds(handler[w], request)
  /\ \A p \in Plan : calls[p] <= 1 /\ calls[p] <= delivered

AtWorkAt == {"mark", "resolve", "grant", "execute"}
ToExecute == {"grant", "execute"}

\* One or none.
Bit(x, S) == IF x \in S THEN 1 ELSE 0

\* Two sets that agree but for one element.
LEMMA Recount ==
  ASSUME NEW S, NEW T, NEW x, IsFiniteSet(S), T \ {x} = S \ {x}
  PROVE  /\ IsFiniteSet(T) /\ Cardinality(S) \in Nat /\ Cardinality(T) \in Nat
         /\ Cardinality(T) + Bit(x, S) = Cardinality(S) + Bit(x, T)
<1>1. IsFiniteSet(S \ {x}) /\ Cardinality(S) \in Nat
      /\ Cardinality(S \ {x}) = Cardinality(S) - Bit(x, S)
  BY FS_RemoveElement, FS_CardinalityType DEF Bit
<1>2. CASE x \notin T
  <2>1. T = S \ {x}
    BY <1>2
  <2>2. QED
    BY <1>1, <1>2, <2>1, FS_CardinalityType DEF Bit
<1>3. CASE x \in T
  <2>1. T = (S \ {x}) \cup {x}
    BY <1>3
  <2>2. IsFiniteSet(T) /\ Cardinality(T) = Cardinality(S \ {x}) + 1
    BY <1>1, <2>1, FS_AddElement
  <2>3. QED
    BY <1>1, <1>3, <2>2, FS_CardinalityType DEF Bit
<1>4. QED
  BY <1>2, <1>3

\* What is counted is finite.
LEMMA Counts ==
  ASSUME IsFiniteSet(Busy)
  PROVE  /\ IsFiniteSet(Executing) /\ IsFiniteSet(Fresh) /\ IsFiniteSet(Request)
         /\ Cardinality(Busy) \in Nat /\ Cardinality(Executing) \in Nat
         /\ Cardinality(Fresh) \in Nat
<1>1. Executing \subseteq Busy /\ Fresh \subseteq Request
  BY DEF Executing, Busy, Fresh
<1>2. IsFiniteSet(Request)
  BY InboxAssumption, FS_Interval DEF Request
<1>3. IsFiniteSet(Executing) /\ IsFiniteSet(Fresh)
  BY <1>1, <1>2, FS_Subset
<1>4. QED
  BY <1>2, <1>3, FS_CardinalityType

\* One handler moves: what it takes up or drops shows in the counts.
LEMMA MoveCounts ==
  ASSUME Types, IsFiniteSet(Busy), NEW w \in Worker, NEW h \in HandlerType,
         handler' = [handler EXCEPT ![w] = h]
  PROVE  /\ handler' \in [Worker -> HandlerType] /\ handler'[w] = h
         /\ \A v \in Worker : v # w => handler'[v] = handler[v]
         /\ IsFiniteSet(Busy')
         /\ Cardinality(Busy) \in Nat /\ Cardinality(Busy') \in Nat
         /\ Cardinality(Executing) \in Nat /\ Cardinality(Executing') \in Nat
         /\ Cardinality(Busy') + Bit(handler[w].pc, AtWorkAt) =
              Cardinality(Busy) + Bit(h.pc, AtWorkAt)
         /\ Cardinality(Executing') + Bit(handler[w].pc, ToExecute) =
              Cardinality(Executing) + Bit(h.pc, ToExecute)
<1>1. /\ handler' \in [Worker -> HandlerType] /\ handler'[w] = h
      /\ \A v \in Worker : v # w => handler'[v] = handler[v]
  BY DEF Types
<1>2. /\ Busy' \ {w} = Busy \ {w} /\ Executing' \ {w} = Executing \ {w}
      /\ (w \in Busy <=> handler[w].pc \in AtWorkAt)
      /\ (w \in Busy' <=> h.pc \in AtWorkAt)
      /\ (w \in Executing <=> handler[w].pc \in ToExecute)
      /\ (w \in Executing' <=> h.pc \in ToExecute)
  <2>1. handler[w] \in HandlerType
    BY DEF Types
  <2>2. QED
    BY <1>1, <2>1 DEF Busy, Executing, HandlerType, AtWorkAt, ToExecute
<1>3. IsFiniteSet(Executing)
  BY Counts
<1>4. /\ IsFiniteSet(Busy') /\ Cardinality(Busy) \in Nat /\ Cardinality(Busy') \in Nat
      /\ Cardinality(Busy') + Bit(w, Busy) = Cardinality(Busy) + Bit(w, Busy')
  BY <1>2, Recount
<1>5. /\ Cardinality(Executing) \in Nat /\ Cardinality(Executing') \in Nat
      /\ Cardinality(Executing') + Bit(w, Executing) =
           Cardinality(Executing) + Bit(w, Executing')
  BY <1>2, <1>3, Recount
<1>6. QED
  BY <1>1, <1>2, <1>4, <1>5 DEF Bit

\* A handler that stays where it is still holds its requests.
LEMMA HoldsStays ==
  ASSUME NEW r, NEW a, Keeps(r, a), NEW h, Holds(h, request)
  PROVE  Holds(h, r)
BY DEF Holds, Keeps

\* The sums of a step, in numbers.
LEMMA Sums ==
  ASSUME NEW n \in Nat, NEW c \in Nat, NEW m \in Nat, NEW m1 \in Nat, NEW b \in Nat,
         NEW b1 \in Nat, NEW d \in Nat, NEW e \in Nat, NEW r \in Nat,
         m1 + b = m + b1, c + b1 <= b + e, n + m <= r + d
  PROVE  n + c + m1 <= r + d + e
OBVIOUS

\* A step of a handler.
LEMMA HandlerT ==
  ASSUME TInv, NEW w \in Worker, NEW h \in HandlerType, Typed',
         handler' = [handler EXCEPT ![w] = h], UNCHANGED <<request, store>>,
         Holds(h, request), NEW c \in Nat, NEW r \in Nat, NEW d \in Nat,
         closed' = closed + c, raised' = raised + r, delivered' = delivered + d,
         c + Bit(h.pc, AtWorkAt) <= Bit(handler[w].pc, AtWorkAt) + d,
         r + Bit(h.pc, ToExecute) <= Bit(handler[w].pc, ToExecute) + d,
         CallsOnRecord',
         \A p \in Plan : calls'[p] <= 1 /\ calls'[p] <= delivered'
  PROVE  TInv'
<1>1. Types /\ IsFiniteSet(Busy) /\ closed \in Nat /\ raised \in Nat /\ delivered \in Nat
      /\ RequestsKeep /\ MaxRequests \in Nat /\ Fresh' = Fresh
  BY InboxAssumption DEF TInv, Typed, Balanced, Fresh
<1>2. /\ handler' \in [Worker -> HandlerType] /\ handler'[w] = h
      /\ \A v \in Worker : v # w => handler'[v] = handler[v]
      /\ IsFiniteSet(Busy')
      /\ Cardinality(Busy) \in Nat /\ Cardinality(Busy') \in Nat
      /\ Cardinality(Executing) \in Nat /\ Cardinality(Executing') \in Nat
      /\ Cardinality(Busy') + Bit(handler[w].pc, AtWorkAt) =
           Cardinality(Busy) + Bit(h.pc, AtWorkAt)
      /\ Cardinality(Executing') + Bit(handler[w].pc, ToExecute) =
           Cardinality(Executing) + Bit(h.pc, ToExecute)
  BY <1>1, MoveCounts
<1>3. Cardinality(Fresh) \in Nat
  BY <1>1, Counts
<1>4. /\ closed + Cardinality(Busy) <= 0 + delivered
      /\ raised + Cardinality(Fresh) + Cardinality(Executing) <= MaxRequests + delivered
  BY <1>1 DEF TInv, Balanced
<1>5. \A x, S : Bit(x, S) \in Nat
  BY DEF Bit
<1>6. closed + c + Cardinality(Busy') <= 0 + delivered + d
  BY <1>1, <1>2, <1>4, <1>5, Sums
<1>7. (raised + Cardinality(Fresh)) + r + Cardinality(Executing')
        <= MaxRequests + delivered + d
  <2>1. raised + Cardinality(Fresh) \in Nat
    BY <1>1, <1>3
  <2>2. QED
    BY <1>1, <1>2, <1>4, <1>5, <2>1, Sums
<1>8. Balanced'
  <2>1. closed' + Cardinality(Busy') <= delivered'
    BY <1>1, <1>2, <1>6
  <2>2. raised' + Cardinality(Fresh') + Cardinality(Executing') <= MaxRequests + delivered'
    BY <1>1, <1>2, <1>3, <1>7
  <2>3. QED
    BY <1>2, <2>1, <2>2 DEF Balanced
<1>9. \A v \in Worker : Holds(handler'[v], request')
  BY <1>2 DEF TInv
<1>10. RequestsKeep'
  BY <1>1 DEF RequestsKeep
<1>11. QED
  BY <1>8, <1>9, <1>10 DEF TInv

\* A step of a request: raise, or the one a webhook with another hash begins.
LEMMA RequestT ==
  ASSUME TInv, NEW i \in Request, Typed', Keeps(request', answer'),
         \A k \in Key : store'[k] # 0 => Raised(store'[k], request'),
         UNCHANGED <<handler, closed, attempt, calls>>,
         \A j \in Request : j # i => request'[j] = request[j],
         NEW r \in Nat, NEW d \in Nat, raised' = raised + r, delivered' = delivered + d,
         r + Bit(i, Fresh') <= Bit(i, Fresh)
  PROVE  TInv'
<1>1. /\ IsFiniteSet(Busy) /\ closed \in Nat /\ raised \in Nat /\ delivered \in Nat
      /\ MaxRequests \in Nat /\ Busy' = Busy /\ Executing' = Executing
  BY InboxAssumption DEF TInv, Typed, Balanced, Busy, Executing
<1>2. /\ IsFiniteSet(Fresh) /\ Cardinality(Busy) \in Nat /\ Cardinality(Executing) \in Nat
  BY <1>1, Counts
<1>3. Fresh' \ {i} = Fresh \ {i}
  BY DEF Fresh
<1>4. /\ Cardinality(Fresh) \in Nat /\ Cardinality(Fresh') \in Nat
      /\ Cardinality(Fresh') + Bit(i, Fresh) = Cardinality(Fresh) + Bit(i, Fresh')
  BY <1>2, <1>3, Recount
<1>5. /\ closed + Cardinality(Busy) <= delivered
      /\ raised + Cardinality(Executing) + Cardinality(Fresh) <= MaxRequests + delivered
  BY <1>1, <1>2, <1>4 DEF TInv, Balanced
<1>6. \A x, S : Bit(x, S) \in Nat
  BY DEF Bit
<1>7. (raised + Cardinality(Executing)) + r + Cardinality(Fresh')
        <= MaxRequests + delivered + d
  <2>1. raised + Cardinality(Executing) \in Nat
    BY <1>1, <1>2
  <2>2. r + Bit(i, Fresh') <= Bit(i, Fresh) + d
    BY <1>6
  <2>3. QED
    BY <1>1, <1>4, <1>5, <1>6, <2>1, <2>2, Sums
<1>8. Balanced'
  <2>1. closed + Cardinality(Busy) <= delivered + d
    BY <1>1, <1>2, <1>5
  <2>2. (raised + r) + Cardinality(Fresh') + Cardinality(Executing)
          <= MaxRequests + (delivered + d)
    BY <1>1, <1>2, <1>4, <1>7
  <2>3. QED
    BY <1>1, <2>1, <2>2 DEF Balanced
<1>9. \A w \in Worker : Holds(handler'[w], request')
  <2> SUFFICES ASSUME NEW w \in Worker PROVE Holds(handler[w], request')
    OBVIOUS
  <2>1. Holds(handler[w], request)
    BY DEF TInv
  <2>2. QED
    BY <2>1, HoldsStays
<1>10. RequestsKeep'
  BY DEF RequestsKeep, Keeps
<1>11. CallsOnRecord' /\ \A p \in Plan : calls'[p] <= 1 /\ calls'[p] <= delivered'
  <2>1. Types /\ CallsOnRecord
    BY DEF TInv, Typed
  <2>2. CallsOnRecord'
    BY <2>1 DEF CallsOnRecord
  <2>3. ASSUME NEW p \in Plan PROVE calls[p] <= 1 /\ calls[p] <= delivered + d
    <3>1. calls[p] \in Nat /\ calls[p] <= 1 /\ calls[p] <= delivered
      BY <2>1 DEF TInv, Types
    <3>2. QED
      BY <1>1, <3>1
  <2>4. QED
    BY <2>2, <2>3
<1>12. QED
  BY <1>8, <1>9, <1>10, <1>11 DEF TInv

\* Nothing was counted at first.
LEMMA TInit == Init => TInv
<1> SUFFICES ASSUME Init PROVE TInv
  OBVIOUS
<1>1. Unused \in RequestType /\ Unused.pc = "unused" /\ ~Unused.shown
  BY InboxAssumption DEF Unused, RequestType
<1>2. Idle \in HandlerType /\ Idle.pc = "idle"
  BY DEF Idle, HandlerType
<1>3. Types
  BY <1>1, <1>2 DEF Init, Types
<1>4. Typed
  BY <1>3, InboxAssumption DEF Init, Typed
<1>5. /\ RequestsKeep /\ CallsOnRecord
      /\ \A w \in Worker : Holds(handler[w], request)
      /\ \A p \in Plan : calls[p] <= 1 /\ calls[p] <= delivered
  BY <1>1, <1>2 DEF Init, RequestsKeep, CallsOnRecord, Holds
<1>6. Busy = {} /\ Executing = {} /\ Fresh = Request
  BY <1>1, <1>2 DEF Init, Busy, Executing, Fresh
<1>7. Cardinality(Request) = MaxRequests
  BY InboxAssumption, FS_Interval DEF Request
<1>8. Balanced
  BY <1>6, <1>7, FS_EmptySet, InboxAssumption DEF Init, Balanced
<1>9. QED
  BY <1>4, <1>5, <1>8 DEF TInv

LEMMA EscalateT ==
  ASSUME TInv, NEW i \in Request, NEW e \in Effect, NEW c \in Reason, Escalate(i, e, c)
  PROVE  TInv'
<1>1. Types /\ RequestsKeep /\ Typed
  BY DEF TInv, Typed
<1>2. PICK p \in Plan \cup {NoPlan} : Begin(i, e, c, p)
  BY DEF Escalate
<1>3. UNCHANGED <<comp, store, answer, sent, delivered, early, handler, granted, executed,
                  closed, raised, attempt, calls>>
  BY DEF Escalate
<1>4. request' \in [Request -> RequestType] /\ Keeps(request', answer')
  BY <1>1, <1>2, <1>3, Begun
<1>5. Typed'
  BY <1>1, <1>3, <1>4 DEF Types, Typed
<1>6. \A k \in Key : store'[k] # 0 => Raised(store'[k], request')
  BY <1>1, <1>3, <1>4 DEF RequestsKeep, Keeps, Types
<1>7. /\ \A j \in Request : j # i => request'[j] = request[j]
      /\ i \in Fresh
  BY <1>1, <1>2 DEF Begin, Types, Fresh
<1>8. 0 + Bit(i, Fresh') <= Bit(i, Fresh)
  BY <1>7 DEF Bit
<1>9. raised' = raised + 0 /\ delivered' = delivered + 0
  BY <1>1, <1>3 DEF Typed
<1>10. QED
  BY <1>3, <1>4, <1>5, <1>6, <1>7, <1>8, <1>9, RequestT

LEMMA RaiseT ==
  ASSUME TInv, NEW i \in Request, Log(i) \/ LogFails(i) \/ Store(i)
  PROVE  TInv'
<1>1. Types /\ RequestsKeep /\ Raised(i, request) /\ Typed
  BY DEF TInv, Typed, Log, LogFails, Store, Raised
<1>2. PICK pc \in {"storing", "raised", "lost"} :
        request' = [request EXCEPT ![i].pc = pc]
  BY DEF Log, LogFails, Store
<1>3. UNCHANGED <<answer, sent, delivered, early, handler, granted, executed, closed,
                  attempt, calls>>
  BY DEF Log, LogFails, Store
<1>4. /\ request' \in [Request -> RequestType] /\ Raised(i, request')
      /\ Keeps(request', answer')
  BY <1>1, <1>2, <1>3, Moved
<1>5. store' = store \/ \E k \in Key : store' = [store EXCEPT ![k] = i]
  <2>1. KeyOf(i) \in Key
    BY <1>1 DEF KeyOf, Key, Types, RequestType
  <2>2. QED
    BY <2>1 DEF Log, LogFails, Store
<1>6. store' \in [Key -> Request \cup {0}]
  BY <1>1, <1>5 DEF Types
<1>7. PICK r \in {0, 1} : raised' = raised + r /\ (r = 1 => i \in Fresh)
  BY <1>1 DEF Log, LogFails, Store, LogRaised, Fresh, Typed
<1>8. comp' = comp \/ comp' = [comp EXCEPT ![request[i].effect] = "escalated"]
  BY DEF Log, LogFails, Store, LogRaised
<1>9. comp' \in [Effect -> {"standing", "escalated", "compensated", "manually_resolved"}]
  BY <1>1, <1>8 DEF Typed, Types, RequestType
<1>10. raised' \in Nat
  BY <1>1, <1>7 DEF Typed
<1>11. Typed'
  BY <1>1, <1>3, <1>4, <1>6, <1>9, <1>10 DEF Types, Typed
<1>12. \A k \in Key : store'[k] # 0 => Raised(store'[k], request')
  BY <1>1, <1>4, <1>5 DEF RequestsKeep, Keeps, Types
<1>13. /\ \A j \in Request : j # i => request'[j] = request[j]
       /\ request'[i].pc = pc
  BY <1>1, <1>2 DEF Types, RequestType
<1>14. r + Bit(i, Fresh') <= Bit(i, Fresh)
  BY <1>7, <1>13 DEF Bit, Fresh
<1>15. delivered' = delivered + 0
  BY <1>1, <1>3 DEF Typed
<1>16. QED
  BY <1>3, <1>4, <1>7, <1>11, <1>12, <1>13, <1>14, <1>15, RequestT

\* A webhook is counted whatever onResume makes of it.
LEMMA ReceiveT ==
  ASSUME TInv, NEW w \in Worker, NEW i \in Request, NEW a \in Action, Receive(w, i, a)
  PROVE  TInv'
<1> DEFINE stored == store[KeyOf(i)]
<1>1. Types /\ RequestsKeep /\ Typed
  BY DEF TInv, Typed
<1>2. /\ request[i].shown /\ answer[i] \in {"none", a} /\ handler[w].pc = "idle"
      /\ answer' = [answer EXCEPT ![i] = a]
      /\ UNCHANGED <<comp, store, granted, executed, closed, raised, attempt, calls>>
  BY DEF Receive
<1>3. answer' \in [Request -> Action \cup {"none"}]
      /\ \A j \in Request : answer[j] # "none" => answer'[j] = answer[j]
  BY <1>1, <1>2 DEF Types
<1>4. KeyOf(i) \in Key /\ stored \in Request \cup {0}
      /\ (stored # 0 => Raised(stored, request))
  <2>1. KeyOf(i) \in Key
    BY <1>1 DEF KeyOf, Key, Types, RequestType
  <2>2. QED
    BY <1>1, <2>1 DEF Types, RequestsKeep
<1> DEFINE Moves(pc) == handler' = [handler EXCEPT ![w] =
             [pc |-> pc, from |-> i, of |-> stored, executed |-> FALSE]]
<1>5. \/ UNCHANGED <<request, handler>>
      \/ stored # 0 /\ UNCHANGED request /\ (Moves("mark") \/ Moves("resolve"))
      \/ /\ stored # 0 /\ UNCHANGED request /\ Moves("grant")
         /\ request[stored].plan # NoPlan
      \/ /\ stored # 0 /\ UNCHANGED handler
         /\ \E j \in Request : Begin(j, request[stored].effect, request[stored].reason,
                                     request[stored].plan)
  BY DEF Receive, Idle
<1> HIDE DEF stored
<1>6. /\ delivered' = delivered + 1 /\ delivered + 1 \in 0 .. MaxAnswers
      /\ sent' \in [Request -> Nat] /\ \A j \in Request : sent'[j] <= delivered + 1
      /\ early' \subseteq Request
  <2>1. delivered' = delivered + 1 /\ delivered < MaxAnswers
        /\ sent' = [sent EXCEPT ![i] = @ + 1] /\ early' \in {early, early \cup {i}}
    BY DEF Receive
  <2>2. \A j \in Request : sent[j] \in Nat /\ sent[j] <= delivered
    BY <1>1 DEF Typed
  <2>3. sent' \in [Request -> Nat] /\ \A j \in Request : sent'[j] <= delivered + 1
    BY <1>1, <2>1, <2>2, InboxAssumption DEF Typed
  <2>4. QED
    BY <1>1, <2>1, <2>3, InboxAssumption DEF Typed
<1>7. raised' = raised + 0 /\ closed' = closed + 0
  BY <1>1, <1>2 DEF Typed
<1>8. ASSUME NEW j \in Request, request' \in [Request -> RequestType],
             Keeps(request', answer'), UNCHANGED handler,
             \A k \in Request : k # j => request'[k] = request[k],
             Bit(j, Fresh') <= Bit(j, Fresh)
      PROVE  TInv'
  <2>1. Typed'
    BY <1>1, <1>2, <1>3, <1>6, <1>8 DEF Types, Typed
  <2>2. \A k \in Key : store'[k] # 0 => Raised(store'[k], request')
    BY <1>1, <1>2, <1>8 DEF RequestsKeep, Keeps, Types
  <2>3. 0 + Bit(j, Fresh') <= Bit(j, Fresh)
    BY <1>8 DEF Bit
  <2>4. QED
    BY <1>2, <1>6, <1>7, <1>8, <2>1, <2>2, <2>3, RequestT
<1>9. CASE UNCHANGED <<request, handler>>
  <2>1. Keeps(request', answer') /\ Fresh' = Fresh
    BY <1>1, <1>3, <1>9 DEF Keeps, RequestsKeep, Fresh
  <2>2. request' \in [Request -> RequestType] /\ Bit(i, Fresh') <= Bit(i, Fresh)
    BY <1>1, <1>9, <2>1 DEF Types, Bit
  <2>3. QED
    BY <1>8, <1>9, <2>1, <2>2
<1>10. ASSUME stored # 0, UNCHANGED handler, NEW j \in Request,
              Begin(j, request[stored].effect, request[stored].reason,
                    request[stored].plan)
       PROVE  TInv'
  <2>1. request[stored] \in RequestType
    BY <1>1, <1>4, <1>10 DEF Types
  <2>2. request' \in [Request -> RequestType] /\ Keeps(request', answer')
    BY <1>1, <1>3, <1>10, <2>1, Begun DEF RequestType
  <2>3. /\ \A k \in Request : k # j => request'[k] = request[k]
        /\ j \in Fresh
    BY <1>1, <1>10 DEF Begin, Types, Fresh
  <2>4. Bit(j, Fresh') <= Bit(j, Fresh)
    BY <2>3 DEF Bit
  <2>5. QED
    BY <1>8, <1>10, <2>2, <2>3, <2>4
<1>11. ASSUME NEW pc \in {"mark", "resolve", "grant"}, Moves(pc), stored # 0,
              UNCHANGED request, pc = "grant" => request[stored].plan # NoPlan
       PROVE  TInv'
  <2> DEFINE h == [pc |-> pc, from |-> i, of |-> stored, executed |-> FALSE]
  <2>1. h \in HandlerType /\ h.pc = pc /\ h.from = i /\ h.of = stored
    BY <1>4 DEF HandlerType
  <2>2. handler' \in [Worker -> HandlerType] /\ handler' = [handler EXCEPT ![w] = h]
    BY <1>1, <1>11, <2>1 DEF Types
  <2>3. Typed'
    BY <1>1, <1>2, <1>3, <1>6, <1>11, <2>2 DEF Types, Typed
  <2>4. Holds(h, request)
    <3>1. request[stored] \in RequestType /\ stored \in Request
      BY <1>1, <1>4, <1>11 DEF Types
    <3>2. pc = "grant" => request[stored].plan \in Plan
      BY <3>1, <1>11 DEF RequestType
    <3>3. QED
      BY <1>4, <1>11, <2>1, <3>1, <3>2 DEF Holds
  <2>5. /\ 0 + Bit(h.pc, AtWorkAt) <= Bit(handler[w].pc, AtWorkAt) + 1
        /\ 0 + Bit(h.pc, ToExecute) <= Bit(handler[w].pc, ToExecute) + 1
    BY DEF Bit
  <2>6. CallsOnRecord' /\ \A p \in Plan : calls'[p] <= 1 /\ calls'[p] <= delivered'
    <3>1. CallsOnRecord'
      BY <1>2 DEF CallsOnRecord, TInv
    <3>2. ASSUME NEW p \in Plan PROVE calls[p] <= 1 /\ calls[p] <= delivered + 1
      <4>1. calls[p] \in Nat /\ calls[p] <= 1 /\ calls[p] <= delivered
            /\ delivered \in Nat
        BY <1>1, InboxAssumption DEF TInv, Types, Typed
      <4>2. QED
        BY <4>1
    <3>3. QED
      BY <1>2, <1>6, <3>1, <3>2
  <2> HIDE DEF h
  <2>7. QED
    BY <1>2, <1>6, <1>7, <1>11, <2>1, <2>2, <2>3, <2>4, <2>5, <2>6, HandlerT
<1>12. QED
  BY <1>5, <1>9, <1>10, <1>11

\* A busy handler has had a webhook.
LEMMA BusyCounts ==
  ASSUME TInv, NEW w \in Worker, handler[w].pc # "idle"
  PROVE  delivered >= 1
<1>1. IsFiniteSet(Busy) /\ w \in Busy /\ closed \in Nat /\ delivered \in Int
      /\ closed + Cardinality(Busy) <= delivered
  BY InboxAssumption DEF TInv, Balanced, Busy, Typed
<1>2. Cardinality(Busy) \in Nat /\ Cardinality(Busy) # 0
  BY <1>1, FS_EmptySet, FS_CardinalityType
<1>3. QED
  BY <1>1, <1>2

\* What the steps of a busy handler rest on.
LEMMA BusyHolds ==
  ASSUME TInv, NEW w \in Worker, handler[w].pc # "idle"
  PROVE  /\ Types /\ Typed /\ handler[w] \in HandlerType /\ Holds(handler[w], request)
         /\ handler[w].of \in Request /\ Stored(w).effect \in Effect
         /\ \A p \in Plan : calls[p] \in Nat /\ calls[p] <= 1 /\ calls[p] <= delivered
         /\ CallsOnRecord /\ delivered \in Nat /\ closed \in Nat /\ raised \in Nat
<1>1. Types /\ Typed /\ CallsOnRecord /\ delivered \in Nat /\ closed \in Nat
      /\ raised \in Nat /\ handler[w] \in HandlerType /\ Holds(handler[w], request)
  BY InboxAssumption DEF TInv, Typed, Types
<1>2. handler[w].of \in Request
  BY <1>1 DEF Holds
<1>3. request[handler[w].of] \in RequestType
  BY <1>1, <1>2 DEF Types
<1>4. \A p \in Plan : calls[p] \in Nat /\ calls[p] <= 1 /\ calls[p] <= delivered
  BY <1>1 DEF TInv, Types
<1>5. QED
  BY <1>1, <1>2, <1>3, <1>4 DEF Stored, RequestType

\* The row and escalation_resolved.
LEMMA CloseT ==
  ASSUME TInv, NEW w \in Worker, Mark(w) \/ Resolve(w)
  PROVE  TInv'
<1>1. /\ handler[w].pc \in {"mark", "resolve"}
      /\ UNCHANGED <<request, store, answer, sent, delivered, early, granted, raised,
                     attempt, calls>>
      /\ comp' = [comp EXCEPT ![Stored(w).effect] = "manually_resolved"]
      /\ executed' \in {executed, executed \cup {handler[w].of}}
  BY DEF Mark, Resolve
<1>2. /\ Types /\ Typed /\ handler[w] \in HandlerType /\ Holds(handler[w], request)
      /\ handler[w].of \in Request /\ Stored(w).effect \in Effect
      /\ \A p \in Plan : calls[p] \in Nat /\ calls[p] <= 1 /\ calls[p] <= delivered
      /\ CallsOnRecord /\ delivered \in Nat /\ closed \in Nat /\ raised \in Nat
  BY <1>1, BusyHolds
<1>3. PICK h \in HandlerType, c \in {0, 1} :
        /\ handler' = [handler EXCEPT ![w] = h] /\ closed' = closed + c
        /\ Holds(h, request) /\ h.pc \notin ToExecute
        /\ c + Bit(h.pc, AtWorkAt) <= 1
  <2>1. CASE Mark(w)
    <3> DEFINE h == [handler[w] EXCEPT !.pc = "resolve"]
    <3>1. /\ h \in HandlerType /\ h.pc = "resolve" /\ h.from = handler[w].from
          /\ h.of = handler[w].of
      BY <1>2 DEF HandlerType
    <3>2. handler' = [handler EXCEPT ![w] = h] /\ closed' = closed + 0
      BY <1>2, <2>1 DEF Mark
    <3> HIDE DEF h
    <3>3. Holds(h, request) /\ h.pc \notin ToExecute /\ 0 + Bit(h.pc, AtWorkAt) <= 1
      BY <1>1, <1>2, <3>1 DEF Holds, ToExecute, Bit
    <3>4. QED
      BY <3>1, <3>2, <3>3
  <2>2. CASE Resolve(w)
    <3>1. /\ Idle \in HandlerType /\ Holds(Idle, request) /\ Idle.pc \notin ToExecute
          /\ 1 + Bit(Idle.pc, AtWorkAt) <= 1
      BY DEF Idle, HandlerType, Holds, ToExecute, Bit, AtWorkAt
    <3>2. QED
      BY <2>2, <3>1 DEF Resolve
  <2>3. QED
    BY <2>1, <2>2
<1>4. handler' \in [Worker -> HandlerType]
  BY <1>2, <1>3 DEF Types
<1>5. comp' \in [Effect -> {"standing", "escalated", "compensated", "manually_resolved"}]
      /\ executed' \subseteq Request
  BY <1>1, <1>2 DEF Typed
<1>6. closed' \in Nat
  BY <1>2, <1>3
<1>7. Typed'
  BY <1>1, <1>2, <1>4, <1>5, <1>6 DEF Types, Typed
<1>8. /\ c + Bit(h.pc, AtWorkAt) <= Bit(handler[w].pc, AtWorkAt) + 0
      /\ 0 + Bit(h.pc, ToExecute) <= Bit(handler[w].pc, ToExecute) + 0
  BY <1>1, <1>3 DEF Bit, AtWorkAt, ToExecute
<1>9. raised' = raised + 0 /\ delivered' = delivered + 0
  BY <1>1, <1>2
<1>10. CallsOnRecord' /\ \A p \in Plan : calls'[p] <= 1 /\ calls'[p] <= delivered'
  BY <1>1, <1>2 DEF CallsOnRecord
<1>11. QED
  BY <1>1, <1>2, <1>3, <1>7, <1>8, <1>9, <1>10, HandlerT

\* approval_granted.
LEMMA GrantT ==
  ASSUME TInv, NEW w \in Worker, Grant(w)
  PROVE  TInv'
<1> DEFINE h == [handler[w] EXCEPT !.pc = "execute"]
<1>1. /\ handler[w].pc = "grant"
      /\ handler' = [handler EXCEPT ![w] = h]
      /\ granted' = granted \cup {[plan |-> Planned(w), by |-> handler[w].from]}
      /\ UNCHANGED <<comp, request, store, answer, sent, delivered, early, executed,
                     closed, raised, attempt, calls>>
  BY DEF Grant
<1>2. /\ Types /\ Typed /\ handler[w] \in HandlerType /\ Holds(handler[w], request)
      /\ handler[w].of \in Request
      /\ \A p \in Plan : calls[p] \in Nat /\ calls[p] <= 1 /\ calls[p] <= delivered
      /\ CallsOnRecord /\ delivered \in Nat /\ closed \in Nat /\ raised \in Nat
  BY <1>1, BusyHolds
<1>3. /\ h \in HandlerType /\ h.pc = "execute" /\ h.from = handler[w].from
      /\ h.of = handler[w].of
  BY <1>2 DEF HandlerType
<1> HIDE DEF h
<1>4. Holds(h, request) /\ Planned(w) \in Plan /\ handler[w].from \in Request
  BY <1>1, <1>2, <1>3 DEF Holds, Planned, Stored
<1>5. handler' \in [Worker -> HandlerType] /\ granted' \subseteq [plan : Plan, by : Request]
  BY <1>1, <1>2, <1>3, <1>4 DEF Types
<1>6. Typed'
  BY <1>1, <1>2, <1>5 DEF Types, Typed
<1>7. /\ 0 + Bit(h.pc, AtWorkAt) <= Bit(handler[w].pc, AtWorkAt) + 0
      /\ 0 + Bit(h.pc, ToExecute) <= Bit(handler[w].pc, ToExecute) + 0
  BY <1>1, <1>3 DEF Bit, AtWorkAt, ToExecute
<1>8. closed' = closed + 0 /\ raised' = raised + 0 /\ delivered' = delivered + 0
  BY <1>1, <1>2
<1>9. CallsOnRecord' /\ \A p \in Plan : calls'[p] <= 1 /\ calls'[p] <= delivered'
  BY <1>1, <1>2 DEF CallsOnRecord
<1>10. QED
  BY <1>1, <1>2, <1>3, <1>4, <1>6, <1>7, <1>8, <1>9, HandlerT

\* executePlan: it raises at most once for each handler that executes, and calls a plan
\* only if no attempt at it succeeded.
LEMMA ExecuteT ==
  ASSUME TInv, NEW w \in Worker, Gated(w) \/ Succeed(w) \/ Fail(w)
  PROVE  TInv'
<1> DEFINE p == Planned(w)
<1>1. /\ handler[w].pc = "execute" /\ (Finish(w) \/ Throw(w))
      /\ UNCHANGED <<request, store, answer, sent, delivered, early, granted, executed,
                     closed>>
  BY DEF Gated, Succeed, Fail
<1>2. /\ Types /\ Typed /\ handler[w] \in HandlerType /\ Holds(handler[w], request)
      /\ handler[w].of \in Request /\ Stored(w).effect \in Effect
      /\ \A q \in Plan : calls[q] \in Nat /\ calls[q] <= 1 /\ calls[q] <= delivered
      /\ CallsOnRecord /\ delivered \in Nat /\ closed \in Nat /\ raised \in Nat
  BY <1>1, BusyHolds
<1>3. delivered >= 1 /\ p \in Plan
  BY <1>1, <1>2, BusyCounts DEF Holds, Planned, Stored
<1>4. PICK h \in HandlerType :
        /\ handler' = [handler EXCEPT ![w] = h] /\ Holds(h, request)
        /\ h.pc \notin ToExecute
  <2>1. CASE Throw(w)
    <3>1. Idle \in HandlerType /\ Holds(Idle, request) /\ Idle.pc \notin ToExecute
      BY DEF Idle, HandlerType, Holds, ToExecute
    <3>2. QED
      BY <2>1, <3>1 DEF Throw
  <2>2. CASE Finish(w)
    <3> DEFINE h == [handler[w] EXCEPT !.pc = "resolve", !.executed = TRUE]
    <3>1. /\ h \in HandlerType /\ h.pc = "resolve" /\ h.from = handler[w].from
          /\ h.of = handler[w].of
      BY <1>2 DEF HandlerType
    <3>2. handler' = [handler EXCEPT ![w] = h]
      BY <2>2 DEF Finish
    <3> HIDE DEF h
    <3>3. Holds(h, request) /\ h.pc \notin ToExecute
      BY <1>1, <1>2, <3>1 DEF Holds, ToExecute
    <3>4. QED
      BY <3>1, <3>2, <3>3
  <2>3. QED
    BY <1>1, <2>1, <2>2
<1>5. PICK r \in {0, 1} : raised' = raised + r
  BY <1>2 DEF Gated, Succeed, Fail, LogRaised
<1>6. \E s \in {"standing", "escalated", "compensated"} :
        comp' = [comp EXCEPT ![Stored(w).effect] = s]
  BY DEF Gated, Succeed, Fail, LogRaised
<1> HIDE DEF p
<1>7. /\ attempt' \in [Plan -> {"none", "succeeded", "failed"}] /\ calls' \in [Plan -> Nat]
      /\ CallsOnRecord' /\ \A q \in Plan : calls'[q] <= 1 /\ calls'[q] <= delivered
  <2>1. CASE UNCHANGED <<attempt, calls>>
    BY <1>2, <2>1 DEF Types, CallsOnRecord
  <2>2. CASE /\ attempt' = [attempt EXCEPT ![p] = "succeeded"]
             /\ calls' = [calls EXCEPT ![p] = IF Done(p) THEN @ ELSE @ + 1]
    <3>1. ~Done(p) => calls[p] = 0
      BY <1>2, <1>3 DEF CallsOnRecord, Done
    <3>2. /\ attempt' \in [Plan -> {"none", "succeeded", "failed"}]
          /\ attempt'[p] = "succeeded"
          /\ \A q \in Plan : q # p => attempt'[q] = attempt[q]
      BY <1>2, <1>3, <2>2 DEF Types
    <3>3. /\ calls' \in [Plan -> Nat] /\ calls'[p] <= 1
          /\ \A q \in Plan : q # p => calls'[q] = calls[q]
      BY <1>2, <1>3, <2>2, <3>1 DEF Types
    <3>4. CallsOnRecord'
      BY <1>2, <3>2, <3>3 DEF CallsOnRecord
    <3>5. \A q \in Plan : calls'[q] <= 1 /\ calls'[q] <= delivered
      BY <1>2, <1>3, <3>3
    <3>6. QED
      BY <3>2, <3>3, <3>4, <3>5
  <2>3. CASE ~Done(p) /\ attempt' = [attempt EXCEPT ![p] = "failed"] /\ UNCHANGED calls
    <3>1. calls[p] = 0
      BY <1>2, <1>3, <2>3 DEF CallsOnRecord, Done
    <3>2. /\ attempt' \in [Plan -> {"none", "succeeded", "failed"}]
          /\ \A q \in Plan : q # p => attempt'[q] = attempt[q]
      BY <1>2, <1>3, <2>3 DEF Types
    <3>3. CallsOnRecord'
      BY <1>2, <2>3, <3>1, <3>2 DEF CallsOnRecord
    <3>4. QED
      BY <1>2, <2>3, <3>2, <3>3 DEF Types
  <2>4. QED
    BY <2>1, <2>2, <2>3 DEF Gated, Succeed, Fail, p
<1>8. handler' \in [Worker -> HandlerType]
  BY <1>2, <1>4 DEF Types
<1>9. comp' \in [Effect -> {"standing", "escalated", "compensated", "manually_resolved"}]
  BY <1>2, <1>6 DEF Typed
<1>10. raised' \in Nat
  BY <1>2, <1>5
<1>11. Typed'
  BY <1>1, <1>2, <1>7, <1>8, <1>9, <1>10 DEF Types, Typed
<1>12. /\ 0 + Bit(h.pc, AtWorkAt) <= Bit(handler[w].pc, AtWorkAt) + 0
       /\ r + Bit(h.pc, ToExecute) <= Bit(handler[w].pc, ToExecute) + 0
  BY <1>1, <1>4, <1>5 DEF Bit, AtWorkAt, ToExecute
<1>13. closed' = closed + 0 /\ delivered' = delivered + 0
  BY <1>1, <1>2
<1>14. QED
  BY <1>1, <1>2, <1>4, <1>5, <1>7, <1>11, <1>12, <1>13, HandlerT

\* A crash frees the handlers, and no request is new again.
LEMMA CrashT ==
  ASSUME TInv, Crash
  PROVE  TInv'
<1>1. Types /\ Typed /\ RequestsKeep /\ closed \in Nat /\ raised \in Nat
      /\ delivered \in Nat /\ MaxRequests \in Nat /\ IsFiniteSet(Busy)
  BY InboxAssumption DEF TInv, Typed, Balanced
<1>2. \A i \in Request :
        /\ request'[i] \in RequestType
        /\ request'[i].plan = request[i].plan /\ request'[i].shown = request[i].shown
        /\ request'[i].pc \in {"unused", "logging"} => request[i].pc = request'[i].pc
        /\ request'[i].pc = "unused" <=> request[i].pc = "unused"
  <2> SUFFICES ASSUME NEW i \in Request
               PROVE  /\ request'[i] \in RequestType
                      /\ request'[i].plan = request[i].plan
                      /\ request'[i].shown = request[i].shown
                      /\ request'[i].pc \in {"unused", "logging"} =>
                           request[i].pc = request'[i].pc
                      /\ request'[i].pc = "unused" <=> request[i].pc = "unused"
    OBVIOUS
  <2>1. request[i] \in RequestType
    BY <1>1 DEF Types
  <2>2. \/ request'[i] = request[i]
        \/ request[i].pc # "unused" /\ request'[i] = [request[i] EXCEPT !.pc = "lost"]
    BY DEF Crash
  <2>3. QED
    BY <2>1, <2>2 DEF RequestType
<1>3. request' \in [Request -> RequestType]
  BY <1>2 DEF Crash
<1>4. Idle \in HandlerType /\ Idle.pc = "idle"
  BY DEF Idle, HandlerType
<1>5. /\ store' = [k \in Key |-> 0] /\ handler' = [w \in Worker |-> Idle]
      /\ UNCHANGED <<comp, answer, sent, delivered, early, granted, executed, closed,
                     raised, attempt, calls>>
  BY DEF Crash
<1>6. Typed'
  BY <1>1, <1>3, <1>4, <1>5 DEF Types, Typed
<1>7. RequestsKeep'
  BY <1>1, <1>2, <1>5 DEF RequestsKeep, Raised
<1>8. Busy' = {} /\ Executing' = {} /\ Fresh' \subseteq Fresh
  BY <1>2, <1>4, <1>5 DEF Busy, Executing, Fresh
<1>9. /\ Cardinality(Busy') = 0 /\ Cardinality(Executing') = 0 /\ IsFiniteSet(Busy')
      /\ IsFiniteSet(Fresh) /\ Cardinality(Fresh) \in Nat
      /\ Cardinality(Busy) \in Nat /\ Cardinality(Executing) \in Nat
  BY <1>1, <1>8, Counts, FS_EmptySet
<1>10. Cardinality(Fresh') \in Nat /\ Cardinality(Fresh') <= Cardinality(Fresh)
  <2>1. IsFiniteSet(Fresh') /\ Cardinality(Fresh') <= Cardinality(Fresh)
    BY <1>8, <1>9, FS_Subset
  <2>2. QED
    BY <2>1, FS_CardinalityType
<1>11. Balanced'
  <2>1. /\ closed + Cardinality(Busy) <= delivered
        /\ raised + Cardinality(Fresh) + Cardinality(Executing) <= MaxRequests + delivered
    BY DEF TInv, Balanced
  <2>2. closed <= delivered /\ raised + Cardinality(Fresh') <= MaxRequests + delivered
    BY <1>1, <1>9, <1>10, <2>1
  <2>3. /\ closed + 0 <= delivered
        /\ raised + Cardinality(Fresh') + 0 <= MaxRequests + delivered
    BY <1>1, <1>10, <2>2
  <2>4. QED
    BY <1>5, <1>9, <2>3 DEF Balanced
<1>12. \A w \in Worker : Holds(handler'[w], request')
  BY <1>4, <1>5 DEF Holds
<1>13. CallsOnRecord' /\ \A p \in Plan : calls'[p] <= 1 /\ calls'[p] <= delivered'
  BY <1>5 DEF TInv, CallsOnRecord
<1>14. QED
  BY <1>6, <1>7, <1>11, <1>12, <1>13 DEF TInv

LEMMA TStep == TInv /\ [Next]_vars => TInv'
<1> SUFFICES ASSUME TInv, [Next]_vars PROVE TInv'
  OBVIOUS
<1>1. CASE UNCHANGED vars
  BY <1>1 DEF vars, TInv, Typed, Types, RequestsKeep, CallsOnRecord, Balanced, Busy,
              Executing, Fresh
<1>2. QED
  BY <1>1, EscalateT, RaiseT, ReceiveT, CloseT, GrantT, ExecuteT, CrashT DEF Next

\* The invariant gives the types, with the bounds of the counters.
LEMMA TImplies == TInv => TypeOK
<1> SUFFICES ASSUME TInv PROVE TypeOK
  OBVIOUS
<1>1. Types /\ Typed /\ IsFiniteSet(Busy) /\ MaxAnswers \in Nat /\ MaxRequests \in Nat
      /\ delivered \in Nat /\ delivered <= MaxAnswers /\ closed \in Nat /\ raised \in Nat
  BY InboxAssumption DEF TInv, Typed, Balanced
<1>2. /\ Cardinality(Busy) \in Nat /\ Cardinality(Executing) \in Nat
      /\ Cardinality(Fresh) \in Nat
  BY <1>1, Counts
<1>3. /\ closed + Cardinality(Busy) <= delivered
      /\ raised + Cardinality(Fresh) + Cardinality(Executing) <= MaxRequests + delivered
  BY DEF TInv, Balanced
<1>4. closed \in 0 .. MaxAnswers /\ raised \in 0 .. MaxRequests + MaxAnswers
  BY <1>1, <1>2, <1>3
<1>5. sent \in [Request -> 0 .. MaxAnswers]
  <2>1. \A i \in Request : sent[i] \in Nat /\ sent[i] <= delivered
    BY <1>1 DEF Typed
  <2>2. \A i \in Request : sent[i] \in 0 .. MaxAnswers
    BY <1>1, <2>1
  <2>3. QED
    BY <1>1, <2>2 DEF Typed
<1>6. calls \in [Plan -> 0 .. MaxAnswers]
  <2>1. \A p \in Plan : calls[p] \in Nat /\ calls[p] <= delivered
    BY <1>1 DEF TInv, Types
  <2>2. \A p \in Plan : calls[p] \in 0 .. MaxAnswers
    BY <1>1, <2>1
  <2>3. QED
    BY <1>1, <2>2 DEF Types
<1>7. QED
  BY <1>1, <1>4, <1>5, <1>6 DEF TypeOK, Types, Typed, RequestType, HandlerType

\* vekinbox.ts: the types, and that no event of an escalation is counted that no
\* request and no webhook stands for; whether answers carry the hash or not.
THEOREM TypeCorrect == Spec => []TypeOK
  BY TInit, TStep, TImplies, PTL DEF Spec

-----------------------------------------------------------------------------
(* Nothing is forgotten.  The events carry no request, so the count of open         *)
(* escalations says nothing of one effect by itself: the invariant tells which       *)
(* requests the events were logged for.                                             *)

\* The condition of NothingForgotten: it never comes back once it is gone.
Clean == early = {} /\ \A i \in Request : sent[i] <= 1

\* What memory holds under a key is a raised request of that key.
StoreMatches ==
  \A k \in Key : store[k] # 0 => request[store[k]].pc = "raised" /\ KeyOf(store[k]) = k

\* A busy handler has a raised request to itself, and works on one of the same effect.
OwnAnswer(w) ==
  handler[w].pc # "idle" =>
    /\ request[handler[w].from].pc = "raised" /\ sent[handler[w].from] = 1
    /\ request[handler[w].of].pc = "raised"
    /\ request[handler[w].of].effect = request[handler[w].from].effect
    /\ \A v \in Worker : v # w /\ handler[v].pc # "idle" =>
         handler[v].from # handler[w].from

\* L: requests whose escalation_raised was logged; C: those of them whose answer has
\* resolved an escalation.  An escalated effect has one that is in L and not in C.
Ledger(L, C) ==
  /\ L \subseteq Request /\ C \subseteq L
  /\ \A i \in L : request[i].pc \in {"storing", "raised", "lost"}
  /\ \A i \in Request : request[i].pc \in {"storing", "raised"} => i \in L
  /\ \A i \in C : /\ request[i].pc = "raised" /\ sent[i] = 1
                  /\ \A w \in Worker : handler[w].pc # "idle" => handler[w].from # i
  /\ Cardinality(L) <= raised /\ closed <= Cardinality(C)
  /\ \A e \in Effect : comp[e] = "escalated" =>
       \E i \in L : i \notin C /\ request[i].effect = e

FInv ==
  /\ StoreMatches
  /\ Clean => /\ \A w \in Worker : OwnAnswer(w)
              /\ \E L, C \in SUBSET Request : Ledger(L, C)

\* A request that was raised never changes.
Settled == \A i \in Request : request[i].pc = "raised" => request'[i] = request[i]

LEMMA StoreStays ==
  ASSUME Types, StoreMatches, Settled, UNCHANGED store
  PROVE  StoreMatches'
<1>1. \A k \in Key : store[k] \in Request \cup {0}
  BY DEF Types
<1>2. ASSUME NEW k \in Key, store[k] # 0
      PROVE  request'[store[k]] = request[store[k]]
  BY <1>1, <1>2 DEF StoreMatches, Settled
<1>3. QED
  BY <1>2 DEF StoreMatches, KeyOf

\* Handlers go on, or are done.
LEMMA OwnStays ==
  ASSUME TInv, \A w \in Worker : OwnAnswer(w), Settled,
         \A i \in Request : sent[i] = 1 => sent'[i] = 1,
         \A w \in Worker : handler'[w].pc # "idle" =>
           /\ handler[w].pc # "idle"
           /\ handler'[w].from = handler[w].from /\ handler'[w].of = handler[w].of
  PROVE  \A w \in Worker : OwnAnswer(w)'
<1> SUFFICES ASSUME NEW w \in Worker, handler'[w].pc # "idle" PROVE OwnAnswer(w)'
  BY DEF OwnAnswer
<1>1. handler[w].pc # "idle" /\ handler'[w].from = handler[w].from
      /\ handler'[w].of = handler[w].of
  OBVIOUS
<1>2. handler[w].from \in Request /\ handler[w].of \in Request
  BY <1>1 DEF TInv, Holds
<1>3. OwnAnswer(w)
  OBVIOUS
<1>4. request'[handler[w].from] = request[handler[w].from]
      /\ request'[handler[w].of] = request[handler[w].of] /\ sent'[handler[w].from] = 1
  BY <1>1, <1>2, <1>3 DEF OwnAnswer, Settled
<1>5. QED
  BY <1>1, <1>3, <1>4 DEF OwnAnswer

\* Steps that log no request and resolve none.
LEMMA LedgerStays ==
  ASSUME NEW L \in SUBSET Request, NEW C \in SUBSET Request, Ledger(L, C), Settled,
         \A i \in L : /\ request'[i].effect = request[i].effect
                      /\ request'[i].pc \in {"storing", "raised", "lost"},
         \A i \in Request : request'[i].pc \in {"storing", "raised"} =>
           request[i].pc \in {"storing", "raised"},
         \A i \in C : sent'[i] = sent[i],
         \A w \in Worker : handler'[w].pc # "idle" => handler'[w].from \notin C,
         Cardinality(L) <= raised', closed' = closed,
         \A e \in Effect : comp'[e] = "escalated" =>
           comp[e] = "escalated" \/ \E i \in L : i \notin C /\ request[i].effect = e
  PROVE  Ledger(L, C)'
<1>1. \A i \in C : request'[i].pc = "raised" /\ sent'[i] = 1
                   /\ \A w \in Worker : handler'[w].pc # "idle" => handler'[w].from # i
  BY DEF Ledger, Settled
<1>2. \A e \in Effect : comp'[e] = "escalated" =>
        \E i \in L : i \notin C /\ request'[i].effect = e
  BY DEF Ledger
<1>3. QED
  BY <1>1, <1>2 DEF Ledger

\* The same for the whole invariant; a handler keeps its requests or is done.
LEMMA FStays ==
  ASSUME TInv, FInv, StoreMatches', Settled, UNCHANGED <<sent, early, closed>>,
         \A i \in Request : request[i].pc \in {"storing", "raised", "lost"} =>
           /\ request'[i].effect = request[i].effect
           /\ request'[i].pc \in {"storing", "raised", "lost"},
         \A i \in Request : request'[i].pc \in {"storing", "raised"} =>
           request[i].pc \in {"storing", "raised"},
         \A w \in Worker : handler'[w].pc # "idle" =>
           /\ handler[w].pc # "idle"
           /\ handler'[w].from = handler[w].from /\ handler'[w].of = handler[w].of,
         NEW r \in Nat, raised' = raised + r,
         \A e \in Effect : comp'[e] = "escalated" =>
           \/ comp[e] = "escalated"
           \/ \E w \in Worker : handler[w].pc # "idle"
                                /\ request[handler[w].of].effect = e
  PROVE  FInv'
<1>1. SUFFICES ASSUME Clean
               PROVE  /\ \A w \in Worker : OwnAnswer(w)'
                      /\ \E L, C \in SUBSET Request : Ledger(L, C)'
  BY DEF FInv, Clean
<1>2. \A w \in Worker : OwnAnswer(w)
  BY <1>1 DEF FInv
<1>3. \A w \in Worker : OwnAnswer(w)'
  BY <1>2, OwnStays
<1>4. PICK L \in SUBSET Request, C \in SUBSET Request : Ledger(L, C)
  BY <1>1 DEF FInv
<1>5. ASSUME NEW w \in Worker, handler[w].pc # "idle"
      PROVE  /\ handler[w].from \in L /\ handler[w].from \notin C
             /\ request[handler[w].from].effect = request[handler[w].of].effect
  <2>1. handler[w].from \in Request /\ OwnAnswer(w)
    BY <1>2, <1>5 DEF TInv, Holds
  <2>2. QED
    BY <1>4, <1>5, <2>1 DEF OwnAnswer, Ledger
<1>6. \A e \in Effect : comp'[e] = "escalated" =>
        comp[e] = "escalated" \/ \E i \in L : i \notin C /\ request[i].effect = e
  BY <1>5
<1>7. Cardinality(L) <= raised'
  <2>1. IsFiniteSet(L)
    BY FS_Subset, Counts DEF TInv, Balanced
  <2>2. Cardinality(L) \in Nat /\ raised \in Nat /\ Cardinality(L) <= raised
    BY <1>4, <2>1, FS_CardinalityType DEF TInv, Typed, Ledger
  <2>3. Cardinality(L) <= raised + r
    BY <2>2
  <2>4. QED
    BY <2>3
<1>8. /\ \A i \in L : /\ request'[i].effect = request[i].effect
                      /\ request'[i].pc \in {"storing", "raised", "lost"}
      /\ \A w \in Worker : handler'[w].pc # "idle" => handler'[w].from \notin C
      /\ \A i \in C : sent'[i] = sent[i]
  BY <1>4, <1>5 DEF Ledger
<1>9. Ledger(L, C)'
  BY <1>4, <1>6, <1>7, <1>8, LedgerStays
<1>10. QED
  BY <1>3, <1>9

LEMMA FInit == Init => FInv
<1> SUFFICES ASSUME Init PROVE FInv
  OBVIOUS
<1>1. Unused.pc = "unused" /\ Idle.pc = "idle"
  BY DEF Unused, Idle
<1>2. StoreMatches /\ \A w \in Worker : OwnAnswer(w)
  BY <1>1 DEF Init, StoreMatches, OwnAnswer
<1>3. Ledger({}, {})
  BY <1>1, FS_EmptySet DEF Init, Ledger
<1>4. QED
  BY <1>2, <1>3 DEF FInv

\* A new request is in no ledger yet.
LEMMA EscalateF ==
  ASSUME TInv, FInv, NEW i \in Request, NEW e \in Effect, NEW c \in Reason,
         Escalate(i, e, c)
  PROVE  FInv'
<1>1. Types /\ raised \in Nat
  BY DEF TInv, Typed
<1>2. PICK p \in Plan \cup {NoPlan} : Begin(i, e, c, p)
  BY DEF Escalate
<1>3. UNCHANGED <<comp, store, sent, early, handler, closed, raised>>
  BY DEF Escalate
<1>4. /\ request[i].pc = "unused" /\ request'[i].pc = "logging"
      /\ \A j \in Request : j # i => request'[j] = request[j]
  BY <1>1, <1>2 DEF Begin, Types
<1>5. Settled
  BY <1>4 DEF Settled
<1>6. StoreMatches'
  BY <1>1, <1>3, <1>5, StoreStays DEF FInv
<1>7. raised' = raised + 0
  BY <1>1, <1>3
<1>8. /\ \A j \in Request : request[j].pc \in {"storing", "raised", "lost"} =>
           /\ request'[j].effect = request[j].effect
           /\ request'[j].pc \in {"storing", "raised", "lost"}
      /\ \A j \in Request : request'[j].pc \in {"storing", "raised"} =>
           request[j].pc \in {"storing", "raised"}
  BY <1>4
<1>9. QED
  BY <1>3, <1>5, <1>6, <1>7, <1>8, FStays

\* The append failed, or it is in memory now.
LEMMA KeepF ==
  ASSUME TInv, FInv, NEW i \in Request, LogFails(i) \/ Store(i)
  PROVE  FInv'
<1>1. Types /\ raised \in Nat
  BY DEF TInv, Typed
<1>2. PICK pc \in {"raised", "lost"} :
        /\ request' = [request EXCEPT ![i].pc = pc]
        /\ request[i].pc = IF pc = "raised" THEN "storing" ELSE "logging"
  BY DEF LogFails, Store
<1>3. UNCHANGED <<comp, sent, early, handler, closed, raised>>
  BY DEF LogFails, Store
<1>4. /\ request'[i].pc = pc /\ request'[i].effect = request[i].effect
      /\ request'[i].reason = request[i].reason
      /\ \A j \in Request : j # i => request'[j] = request[j]
  BY <1>1, <1>2 DEF Types, RequestType
<1>5. Settled
  BY <1>2, <1>4 DEF Settled
<1>6. StoreMatches'
  <2>1. CASE UNCHANGED store
    BY <1>1, <1>5, <2>1, StoreStays DEF FInv
  <2>2. CASE Store(i)
    <3>1. /\ store' = [store EXCEPT ![KeyOf(i)] = i] /\ pc = "raised"
          /\ store \in [Key -> Request \cup {0}]
      BY <1>1, <1>2, <1>4, <2>2 DEF Store, Types
    <3>2. ASSUME NEW k \in Key, NEW n, n = store'[k], n # 0
          PROVE  request'[n].pc = "raised" /\ <<request'[n].effect, request'[n].reason>> = k
      <4>1. CASE k = KeyOf(i)
        <5>1. n = i
          BY <3>1, <3>2, <4>1
        <5>2. QED
          BY <1>4, <3>1, <4>1, <5>1 DEF KeyOf
      <4>2. CASE k # KeyOf(i)
        <5>1. n = store[k] /\ n \in Request
          BY <3>1, <3>2, <4>2
        <5>2. request[n].pc = "raised" /\ KeyOf(n) = k
          BY <3>2, <5>1 DEF FInv, StoreMatches
        <5>3. request'[n] = request[n]
          BY <1>5, <5>1, <5>2 DEF Settled
        <5>4. QED
          BY <5>2, <5>3 DEF KeyOf
      <4>3. QED
        BY <4>1, <4>2
    <3>3. QED
      BY <3>2 DEF StoreMatches, KeyOf
  <2>3. QED
    BY <2>1, <2>2 DEF LogFails
<1>7. raised' = raised + 0
  BY <1>1, <1>3
<1>8. /\ \A j \in Request : request[j].pc \in {"storing", "raised", "lost"} =>
           /\ request'[j].effect = request[j].effect
           /\ request'[j].pc \in {"storing", "raised", "lost"}
      /\ \A j \in Request : request'[j].pc \in {"storing", "raised"} =>
           request[j].pc \in {"storing", "raised"}
  BY <1>2, <1>4
<1>9. QED
  BY <1>3, <1>5, <1>6, <1>7, <1>8, FStays

\* The event is logged: one more request in the ledger, one more event.
LEMMA LogF ==
  ASSUME TInv, FInv, NEW i \in Request, Log(i)
  PROVE  FInv'
<1>1. Types /\ raised \in Nat
  BY DEF TInv, Typed
<1>2. /\ request' = [request EXCEPT ![i].pc = "storing"] /\ request[i].pc = "logging"
      /\ UNCHANGED <<store, sent, early, handler, closed>>
      /\ raised' = raised + 1
      /\ comp' = [comp EXCEPT ![request[i].effect] = "escalated"]
  BY DEF Log, LogRaised
<1>3. /\ request'[i].pc = "storing" /\ request'[i].effect = request[i].effect
      /\ \A j \in Request : j # i => request'[j] = request[j]
  BY <1>1, <1>2 DEF Types, RequestType
<1>4. Settled
  BY <1>2, <1>3 DEF Settled
<1>5. StoreMatches'
  BY <1>1, <1>2, <1>4, StoreStays DEF FInv
<1>6. SUFFICES ASSUME Clean
               PROVE  /\ \A w \in Worker : OwnAnswer(w)'
                      /\ \E L, C \in SUBSET Request : Ledger(L, C)'
  BY <1>2, <1>5 DEF FInv, Clean
<1>7. \A w \in Worker : OwnAnswer(w)'
  BY <1>2, <1>4, <1>6, OwnStays DEF FInv
<1>8. PICK L \in SUBSET Request, C \in SUBSET Request : Ledger(L, C)
  BY <1>6 DEF FInv
<1>9. i \notin L /\ i \notin C
  BY <1>2, <1>8 DEF Ledger
<1> DEFINE M == L \cup {i}
<1>10. Cardinality(M) <= raised'
  <2>1. IsFiniteSet(L)
    BY FS_Subset, Counts DEF TInv, Balanced
  <2>2. Cardinality(L) \in Nat /\ Cardinality(L) <= raised
        /\ Cardinality(M) = Cardinality(L) + 1
    BY <1>8, <1>9, <2>1, FS_CardinalityType, FS_AddElement DEF Ledger
  <2>3. Cardinality(M) <= raised + 1
    BY <1>1, <2>2
  <2>4. QED
    BY <1>2, <2>3
<1>11. \A e \in Effect : comp'[e] = "escalated" =>
         \E j \in M : j \notin C /\ request'[j].effect = e
  <2> SUFFICES ASSUME NEW e \in Effect, comp'[e] = "escalated"
               PROVE  \E j \in M : j \notin C /\ request'[j].effect = e
    OBVIOUS
  <2>1. CASE e = request[i].effect
    BY <1>3, <1>9, <2>1
  <2>2. CASE e # request[i].effect
    <3>1. comp[e] = "escalated"
      BY <1>2, <2>2 DEF TInv, Typed
    <3>2. PICK j \in L : j \notin C /\ request[j].effect = e
      BY <1>8, <3>1 DEF Ledger
    <3>3. QED
      BY <1>3, <1>9, <3>2
  <2>3. QED
    BY <2>1, <2>2
<1>12. Ledger(M, C)'
  <2>1. M \subseteq Request /\ C \subseteq M /\ closed' <= Cardinality(C)
    BY <1>2, <1>8 DEF Ledger
  <2>2. /\ \A j \in M : request'[j].pc \in {"storing", "raised", "lost"}
        /\ \A j \in Request : request'[j].pc \in {"storing", "raised"} => j \in M
    BY <1>3, <1>8 DEF Ledger
  <2>3. \A j \in C : /\ request'[j].pc = "raised" /\ sent'[j] = 1
                     /\ \A w \in Worker : handler'[w].pc # "idle" => handler'[w].from # j
    BY <1>2, <1>3, <1>8, <1>9 DEF Ledger
  <2> HIDE DEF M
  <2>4. QED
    BY <1>10, <1>11, <2>1, <2>2, <2>3 DEF Ledger
<1>13. M \in SUBSET Request
  OBVIOUS
<1>14. QED
  BY <1>7, <1>12, <1>13

\* A webhook: under the condition it is the first answer to its request, which was
\* raised, so the handler that takes it is the only one for it.
LEMMA ReceiveF ==
  ASSUME TInv, FInv, NEW w \in Worker, NEW i \in Request, NEW a \in Action,
         Receive(w, i, a)
  PROVE  FInv'
<1> DEFINE stored == store[KeyOf(i)]
<1>1. Types /\ RequestsKeep /\ raised \in Nat /\ sent \in [Request -> Nat]
  BY DEF TInv, Typed
<1>2. /\ handler[w].pc = "idle" /\ sent' = [sent EXCEPT ![i] = @ + 1]
      /\ early' = IF request[i].pc = "raised" THEN early ELSE early \cup {i}
      /\ UNCHANGED <<comp, store, closed, raised>>
  BY DEF Receive
<1>3. stored \in Request \cup {0} /\ KeyOf(i) \in Key
      /\ (stored # 0 => request[stored].pc = "raised"
                        /\ request[stored].effect = request[i].effect)
  <2>1. KeyOf(i) \in Key
    BY <1>1 DEF KeyOf, Key, Types, RequestType
  <2>2. stored # 0 => request[stored].pc = "raised" /\ KeyOf(stored) = KeyOf(i)
    BY <2>1 DEF FInv, StoreMatches
  <2>3. QED
    BY <1>1, <2>1, <2>2 DEF Types, KeyOf
<1> DEFINE Moves(pc) == handler' = [handler EXCEPT ![w] =
             [pc |-> pc, from |-> i, of |-> stored, executed |-> FALSE]]
<1>4. \/ UNCHANGED <<request, handler>>
      \/ stored # 0 /\ UNCHANGED request
         /\ (Moves("mark") \/ Moves("resolve") \/ Moves("grant"))
      \/ /\ stored # 0 /\ UNCHANGED handler
         /\ \E j \in Request : Begin(j, request[stored].effect, request[stored].reason,
                                     request[stored].plan)
  BY DEF Receive, Idle
<1> HIDE DEF stored
<1>5. PICK j \in Request :
        /\ \A k \in Request : k # j => request'[k] = request[k]
        /\ \/ request'[j] = request[j]
           \/ request[j].pc = "unused" /\ request'[j].pc = "logging"
  <2>1. CASE UNCHANGED request
    BY <2>1
  <2>2. ASSUME stored # 0,
               NEW j \in Request, Begin(j, request[stored].effect,
                                        request[stored].reason, request[stored].plan)
        PROVE  /\ \A k \in Request : k # j => request'[k] = request[k]
               /\ request[j].pc = "unused" /\ request'[j].pc = "logging"
    BY <1>1, <2>2 DEF Begin, Types
  <2>3. QED
    BY <1>4, <2>1, <2>2
<1>6. Settled
  BY <1>5 DEF Settled
<1>7. StoreMatches'
  BY <1>1, <1>2, <1>6, StoreStays DEF FInv
<1>8. SUFFICES ASSUME Clean'
               PROVE  /\ \A v \in Worker : OwnAnswer(v)'
                      /\ \E L, C \in SUBSET Request : Ledger(L, C)'
  BY <1>7 DEF FInv
<1>9. /\ sent[i] = 0 /\ sent'[i] = 1 /\ request[i].pc = "raised"
      /\ \A k \in Request : k # i => sent'[k] = sent[k]
      /\ early = {}
  <2>1. sent[i] \in Nat /\ sent'[i] = sent[i] + 1
        /\ \A k \in Request : k # i => sent'[k] = sent[k]
    BY <1>1, <1>2
  <2>2. sent[i] + 1 <= 1 /\ early' = {}
    BY <1>8, <2>1 DEF Clean
  <2>3. QED
    BY <1>2, <2>1, <2>2
<1>10. Clean
  BY <1>1, <1>8, <1>9 DEF Clean
<1>11. \A v \in Worker : OwnAnswer(v)
  BY <1>10 DEF FInv
<1>12. \A k \in Request : sent[k] = 1 => sent'[k] = 1
  BY <1>9
<1>13. \A v \in Worker : handler[v].pc # "idle" => handler[v].from \in Request
         /\ handler[v].from # i
  BY <1>9, <1>11 DEF OwnAnswer, TInv, Holds
<1>14. PICK L \in SUBSET Request, C \in SUBSET Request : Ledger(L, C)
  BY <1>10 DEF FInv
<1>15. i \notin C
  BY <1>9, <1>14 DEF Ledger
<1>16. /\ \A k \in L : /\ request'[k].effect = request[k].effect
                       /\ request'[k].pc \in {"storing", "raised", "lost"}
       /\ \A k \in Request : request'[k].pc \in {"storing", "raised"} =>
            request[k].pc \in {"storing", "raised"}
       /\ \A k \in C : sent'[k] = sent[k]
  BY <1>5, <1>9, <1>14, <1>15 DEF Ledger
<1>17. Cardinality(L) <= raised' /\ closed' = closed /\ comp' = comp
  BY <1>2, <1>14 DEF Ledger
<1>18. ASSUME \A v \in Worker : handler'[v].pc # "idle" =>
                handler'[v] = handler[v] \/ handler'[v].from = i
       PROVE  Ledger(L, C)'
  <2>1. \A v \in Worker : handler'[v].pc # "idle" => handler'[v].from \notin C
    BY <1>14, <1>15, <1>18 DEF Ledger
  <2>2. QED
    BY <1>6, <1>14, <1>16, <1>17, <2>1, LedgerStays
<1>19. CASE UNCHANGED handler
  <2>1. \A v \in Worker : OwnAnswer(v)'
    BY <1>6, <1>11, <1>12, <1>19, OwnStays
  <2>2. Ledger(L, C)'
    BY <1>18, <1>19
  <2>3. QED
    BY <2>1, <2>2
<1>20. ASSUME NEW pc \in {"mark", "resolve", "grant"}, Moves(pc), stored # 0,
              UNCHANGED request
       PROVE  /\ \A v \in Worker : OwnAnswer(v)'
              /\ \E M, D \in SUBSET Request : Ledger(M, D)'
  <2>1. /\ handler'[w].pc = pc /\ handler'[w].from = i /\ handler'[w].of = stored
        /\ \A v \in Worker : v # w => handler'[v] = handler[v]
    BY <1>1, <1>20 DEF Types
  <2>2. \A v \in Worker : OwnAnswer(v)'
    <3> SUFFICES ASSUME NEW v \in Worker, handler'[v].pc # "idle" PROVE OwnAnswer(v)'
      BY DEF OwnAnswer
    <3>1. CASE v = w
      <4>1. \A u \in Worker : u # w /\ handler'[u].pc # "idle" => handler'[u].from # i
        BY <1>13, <2>1
      <4>2. QED
        BY <1>3, <1>9, <1>20, <2>1, <3>1, <4>1 DEF OwnAnswer
    <3>2. CASE v # w
      <4>1. handler'[v] = handler[v] /\ handler[v].from # i
            /\ handler[v].from \in Request /\ OwnAnswer(v)
        BY <1>11, <1>13, <2>1, <3>2
      <4>2. sent'[handler[v].from] = sent[handler[v].from]
        BY <1>9, <4>1
      <4>3. \A u \in Worker : u # v /\ handler'[u].pc # "idle" =>
              handler'[u].from # handler[v].from
        BY <2>1, <4>1 DEF OwnAnswer
      <4>4. QED
        BY <1>20, <4>1, <4>2, <4>3 DEF OwnAnswer
    <3>3. QED
      BY <3>1, <3>2
  <2>3. Ledger(L, C)'
    BY <1>18, <2>1
  <2>4. QED
    BY <2>2, <2>3
<1>21. QED
  BY <1>4, <1>19, <1>20

\* Handlers that do not end an escalation.  What escalates an effect is a plan of it
\* that a handler executes: its request is still in the ledger.
LEMMA HandlerF ==
  ASSUME TInv, FInv, NEW w \in Worker,
         Mark(w) \/ Grant(w) \/ Gated(w) \/ Succeed(w) \/ Fail(w)
  PROVE  FInv'
<1>1. /\ handler[w].pc # "idle" /\ UNCHANGED <<request, store, sent, early, closed>>
  BY DEF Mark, Grant, Gated, Succeed, Fail
<1>2. /\ Types /\ Typed /\ handler[w] \in HandlerType /\ raised \in Nat
      /\ handler[w].of \in Request
  BY <1>1, BusyHolds
<1>3. PICK h \in HandlerType :
        /\ handler' = [handler EXCEPT ![w] = h]
        /\ h.pc # "idle" => h.from = handler[w].from /\ h.of = handler[w].of
  <2>1. Idle \in HandlerType /\ Idle.pc = "idle"
    BY DEF Idle, HandlerType
  <2>2. ASSUME NEW pc \in {"resolve", "execute"}
        PROVE  /\ [handler[w] EXCEPT !.pc = pc] \in HandlerType
               /\ [handler[w] EXCEPT !.pc = pc].from = handler[w].from
               /\ [handler[w] EXCEPT !.pc = pc].of = handler[w].of
    BY <1>2 DEF HandlerType
  <2>3. /\ [handler[w] EXCEPT !.pc = "resolve", !.executed = TRUE] \in HandlerType
        /\ [handler[w] EXCEPT !.pc = "resolve", !.executed = TRUE].from = handler[w].from
        /\ [handler[w] EXCEPT !.pc = "resolve", !.executed = TRUE].of = handler[w].of
    BY <1>2 DEF HandlerType
  <2>4. \/ handler' = [handler EXCEPT ![w] = Idle]
        \/ \E pc \in {"resolve", "execute"} :
             handler' = [handler EXCEPT ![w] = [handler[w] EXCEPT !.pc = pc]]
        \/ handler' = [handler EXCEPT ![w] =
                         [handler[w] EXCEPT !.pc = "resolve", !.executed = TRUE]]
    BY <1>2 DEF Mark, Grant, Gated, Succeed, Fail, Finish, Throw, Types
  <2>5. QED
    BY <2>1, <2>2, <2>3, <2>4
<1>4. \A v \in Worker : handler'[v].pc # "idle" =>
        /\ handler[v].pc # "idle"
        /\ handler'[v].from = handler[v].from /\ handler'[v].of = handler[v].of
  <2>1. handler'[w] = h /\ \A v \in Worker : v # w => handler'[v] = handler[v]
    BY <1>2, <1>3 DEF Types
  <2>2. QED
    BY <1>1, <1>3, <2>1
<1>5. PICK r \in {0, 1} : raised' = raised + r
  BY <1>2 DEF Mark, Grant, Gated, Succeed, Fail, LogRaised
<1>6. comp' = comp \/ \E s : comp' = [comp EXCEPT ![Stored(w).effect] = s]
  BY DEF Mark, Grant, Gated, Succeed, Fail, LogRaised
<1>7. \A e \in Effect : comp'[e] = "escalated" =>
        \/ comp[e] = "escalated"
        \/ \E v \in Worker : handler[v].pc # "idle"
                             /\ request[handler[v].of].effect = e
  BY <1>1, <1>2, <1>6 DEF Stored, Typed
<1>8. Settled
  BY <1>1 DEF Settled
<1>9. StoreMatches'
  BY <1>1, <1>2, <1>8, StoreStays DEF FInv
<1>10. /\ \A i \in Request : request[i].pc \in {"storing", "raised", "lost"} =>
            /\ request'[i].effect = request[i].effect
            /\ request'[i].pc \in {"storing", "raised", "lost"}
       /\ \A i \in Request : request'[i].pc \in {"storing", "raised"} =>
            request[i].pc \in {"storing", "raised"}
  BY <1>1
<1>11. r \in Nat
  OBVIOUS
<1>12. QED
  BY <1>1, <1>4, <1>5, <1>7, <1>8, <1>9, <1>10, <1>11, FStays

\* escalation_resolved takes the effect of a request off the escalated ones, and the
\* request off those that stand for one.
LEMMA ResolveF ==
  ASSUME TInv, FInv, NEW w \in Worker, Resolve(w)
  PROVE  FInv'
<1> DEFINE e == request[handler[w].of].effect
<1>1. /\ handler[w].pc = "resolve" /\ UNCHANGED <<request, store, sent, early, raised>>
      /\ closed' = closed + 1
      /\ comp' = [comp EXCEPT ![e] = "manually_resolved"]
      /\ handler' = [handler EXCEPT ![w] = Idle]
  BY DEF Resolve, Stored
<1>2. /\ Types /\ Typed /\ closed \in Nat /\ raised \in Nat /\ handler[w].from \in Request
  BY <1>1, BusyHolds DEF Holds
<1>0. PICK i \in Request : i = handler[w].from
  BY <1>2
<1>3. handler'[w].pc = "idle" /\ \A v \in Worker : v # w => handler'[v] = handler[v]
  BY <1>1, <1>2 DEF Types, Idle
<1>4. Settled
  BY <1>1 DEF Settled
<1>5. StoreMatches'
  BY <1>1, <1>2, <1>4, StoreStays DEF FInv
<1>6. SUFFICES ASSUME Clean
               PROVE  /\ \A v \in Worker : OwnAnswer(v)'
                      /\ \E L, C \in SUBSET Request : Ledger(L, C)'
  BY <1>1, <1>5 DEF FInv, Clean
<1>7. \A v \in Worker : OwnAnswer(v)
  BY <1>6 DEF FInv
<1>8. \A v \in Worker : OwnAnswer(v)'
  BY <1>1, <1>3, <1>4, <1>7, OwnStays
<1>9. PICK L \in SUBSET Request, C \in SUBSET Request : Ledger(L, C)
  BY <1>6 DEF FInv
<1>10. /\ request[i].pc = "raised" /\ sent[i] = 1 /\ request[i].effect = e
       /\ i \in L /\ i \notin C
       /\ \A v \in Worker : handler'[v].pc # "idle" => handler'[v].from # i
  <2>1. OwnAnswer(w) /\ handler[w].pc # "idle"
    BY <1>1, <1>7
  <2>2. request[i].pc = "raised" /\ sent[i] = 1 /\ request[i].effect = e
    BY <1>0, <2>1 DEF OwnAnswer
  <2>3. i \in L /\ i \notin C
    BY <1>0, <1>9, <2>1, <2>2 DEF Ledger
  <2>4. \A v \in Worker : handler'[v].pc # "idle" => handler'[v].from # i
    BY <1>0, <1>3, <2>1 DEF OwnAnswer
  <2>5. QED
    BY <2>2, <2>3, <2>4
<1> DEFINE D == C \cup {i}
<1> HIDE DEF e
<1>11. closed' <= Cardinality(D)
  <2>1. IsFiniteSet(C)
    BY FS_Subset, Counts DEF TInv, Balanced
  <2>2. Cardinality(C) \in Nat /\ closed <= Cardinality(C)
        /\ Cardinality(D) = Cardinality(C) + 1
    BY <1>9, <1>10, <2>1, FS_CardinalityType, FS_AddElement DEF Ledger
  <2>3. closed + 1 <= Cardinality(D)
    BY <1>2, <2>2
  <2>4. QED
    BY <1>1, <2>3
<1>12. \A x \in Effect : comp'[x] = "escalated" =>
         \E j \in L : j \notin D /\ request[j].effect = x
  <2> SUFFICES ASSUME NEW x \in Effect, comp'[x] = "escalated"
               PROVE  \E j \in L : j \notin D /\ request[j].effect = x
    OBVIOUS
  <2>1. x # e /\ comp[x] = "escalated"
    BY <1>1, <1>2 DEF Typed
  <2>2. PICK j \in L : j \notin C /\ request[j].effect = x
    BY <1>9, <2>1 DEF Ledger
  <2>3. QED
    BY <1>10, <2>1, <2>2
<1>13. Ledger(L, D)'
  <2>1. L \subseteq Request /\ D \subseteq L /\ Cardinality(L) <= raised'
    BY <1>1, <1>9, <1>10 DEF Ledger
  <2>2. /\ \A j \in L : request'[j].pc \in {"storing", "raised", "lost"}
        /\ \A j \in Request : request'[j].pc \in {"storing", "raised"} => j \in L
    BY <1>1, <1>9 DEF Ledger
  <2>3. \A j \in D : /\ request'[j].pc = "raised" /\ sent'[j] = 1
                     /\ \A v \in Worker : handler'[v].pc # "idle" => handler'[v].from # j
    BY <1>1, <1>3, <1>9, <1>10 DEF Ledger
  <2>4. \A x \in Effect : comp'[x] = "escalated" =>
         \E j \in L : j \notin D /\ request'[j].effect = x
    BY <1>1, <1>12
  <2> HIDE DEF D
  <2>5. QED
    BY <1>11, <2>1, <2>2, <2>3, <2>4 DEF Ledger
<1>14. D \in SUBSET Request
  BY <1>9
<1>15. QED
  BY <1>8, <1>13, <1>14

\* A crash loses no request that was logged from the ledger.
LEMMA CrashF ==
  ASSUME TInv, FInv, Crash
  PROVE  FInv'
<1>1. Types /\ raised \in Nat
  BY DEF TInv, Typed
<1>2. /\ store' = [k \in Key |-> 0] /\ handler' = [w \in Worker |-> Idle]
      /\ UNCHANGED <<comp, sent, early, closed, raised>>
  BY DEF Crash
<1>3. \A i \in Request :
        \/ request'[i] = request[i] /\ request[i].pc \notin {"logging", "storing"}
        \/ /\ request[i].pc \in {"logging", "storing"}
           /\ request'[i].pc = "lost" /\ request'[i].effect = request[i].effect
  <2> SUFFICES ASSUME NEW i \in Request
               PROVE \/ /\ request'[i] = request[i]
                        /\ request[i].pc \notin {"logging", "storing"}
                     \/ /\ request[i].pc \in {"logging", "storing"}
                        /\ request'[i].pc = "lost"
                        /\ request'[i].effect = request[i].effect
    OBVIOUS
  <2>1. request[i] \in RequestType
    BY <1>1 DEF Types
  <2>2. request'[i] = IF request[i].pc \in {"logging", "storing"}
                      THEN [request[i] EXCEPT !.pc = "lost"] ELSE request[i]
    BY DEF Crash
  <2>3. QED
    BY <2>1, <2>2 DEF RequestType
<1>4. Settled
  BY <1>3 DEF Settled
<1>5. StoreMatches'
  BY <1>2 DEF StoreMatches
<1>6. \A w \in Worker : handler'[w].pc = "idle"
  BY <1>2 DEF Idle
<1>7. raised' = raised + 0
  BY <1>1, <1>2
<1>8. /\ \A i \in Request : request[i].pc \in {"storing", "raised", "lost"} =>
           /\ request'[i].effect = request[i].effect
           /\ request'[i].pc \in {"storing", "raised", "lost"}
      /\ \A i \in Request : request'[i].pc \in {"storing", "raised"} =>
           request[i].pc \in {"storing", "raised"}
  BY <1>3
<1>9. QED
  BY <1>2, <1>4, <1>5, <1>6, <1>7, <1>8, FStays

LEMMA FStep == TInv /\ FInv /\ [Next]_vars => FInv'
<1> SUFFICES ASSUME TInv, FInv, [Next]_vars PROVE FInv'
  OBVIOUS
<1>1. CASE UNCHANGED vars
  BY <1>1 DEF vars, FInv, StoreMatches, KeyOf, Clean, OwnAnswer, Ledger
<1>2. QED
  BY <1>1, EscalateF, KeepF, LogF, ReceiveF, HandlerF, ResolveF, CrashF DEF Next

\* What no closed request stands for is still open in the count.
LEMMA FImplies == TInv /\ FInv => NothingForgotten
<1> SUFFICES ASSUME TInv, FInv, Clean, NEW e \in Effect, comp[e] = "escalated"
             PROVE  open_escalations > 0
  BY DEF NothingForgotten, Clean
<1>1. PICK L \in SUBSET Request, C \in SUBSET Request : Ledger(L, C)
  BY DEF FInv
<1>2. IsFiniteSet(L) /\ C \subseteq L /\ L # C
  BY <1>1, FS_Subset, Counts DEF TInv, Balanced, Ledger
<1>3. /\ Cardinality(C) \in Nat /\ Cardinality(L) \in Nat
      /\ Cardinality(C) <= Cardinality(L) /\ Cardinality(C) # Cardinality(L)
  BY <1>2, FS_Subset, FS_CardinalityType
<1>4. closed <= Cardinality(C) /\ Cardinality(L) <= raised /\ closed \in Nat
      /\ raised \in Nat
  BY <1>1 DEF Ledger, TInv, Typed
<1>5. raised - closed > 0
  BY <1>3, <1>4
<1>6. QED
  BY <1>5 DEF open_escalations

\* status, as shown by the CLI: unless an answer was delivered twice or came before its
\* request was raised, an escalated effect shows in the count of open escalations, for
\* any raises, answers, handlers and crashes.
THEOREM NoneIsForgotten == Spec => []NothingForgotten
  BY TInit, TStep, FInit, FStep, FImplies, PTL DEF Spec

=============================================================================
