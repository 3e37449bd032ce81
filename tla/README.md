# VekRevert: specifications, model checks and proofs

VekRevert records what an agent's tool calls did to the world and, when a
workflow (a *saga*) fails, compensates the effects from the newest to the
oldest, or hands them to a human. What is hard to get right in it is not any
one function but what several calls do together: leases that expire while a
step is running, a coordinator that answers late or not at all, an undo that is
called again after it stopped half way, a probe that is asked long after the
fact, a plan approved after another has taken its place. This directory models
that part of the system in TLA+, and the rules by which it decides what can be
undone and how; it checks them with TLC on small instances, and proves with TLAPS
what the coordinator, the executor, undo, capture, the inbox, the hosted ledger and
these rules promise.

All paths below are relative to the repository; `sdk-ts/src` is where the engine
lives.

## 1. The system

### Components

| Component | State it keeps | Operations | Why it is hard | What makes it correct |
|---|---|---|---|---|
| **Coordinator** `coordinate/store.ts`, `server.ts` | per resource: a lease row, a fence high-water mark, a claim row | acquire, renew, release, get; conflict (intent, commit, VR5006 report) | clients are other processes: requests come late, twice, or from a holder that was stolen from | fences never repeat; one committed winner per resource; a live lease protects its claim |
| **Local leases** `ledger/types.ts`, `engine/lease.ts` | lease table of the memory, JSONL and SQL ledgers | acquireAll, releaseAll, heartbeatAll, inspectFence | multi-key acquisition with back-off, heartbeats against expiry, two clocks' comparison operators (`<`, `>`) | all or nothing, no leak, mutual exclusion while nobody's lease has expired |
| **Executor** `engine/execute.ts`, `step.ts`, `idempotency.ts` | attempt rows by idempotency key; what it holds in local variables | executePlan: gates, leases, intents, per step (append or take over the attempt, fence check, call, record), postconditions, commit, catch, finally | every `await` is an interleaving point; checks and acts are apart; retries; takeovers after expiry | no step called twice without an expiry; "executed" means it landed; the log matches the answer; it ends |
| **Probe** `engine/probe.ts` | none | landed / not_landed / unknown | answers about the effect, is asked about the attempt | an answer may not turn into a success that never was |
| **Undo** `engine/undo.ts`, `saga.ts` | saga status, effect rows (read once at the start) | undoSaga: select, resolve doubts, compile, execute, escalate, report | halts, errors, crashes and repeats; stale rows; events and row upserts side by side | LIFO order across calls; undone means settled; final states are final; reports are true |
| **Projection fold** `ledger/types.ts` | effect and saga rows as a function of the log | applyEventToProjections, rebuildProjections | rows are also upserted directly | a rebuild changes nothing that matters |
| **Effect capture** `effect.ts` | effect row opened / landed / in_doubt / abandoned; chain head | effect(), openEffect, closeEffect, off-path classifier, reconcileOpenedAsInDoubt | a crash at any await; concurrent effects of one saga | nothing that landed is forgotten; seq is a total order |
| **Receipt chain** `packages/core/src/chain.ts`, `appendChained` | hash-linked events per saga | append, verify, anchor | read-head, await, append | the chain does not fork |
| **Hosted ledger client** `ledger/http.ts` | a local chain, a buffer, the batch being posted, a timer | append, flushPending, scheduleFlush, close | lost posts and answers, appends while a flush is under way | the server has a prefix of the log, a write-ahead event is there when its append returns, close says what is missing |
| **Escalation** `escalate/sink.ts`, `vekinbox.ts` | stored escalations | raise, onResume (approve, decline, mark) | an approval arrives long after the state it was asked about | approved plans are the ones executed, once |
| **Taxonomy** `core/taxonomy.ts`, `sqlkind.ts` | none | classifyStructural, classifyAction, joinTier, the policy before the call | many rules, answers and pre-images change the tier after the call | what lands is recorded and can be found; unknown is T4 |
| **Registry** `registry.ts`, `core/match.ts` | manifests in memory | register, match | a manifest is code of somebody else's; order of preference | only what passes the gate gets in; in hosted mode only what is signed is used |
| **Plan compiler** `core/plan.ts`, `compensators/` | none | compilePlan and its gates, the lowering of the builtin compensators | references are resolved later and again | a plan stays with the resource it is about |
| **Drafter, verifier, gate** `verify/` | verification records by plan hash, model calls spent | draft, verify, the gate of execute and undo | a model's proposals and a model's opinions, caches, budgets, modes | neither can get a plan past the four questions |
| **Public API** `index.ts` | plans by id, the configuration | plan, verify, execute, undo, escalate, onResume, status | calls in any order | what was planned is what is executed; a full reversal restores |
| **Storage, preimages, redaction, canonical JSON, CLI, Python SDK** | files, tables | I/O | | |

### Interactions

`undoSaga` reads the effect rows once, walks them, and calls `executePlan` for
each. `executePlan` takes leases at the local ledger, or at the coordinator when
`coordinatorUrl` is set (`attachCoordinatorLeases` replaces the four lease calls
of the ledger and nothing else, so attempts and events always stay local), and
writes attempt rows and events. Appending an event folds it into the rows that
the next undo will read, so the executor changes state that the undo above it
holds a stale copy of. `raise` writes an escalation that a human answers through
`onResume`, at any later time; an approval puts the plan it holds into the table
`plans` and executes it. The tier and the compensation state that capture seals into
a receipt decide what the undo will look at; the manifest that matches when a plan is
made is looked up again when it is executed.

## 2. Modules

| Module | Models | Checked by |
|---|---|---|
| `LeaseStore` | the lease tables of all three keepers and the claim table; no specification of its own | the two below |
| `Coordinator` | the coordinator under arbitrary clients | `coordinator`, `CoordinatorProofs` |
| `Executor` | `executePlan` and the lease engine, on top of `LeaseStore` | `executor`, `executor_coordinator`, `executor_silent_success`, `ExecutorProofs` |
| `Undo` | `undoSaga`, the fold of its events, the human | `undo`, `UndoProofs` |
| `UndoSpec` | what an undo promises to those who read the ledger; `Undo` implements it | `undo` (`ImplementsUndoSpec`), `UndoProofs` |
| `EffectLog` | capture: `saga.effect`, the append of an event, `resumeSaga`, `saga.close`, replay | `effect_log`, `effect_log_crash`, `EffectLogProofs`, `EffectRowProofs` |
| `Inbox` | escalations, their answers by webhook, approvals that execute a plan | `inbox`, `InboxProofs` |
| `HostedLedger` | the client of the hosted ledger and its server | `hosted`, `HostedProofs` |
| `Taxonomy`, `Compiler`, `Verifier`, `Registry` | the rules, as operators: classification, the gates of a plan, drafts and verification, manifests. No state | through `Reversal` |
| `Reversal` | one call of the agent and what is done about it, from capture to a restored resource, over these four | `reversal`, `reversal_wrong_plan`, `reversal_restored`, `ReversalProofs` |
| `MCCoordinator`, `MCExecutor`, `MCUndo`, `MCEffectLog`, `MCInbox`, `MCHosted`, `MCReversal` | instances for TLC | |

`Executor` composes the lease engine with whichever keeper `Keeper` names:
`LeaseStore` gives each keeper its own grant rule, and the coordinator its
claims.

### LeaseStore and Coordinator

`now` is the clock every keeper compares `expires_at` with; time is an integer
and an ISO string is its order. `lease[k]` is the row of `coord_leases` (or
`leases`), `highWater[k]` of `coord_fence_hw`, `claim[k]` of `coord_claims`. A
row is expired from the tick it names on (`expires_at > now` means live), but the
SQL sweep deletes it one tick later (`expires_at < now`); both comparisons are
kept. `PriorFence` is where the keepers differ: the coordinator counts on from
its mark, a ledger from the row it still has.

`Coordinator` lets any client send any request for any fence it was ever granted,
at any time. That is what a delayed or duplicated packet is, so no network is
needed. `granted` and `told` are history: what acquire returned, and which
commits were answered "winner". The server handles one request at a time (one
event loop, synchronous SQLite), hence one action per request. Requests that are
refused change nothing and are not actions.

### Executor

One holder is one call of `executePlan`. `run[r]` is its control state: `pc` names
the await it stands at, `pos` the key of a loop over keys, `at` the step,
`fence` what `held.fences` has, `id` the attempt id of the row in hand, `code`
what is about to be thrown. `attempt` is the attempts table by idempotency key
(plan and step). `calls`, `log` and `faults` are history: the calls made and
whether they took effect, the events and escalations by run, and whether any
lease ever expired ("lapse") or any request was lost ("lost"), so that a property
can say "unless a lease expired" and be exact about it.

- `Refuse` stands for all the gates before the leases (drafted, verifier, T4,
  cascade risk): each escalates and returns or throws.
- `Acquire`, `AcquireRefused`, `ReleaseNext`, `Unwound`, and `Clock` for the
  sleep, are `acquireAll` key by key. A lost answer may leave the lease granted.
- `Intent`, `IntentLost`, `Commit` and `Fail` talk to the claims.
- `AppendAttempt` and `TakeOver`, `Started`, `Poll`, `MarkInDoubt`, `Probe` are
  the duplicate-key path (`handleExistingAttempt` and what follows it).
- `CheckFence` looks at one key at a time; `CallStep` comes later, and retries
  without another look; `Record` later still.
- `Heartbeat` may happen at any time in the try block; `Crash` anywhere.

Simplifications, each of them towards fewer states and none of them a guard: a
heartbeat renews its keys in one step; an event and the append it makes are one
step; `Wait` and `Ttl` are small integers; the HTTP error a lost request
produces is the code the client maps it to.

### Undo

One element of `Undoer` is one caller; after a call ends it may call again, so
runs contain any number of undos. `proj` is the effects table, `fold` what
`rebuildProjections` would compute from the log: every event changes both, a
direct `upsertEffect` only `proj`. `call[u].rows` is the copy that undoSaga read
at its beginning and upserts whole, with every consequence. `executePlan` is one
step that answers ok, not ok, throws, throws VR5010 (which undoSaga does not
catch) or VR2020, and has folded the matching event into the row. An event and
the upsert next to it are one step. The rows are those of a SQL ledger: a copy,
where the memory ledger would hand out its own objects.

### EffectLog

One saga in a SQL ledger. `log` is `receipt_events` (an event is known by its
place in the order of insertion, `pos` is its `chain_seq`, `prev` the event whose
hash it carries), `rows` the effects table, `saga` the three fields of the saga's
row that appending depends on (`next_seq`, `chain_len`, `chain_head`), `inflight`
the map of `capture/inflight.ts`. `fold` and `order` are functions of the log,
kept along with it: what its events make of each effect, and in which order the
effects first came.

- `ReadHead`, `Insert`, `PutSaga`, `PutRow` are one append: `appendChained` reads
  the saga's row, then `append` inserts the event, reads the rows again, and
  writes the saga's row and the effect's row, each whole. `Collide` and
  `SeqCollides` are the two UNIQUE constraints, `AppendFails` any other failure.
  A task appends the events in `app[t].todo` one by one; what it does next it
  decides when they are done or one has failed. The reads after the insert are
  part of `Insert`: the steps that may come between them write rows without
  looking at the log, and are as possible before the insert.
- `OpenUnrecorded`, `Link`, `Open` begin a call, in the three ways openEffect
  goes; `NotLogged` (VR2002), `Enrich` and `Enriched` (the row is read, completed
  and written back), `Block` and `Admit` (policy) follow; then `Run`, `Close`,
  and `Seal`, or `Degrade` and `Rewrite` when an append failed. `CloseThrows` is
  the catch of `saga.effect`.
- `OffPath`, `RaiseTier`, `Reclassified` are the classifier, after the caller has
  its answer. `Resume` to `Marked` are `resumeSaga` in a process that takes over
  after the first one has died. `ReadSaga` and `PutStatus` are `saga.close`, and
  the write with which `undoSaga` begins.
- `Crash` kills every task; `Replay` is `vekrevert replay` while nothing else is
  at work.

Abstracted: an intent stands for action, arguments and intent key alike; events
the fold does not look at are all `"note"`; of a row only `status`, `sealed` and
whether a compensation is available are kept. A run that is known to have failed
(`"refused"`) is taken not to have landed; one whose answer is lost may have
landed or not. The caller awaits `saga.effect` before it calls `saga.close`, and
`resumeSaga` runs only after the process before it has ended: with two live
processes, resuming marks effects in doubt that are still running.

### UndoSpec

Two variables: what each effect still owes (`mark`), and what the saga's row says
(`verdict`). An effect is settled at most once and for good, one in doubt may be found
to owe something or nothing, and "undone" needs that nothing is owed. `Undo` refines
it by the mapping `Abstract`, which reads `mark` off the effects table; every step of
a call, a crash, or an executePlan maps to one of its steps or to a stutter. The
table of transitions in undo.ts:33-44 says more than `UndoSpec`, and not all of it
is true (section 4).

### Inbox

`request[i]` is one call of `raise`, with the effect, reason and plan it was made
for and how far it got: the post to the inbox comes before the append, the append
before the entry in memory. `store` is that memory, by saga, seq and reason, so that
a second raise takes the place of the first. `answer` and `sent` are outside: what
the human said, and how often the webhook was delivered. `handler[w]` is one
`onResume`, which stops at its awaits (`delivered` counts the webhooks, `sent` those of
each request): `Mark`, `Resolve`, `Grant`, then `Succeed`,
`Fail`, `Gated` or `Done`, as executePlan answers. `Crash` loses memory and handlers.
A plan is known by its hash; `Kind` says what executePlan will do with it.

### HostedLedger

`log` is the local chain, `pending` the buffer, `batch` what is being posted (`at`
counts the events of it the server has answered), `server` what is stored there by
chain_seq. `ReadHead`, `ReadPrior`, `Push` are one append of a write-ahead event or
another one, whose reads are apart; `Refused` is the local check of the chain.
`Timer`, `Push` and `Close` start a flush; `Posted` posts one event of it, which the
server may store or have already, `PostFails` puts back what is left, whether the
server got it or not. `Die` is the end of the process.

### Reversal and the rules

`world[e]` is the resource the call of effect `e` is about: what was there before the
call and what is there now, in four words (`gone`, `old`, `new`, `other`). That is
what compensation is about, and it is enough to say whether it restored anything. A
place in the world is known by where it stands to that resource (`own`, `below`, its
`collection`, `elsewhere`, ...), which is all that the gates of the compiler and the
questions of the verifier ask about urls, tables and paths. A SQL text is the sequence
of its words, an answer a status, what it names and how it threw, a pre-image one of
five words.

- `Capture` is openEffect, the call and closeEffect: the pre-image, the tier before
  the call and the policy on it, the call, the tier and the compensation state after it.
- `PlanMatched` and `PlanDrafted` are `VekRevert.plan`, `Execute`
  is `VekRevert.execute` with a plan id somebody was given, `UndoMatched` and
  `UndoDrafted` the same engine as an undo reaches it. Each is one step here and
  opened up in `Executor` and `Undo`.
- `Register` is the application, at any time; `Lapse` a window that ends.
- Which draft the drafter's model proposes and what the verifier's model says are
  arbitrary choices from `Proposals` and `Opinions`.

`Taxonomy`, `Compiler`, `Registry` and `Verifier` have an operator for every rule,
under the code's name. They are checked through the steps that use them, not each
against a second definition of its own: what a rule must be good for is what
`UndoCanSee`, `NothingElseTouched`, `GateHolds` and `RestoredIfFull` say. `Call`,
`Answer`, `Step` and `Manifest` are the shapes the code declares for its inputs.

Three of the four properties hold on a condition, which `Reversal` states next to
them: `Recognized` and `Timely`, `AllStayHome`, `Restorable`. Each excludes calls,
answers or manifests which the code lets in and for which the property is false
(section 4). `MCReversal` has the calls and manifests of the run evaluated against
them (`ConditionsAreMet`), and the theorems assume them.

## 3. What is checked

Every property below has been checked against a deliberately wrong variant of the
definition it guards (`..._NoCommitCheck`, `..._OffByOne` and so on, each with a
comment that says what bug it is), and TLC finds it violated there.

| Run | Bounds | States | What it shows |
|---|---|---|---|
| `coordinator` | 2 keys, 2 holders, TTL 2, clock to 3, fences to 3, symmetric | 92 thousand | `RowIsNewestGrant`, `FenceNeverReused`, `OneCommittedWinner`, `ClaimFollowsLiveLease` hold under any order of requests |
| `executor` | 2 runs of one plan, 1 key, 2 steps, 2 tries, SQL leases, TTL 2, clock to 3, one run may die | 3.5 million | `OneAttemptId`, `SecondCallerNeedsLapse`, `ExecutedMeansLanded`, `ExclusiveCalls` |
| `executor_coordinator` | 2 sagas on the same 2 keys, coordinator, requests and answers lost, 1 step, 1 try, TTL 1, clock to 1, one run may die, with fairness | 442 thousand | `ClaimedBeforeCall`, `OneOkPerFirstKey`, `NoLeak`, `VerdictMatchesLog`; `Ends`: every run ends |
| `undo` | 3 effects, one independent, one caller at a time, unlimited calls | 2.9 million | `LifoOrder`, `ReportIsTrue`, `RebuildAgrees`; `ImplementsUndoSpec`: settled once and for good, undone only when nothing is owed |
| `effect_log` | 2 concurrent calls, 2 intents (one with a compensator), no crash, no fault, symmetric | 3.0 million | `ChainIntact`, `HeadFollowsLog`, `NothingLandedIsLost` |
| `effect_log_crash` | 2 calls one after the other, 1 intent, 1 crash, 1 failing statement, 1 replay | 3.3 million | `NothingLandedIsLost`, `ResumedIsVisible`, `RowsAgreeWithLog` |
| `inbox` | 2 effects, 3 plans (one runs, one is gated, one is refused), 2 reasons, 3 requests of which 2 by `escalate`, 3 webhooks, 2 handlers | 2.0 million | `ApprovalBinds`, `ExecutedOnce`, `NothingForgotten` |
| `hosted` | 2 appends at a time, 4 events, any number of lost posts and answers, one end of the process | 857 thousand | `SentInOrder`, `WriteAheadIsRemote`, `CloseSaysSo` |
| `reversal` | 2 effects, one of 19 calls with each of its answers, one a file write; 5 configurations, 3 manifests besides the builtin five, 3 proposed drafts, 4 opinions, 1 registration | 169 thousand | `UndoCanSee`, `NothingElseTouched`, `GateHolds`, `RestoredIfFull` |

Why the bounds are enough: two holders and three ticks with a TTL of two let a
lease expire, be stolen, released and granted again while the first holder is
still at work; two keys are needed for partial acquisition and for the release
loop to stop early; two steps for a takeover in the middle of a plan; three
effects for an order with something between the newest and the oldest, one of
them independent. `MaxFence` is large enough never to stop an acquire in the
Executor runs. Two calls are the least that race for a place on the chain and for
a `seq`; the runs of `EffectLog` split concurrency from failures because the
product is too large, so what a crash does to two calls in flight is only covered
by the proof about the chain. Three requests are needed for one to take another's
place under its key while a third is answered, three webhooks for one to come twice
next to another. Four events let a batch be posted, fail and be put in front of two
that came later. Two effects are the least for a plan of one to be run for the other;
their other interplay (order, leases) is that of `Undo` and `Executor`. `MaxTime` stops the clock; the deadlines of waiting runs count as
passed there, so nothing hangs on the bound. Deadlock is not checked: the bounded
clock and fences end the coordinator's behaviours, and runs and undo calls end
by design.

Fairness is assumed in `FairSpec` only: of the clock, and of each run's own steps.
It says that promises settle and timers fire, which Node's event loop gives; it
says nothing of leases being free, of requests getting through, or of other runs
surviving. A run that dies is no longer scheduled, and others must still end. `Ends`
is checked with `Ttl = 1` and the clock stopping after one tick: long enough for a lease
to expire while it is waited for, which is what a run that waits depends on.

## 4. Where the code does something else

### Disagreements that a run shows

- `executor_silent_success` (`NoSilentSuccess`): a run appends its attempt, loses
  its lease before calling the step and leaves the attempt in doubt; the next one
  probes, is told that the *effect* is there, takes it for the *compensation*
  having succeeded, and records compensation_executed (execute.ts:481). README.md:130
  promises explicit states, "never silent success".
- `reversal_wrong_plan` (`ExecutesWhatWasPlanned`): compilePlan calls every plan of a
  matched effect `cpl_pending` (plan.ts:104), and the table `plans` keeps one row per
  id. After `plan(a)` and `plan(b)`, `execute` of the id that `plan(a)` returned
  compensates `b`.
- `reversal_restored` (`RestoredIfFull`): `readPre` (capture/fs.ts:141) turns a file it
  cannot read into one that was not there. Its unlink is T2 with a full reversal; the
  reversal removes the file, which is gone already, and reports success. README.md:153
  files "deletes without preimage" under T4. The run `reversal` has no such file, and
  there the property holds.

### Stated and known to be false

These are definitions of the modules that no run lists. Each was found violated by
giving it to TLC in place of the properties of the configuration named.

- `Coordinator.StaleCommitLoses` (`Coordinator.cfg`): docs/coordination.md:402-409
  promise that a fenced holder's late commit loses. `conflict` never asks for the
  caller's own lease (store.ts:202-215): after the successor's lease has ended, the late
  commit wins and replaces the successor's claim. (`OneCommittedWinner` is what is
  left: it holds, because commits are only ever given once.)
- `Undo.EscalatedIsHuman` (`Undo.cfg`): retrying an undo over an escalated effect
  throws VR5012 after its event has moved the row to planned; the retry after that
  executes it. undo.ts:37 allows escalated to go to manually_resolved only.
- `Undo.CompensatedIsFinal` with two callers and `Overlap = TRUE`: the slower of two
  undos upserts its stale row over a compensated one. undo.ts:40 allows no
  transition out of compensated. Without overlap it is part of `ImplementsUndoSpec`,
  as is `UndoneMeansSettled`.
- `EffectLog.SuccessStaysSuccess` (`EffectLog.cfg` with one fault): closeEffect's last
  write is outside of its try. When it throws after a run that returned its
  value, `saga.effect` takes the ledger's error for the run's, closes the effect again
  as failed and throws (saga.ts:69); effect.ts:1029 says "never convert a successful
  run into failure".
- `Inbox.ResolvedMeansExecuted` (`Inbox.cfg`): onResume ignores that executePlan
  answered `ok: false` and logs the escalation as resolved with executed: true
  (vekinbox.ts:457).
- `Inbox.OnlyApprovals` (`Inbox.cfg`): any answer other than a refusal or
  `mark_manually_resolved`, "request_changes" included, falls through to the approval.
- `HostedLedger.NoSilentLoss` (`Hosted.cfg`): a close that finds all it has in a flush
  under way counts nothing as lost and says nothing; if that post fails,
  the events are gone without a word (http.ts:339). `CloseSaysSo` excepts this case.
- `Coordinator.FenceNeverReused` with `Keeper = "memory"`: the fence of an in-process
  ledger starts again at 1 after a release, where docs/coordination.md:126-138 say it
  does not.

### Found while modelling, outside the instances

- docs/coordination.md:535-536 say a plan on two keys commits two claims; `executePlan`
  commits `keys[0]` (`Commit` of `Executor`).
- `Replay` may end as `"failed"`: two concurrent effects may log the same `seq`, the
  second one's row is refused, and a later `rebuildProjections` deletes every row
  before it runs into the same constraint. The properties of `EffectLog` except it.
- `WITH x AS (SELECT ...) DELETE` is taken for a SELECT (sqlkind.ts:151): a T1 read, not
  recorded. With such a text in `SqlSituations`, `UndoCanSee` is violated. So it is for
  an http error that is not named as a timeout or transport error (effect.ts:166-192):
  its effect is `failed`, and an undo passes it by. `Recognized` excludes both.
- The callback forms of fs calls are recorded after they were made
  (capture/fs.ts:93). If the policy blocks by then, the change stays and its row is
  `opened`. `Timely` excludes that, and holds of the three calls in question (mkdir,
  rename, chmod) when their paths are within the writable roots and no LexShield is
  configured.
- A manifest may call itself builtin (registry.ts:407), and then needs no signature in
  hosted mode. One that names another host only in an MCP step is not refused, as the
  gate looks at its permits alone (plan.ts:634). `AllStayHome` excludes both.
- A PUT answered 200 with an id is matched by cmp_http_create, whose full reversal
  deletes what was updated (`Restorable` excludes it). A drafted UPDATE writes back the new values
  (drafter.ts, `args.set`); it is "full" to the verifier, and only the compiler stops it.
- A sufficiency word outside of the schema counts as better than "full"
  (verifier.ts:344), and callVerifierModel does not look at it: `OpinionsAssumption` is
  what keeps `ModelCannotGrant` true.
- The constants of a step are those of the manifest that matches at execution
  (execute.ts:341); its scope is not looked at again. What keeps a run from another
  host then is that no such manifest was let in, which is how
  `NothingElseIsTouched` is proved.
- Undo gives the verifier neither the mode nor the budget of the configuration; a
  record that was capped when the model was silent stays in the cache.
- A failed attempt bars its plan hash for good.

What `NothingLandedIsLost` allows is worth knowing: two concurrent effects may
collide on `chain_seq` while they close, which leaves one of them `opened`. It is
not lost, since a resume puts it in doubt, but an undo without one passes it by.

## 5. What is proved

`CoordinatorProofs` proves, for any sets of keys and holders, any TTL and any
bounds on time and fences:

| Theorem | Says | Assumes |
|---|---|---|
| `TypeCorrect` | `Spec => []TypeOK` | nothing about the keeper |
| `Inductive` | `Spec => []IInv` | the keeper is the coordinator |
| `NewestGrant` | a lease row is the newest grant of its key | the same |
| `OneWinner` | one commit per key is ever answered winner | the same |
| `FencesIncrease` | a grant's fence is above all earlier ones of the key | the same |
| `ClaimsFollowLeases` | a live lease protects its claim | nothing about the keeper |

The assumptions are `LeaseAssumption` (the constants have their types). None of
the properties is inductive: that a new fence is above all grants cannot be seen
from the row, which may be gone, so `IInv` adds that the mark bounds every grant
(`GrantsUnderMark`) and that a row is at the mark (`RowAtMark`); that a second
commit loses cannot be seen from the history, so it adds that the first one is
still on record (`WinnerIsOnRecord`). The assumption on the keeper is needed: the
memory ledger reuses fences.

`EffectLogProofs` and `EffectRowProofs` prove, for any number of calls, intents,
crashes, failing statements and replays:

| Theorem | Says | By |
|---|---|---|
| `ChainInductive` | `Spec => []ChainInv` | `ChainInv` |
| `ChainHolds` | the chain of a saga has no gap and no fork (`ChainIntact`) | `ChainInv` |
| `EffectTypeCorrect` | `Spec => []TypeOK` | `CInv` |
| `HeadIsAtTheEnd` | at rest the saga's row is at the end of the chain, unless an append was cut off or an old row was written over it (`HeadFollowsLog`) | `HeadInv` |
| `NothingIsLost` | neither the row nor the log denies a run that took effect (`NothingLandedIsLost`) | `AloneInv` |
| `RowsAgree` | with nothing at work and no append cut off, a row is what the log makes of it (`RowsAgreeWithLog`) | `AloneInv` |
| `ResumeMakesVisible` | after a resume an undo finds every landed effect whose call was over (`ResumedIsVisible`) | `ResumeInv` |

That an insert finds its place free says nothing of the head it carries, unless
the row it was read from is known: `ChainInv` adds that every copy of the saga's
row, stored, read by an append or held by `saga.close`, is `Behind` the log and
has a length that is not ahead of its head. An old row therefore names a place
that is taken; only a row at the end of the log names a free one, and its head is
the last event. The proof rests on `UNIQUE (saga_id, chain_seq)`, so it says
nothing of the memory and JSONL ledgers.

The types need to know what a task still has to append, for the row of an effect
moves by its event: `CInv` adds the events each place of a call may have left
(`EventOK`, and `ResumeOK` for the resume), that no call is at work while a
resume is (`Exclusive`), and that a seq is given out once per call that gets an
effect (`SeqBound`), so ids stay within their type. `HeadInv` is the
head of the saga's row while appends are under way: it is at the end of the log, or
one append has put its event there and has not written the row yet. `TableInv` says
that an effect has a row only if its opening is on the log, and that an append or a
call that holds a row holds one that exists. `AloneInv` follows an effect with
one call through all of it: what its row and the log say at each place of the call,
while it opens (`OpeningOK`), while the events of its close are appended one by one
(`ClosingOK`), and that only the append that has put an event on the log may
have the row differ from it (`AgreeOK`). `ResumeInv` says that what a resume saw landed
is visible to undo, or is still among the effects it has left to mark.

They assume `EffectLogAssumption` (finitely many calls, the types of the bounds) and
`NoEffectAssumption`, that the id of no effect is none.

`HostedProofs` proves, for any number of writers and events and any losses:

| Theorem | Says |
|---|---|
| `HostedTypes` | `Spec => []TypeOK` |
| `AlwaysSentInOrder` | the server has a prefix of the log, what it lacks is in the batch or the buffer, and without a fork its chain is the local one |
| `WriteAheadIsAlwaysRemote` | the append of a write-ahead event returns only when the server has the event |
| `CloseIsHonest` | a ledger that was closed has sent everything or has warned, unless a flush of others was under way (`CloseSaysSo`) |

That a batch is put back in the right place cannot be seen from what the server has:
`HInv` adds that buffer and batch are consecutive stretches of the log, the batch
before the buffer (`Stretch`), that the server has everything before them and may have
some of the batch (`Reached`), that every event is chained to the one at its head
(`Chained`), and that what is stored at a chain_seq is an event of that number
(`Stored`). `CloseInv` adds for the last theorem that a ledger that is closing awaits
a flush, and that one that was closed in good order has neither buffer nor batch.
They assume `HostedAssumption`, the types of the constants.

`ReversalProofs` proves, for any calls, answers, configurations, manifests, drafts and
opinions:

| Theorem | Says | Assumes |
|---|---|---|
| `ModelCannotGrant` | what the four questions refuse, no answer of the verifier's model lets pass | the model's words are those of the schema |
| `GateAlwaysHolds` | a draft ran only where drafts are allowed and with four good answers, nothing T4 ran, nothing that may cascade (`GateHolds`) | the same |
| `TypeCorrect` | `Spec => []TypeOK`; with it, that the builtin manifests are all let in, and the budget is not overdrawn | |
| `UndoAlwaysSees` | a call that changed something is `landed` or `in_doubt` in the ledger (`UndoCanSee`) | `Recognized`, `Timely` |
| `NothingElseIsTouched` | no run changes another host, drafts and builtin plans stay with their resource, and what runs on a hosted ledger is vouched for (`NothingElseTouched`) | `AllStayHome`; the model's words |
| `FullIsRestored` | a full reversal that ran has left what was there before the call (`RestoredIfFull`) | `Restorable` |

The invariant `GateInv` has to carry the verdict through the places a record rests in:
every cached record that passes was made for steps that pass (`Sound`), so was that of
every plan that was given out (`PlanSound`) and of every plan that ran (`RanSound`), and
a receipt, once sealed, does not change.

`TypeInv` is the invariant of the other four. `MemInv` says of the registry that every
manifest in memory was offered, passed the gate and has its id to itself (`Entry`), and
that the five builtin ones are among them. A sealed receipt is one of a
situation of its effect, an answer that situation may get and what could be captured
of it (`SealedFor`), which ties the receipt to what was there before. A
plan that was given out is a draft without constants, or was lowered from a manifest
that was let in and is meant for the receipt (`PlanFits`). What a run then does is
computed from the receipt, the plan and the manifest that matches *now* (`RanNow`).
Behind it stand lemmas on the rules: a plan that compiles passed every gate and the
other way round (`CompiledPasses`, `PassesCompile`); every call has a tier
(`ActionTier`) and is left unrecorded exactly if the rules take it for a read
(`UnrecordedReads`); the order of preference among manifests is strict and total, so a
first one exists and it fits (`BeforeOrders`, `FirstExists`, `MatchFits`); a draft with
four good answers has one changing step, at the resource of its effect (`PassIsHome`).

They assume `ReversalAssumption`, the types of the constants; `ShapeAssumption`, that
calls, answers, manifests and drafts have the shape declared for them;
`RankAssumption`, that manifests of equal rank have equal ids, rank being the place of
an id among the ids; and `OpinionsAssumption`, the words of the model.

`UndoProofs` proves, for any number of effects and callers and any independent ones:

| Theorem | Says | Assumes |
|---|---|---|
| `TypeCorrect` | `Spec => []TypeOK` | nothing; calls may overlap |
| `Inductive` | `Spec => []IInv` | calls do not overlap |
| `ReverseOrder` | compensations run in strict reverse order, across calls (`LifoOrder`) | the same |
| `TrueReport` | a report says of an effect what the ledger says (`ReportIsTrue`) | the same |
| `RebuildIsSafe` | the rows and the log agree on what is settled (`RebuildAgrees`) | the same |
| `Implements` | undo implements `UndoSpec` (`ImplementsUndoSpec`) | the same |

None of these can be seen from the tables alone, for a call works on rows it read when
it began. `IInv` adds where the copies stand: those the call has not come to are the
rows, and it selected what is pending (`Ahead`); of the row it works on, each place in
the code knows what the table and the log say (`InHand`); of those it has left, its
report says what the table says, and what is still pending was handed over or not
attempted and, if the call halts on failure, is independent or below `toSeq`
(`Behind`); and a halt has a failure or an escalation in the report (`HaltIsNoted`).
The last two give the order, and that a report of nothing but compensated and skipped
effects means that nothing is owed. The assumption is needed: with two calls at the
same time the copies are stale (section 4). The theorems assume besides
`UndoAssumption`, the types of the constants.

`InboxProofs` proves, for any numbers of requests, answers, plans and handlers:

| Theorem | Says | Assumes |
|---|---|---|
| `TypeCorrect` | `Spec => []TypeOK` | |
| `Inductive` | `Spec => []IInv` | answers carry the hash |
| `ApprovalsBind` | a plan is executed only for an answer to a request that showed it (`ApprovalBinds`) | the same |
| `CalledOnce` | a plan is called once, and only after an approval is on record (`ExecutedOnce`) | the same |
| `NoneIsForgotten` | an escalated effect shows in the count of open escalations (`NothingForgotten`) | |

The assumption is `Echoes`: without it an answer
to an older request of the same key approves the newer plan. All assume
`InboxAssumption`. What is executed is the plan of the request in memory, not of the one that was
answered: `IInv` adds that a handler about to execute holds the plan its answer asks
for (`HandlerOk`), and that a raised request never changes its plan and is not used
again (`RequestsKeep`). The bounds of the counters in `TypeOK` say that no event is
counted that nothing stands for; `TInv` has the balances they follow from
(`Balanced`): resolved events and busy handlers against webhooks delivered, raised
events, unused requests and executing handlers against requests and webhooks. Nor can
`NothingForgotten` be seen from the counts, since an event names no request: `FInv`
adds a `Ledger`, the set of requests whose event was logged and the subset of them
whose answer has resolved an escalation, with one for every escalated effect in the
difference, and that a busy handler has the answered request to itself (`OwnAnswer`).

`ExecutorProofs` proves, for any sets of runs, plans and keys, any numbers of steps and
tries, any keeper, TTL and waiting time, with crashes and lost requests:

| Theorem | Says | Unless | By |
|---|---|---|---|
| `TypeCorrect` | `Spec => []TypeOK` | | `TInv` |
| `AttemptIdIsKept` | all calls of a step carry one attempt id (`OneAttemptId`) | | `TInv` |
| `VerdictIsTold` | the answer of a run is what the ledger says (`VerdictMatchesLog`) | | `VInv` |
| `LeasesHold` | a run that holds its keys has their rows, with its fences (`GInv`) | a lease expired | `GInv` |
| `CallsAreExclusive` | runs that share a key do not call at the same time (`ExclusiveCalls`) | a lease expired | `GInv` |
| `CallsAreNotRepeated` | a step is called by one run only (`SecondCallerNeedsLapse`) | a lease expired | `OInv` |
| `ClaimsComeFirst` | claims are won before the first call (`ClaimedBeforeCall`) | a lease expired | `CInv` |
| `OneOkDecides` | of the sagas whose plans start with one resource, one answers ok (`OneOkPerFirstKey`) | a lease expired or a request was lost | `EInv` |
| `SuccessIsReal` | executed means that every step landed (`ExecutedMeansLanded`) | the same | `LInv` |
| `NothingLeaks` | a finished run leaves no lease behind (`NoLeak`) | the same | `NInv` |

Each invariant is inductive and rests on the ones above it. `TInv` adds to the types
where the loops over the keys stand (`Placed`), and that the id in hand is the row's,
as is the id of every call (`HoldsId`, `CallIds`). `GInv` is the core: what a run
remembers of its leases (`Gripped`, by where it stands) is what the table says
(`Grips`), and what it has not acquired it remembers no fence of (`Fresh`); two runs
that share a key therefore cannot both hold it. `CInv` says the same of the claims.
`OInv` says why a takeover is safe: a call either has its row final, or its caller is
still at that step, or died there, with the leases its own (`Pending`), so that who
finds the row open under the leases knows that nobody called. `LInv` says that without
faults a row is never in doubt, and `NInv` is the converse of `GInv`: the table has
nothing of a run that the run does not know of, but for the dead.

They assume `LeaseAssumption` and `ExecutorAssumption`: the types of the constants,
and that there are finitely many keys and that they are ordered. That such keys can
be sorted (`sortedResourceKeys`) is the lemma `Sortable`.

Only model-checked: `Ends`, since liveness is out of the proof system's reach (as are
ENABLED and induction over data). Everything else the passing runs check is proved.

## 6. Not modelled

Preimage store and redaction, canonical JSON, ids, anchors and signatures, formats of
export and gateway, the CLI apart from replay, and the Python SDK, which calls the CLI
and ports the pure functions of core. They move data and have no interleaving of their
own, or are a second copy of what is modelled.

Within the modelled parts: `executePlan`'s options `dryRun`, `heldLeases` and
`skipAcquire`, which undo never uses; plans without resource keys, except that the
actions cover them; the coordinator's event table; aliasing of the memory ledger's
objects; what becomes of two concurrent effects with one id; capture and undo of one
saga at the same time; `resumeSaga` while another process still works on the saga. Of
the hosted ledger, `readSaga`, which pulls the server's events and checks their chain.
Of the verifier, the age of cached records and `VekRevert.verify`. Of the registry,
stores and `hydrate`, which VekRevert does not use, and manifests given to its
constructor, which are registered with force (index.ts:157). Of the calls, those of a
shell, which are always T4, and SDK functions, which go by the rules of MCP tools, are
in no instance. Of the file adapter, the sync forms, which go through the policy
before any row is written and are recorded after the call by a promise nobody awaits,
and a rename over a file that exists. In `Reversal` captures and runs are one step,
one draft is kept per effect, and a probe tells the truth.

## 7. Plan

In this order, the most important behaviour first:

1. *Done:* `LeaseStore`, `Coordinator`, `Executor`, `Undo`, and the proofs of
   `Coordinator`.
2. *Done:* `EffectLog` and the proof that the chain holds.
3. *Done:* `UndoSpec`, and `Undo` as an implementation of it, checked and proved.
4. *Done:* `Inbox`; `HostedLedger` and its proofs.
5. *Done:* the rules (`Taxonomy`, `Compiler`, `Registry`, `Verifier`), `Reversal` over
   them, and the proofs that the gate holds, that undo sees what landed, that nothing
   else is touched and that full reversals restore.
6. *Done:* `InboxProofs`; `ExecutorProofs`, `EffectLogProofs` and `EffectRowProofs`,
   with every invariant of the executor and of capture.
7. Left of the model: a run for what a failing rebuild loses, effects with the same
   id, plans and the foreign key that keeps a replay from deleting rows, `readSaga` of
   the hosted ledger, the age of verification records.
