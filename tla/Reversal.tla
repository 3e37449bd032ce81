------------------------------- MODULE Reversal -------------------------------
(***************************************************************************)
(* A call of the agent and what is done about it: capture, classification   *)
(* and receipt (sdk-ts/src/effect.ts, capture/), the plan (index.ts plan),  *)
(* its draft and verification (verify/), and the run that is to bring back  *)
(* what was there before (index.ts execute, engine/undo.ts, engine/steps).  *)
(* The rules come from Taxonomy, Compiler, Registry and Verifier; Executor  *)
(* and Undo model the leases, attempts and order of the runs, which are     *)
(* one step each here.                                                      *)
(*                                                                         *)
(* world[e] is the resource effect e is about, as the service or the disk   *)
(* has it: what was there, what is there now, whether the call changed it.  *)
(***************************************************************************)
EXTENDS Verifier, Registry

CONSTANTS Effect,         \* the calls of one saga
          Situations,     \* Situations[e]: the calls e may be, see Situation
          Answers,        \* Answers[k]: the answers a call of kind k may get
          Policies,       \* the configurations, see Policy
          Batches,        \* lists of manifests the application may register
          Proposals,      \* drafts the drafter's model may make
          Opinions,       \* what the verifier's model may say
          MaxRegister     \* how often something is registered

\* does: what the call does if it lands; before: what it finds; blind: its end
\* is not waited for (the callback forms of mkdir, rename and chmod).
Situation == [call : Call,
              does : {"nothing", "create", "change", "remove"},
              before : {"absent", "file", "locked"}, blind : BOOLEAN]

\* budget: calls of the verifier's model per saga, -1 without limit.
Policy == [mode : {"off", "audit", "enforce"}, drafted : BOOLEAN, hosted : BOOLEAN,
           budget : {-1} \cup Nat, blockT4 : BOOLEAN, classifier : BOOLEAN,
           shield : {"unset", "ALLOW", "BLOCK", "CHALLENGE", "timeout", "unreachable"}]

ASSUME ReversalAssumption == /\ Policies \subseteq Policy /\ Policies # {}
                             /\ \A e \in Effect : Situations[e] \subseteq Situation
                             /\ MaxRegister \in Nat

\* What is captured, answered, registered and proposed has the shape the code declares
\* for it.
ASSUME ShapeAssumption ==
  /\ \A e \in Effect : \A s \in Situations[e] :
       /\ Answers[s.call.kind] \subseteq Answer
       /\ s.blind => s.call.kind = "fs" /\ s.call.op \in {"mkdir", "rename", "chmod"}
  /\ Batches \subseteq Seq(Manifest) /\ Proposals \subseteq Seq(Step)

\* rank is the place of a manifest's id among the ids.
Offered == Range(builtins) \cup UNION {Range(b) : b \in Batches}

ASSUME RankAssumption == \A m, o \in Offered : m.rank = o.rank => m.id = o.id

\* callVerifierModel (verifier.ts:816) takes the words of the model's answer as they are;
\* see worseSufficiency for what a word that is none of these would do.
ASSUME OpinionsAssumption ==
  \A o \in Opinions : o.sufficiency \in {"no", "partial", "full", "unset"}

NoRow == [status |-> "none"]
NoWorld == [was |-> "gone", now |-> "gone", landed |-> FALSE]
PendingId == "cpl_pending"
PlanId == {PendingId} \cup Effect
NoPlan == [effect |-> "none"]

VARIABLES
  policy,      \* configuration of the process
  memory,      \* manifests of the registry
  registered,  \* how often register was called
  world,       \* [Effect -> what is there]
  row,         \* [Effect -> sealed receipt, NoRow if the ledger has none]
  comp,        \* [Effect -> compensation state]
  late,        \* effects whose window is over
  plans,       \* [PlanId -> row of the table plans, NoPlan if none]
  told,        \* [Effect -> id of the plan its caller was given, "none"]
  cache,       \* verification records by plan hash, kept by the process
  used,        \* calls of the verifier's model the saga has spent
  attempts,    \* plan hashes with the state of their attempts
  ran          \* history: the runs that answered ok: TRUE

vars == <<policy, memory, registered, world, row, comp, late, plans, told, cache,
          used, attempts, ran>>

-----------------------------------------------------------------------------
(* Capture *)

\* readPre and captureRows; a file that cannot be read counts as absent, rows that
\* cannot be read are a warning.
PreImages(c, before) ==
  CASE c.kind = "fs"  -> IF before = "file" THEN {"image", "truncated"} ELSE {"absent"}
    [] c.kind = "sql" -> IF before = "file" THEN {"image", "truncated", "none"}
                         ELSE {"none"}
    [] OTHER          -> {"none"}

Captured(c, before) ==
  LET tier == classifyAction(c, NoAnswer, "none", "full", NoTier, NoTier)
  IN  IF needsPreimageCapture(c, tier, FALSE) THEN PreImages(c, before) ELSE {"none"}

\* Whether the call took effect, as far as its answer tells.
Lands(s, a) ==
  CASE s.does = "nothing" -> {FALSE}
    [] s.does # "nothing" /\ s.blind -> {s.before = "absent"}
    [] s.does # "nothing" /\ ~s.blind ->
         CASE a.status \in 200 .. 299 -> {TRUE}
           [] a.status \in 400 .. 499 -> {FALSE}
           [] a.status = 0 /\ a.threw = "no" -> {TRUE}
           [] a.threw = "unnamed" /\ s.call.kind \in {"fs", "sql"} -> {FALSE}
           [] OTHER -> BOOLEAN

Now(was, does) ==
  CASE does = "remove" -> "gone" [] does = "nothing" -> was [] OTHER -> "new"

\* The receipt closeEffect seals.
NoPk(c, a) == c.kind = "sql" /\ SqlKind(c.stmts) = "INSERT" /\ a.names = "none"

SealedTier(c, a, pre, matched) ==
  IF NoPk(c, a) \/ pre = "truncated" THEN "T4"
  ELSE classifyAction(c, a, pre, "full", matched.tier, NoTier)

Written(c, a, pre, matched, tier, url) ==
  [status |-> StatusOf(c, a), call |-> c, answer |-> a, pre |-> pre,
   tier |-> tier, url |-> url, key |-> resourceKeys(c, a, url),
   offer |-> compensationFor(tier, matched # NoManifest /\ ~NoPk(c, a),
                             pre = "truncated", matched.needs /\ a.names = "none"),
   window |-> matched # NoManifest /\ ~NoPk(c, a) /\ matched.window]

WrittenBy(c, a, pre, matched) ==
  Written(c, a, pre, matched, SealedTier(c, a, pre, matched), BoundUrl(matched, c, a))

Receipt(c, a, pre) == WrittenBy(c, a, pre, match(memory, c, a, policy.hosted))

\* preflightPolicy refuses the call: the row stays opened, nothing is called.
Blocked(c, pre) ==
  applyLexShieldPolicy(policy.blockT4,
    PreflightTier(c, pre, "full", NoTier, policy.blockT4 /\ policy.classifier,
                  heuristicEscalate(c)), policy.shield)

OpenRow(c, pre) ==
  [Receipt(c, NoAnswer, pre) EXCEPT !.status = "opened", !.offer = "none"]

Unrecorded(c) ==
  classifyAction(c, NoAnswer, "none", "full", NoTier, NoTier) = "T1"

Sealed(c, a, pre) == IF Blocked(c, pre) THEN OpenRow(c, pre) ELSE Receipt(c, a, pre)

\* openEffect, the call and closeEffect; a blind call is made first and recorded after,
\* too late for the policy.
Capture(e, s, a) ==
  /\ row[e] = NoRow /\ world[e] = NoWorld
  /\ s.blind => a = NoAnswer
  /\ \E pre \in Captured(s.call, s.before), landed \in Lands(s, a) :
       LET was  == IF s.before = "absent" THEN "gone" ELSE "old"
           done == landed /\ (s.blind \/ Unrecorded(s.call) \/ ~Blocked(s.call, pre))
       IN  /\ world' = [world EXCEPT ![e] =
                          [was |-> was, landed |-> done,
                           now |-> IF done THEN Now(was, s.does) ELSE was]]
           /\ IF Unrecorded(s.call)
              THEN UNCHANGED <<row, comp>>
              ELSE /\ row' = [row EXCEPT ![e] = Sealed(s.call, a, pre)]
                   /\ comp' = [comp EXCEPT ![e] = row'[e].offer]
  /\ UNCHANGED <<policy, memory, registered, late, plans, told, cache, used,
                 attempts, ran>>

-----------------------------------------------------------------------------
(* Plans *)

Plan(e, m, origin, steps, rec) ==
  [effect |-> e, id |-> m.id, origin |-> origin, steps |-> steps, record |-> rec,
   cascade |-> m # draftedSignature /\ m.cascade,
   full    |-> m # draftedSignature /\ m.full,
   vouched |-> m # draftedSignature /\ (m.source = "builtin" \/ m.signed),
   hash    |-> planHash(e, m.id, origin, steps)]

Matched(e) == match(memory, row[e].call, row[e].answer, policy.hosted)
Expired(e) == e \in late

MatchedPlan(e) ==
  Plan(e, Matched(e), Matched(e).source, lowerSteps(Matched(e), row[e]), NoRecord)

CompilesMatched(e) ==
  /\ Matched(e) # NoManifest
  /\ compilePlan(row[e], Matched(e), Matched(e).source,
                 lowerSteps(Matched(e), row[e]), Expired(e)) = "ok"

\* plan of an effect a manifest matches: its row is stored under the default id.
PlanMatched(e) ==
  /\ row[e] # NoRow /\ CompilesMatched(e)
  /\ plans' = [plans EXCEPT ![PendingId] = MatchedPlan(e)]
  /\ told' = [told EXCEPT ![e] = PendingId]
  /\ UNCHANGED <<policy, memory, registered, world, row, comp, late, cache, used,
                 attempts, ran>>

\* What the drafter may come up with: a proposal of its model or the heuristic.
Drafts(e) == Proposals \cup {heuristicDraft(row[e])}

CompilesDrafted(e, steps) ==
  /\ Matched(e) = NoManifest
  /\ draftCompensation(row[e], steps) = "ok"
  /\ compilePlan(row[e], draftedSignature, "drafted", steps, Expired(e)) = "ok"

\* Mutant: the budget is compared after the call it should have stopped.
Verify_OneTooMany(e, steps, opinion, mode, budget) ==
  LET hash == planHash(e, draftedSignature.id, "drafted", steps)
      hit  == {c \in cache : c.hash = hash}
      out  == budget >= 0 /\ used > budget
  IN  IF hit # {} THEN [record |-> (CHOOSE c \in hit : TRUE).record, cost |-> 0,
                        cache |-> cache]
      ELSE LET rec == verifyPlan(steps, row[e], opinion, mode, out)
           IN  [record |-> rec,
                cost   |-> IF Asks(opinion, mode) /\ budget >= 0 /\ ~out THEN 1 ELSE 0,
                cache  |-> cache \cup {[hash |-> hash, record |-> rec]}]

\* draftCompileVerify: the record of a hash is taken from the cache if it has one,
\* else a verification is made and kept.
Verify(e, steps, opinion, mode, budget) ==
  LET hash == planHash(e, draftedSignature.id, "drafted", steps)
      hit  == {c \in cache : c.hash = hash}
      out  == budget >= 0 /\ used >= budget
      asks == Asks(opinion, mode)
  IN  IF hit # {} THEN [record |-> (CHOOSE c \in hit : TRUE).record, cost |-> 0,
                        cache |-> cache]
      ELSE LET rec == verifyPlan(steps, row[e], opinion, mode, out)
           IN  [record |-> rec, cost |-> IF asks /\ budget >= 0 /\ ~out THEN 1 ELSE 0,
                cache |-> cache \cup {[hash |-> hash, record |-> rec]}]

\* plan of an effect nothing matches.  One draft is kept per effect.
PlanDrafted(e, steps, opinion) ==
  /\ row[e] # NoRow /\ policy.drafted /\ plans[e] = NoPlan
  /\ CompilesDrafted(e, steps)
  /\ LET v == Verify(e, steps, opinion, policy.mode, policy.budget)
         kept == verificationPassesGate(v.record) \/ policy.mode # "enforce"
     IN  /\ cache' = v.cache /\ used' = used + v.cost
         /\ plans' = IF kept THEN [plans EXCEPT ![e] =
                           Plan(e, draftedSignature, "drafted", steps, v.record)]
                     ELSE plans
         /\ told' = IF kept THEN [told EXCEPT ![e] = e] ELSE told
  /\ UNCHANGED <<policy, memory, registered, world, row, comp, late, attempts, ran>>

-----------------------------------------------------------------------------
(* Runs *)

\* The gates of executePlan before any lease or attempt.
MayRun(p) ==
  /\ p.origin = "drafted" => policy.drafted
  /\ ~executeGateRejection(p, policy.mode)
  /\ row[p.effect].tier # "T4"
  /\ \A i \in DOMAIN p.steps : p.steps[i].kind # "manual"
  /\ ~p.cascade

\* What a step leaves of the resource, "same" when it does not change it.
After(s, place) ==
  CASE place = "own" /\ s.kind = "http_request" ->
         IF s.verb = "DELETE" THEN "gone" ELSE "other"
    [] place = "own" /\ s.kind = "mcp_tool_call" -> "gone"
    [] place = "own" /\ s.kind = "fs_restore" ->
         IF s.source = "preimage.absent" THEN "gone" ELSE "old"
    [] place = "own" /\ s.kind = "sql_statement" ->
         CASE s.verb = "DELETE" -> "gone"
           [] s.verb # "DELETE" /\ s.source = "result.pre" -> "old"
           [] OTHER -> "same"
    [] place = "newname" /\ s.kind = "fs_rename" -> "old"
    [] place = "collection" /\ s.verb = "DELETE" -> "gone"
    [] OTHER -> "same"

Places(p, m) == {TargetOf(p.steps[i], row[p.effect], m) : i \in Mutating(p.steps)}

\* The last step that changes it decides.
Outcome(p, m) ==
  LET after(i) == After(p.steps[i], TargetOf(p.steps[i], row[p.effect], m))
      changing == {i \in Mutating(p.steps) : after(i) # "same"}
  IN  IF changing = {} THEN world[p.effect].now
      ELSE after(CHOOSE i \in changing : \A j \in changing : j <= i)

\* executePlan asked by the caller of e.  The constants are those of the manifest
\* the registry matches now.  A plan that ran is not run again, a plan that failed
\* is refused; a run may fail with or without its effect.
Run(e, p) ==
  LET f == p.effect
      m == Matched(f)
      state == {t.state : t \in {t \in attempts : t.hash = p.hash}}
      entry(ok) == {[hash |-> p.hash, state |-> IF ok THEN "succeeded" ELSE "failed"]}
      runs == ~Expired(f) /\ resolveSteps(p.steps, row[f], m)
  IN  /\ MayRun(p)
      /\ "failed" \notin state
      /\ \E ok \in BOOLEAN, landed \in BOOLEAN :
           /\ ok => landed
           /\ landed => runs \/ state # {}
           /\ state # {} => ok
           /\ attempts' = attempts \cup entry(ok)
           /\ world' = IF landed /\ state = {}
                       THEN [world EXCEPT ![f].now = Outcome(p, m)] ELSE world
           /\ comp' = IF ok THEN [comp EXCEPT ![f] = "compensated"] ELSE comp
           /\ ran' = IF ok /\ state = {} THEN ran \cup
                       {[asked |-> e, plan |-> p, places |-> Places(p, m),
                         restored |-> Outcome(p, m) = world[f].was]}
                     ELSE ran
           /\ UNCHANGED <<policy, memory, registered, row, late>>

\* execute of the plan id the caller of e was given.
Execute(e) ==
  /\ told[e] # "none"
  /\ Run(e, plans[told[e]])
  /\ UNCHANGED <<plans, told, cache, used>>

\* undo reaches e: what the probe finds decides an effect in doubt.
Undoable(e) ==
  /\ row[e] # NoRow /\ comp[e] = "available"
  /\ row[e].status = "landed" \/ (row[e].status = "in_doubt" /\ world[e].landed)

UndoMatched(e) ==
  /\ Undoable(e) /\ CompilesMatched(e)
  /\ Run(e, MatchedPlan(e))
  /\ UNCHANGED <<plans, told, cache, used>>

\* compileFor passes neither the mode nor the budget of the policy; its plan is
\* stored under an id nobody is told.
UndoDrafted(e, steps, opinion) ==
  /\ Undoable(e) /\ policy.drafted /\ CompilesDrafted(e, steps)
  /\ LET v == Verify(e, steps, opinion, "audit", -1)
     IN  /\ cache' = v.cache
         /\ Run(e, Plan(e, draftedSignature, "drafted", steps, v.record))
  /\ UNCHANGED <<plans, told, used>>

-----------------------------------------------------------------------------
(* The registry, and time *)

Register(batch) ==
  /\ registered < MaxRegister
  /\ registered' = registered + 1
  /\ memory' = register(memory, batch, registered + 1, policy.hosted, FALSE)
  /\ UNCHANGED <<policy, world, row, comp, late, plans, told, cache, used, attempts,
                 ran>>

Lapse(e) ==
  /\ row[e] # NoRow /\ row[e].window
  /\ late' = late \cup {e}
  /\ UNCHANGED <<policy, memory, registered, world, row, comp, plans, told, cache,
                 used, attempts, ran>>

Init ==
  /\ policy \in Policies
  /\ memory = register({}, builtins, 0, policy.hosted, TRUE)
  /\ registered = 0
  /\ world = [e \in Effect |-> NoWorld]
  /\ row = [e \in Effect |-> NoRow]
  /\ comp = [e \in Effect |-> "none"]
  /\ late = {}
  /\ plans = [i \in PlanId |-> NoPlan]
  /\ told = [e \in Effect |-> "none"]
  /\ cache = {} /\ used = 0 /\ attempts = {} /\ ran = {}

Next ==
  \/ \E e \in Effect :
       \/ \E s \in Situations[e] : \E a \in Answers[s.call.kind] : Capture(e, s, a)
       \/ PlanMatched(e)
       \/ Execute(e)
       \/ UndoMatched(e)
       \/ Lapse(e)
       \/ \E o \in Opinions :
            \/ row[e] # NoRow /\ \E d \in Drafts(e) : PlanDrafted(e, d, o)
            \/ row[e] # NoRow /\ \E d \in Drafts(e) : UndoDrafted(e, d, o)
  \/ \E b \in Batches : Register(b)

Spec == Init /\ [][Next]_vars

-----------------------------------------------------------------------------
(* Properties *)

\* The state a process, its ledger and the resources can be in.  All builtin
\* manifests pass the gate of the registry, the model is not asked more often
\* than the budget allows (policy.ts:79), and what ran had succeeded.
TypeOK ==
  /\ policy \in Policies
  /\ \A i \in DOMAIN builtins :
       \E m \in memory : m.id = builtins[i].id /\ m.source = "builtin"
  /\ registered \in 0 .. MaxRegister
  /\ \A e \in Effect :
       /\ world[e].was \in {"gone", "old"}
       /\ world[e].now \in {"gone", "old", "new", "other"}
       /\ row[e] # NoRow =>
            /\ row[e].status \in {"opened", "landed", "failed", "in_doubt"}
            /\ comp[e] \in {"none", "none_required", "available", "unavailable",
                            "compensated"}
            /\ row[e].tier \in Tier /\ row[e].key \in Place
            /\ row[e].url \in Place \cup {"none"}
       /\ told[e] \in {"none", e, PendingId}
       /\ told[e] # "none" => plans[told[e]] # NoPlan
  /\ \A c, d \in cache : c.hash = d.hash => c = d
  /\ policy.budget >= 0 => used <= policy.budget
  /\ \A x \in ran : [hash |-> x.plan.hash, state |-> "succeeded"] \in attempts

\* A call that changed something is in the ledger as landed or in doubt, where the
\* undo looks for it, whatever was answered (effect.ts:800, taxonomy.ts:202).
UndoCanSee ==
  \A e \in Effect :
    world[e].landed => row[e] # NoRow /\ row[e].status \in {"landed", "in_doubt"}

\* A run changes the resource of its effect or one below it; what a registered
\* manifest names by a constant may lie elsewhere on the same host, never on
\* another, and on a hosted ledger the manifest is signed (plan.ts:634,
\* verifier.ts:430, registry.ts:173).
NothingElseTouched ==
  \A x \in ran :
    /\ "elsewhere" \notin x.places
    /\ x.plan.origin # "registered" =>
         x.places \subseteq {"own", "below", "newname", "none"}
    /\ x.plan.origin = "registered" /\ policy.hosted => x.plan.vouched

\* A draft ran only where drafts are allowed and when the four questions, asked
\* of the steps themselves, all found it good: neither the model, nor its cached
\* answer, nor the undo, which ignores the mode, got another one through
\* (verifier.ts:184, execute.ts:203).  Nothing ran for a T4 effect, or under a
\* compensator that may start a cascade.
GateHolds ==
  \A x \in ran :
    LET r == row[x.plan.effect]
    IN  /\ r.tier # "T4" /\ ~x.plan.cascade
        /\ x.plan.origin = "drafted" =>
             policy.drafted
             /\ verdictFromAnswers(evaluateFourQuestions(x.plan.steps, r)) = "PASS"

\* A run of a plan that promises a full reversal left what was there before the
\* call (fs_write.ts:102, http_create.ts:33).
RestoredIfFull == \A x \in ran : x.plan.full => x.restored

\* execute(plan_id) runs a plan for the effect that id was given out for.
ExecutesWhatWasPlanned == \A x \in ran : x.plan.effect = x.asked

-----------------------------------------------------------------------------
(* What three of them rest on: each condition excludes calls, answers or    *)
(* manifests that the code does not, and section 4 of the README says what   *)
(* happens with them.                                                        *)

\* UndoCanSee.  The rules take no call that changes something for a read
\* (sqlkind.ts:151), and no exception of a web or tool call is without a name
\* (effect.ts:166).
Recognized ==
  \A e \in Effect : \A s \in Situations[e] :
    s.does # "nothing" =>
      /\ isMutating(s.call)
      /\ \A a \in Answers[s.call.kind] :
           a.threw # "no" =>
             a.status = 0 /\ (a.threw = "unnamed" => s.call.kind \in {"fs", "sql"})

\* UndoCanSee.  No policy blocks a call that is recorded after it was made
\* (capture/fs.ts:93).
Timely ==
  \A e \in Effect : \A s \in Situations[e] : \A q \in Policies :
    s.blind /\ q.blockT4 => s.call.inRoots /\ q.shield \in {"unset", "ALLOW"}

\* NothingElseTouched.  A manifest does not call itself builtin (registry.ts:407), one
\* that names another host names it in a step whose target the gate looks at, and one
\* for a tool names nothing but what the tool has made (plan.ts:634).
StaysHome(m) ==
  /\ m.source # "builtin"
  /\ m.const = "elsewhere" =>
       \E i \in DOMAIN m.steps :
         /\ m.steps[i].target = "const.target"
         /\ m.steps[i].kind \in {"http_request", "sql_statement", "fs_restore", "fs_rename"}
  /\ m.kind = "mcp_tool" => m.const \in {"own", "below", "none"}

AllStayHome == \A b \in Batches : \A i \in DOMAIN b : StaysHome(b[i])

\* RestoredIfFull.  Files can be read (capture/fs.ts:141), mkdir makes a directory and
\* rename has something to rename; what is created has not been there before
\* (http_create.ts:33), and only builtin manifests promise a full reversal.
Restorable ==
  /\ \A e \in Effect : \A s \in Situations[e] :
       /\ s.call.kind = "fs" =>
            /\ s.before # "locked"
            /\ s.call.op = "mkdir" => s.before = "absent"
            /\ s.call.op = "rename" => s.before = "file"
       /\ \A a \in Answers[s.call.kind] :
            /\ s.call.kind = "http" /\ s.call.method \in {"POST", "PUT"}
            /\ a.status \in {200, 201, 202} /\ a.names # "none"
            => s.before = "absent" /\ (a.names = "location" \/ s.call.method = "POST")
  /\ \A b \in Batches : \A i \in DOMAIN b : ~b[i].full

=============================================================================
