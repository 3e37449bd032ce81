------------------------------- MODULE Verifier -------------------------------
(***************************************************************************)
(* Drafted compensations and their verification (sdk-ts/src/verify): what   *)
(* the drafter may propose, the four questions every draft is asked, what a *)
(* model's answers add to them, and the gate at execution.                  *)
(*                                                                         *)
(* An opinion is what comes of asking the verifier's model: "unasked" when  *)
(* none is configured, "timeout" or "model_unreachable" when it is silent,  *)
(* "answered" with its answers, of which any may be "unset".                *)
(***************************************************************************)
EXTENDS Compiler

-----------------------------------------------------------------------------
(* drafter.ts *)

draftedSignature == [NoManifest EXCEPT !.id = "cmp_drafted@0", !.source = "drafted"]

\* heuristicDraft: the draft made when no model is configured, <<>> if none.
heuristicDraft(r) ==
  LET kind == r.call.kind
      sql  == [NewStep EXCEPT !.kind = "sql_statement", !.target = "args.target",
                              !.where = "pk", !.max = 1]
  IN  CASE kind = "http" -> IF r.url = "none" THEN <<>> ELSE httpCreateSteps
        [] kind = "sql" ->
             CASE r.answer.names \notin {"id", "rows"} -> <<>>
               [] r.answer.names \in {"id", "rows"}
                    /\ (SqlKind(r.call.stmts) = "INSERT" \/ ~r.call.hasSet) ->
                    <<[sql EXCEPT !.verb = "DELETE"]>>
               [] OTHER -> <<[sql EXCEPT !.verb = "UPDATE", !.source = "args.set"]>>
        [] kind = "fs" ->
             IF r.call.op = "rename"
             THEN <<[NewStep EXCEPT !.kind = "fs_rename", !.target = "args.to"]>>
             ELSE <<[NewStep EXCEPT !.kind = "fs_restore", !.target = "args.target",
                                    !.source = "preimage.blob"]>>
        [] OTHER -> <<>>

\* stripNonRefs: a value, or a constant of a compensator, is not a reference.
stripNonRefs(steps) ==
  CASE ~assertProvenance(steps) -> "VR3007"
    [] assertProvenance(steps) /\ hasConstRef(steps) -> "VR3010"
    [] OTHER -> "ok"

\* draftCompensation, over the steps a model proposed or the heuristic ones.
draftCompensation(r, steps) ==
  CASE r.tier = "T4" -> "VR4005"
    [] r.tier # "T4" /\ steps = <<>> -> "VR3001"
    [] OTHER -> stripNonRefs(steps)

-----------------------------------------------------------------------------
(* verifier.ts: the four questions. *)

isHttpCreate(r) ==
  /\ r.call.kind = "http" /\ r.call.method \in {"POST", "PUT"}
  /\ r.answer.status \in 200 .. 299 \/ r.url # "none"

sqlObserved(r) == IF observedRowCount(r) = -1 THEN 1 ELSE observedRowCount(r)

\* A target is also let pass when it is above the key.
targetInKey(place, key) == place \in Covers(key) \/ key \in Covers(place)

Mutating(steps) == {i \in DOMAIN steps : Mutates(steps[i])}
Several(steps) == \E i, j \in Mutating(steps) : i # j

PlaceOf(steps, i, r) == TargetOf(steps[i], r, draftedSignature)

checkScope(steps, r) ==
  \A i \in Mutating(steps) :
    targetInKey(PlaceOf(steps, i, r), r.key) \/ PlaceOf(steps, i, r) = "newname"

Overreaches(s, place, r) ==
  \/ s.flaw = "marker"
  \/ /\ s.kind = "http_request"
     /\ \/ s.flaw = "credential"
        \/ s.verb = "DELETE" /\ ~isHttpCreate(r)
        \/ place \notin Covers(r.key)
  \/ /\ s.kind = "sql_statement"
     /\ \/ place # "own"
        \/ s.verb \in {"UPDATE", "DELETE"} /\ s.max > sqlObserved(r)
        \/ s.max > 1 /\ sqlObserved(r) = 1
        \/ pkColumns(r) /\ s.where = "other"
  \/ s.kind = "fs_restore" /\ place # "own"

checkOverreach(steps, r) ==
  \/ Several(steps)
  \/ \E i \in Mutating(steps) : Overreaches(steps[i], PlaceOf(steps, i, r), r)

\* No url is deleted before one below it.
checkOrder(steps, r) ==
  \A i, j \in Mutating(steps) :
    /\ i < j
    /\ steps[i].kind = "http_request" /\ steps[j].kind = "http_request"
    => \/ PlaceOf(steps, i, r) = PlaceOf(steps, j, r)
       \/ PlaceOf(steps, j, r) \notin Covers(PlaceOf(steps, i, r))

SufficientSql(kind, verb) ==
  CASE <<kind, verb>> \in {<<"INSERT", "DELETE">>, <<"UPDATE", "UPDATE">>} -> "full"
    [] <<kind, verb>> = <<"UPDATE", "DELETE">> -> "no"
    [] OTHER -> "partial"

SufficientStep(s, r) ==
  CASE r.call.kind = "http" /\ s.kind = "http_request" ->
         CASE s.verb = "DELETE" ->
                IF isHttpCreate(r) /\ TargetOf(s, r, draftedSignature) = r.url
                THEN "full" ELSE "no"
           [] OTHER -> IF isHttpCreate(r) THEN "no" ELSE "partial"
    [] r.call.kind = "sql" /\ s.kind = "sql_statement" ->
         SufficientSql(SqlKind(r.call.stmts), s.verb)
    [] r.call.kind = "fs" /\ s.kind = "fs_restore" ->
         IF r.pre \in {"image", "absent"} THEN "full" ELSE "partial"
    [] r.call.kind = "fs" /\ s.kind = "fs_rename" -> "full"
    [] r.call.kind = "mcp_tool" /\ s.kind = "mcp_tool_call" -> "partial"
    [] OTHER -> "no"

checkSufficiency(steps, r) ==
  CASE \E i \in DOMAIN steps : steps[i].kind = "manual" -> "no"
    [] ~(\E i \in DOMAIN steps : steps[i].kind = "manual") ->
         CASE Mutating(steps) = {} -> "no"
           [] Several(steps)       -> "partial"
           [] OTHER -> SufficientStep(steps[CHOOSE i \in Mutating(steps) : TRUE], r)

evaluateFourQuestions(steps, r) ==
  [scope_ok    |-> checkScope(steps, r),
   overreach   |-> checkOverreach(steps, r),
   order_ok    |-> checkOrder(steps, r),
   sufficiency |-> checkSufficiency(steps, r)]

verdictFromAnswers(a) ==
  IF a.overreach \/ ~a.scope_ok \/ ~a.order_ok \/ a.sufficiency = "no" THEN "FAIL"
  ELSE IF a.sufficiency = "partial" THEN "UNSURE" ELSE "PASS"

-----------------------------------------------------------------------------
(* The model's answers and what happens without them. *)

RankOf == [no |-> 0, partial |-> 1, full |-> 2]

\* A word that is not one of the three compares as smaller than none of them,
\* and is taken.
worseSufficiency(a, b) ==
  IF b \in DOMAIN RankOf /\ RankOf[a] <= RankOf[b] THEN a ELSE b

\* "unset" where the model's answer lacks a field.
mergeAnswers(s, model) ==
  [scope_ok    |-> s.scope_ok /\ model.scope_ok # "false",
   overreach   |-> s.overreach \/ model.overreach = "true",
   order_ok    |-> s.order_ok /\ model.order_ok # "false",
   sufficiency |-> IF model.sufficiency = "unset" THEN s.sufficiency
                   ELSE worseSufficiency(s.sufficiency, model.sufficiency)]

Record(verdict, a, fallback) ==
  [verdict |-> verdict, scope_ok |-> a.scope_ok, overreach |-> a.overreach,
   fallback |-> fallback]

NoRecord == [verdict |-> "none", scope_ok |-> FALSE, overreach |-> FALSE,
             fallback |-> "none"]

\* capFallbackVerdict: without the model nothing passes.
structuralFallbackRecord(a, reason) ==
  Record(IF verdictFromAnswers(a) = "FAIL" THEN "FAIL" ELSE "UNSURE", a, reason)

Asks(opinion, mode) == opinion.said # "unasked" /\ mode # "off"

\* verifyPlan of a drafted plan that no cache knows.  spent: the saga's budget of
\* model calls is gone.
verifyPlan(steps, r, opinion, mode, spent) ==
  LET a     == evaluateFourQuestions(steps, r)
      asked == Asks(opinion, mode)
  IN  IF ~asked THEN Record(verdictFromAnswers(a), a, "none")
      ELSE IF spent THEN structuralFallbackRecord(a, "budget_exhausted")
      ELSE IF opinion.said # "answered" THEN structuralFallbackRecord(a, opinion.said)
      ELSE LET all == mergeAnswers(a, opinion)
           IN  Record(verdictFromAnswers(all), all, "none")

-----------------------------------------------------------------------------
(* The gate. *)

verificationPassesGate(rec) == rec.verdict = "PASS" /\ rec.scope_ok /\ ~rec.overreach

executeRequiresVerificationGate(origin, mode) ==
  origin = "drafted" \/ (mode = "enforce" /\ origin = "registered")

\* Mutant: the gate is there in enforce mode only.
executeGateRejection_EnforceOnly(plan, mode) ==
  /\ mode = "enforce" /\ executeRequiresVerificationGate(plan.origin, mode)
  /\ ~(plan.origin = "registered" /\ plan.record = NoRecord)
  /\ ~verificationPassesGate(plan.record)

\* A builtin or registered plan without a record is given one that passes.
executeGateRejection(plan, mode) ==
  /\ executeRequiresVerificationGate(plan.origin, mode)
  /\ ~(plan.origin = "registered" /\ plan.record = NoRecord)
  /\ ~verificationPassesGate(plan.record)

=============================================================================
