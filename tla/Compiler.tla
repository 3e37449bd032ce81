------------------------------- MODULE Compiler -------------------------------
(***************************************************************************)
(* From a sealed receipt and a compensator to a plan, or to the code the    *)
(* plan is refused with (packages/core/src/plan.ts, resource.ts, match.ts,  *)
(* the builtin compensators of packages/compensators/src).                  *)
(*                                                                         *)
(* Resources are named by where they stand to the resource the effect       *)
(* changed, its "own": something "below" it, the "collection" it is in, a   *)
(* "sibling" there, another path of the same host ("offpath"), another host *)
(* or table ("elsewhere"), the name a rename gave it ("newname").  A step   *)
(* keeps its kind, its verb, the reference its target comes from, the       *)
(* reference of what it writes, the columns its WHERE binds, and the one    *)
(* flaw a gate could find in its text.                                      *)
(***************************************************************************)
EXTENDS Taxonomy

Place == {"own", "below", "collection", "sibling", "offpath", "elsewhere", "newname"}

\* What a path of a resource key covers: itself and what extends it.
Covers(key) ==
  CASE key = "collection" -> {"collection", "own", "below", "sibling"}
    [] key = "own"        -> {"own", "below"}
    [] OTHER              -> {key}

Step == [kind   : {"http_request", "sql_statement", "fs_restore", "fs_rename",
                   "mcp_tool_call", "noop", "manual"},
         verb   : {"DELETE", "PUT", "INSERT", "UPDATE", "none"},
         target : {"bindings.url", "args.target", "args.to", "const.target", "bad",
                   "none"},
         source : {"preimage.blob", "preimage.absent", "result.pre", "args.set",
                   "bindings.pk", "none"},
         where  : {"pk", "other", "none"},
         max    : Nat,
         flaw   : {"none", "literal", "credential", "sql_text", "marker"}]

NewStep == [kind |-> "noop", verb |-> "none", target |-> "none", source |-> "none",
            where |-> "none", max |-> 0, flaw |-> "none"]

Mutates(step) == step.kind \notin {"noop", "manual"}

-----------------------------------------------------------------------------
(* Receipts: what a plan is compiled from. *)

\* The url, path or table the arguments of a call name.
ArgTarget(c) == IF c.kind = "http" /\ c.method = "POST" THEN "collection" ELSE "own"

\* bindings.resource_url: the Location of the answer if the compensator binds it,
\* or the id of its body put behind the url of the request, whatever the method.
BoundUrl(m, c, a) ==
  CASE c.kind # "http" \/ a.names = "none" -> "none"
    [] c.kind = "http" /\ a.names = "location" -> IF m.binds THEN "own" ELSE "none"
    [] OTHER -> IF ArgTarget(c) = "collection" THEN "own" ELSE "below"

\* resourceKeys: the bound url, the Location, or else the target of the call.
resourceKeys(c, a, url) ==
  CASE url # "none" -> url
    [] url = "none" /\ c.kind = "http" /\ a.names = "location" -> "own"
    [] OTHER -> ArgTarget(c)

\* The columns of the primary key a receipt knows.
pkColumns(r) == r.call.kind = "sql" /\ r.answer.names \in {"id", "rows"}

\* Rows the call reported, or that its pre-image holds; -1 is unknown.
observedRowCount(r) ==
  IF r.call.kind = "sql" /\ (r.pre = "image" \/ r.answer.names = "none") THEN 1 ELSE -1

\* resolveRef for the target of a step.
TargetOf(step, r, m) ==
  CASE step.target = "bindings.url" -> r.url
    [] step.target = "args.target"  -> ArgTarget(r.call)
    [] step.target = "args.to"      ->
         IF r.call.kind = "fs" /\ r.call.op = "rename" THEN "newname" ELSE "none"
    [] step.target = "const.target" -> m.const
    [] OTHER                        -> "none"

\* resolveRef for what a step writes: whether there is a value.
SourceResolves(step, r) ==
  CASE step.source = "preimage.blob" -> r.pre \in {"image", "truncated"}
    [] step.source = "result.pre"    -> r.answer.names = "rows"
    [] step.source = "bindings.pk"   -> r.answer.names \in {"id", "rows"}
    [] step.source = "args.set"      -> r.call.kind = "sql" /\ r.call.hasSet
    [] OTHER                         -> TRUE

WhereResolves(step, r) == step.where = "pk" => r.answer.names \in {"id", "rows"}

-----------------------------------------------------------------------------
(* The gates of compilePlan, each TRUE when the plan passes it. *)

\* validateClosedStepSet.
ClosedSteps(steps) ==
  /\ steps # <<>>
  /\ \A i \in DOMAIN steps :
       CASE steps[i].kind = "http_request"  -> steps[i].verb \in {"DELETE", "PUT"}
         [] steps[i].kind = "sql_statement" ->
              steps[i].verb \in {"INSERT", "UPDATE", "DELETE"}
         [] steps[i].kind = "fs_restore"    -> steps[i].source # "none"
         [] OTHER                           -> TRUE

assertProvenance(steps) == \A i \in DOMAIN steps : steps[i].flaw # "literal"

KnownRefs(steps) == \A i \in DOMAIN steps : steps[i].target # "bad"

hasConstRef(steps) == \E i \in DOMAIN steps : steps[i].target = "const.target"

resolveSteps(steps, r, m) ==
  \A i \in DOMAIN steps :
    /\ steps[i].target # "none" => TargetOf(steps[i], r, m) # "none"
    /\ SourceResolves(steps[i], r)
    /\ WhereResolves(steps[i], r)

assertCredentialPositions(steps) == \A i \in DOMAIN steps : steps[i].flaw # "credential"

assertUnsafeStatements(steps, r) ==
  \A i \in DOMAIN steps :
    LET s == steps[i]
    IN  /\ s.kind = "sql_statement" =>
             /\ s.flaw # "sql_text"
             /\ s.verb \in {"UPDATE", "DELETE"} => s.where # "none"
        /\ s.kind = "fs_restore" /\ s.source = "preimage.blob" => r.pre = "image"
        /\ ~(/\ s.kind = "http_request" /\ s.verb = "DELETE"
             /\ r.call.kind = "http" /\ r.call.method = "DELETE" /\ r.pre = "none")

\* Mutant: a constant may name any host.
assertHttpScope_AnyHost(place, r, m, origin) ==
  place \in Covers(r.key) \/ (place = m.const /\ origin # "drafted")

\* A constant of the compensator may name a path outside the resource keys.
assertHttpScope(place, r, m, origin) ==
  \/ place \in Covers(r.key)
  \/ place = m.const /\ place # "elsewhere" /\ origin # "drafted"

assertSqlScope(s, place, r) ==
  /\ place = "own"
  /\ s.verb \in {"UPDATE", "DELETE"} /\ pkColumns(r) => s.where = "pk"
  /\ observedRowCount(r) # -1 => s.max <= observedRowCount(r)

\* The path of the receipt, and the name a rename gave it.
assertFsScope(place) == place = "own"
assertFsRenameScope(place) == place = "newname"

\* Only tools the compensator permits.
assertMcpScope(s, m) == s.target = "const.target" /\ m.permits

assertStepScope(s, place, r, m, origin) ==
  CASE s.kind = "http_request"  -> assertHttpScope(place, r, m, origin)
    [] s.kind = "sql_statement" -> assertSqlScope(s, place, r)
    [] s.kind = "fs_restore"    -> assertFsScope(place)
    [] s.kind = "fs_rename"     -> assertFsRenameScope(place)
    [] s.kind = "mcp_tool_call" -> assertMcpScope(s, m)
    [] OTHER                    -> TRUE

assertScope(steps, r, m, origin) ==
  \A i \in DOMAIN steps :
    assertStepScope(steps[i], TargetOf(steps[i], r, m), r, m, origin)

\* The resource a mutating step is counted under.
mutatingResourceKeys(s, r, m) == <<s.kind, TargetOf(s, r, m)>>

OneStepEach(steps, r, m) ==
  \A i, j \in DOMAIN steps :
    /\ i # j /\ Mutates(steps[i]) /\ Mutates(steps[j])
    => mutatingResourceKeys(steps[i], r, m) # mutatingResourceKeys(steps[j], r, m)

-----------------------------------------------------------------------------
(* compilePlan: the gates in their order; the first that fails names the code. *)

MaxPlanSteps == 8

Gates(r, m, origin, steps, expired) ==
  << <<"VR5007", ~expired>>,
     <<"VR3005", ClosedSteps(steps)>>,
     <<"VR3007", assertProvenance(steps)>>,
     <<"VR3006", KnownRefs(steps)>>,
     <<"VR3010", ~(origin = "drafted" /\ hasConstRef(steps))>>,
     <<"VR3006", resolveSteps(steps, r, m)>>,
     <<"VR3009", assertCredentialPositions(steps)>>,
     <<"VR3009", assertUnsafeStatements(steps, r)>>,
     <<"VR3008", assertScope(steps, r, m, origin)>>,
     <<"VR3011", Len(steps) <= MaxPlanSteps>>,
     <<"VR3011", OneStepEach(steps, r, m)>> >>

\* The code of the first gate that refuses, "ok" when none does.
FirstCode(gates, refusing) ==
  IF refusing = {} THEN "ok"
  ELSE gates[CHOOSE i \in refusing : \A j \in refusing : i <= j][1]

Refusing(gates) == {i \in DOMAIN gates : ~gates[i][2]}

compilePlan(r, m, origin, steps, expired) ==
  LET gates == Gates(r, m, origin, steps, expired)
  IN  FirstCode(gates, Refusing(gates))

\* planHash: the steps as written, the values behind their references left out.
planHash(effect, id, origin, steps) == <<effect, id, origin, steps>>

-----------------------------------------------------------------------------
(* matchCompensator. *)

SOURCE_RANK == [registered |-> 0, builtin |-> 1, drafted |-> 2]

\* What a compensator matches by: method, tool, kind of statement or operation.
kindPredicate(m, c) ==
  LET word == CASE c.kind = "http"     -> c.method
                [] c.kind = "mcp_tool" -> c.tool
                [] c.kind = "sql"      -> SqlKind(c.stmts)
                [] c.kind = "fs"       -> c.op
  IN  m.kind = c.kind /\ word \in m.methods

evalAppliesWhen(m, a) == m.statuses # {} => a.status \in m.statuses

\* Whether a compensator is meant for the call and the answer it got.
Fits(m, c, a) ==
  ~m.disabled /\ m.kind = c.kind /\ kindPredicate(m, c) /\ evalAppliesWhen(m, a)

\* a comes before b in the order of preference.
Before(a, b) ==
  \/ a.score > b.score
  \/ /\ a.score = b.score
     /\ \/ SOURCE_RANK[a.source] < SOURCE_RANK[b.source]
        \/ /\ SOURCE_RANK[a.source] = SOURCE_RANK[b.source]
           /\ a.at < b.at \/ (a.at = b.at /\ a.rank < b.rank)

\* The absence of a compensator.
NoManifest == [id |-> "none", source |-> "none", const |-> "none",
               permits |-> FALSE, binds |-> FALSE, needs |-> FALSE, tier |-> NoTier]

Preferred(fitting) ==
  IF fitting = {} THEN NoManifest
  ELSE CHOOSE m \in fitting : \A o \in fitting \ {m} : Before(m, o)

matchCompensator(registry, c, a) == Preferred({m \in registry : Fits(m, c, a)})

-----------------------------------------------------------------------------
(* The builtin compensators, lowered for a receipt. *)

\* Mutant: a write is undone as if it had created the file.
planForFs_WriteCreates(r) ==
  IF r.call.op = "rename"
  THEN <<[NewStep EXCEPT !.kind = "fs_rename", !.target = "args.to"]>>
  ELSE <<[NewStep EXCEPT !.kind = "fs_restore", !.target = "args.target",
            !.source = IF r.pre = "absent" \/ r.call.op \in {"mkdir", "write"}
                       THEN "preimage.absent" ELSE "preimage.blob"]>>

planForFs(r) ==
  IF r.call.op = "rename"
  THEN <<[NewStep EXCEPT !.kind = "fs_rename", !.target = "args.to"]>>
  ELSE <<[NewStep EXCEPT !.kind = "fs_restore", !.target = "args.target",
            !.source = IF r.pre = "absent" \/ r.call.op = "mkdir"
                       THEN "preimage.absent" ELSE "preimage.blob"]>>

\* With no rows in the answer an UPDATE sets the key to itself, and a DELETE is
\* answered by a row that has nothing but its key.
planForSql(r) ==
  LET images == IF r.answer.names = "rows" THEN "result.pre" ELSE "bindings.pk"
      sql(verb, where, source) ==
        <<[NewStep EXCEPT !.kind = "sql_statement", !.target = "args.target",
             !.max = 1, !.verb = verb, !.where = where, !.source = source]>>
  IN  CASE SqlKind(r.call.stmts) = "INSERT" -> sql("DELETE", "pk", NewStep.source)
        [] SqlKind(r.call.stmts) = "UPDATE" -> sql("UPDATE", "pk", images)
        [] OTHER -> sql("INSERT", NewStep.where, images)

httpCreateSteps ==
  <<[NewStep EXCEPT !.kind = "http_request", !.verb = "DELETE",
                    !.target = "bindings.url"]>>

messageRetract ==
  <<[NewStep EXCEPT !.kind = "mcp_tool_call", !.target = "const.target",
                    !.source = "bindings.pk"]>>

lowerSteps(m, r) ==
  CASE m.id = "cmp_fs_write@1" -> planForFs(r)
    [] m.id = "cmp_sql_row@1"  -> planForSql(r)
    [] OTHER                   -> m.steps

=============================================================================
