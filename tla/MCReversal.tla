------------------------------ MODULE MCReversal ------------------------------
(* Calls, answers, configurations and manifests for TLC.  Left out of the       *)
(* instance of Reversal.cfg, and shown by the runs that add them: files that    *)
(* cannot be read.  The README lists what else no instance has.                 *)
EXTENDS Reversal

Http(method, internal) ==
  [kind |-> "http", method |-> method, body |-> method # "GET", search |-> FALSE,
   override |-> FALSE, internal |-> internal]
Sql(words, hasSet) ==
  [kind |-> "sql", stmts |-> <<words>>, internal |-> TRUE, hasSet |-> hasSet]
Fs(op) == [kind |-> "fs", op |-> op, inRoots |-> TRUE, internal |-> FALSE]
Tool(tool) ==
  [kind |-> "mcp_tool", tool |-> tool, inRoots |-> TRUE, internal |-> FALSE]

Situ(call, does, before) ==
  [call |-> call, does |-> does, before |-> before, blind |-> FALSE]

Create == Situ(Http("POST", FALSE), "create", "absent")
Edit == Situ(Fs("write"), "change", "file")

WebSituations ==
  { Create, Situ(Http("POST", TRUE), "create", "absent"),
    Situ(Http("PATCH", FALSE), "change", "file"),
    Situ(Http("DELETE", TRUE), "remove", "file"),
    Situ(Http("GET", FALSE), "nothing", "file") }

FileSituations ==
  { Edit, Situ(Fs("write"), "create", "absent"), Situ(Fs("unlink"), "remove", "file"),
    Situ(Fs("rename"), "remove", "file"), Situ(Fs("utimes"), "change", "file"),
    [Situ(Fs("mkdir"), "create", "absent") EXCEPT !.blind = TRUE] }

SqlSituations ==
  { Situ(Sql(<<"INSERT", "RETURNING">>, FALSE), "create", "absent"),
    Situ(Sql(<<"UPDATE">>, TRUE), "change", "file"),
    Situ(Sql(<<"WITH", "AS", "(", "DELETE", ")", "SELECT">>, FALSE), "remove", "file"),
    Situ(Sql(<<"SELECT">>, FALSE), "nothing", "file") }

ToolSituations ==
  { Situ(Tool("message"), "create", "absent"), Situ(Tool("email"), "create", "absent"),
    Situ(Tool("write_file"), "create", "absent"),
    Situ(Tool("web_search"), "nothing", "file") }

MCSituations ==
  [e \in Effect |->
     IF e = CHOOSE x \in Effect : TRUE
     THEN WebSituations \cup FileSituations \cup SqlSituations \cup ToolSituations
     ELSE {Edit}]

\* A file that is there and cannot be read.
LockedSituations == [e \in Effect |-> {Situ(Fs("unlink"), "remove", "locked")}]

Ans(status, names, threw) == [status |-> status, names |-> names, threw |-> threw]
Ok == {Ans(0, "none", "no")}
Threw == {Ans(0, "none", "unnamed")}

MCAnswers ==
  [k \in {"http", "sql", "fs", "mcp_tool"} |->
     CASE k = "http" -> {Ans(200, "none", "no"), Ans(207, "id", "no"),
                         Ans(201, "location", "no"), Ans(404, "none", "no"),
                         Ans(500, "none", "no"), Ans(0, "none", "timeout"),
                         Ans(0, "none", "transport")}
       [] k = "sql" -> Ok \cup Threw \cup {Ans(0, "id", "no"), Ans(0, "rows", "no"),
                                           Ans(0, "none", "timeout")}
       [] k = "fs" -> Ok \cup Threw
       [] OTHER -> Ok \cup {Ans(0, "id", "no"), Ans(0, "none", "timeout")}]

Audit == [mode |-> "audit", drafted |-> TRUE, hosted |-> FALSE, budget |-> -1,
          blockT4 |-> FALSE, classifier |-> FALSE, shield |-> "unset"]

MCPolicies ==
  { Audit, [Audit EXCEPT !.mode = "off", !.budget = 1],
    [Audit EXCEPT !.mode = "enforce", !.budget = 1],
    [Audit EXCEPT !.hosted = TRUE, !.drafted = FALSE],
    [Audit EXCEPT !.blockT4 = TRUE, !.classifier = TRUE] }

\* An order is cancelled by a request to a path its manifest names.
Cancel ==
  [Builtin EXCEPT !.id = "cancel@1", !.source = "registered", !.methods = {"POST"},
     !.binds = FALSE, !.const = "offpath", !.full = FALSE, !.score = 1200, !.rank = 6,
     !.signed = TRUE, !.sample = Http("POST", FALSE),
     !.steps = <<[NewStep EXCEPT !.kind = "http_request", !.verb = "PUT",
                                 !.target = "const.target"]>>]
Unsigned == [Cancel EXCEPT !.signed = FALSE]
Foreign == [Cancel EXCEPT !.id = "foreign@1", !.const = "elsewhere", !.score = 1300,
                           !.rank = 7]

MCBatches == {<<Cancel>>, <<Unsigned, Foreign>>}

Http1(verb, target, flaw) ==
  <<[NewStep EXCEPT !.kind = "http_request", !.verb = verb, !.target = target,
                    !.flaw = flaw]>>
MCProposals ==
  { Http1("DELETE", "args.target", "none"), Http1("PUT", "bindings.url", "marker"),
    Http1("DELETE", "const.target", "none") }

Says(word) == [said |-> word, scope_ok |-> "unset", overreach |-> "unset",
               order_ok |-> "unset", sufficiency |-> "unset"]
MCOpinions ==
  { Says("unasked"), Says("timeout"),
    [Says("answered") EXCEPT !.sufficiency = "full", !.scope_ok = "true",
                             !.overreach = "false", !.order_ok = "true"],
    [Says("answered") EXCEPT !.overreach = "true"] }

\* The calls and manifests of Reversal.cfg meet the conditions of the theorems.
ASSUME ConditionsAreMet ==
  Situations = MCSituations => Recognized /\ Timely /\ AllStayHome /\ Restorable

=============================================================================
