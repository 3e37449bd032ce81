------------------------------- MODULE Registry -------------------------------
(***************************************************************************)
(* CompensatorRegistry (sdk-ts/src/registry.ts): which compensators a       *)
(* process knows, how one gets in, and which one it picks for a call.  The  *)
(* registry of VekRevert is created without a store: it is the memory of a  *)
(* process and nothing is hydrated into it.                                 *)
(*                                                                         *)
(* A manifest keeps its id, source and signature, what it matches, the tier *)
(* it claims, what it binds and whether it must, its steps, the target its  *)
(* constants name, its permits, its window and whether it promises a full   *)
(* reversal; "at" and "rank" order manifests of equal specificity, by time  *)
(* of registration and by id.                                               *)
(***************************************************************************)
EXTENDS Compiler

\* What an application may hand to register; its source is its own claim.
Manifest ==
  [id : STRING, source : {"builtin", "registered", "drafted"}, signed : BOOLEAN,
   disabled : BOOLEAN, kind : {"http", "sql", "fs", "mcp_tool"}, methods : SUBSET STRING,
   statuses : SUBSET (0 .. 599), tier : Tier, binds : BOOLEAN, needs : BOOLEAN,
   steps : Seq(Step), const : Place \cup {"none"}, permits : BOOLEAN,
   preimage : {"image", "absent", "none"}, window : BOOLEAN, full : BOOLEAN,
   cascade : BOOLEAN, score : Nat, at : Nat, rank : Nat, sample : Call]

\* What a manifest is tried on before it is let in: a call it matches, answered
\* with a sample of everything it binds.
syntheticReceipt(m) ==
  LET call == m.sample
      answer == [NoAnswer EXCEPT !.status = IF m.kind = "http" THEN 200 ELSE 0,
                                 !.names = IF m.binds THEN "id" ELSE "none"]
      url == BoundUrl(m, call, answer)
  IN  [call |-> call, answer |-> answer, pre |-> m.preimage,
       url |-> url, key |-> resourceKeys(call, answer, url)]

\* validateManifestSchema is met by every record of this shape.
gateDeclarativeManifest(m) ==
  CASE m.source = "drafted" -> "VR4005"
    [] m.source # "drafted" /\ hasConstRef(m.steps) /\ m.const = "none" -> "VR3006"
    [] OTHER -> compilePlan(syntheticReceipt(m), m, m.source, m.steps, FALSE)

\* Why register turns a manifest away, "ok" if it does not.  known: the ids it has.
registerVerdict(known, m, gate, hosted, force) ==
  IF gate # "ok" THEN gate
  ELSE IF hosted /\ m.source = "registered" /\ ~m.signed THEN "VR6003"
  ELSE IF ~force /\ m.id \in known THEN "VR3005"
  ELSE "ok"

\* The manifests of a list it turns away, those before them being known by then.
Refusals(memory, list, hosted, force) ==
  {i \in DOMAIN list :
     registerVerdict({o.id : o \in memory} \cup {list[j].id : j \in 1 .. i - 1},
       list[i], gateDeclarativeManifest(list[i]), hosted, force) # "ok"}

\* The first that is turned away ends it, and those before it stay in memory.
Admitted(list, refusals) == {i \in DOMAIN list : \A j \in refusals : i < j}

\* A manifest takes the place of one with its id.
Stored(memory, list, admitted, at) ==
  {o \in memory : \A i \in admitted : list[i].id # o.id} \cup
  {[list[i] EXCEPT !.at = at] :
     i \in {k \in admitted : \A l \in admitted : l > k => list[l].id # list[k].id}}

\* register, over a sequence of manifests: what is in memory then.
register(memory, list, at, hosted, force) ==
  Stored(memory, list, Admitted(list, Refusals(memory, list, hosted, force)), at)

\* match: in hosted mode only builtin and signed manifests take part.
match(memory, c, a, hosted) ==
  matchCompensator({m \in memory : ~hosted \/ m.source = "builtin" \/ m.signed}, c, a)

-----------------------------------------------------------------------------
(* The manifests the package ships with. *)

Builtin == [id |-> "none", source |-> "builtin", signed |-> FALSE, disabled |-> FALSE,
            kind |-> "http", methods |-> {}, statuses |-> {}, tier |-> "T3",
            binds |-> TRUE, needs |-> FALSE, steps |-> <<>>, const |-> "none",
            permits |-> FALSE, preimage |-> "none", window |-> FALSE,
            full |-> TRUE, cascade |-> FALSE, score |-> 1000, at |-> 0, rank |-> 0,
            sample |-> [kind |-> "none"]]

\* Its template: the bytes of the pre-image put back.
fsWrite ==
  [Builtin EXCEPT !.id = "cmp_fs_write@1", !.kind = "fs", !.tier = "T2",
     !.methods = {"write", "truncate", "unlink", "mkdir", "rename", "chmod"},
     !.preimage = "image", !.rank = 1,
     !.steps = <<[NewStep EXCEPT !.kind = "fs_restore", !.target = "args.target",
                                 !.source = "preimage.blob"]>>,
     !.sample = [kind |-> "fs", op |-> "write", inRoots |-> TRUE, internal |-> FALSE]]

\* Its template: the inserted row deleted.  Its cascade risk is high: executePlan
\* always asks a human.
sqlRow ==
  [Builtin EXCEPT !.id = "cmp_sql_row@1", !.kind = "sql", !.tier = "T2",
     !.methods = {"INSERT", "UPDATE", "DELETE"}, !.cascade = TRUE, !.rank = 2,
     !.steps = <<[NewStep EXCEPT !.kind = "sql_statement", !.verb = "DELETE",
                    !.target = "args.target", !.where = "pk", !.max = 1]>>,
     !.sample = [kind |-> "sql", stmts |-> <<<<"INSERT">>>>, internal |-> FALSE,
                 hasSet |-> FALSE]]

\* result_status_in and delete_undoes_create are its two conditions.
httpCreate ==
  [Builtin EXCEPT !.id = "cmp_http_create@1", !.methods = {"POST", "PUT"},
     !.statuses = {200, 201, 202}, !.steps = httpCreateSteps, !.score = 1100,
     !.rank = 3,
     !.sample = [kind |-> "http", method |-> "POST", body |-> FALSE,
                 search |-> FALSE, override |-> FALSE, internal |-> FALSE]]

\* Slack, Discord and Telegram; the last one has a window of two days.
messageSend ==
  [Builtin EXCEPT !.id = "cmp_message_send@1", !.kind = "mcp_tool",
     !.methods = {"message"}, !.needs = TRUE, !.steps = messageRetract,
     !.const = "own", !.permits = TRUE, !.window = TRUE, !.full = FALSE,
     !.score = 1100, !.rank = 4,
     !.sample = [kind |-> "mcp_tool", tool |-> "message", inRoots |-> TRUE,
                 internal |-> FALSE]]

emailManual ==
  [Builtin EXCEPT !.id = "cmp_email@1", !.kind = "mcp_tool", !.tier = "T4",
     !.methods = {"email"}, !.binds = FALSE, !.full = FALSE, !.score = 1100,
     !.rank = 5, !.steps = <<[NewStep EXCEPT !.kind = "manual"]>>,
     !.sample = [kind |-> "mcp_tool", tool |-> "email", inRoots |-> TRUE,
                 internal |-> FALSE]]

builtins == <<fsWrite, sqlRow, httpCreate, messageSend, emailManual>>

=============================================================================
