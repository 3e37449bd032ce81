------------------------------- MODULE Taxonomy -------------------------------
(***************************************************************************)
(* How a call is classified: the tier of its reversibility, before the call *)
(* and after it (packages/core/src/taxonomy.ts, sqlkind.ts, the tiers of    *)
(* sdk-ts/src/effect.ts, policy/lexshield.ts, classify/model.ts).  Pure     *)
(* operators; Reversal drives them.                                         *)
(*                                                                         *)
(* A call keeps what the rules look at: method, body, search-like path and  *)
(* override header of an http request, the statements of a SQL text as      *)
(* sequences of words (comments, strings and names gone), the operation of  *)
(* a file call, the tool of an MCP call.  An answer keeps its status (0 is  *)
(* none), what it names, and the exception the call ended with.             *)
(***************************************************************************)
EXTENDS Integers, Sequences, SequencesExt

Tier == {"T1", "T2", "T3", "T4"}

TIER_ORDER == [t \in Tier |-> CASE t = "T1" -> 1 [] t = "T2" -> 2
                                [] t = "T3" -> 3 [] t = "T4" -> 4]

maxTier(a, b) == IF TIER_ORDER[a] >= TIER_ORDER[b] THEN a ELSE b

\* The absence of a manifest tier, or of a tier proposed by the model.
NoTier == "none"

READ_HTTP == {"GET", "HEAD", "OPTIONS", "TRACE"}
READ_FS == {"open", "stat", "readdir", "readlink", "open_rdonly"}
FsOp == READ_FS \cup {"write", "truncate", "mkdir", "rename", "unlink", "chmod", "chown",
                      "utimes"}

\* The calls, by what captures them, and the answers they may get.
Call ==
  [kind : {"http"}, method : READ_HTTP \cup {"POST", "PUT", "PATCH", "DELETE"},
   body : BOOLEAN, search : BOOLEAN, override : BOOLEAN, internal : BOOLEAN]
  \cup [kind : {"sql"}, stmts : Seq(Seq(STRING)), internal : BOOLEAN, hasSet : BOOLEAN]
  \cup [kind : {"fs"}, op : FsOp, inRoots : BOOLEAN, internal : BOOLEAN]
  \cup [kind : {"mcp_tool"}, tool : STRING, inRoots : BOOLEAN, internal : BOOLEAN]

Answer == [status : 0 .. 599, names : {"none", "id", "rows", "location"},
           threw : {"no", "unnamed", "timeout", "transport"}]

-----------------------------------------------------------------------------
(* sqlkind.ts: what kind of statement a SQL text is. *)

MUTATING == {"INSERT", "UPDATE", "DELETE", "MERGE"}
DDL == {"TRUNCATE", "DROP", "ALTER", "CREATE", "GRANT", "REINDEX", "VACUUM"}
Starter == {"SELECT", "INSERT", "UPDATE", "DELETE", "TRUNCATE", "CALL", "EXEC"}

\* A mutating word within ten words of AS ( and before the next bracket closes.
hasModifyingCte(words) ==
  \E i \in DOMAIN words :
    /\ words[i] = "AS" /\ i < Len(words) /\ words[i + 1] = "("
    /\ \E j \in DOMAIN words :
         /\ j \in i + 2 .. i + 11
         /\ words[j] \in MUTATING
         /\ \A k \in i + 2 .. j - 1 : words[k] # ")"

innermostMutating(words, otherwise) ==
  LET found == SelectSeq(words, LAMBDA w : w \in MUTATING \ {"MERGE"})
  IN  IF found = <<>> THEN otherwise ELSE found[Len(found)]

\* The word a statement is known by: after WITH, the first word of Starter, wherever
\* it stands.
MainWord(words) ==
  IF words[1] = "WITH" THEN SelectSeq(words, LAMBDA w : w \in Starter) ELSE words

KindOfWord(word) ==
  CASE word = "EXECUTE" -> "EXEC"
    [] word \in Starter \cup DDL -> word
    [] OTHER -> "UNKNOWN"

primaryKind(words) ==
  IF words = <<>> \/ MainWord(words) = <<>> THEN "UNKNOWN"
  ELSE KindOfWord(Head(MainWord(words)))

\* The kind of the one statement that is looked at, and the clauses that matter.
KindOf(words, primary) ==
  IF hasModifyingCte(words) THEN innermostMutating(words, primary) ELSE primary

Clauses(words) ==
  [forUpdate |-> \E i \in 1 .. Len(words) - 1 :
                   words[i] = "FOR" /\ words[i + 1] \in {"UPDATE", "SHARE"},
   cte       |-> hasModifyingCte(words),
   returning |-> \E i \in DOMAIN words : words[i] = "RETURNING"]

FirstStatement(stmts) == IF stmts = <<>> THEN <<>> ELSE stmts[1]

SqlKind(stmts) == KindOf(FirstStatement(stmts), primaryKind(FirstStatement(stmts)))

-----------------------------------------------------------------------------
(* classifyStructural, by kind of call. *)

\* What is known before the call was made.
NoAnswer == [status |-> 0, names |-> "none", threw |-> "no"]

Refused(a) == a.status \in 400 .. 499 /\ a.names = "none"
Unsure(a)  == a.threw \in {"timeout", "transport"} \/ a.status >= 500

Usable(pre) == pre \notin {"none", "truncated"}

\* The rules on method, path and answer, before doubt and refusal are applied.
HttpRule(c, a, pre) ==
  LET reads == c.method \in READ_HTTP
  IN  CASE c.override -> "T3"
        [] ~c.override /\ reads -> IF c.body THEN "T3" ELSE "T1"
        [] ~c.override /\ c.method = "DELETE" -> "T4"
        [] ~c.override /\ c.method \in {"PUT", "PATCH"} ->
             CASE a.status = 201 /\ a.names # "none" -> "T3"
               [] ~(a.status = 201 /\ a.names # "none") /\ Usable(pre) ->
                    IF c.internal THEN "T2" ELSE "T3"
               [] OTHER -> "T4"
        [] ~c.override /\ c.method = "POST" ->
             IF ~c.search /\ a.status >= 400 /\ a.names = "none" THEN "T1" ELSE "T3"

\* Doubt raises a read's tier, a refusal lowers any, and an internal service has a floor.
ClassifyHttp(c, a, rule) ==
  LET writes == c.method \notin READ_HTTP
      least  == IF c.internal /\ (writes \/ c.body) THEN "T2" ELSE "T1"
  IN  CASE Unsure(a) /\ writes -> IF rule = "T1" THEN "T3" ELSE rule
        [] Refused(a) /\ ~(Unsure(a) /\ writes) -> least
        [] OTHER -> IF rule = "T1" THEN least ELSE rule

SqlRule(kind, clauses, pre, t23) ==
  CASE kind = "SELECT" -> CASE clauses.forUpdate -> "T2"
                            [] ~clauses.forUpdate /\ clauses.cte -> "T4"
                            [] OTHER -> "T1"
    [] kind = "INSERT" -> IF clauses.returning THEN t23 ELSE "T4"
    [] kind \in {"UPDATE", "DELETE"} -> IF Usable(pre) THEN t23 ELSE "T4"
    [] OTHER -> "T4"

ClassifySqlCall(c, pre) ==
  IF Len(c.stmts) > 1 THEN "T4"
  ELSE SqlRule(SqlKind(c.stmts), Clauses(FirstStatement(c.stmts)), pre,
               IF c.internal THEN "T2" ELSE "T3")

\* downgraded: reason fidelity_downgrade_no_preimage.
ClassifyFs(c, pre, fidelity) ==
  CASE ~c.inRoots -> "T4"
    [] c.inRoots /\ c.op \in READ_FS -> "T1"
    [] c.inRoots /\ c.op \in {"write", "truncate"} ->
         IF pre = "truncated" \/ (pre = "none" /\ fidelity # "full")
         THEN "T4" ELSE "T2"
    [] c.inRoots /\ c.op \in {"mkdir", "rename", "chmod", "chown", "utimes"} -> "T2"
    [] c.inRoots /\ c.op = "unlink" -> IF Usable(pre) THEN "T2" ELSE "T4"
    [] OTHER -> "T4"

ClassifyTool(c) == IF c.tool = "message" THEN "T3" ELSE "T4"

\* Tools of agent runtimes that stand for a file or a web call.
rewriteAgentTool(c) ==
  CASE c.kind = "mcp_tool" /\ c.tool = "write_file" ->
         [kind |-> "fs", op |-> "write", inRoots |-> c.inRoots, internal |-> FALSE]
    [] c.kind = "mcp_tool" /\ c.tool = "read_file" ->
         [kind |-> "fs", op |-> "stat", inRoots |-> c.inRoots, internal |-> FALSE]
    [] c.kind = "mcp_tool" /\ c.tool = "web_search" ->
         [kind |-> "http", method |-> "GET", body |-> FALSE, search |-> FALSE,
          override |-> FALSE, internal |-> FALSE]
    [] OTHER -> c

ClassifyRewritten(c, a, pre, fidelity) ==
  CASE c.kind = "http"     -> ClassifyHttp(c, a, HttpRule(c, a, pre))
    [] c.kind = "sql"      -> ClassifySqlCall(c, pre)
    [] c.kind = "fs"       -> ClassifyFs(c, pre, fidelity)
    [] c.kind = "mcp_tool" -> ClassifyTool(c)
    [] OTHER               -> "T4"

\* The tier the rules give a call.
classifyStructural(c, a, pre, fidelity) ==
  ClassifyRewritten(rewriteAgentTool(c), a, pre, fidelity)

-----------------------------------------------------------------------------
(* classifyAction: structure, locality, manifest and model joined. *)

\* Only the paths of file calls are held against the writable roots.
detectScopeViolation(c) == c.kind = "fs" /\ ~c.inRoots

LocalityTier(c, structural) ==
  IF c.internal /\ structural # "T1" THEN "T2" ELSE "T1"

\* A manifest's tier replaces the rules'; the model's can only raise it.
joinTier(structural, locality, manifest, model, violation) ==
  LET ruled  == maxTier(structural, locality)
      told   == IF manifest # NoTier THEN manifest ELSE ruled
      scoped == IF violation THEN "T4" ELSE told
  IN  IF model = NoTier THEN scoped ELSE maxTier(scoped, model)

\* fidelity_downgrade_no_preimage is the one rule a manifest does not replace.
Downgraded(c, pre, fidelity) ==
  /\ c.kind = "fs" /\ c.op \in {"write", "truncate"} /\ c.inRoots
  /\ pre = "none" /\ fidelity # "full"

Joined(c, structural, manifest, model) ==
  joinTier(structural, LocalityTier(c, structural), manifest, model,
           detectScopeViolation(c))

classifyAction(c, a, pre, fidelity, manifest, model) ==
  IF Downgraded(rewriteAgentTool(c), pre, fidelity) THEN "T4"
  ELSE Joined(c, classifyStructural(c, a, pre, fidelity), manifest, model)

-----------------------------------------------------------------------------
(* Policy before the call: LexShield, the model, blockT4. *)

\* heuristicEscalate: the tier the model proposes when no service is asked.
heuristicEscalate(c) ==
  IF c.kind = "shell" \/ (c.kind = "mcp_tool" /\ c.tool \in {"email", "transfer"})
  THEN "T4" ELSE NoTier

\* shield: "unset", a decision, "timeout" or "unreachable".
applyLexShieldPolicy(blockT4, tier, shield) ==
  CASE shield = "unset"                 -> blockT4 /\ tier = "T4"
    [] shield = "ALLOW"                 -> FALSE
    [] shield \in {"BLOCK", "CHALLENGE", "timeout", "unreachable"} -> blockT4

-----------------------------------------------------------------------------
(* openEffect and closeEffect. *)

needsPreimageCapture(c, tier, required) ==
  c.kind \in {"fs", "sql"} \/ tier = "T2" \/ required

\* The tier the preflight gate sees.  With blockT4 and a classifier the call is
\* classified again, and this time without the pre-image.
PreflightTier(c, pre, fidelity, manifest, asksModel, model) ==
  LET again == asksModel /\ model # NoTier
  IN  classifyAction(c, NoAnswer, IF again THEN "none" ELSE pre, fidelity, manifest,
                     IF again THEN model ELSE NoTier)

isMutating(c) == classifyStructural(c, NoAnswer, "none", "full") # "T1"

\* Mutant: every exception is a failure.
StatusOf_TimeoutFailed(c, a) ==
  CASE a.threw # "no" -> "failed"
    [] a.threw = "no" -> IF isMutating(c) /\ a.status >= 500 THEN "in_doubt" ELSE "landed"

\* The status closeEffect gives an effect; doubt of the rules is doubt of the answer.
StatusOf(c, a) ==
  IF Unsure(a) /\ isMutating(c) THEN "in_doubt"
  ELSE IF a.threw = "no" THEN "landed" ELSE "failed"

compensationFor(tier, matched, truncated, bindingMissing) ==
  CASE tier = "T1" -> "none_required"
    [] tier # "T1" /\ (truncated \/ bindingMissing \/ tier = "T4"
                         \/ (tier = "T3" /\ ~matched)) -> "unavailable"
    [] OTHER -> "available"

=============================================================================
