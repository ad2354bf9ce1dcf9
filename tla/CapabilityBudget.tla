-------------------------- MODULE CapabilityBudget --------------------------
(***************************************************************************)
(* The capability budget of a CAP session (policy/capabilityBudget.js): a  *)
(* set of sinks a session may still reach.  A step that reads tainted data *)
(* closes sinks; a proposed tool is blocked when it needs a closed one.    *)
(*                                                                         *)
(* A budget is the set of its open sinks.  The code's tests on substrings  *)
(* of a tool name (name.includes('read'), ...) are the constants Includes* *)
(* and StartsWithSql, the tools whose name passes the test; the exact      *)
(* names the code lists stay sets of names here.  A path hint is the set   *)
(* of taint words its text contains, so a hint may contain both.           *)
(***************************************************************************)
EXTENDS JsNull, Naturals, Sequences, FiniteSets

CONSTANTS Tool,            \* names of the tools agents may propose
          IncludesRead,    \* tools whose name includes 'read'
          IncludesEmail,   \* tools whose name includes 'email'
          IncludesHttp,    \* tools whose name includes 'http'
          StartsWithSql    \* tools whose name starts with 'sql'

ASSUME CapabilityToolAssumption ==
    /\ IncludesRead \subseteq Tool
    /\ IncludesEmail \subseteq Tool
    /\ IncludesHttp \subseteq Tool
    /\ StartsWithSql \subseteq Tool

CAPABILITY_SINKS ==
    {"external_network", "email", "database_write", "file_export", "shell_exec"}

PathHint == SUBSET {"confidential", "internal"}
Verdict == {"PERMIT", "DENY", "ESCALATE"}

READ_TOOLS ==
    {"read_file", "read", "grep_search", "grep", "list_dir", "list_directory",
     "search_files", "get_file_tree", "mcp_read_file", "mcp_list_dir", "mcp_query_db"}
TRANSFORM_TOOLS ==
    {"summarize", "transform", "analyze", "grep_search", "mcp_summarize"}
NETWORK_SINK_TOOLS ==
    {"http_post", "http_request", "fetch_url", "send_email", "post_message",
     "webhook", "external_api"}
DB_SINK_TOOLS == {"sql.execute", "sql_execute", "database_write", "write_db"}
SHELL_SINK_TOOLS == {"execute_command", "run_bash", "shell", "system.command.execute"}

EXPORT_SINK_TOOLS(tool) ==
    CASE tool = "export_file" -> {"file_export"}
      [] tool \in {"export_data", "download_file", "bulk_export", "mcp_export_report"}
           -> {"file_export", "external_network"}
      [] OTHER -> {}

Role(tool) ==
    CASE tool \in READ_TOOLS \cup IncludesRead -> "read"
      [] tool \notin READ_TOOLS \cup IncludesRead /\ tool \in TRANSFORM_TOOLS -> "transform"
      [] OTHER -> "other"

\* The sinks a tool needs.
Sinks(tool) ==
    EXPORT_SINK_TOOLS(tool)
      \cup (IF tool \in NETWORK_SINK_TOOLS \cup IncludesEmail \cup IncludesHttp
              THEN {"external_network"} ELSE {})
      \cup (IF tool \in IncludesEmail THEN {"email"} ELSE {})
      \cup (IF tool \in DB_SINK_TOOLS \cup StartsWithSql THEN {"database_write"} ELSE {})
      \cup (IF tool \in SHELL_SINK_TOOLS THEN {"shell_exec"} ELSE {})

\* Only a read has a taint class; the confidential words are looked for first.
TaintClass(tool, hint) ==
    CASE Role(tool) = "read" /\ "confidential" \in hint -> "confidential"
      [] Role(tool) = "read" /\ "confidential" \notin hint /\ "internal" \in hint -> "internal"
      [] OTHER -> NULL

classifyToolCapability(tool, hint) ==
    [role |-> Role(tool), sinks |-> Sinks(tool), taintClass |-> TaintClass(tool, hint)]

\* The sinks reading data of this class closes.
Cleared(taintClass) ==
    CASE taintClass = "confidential" ->
           {"external_network", "email", "file_export", "database_write"}
      [] taintClass = "internal" -> {"external_network", "email"}
      [] OTHER -> {}

\* Mutant: confidential reads close nothing.
MutantInternalOnly(budget, taintClass) ==
    IF taintClass = "internal" THEN budget \ Cleared(taintClass) ELSE budget

attenuateBudgetForTaint(budget, taintClass) == budget \ Cleared(taintClass)

-----------------------------------------------------------------------------
(* A partial step is [tool_name, path_hint, verdict, ...].  Steps the gate
   denied did not run and are skipped. *)

Counts(step) == step.verdict # "DENY"
StepTaint(step) == TaintClass(step.tool_name, step.path_hint)

\* Positions of the steps that attenuate the budget.
TaintedAt(steps) == {i \in 1..Len(steps) : Counts(steps[i]) /\ StepTaint(steps[i]) # NULL}

\* Mutant: every tainted step restarts from the full budget.
MutantLastTaintOnly(steps) ==
    LET taint == IF TaintedAt(steps) = {} THEN NULL
                 ELSE StepTaint(steps[CHOOSE i \in TaintedAt(steps) :
                                        \A j \in TaintedAt(steps) : j <= i])
    IN [ budget |-> attenuateBudgetForTaint(CAPABILITY_SINKS, taint),
         tainted |-> taint # NULL, taintClass |-> taint ]

\* The code's fold only ever closes sinks, so the budget is what no counted
\* step has closed; the taint class it reports is that of the last one.
deriveCapabilityBudgetFromSteps(steps) ==
    [ budget |-> {s \in CAPABILITY_SINKS :
                    \A i \in TaintedAt(steps) :
                       s \in attenuateBudgetForTaint(CAPABILITY_SINKS, StepTaint(steps[i]))},
      tainted |-> TaintedAt(steps) # {},
      taintClass |-> IF TaintedAt(steps) = {} THEN NULL
                     ELSE StepTaint(steps[CHOOSE i \in TaintedAt(steps) :
                                            \A j \in TaintedAt(steps) : j <= i]) ]

\* Mutant: returns the tool's role where the session's taint class is meant.
MutantRoleForClass(priorSteps, tool) ==
    LET derived == deriveCapabilityBudgetFromSteps(priorSteps)
    IN [ allow |-> Sinks(tool) \subseteq derived.budget,
         budget |-> derived.budget, taintClass |-> Role(tool) ]

evaluateCapabilityBudget(priorSteps, tool) ==
    LET derived == deriveCapabilityBudgetFromSteps(priorSteps)
    IN [ allow |-> Sinks(tool) \subseteq derived.budget,
         budget |-> derived.budget,
         taintClass |-> derived.taintClass ]

\* A digest is modelled by its preimage: equal digests, equal contents.
buildCapabilityBudgetCommitment(budget, taintClass) ==
    [ sinks |-> budget, taint_class |-> taintClass,
      budget_state_hash |-> [sinks |-> budget, taint_class |-> taintClass] ]

verifyCapabilityBudgetCommitment(block) ==
    block.budget_state_hash = [sinks |-> block.sinks, taint_class |-> block.taint_class]

\* Offline replay: no prefix of the steps re-opens a sink the previous closed.
verifyBudgetMonotonicityFromPartialSteps(steps) ==
    \A i \in 1..Len(steps) :
       deriveCapabilityBudgetFromSteps(SubSeq(steps, 1, i)).budget
         \subseteq deriveCapabilityBudgetFromSteps(SubSeq(steps, 1, i - 1)).budget

\* Mutant: asks each block to close one more sink.
MutantStrictAttenuation(blocks) ==
    \A i \in 1..Len(blocks) :
       /\ blocks[i].sinks \subseteq CAPABILITY_SINKS
       /\ i > 1 => blocks[i].sinks \subseteq blocks[i - 1].sinks
                   /\ blocks[i].sinks # blocks[i - 1].sinks

\* The older check over committed budgets intersects as it goes, so a sink
\* that one block closed stays closed for every later one.
verifyMonotonicBudgetAttenuation(blocks) ==
    LET prior[i \in 0..Len(blocks)] ==
          IF i = 0 THEN CAPABILITY_SINKS ELSE prior[i - 1] \cap blocks[i].sinks
    IN \A i \in 1..Len(blocks) : blocks[i].sinks \subseteq prior[i - 1]
=============================================================================
