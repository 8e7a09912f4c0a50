---------------------------- MODULE AgentTables ----------------------------
(***************************************************************************)
(* The two tables the agent is driven by: the session state machine of     *)
(* packages/agent-core/src/state-machine.ts and the action decision matrix *)
(* of packages/agent-core/src/adm.ts.  Both are data, so they are          *)
(* operators here, shared by every module that speaks about a session.     *)
(***************************************************************************)

AgentStates ==
  { "RECEIVED", "CONTEXT_LOADED", "PROMPT_COMPILED", "LLM_CALLED",
    "ACTION_DECIDED", "AWAITING_APPROVAL", "EXECUTING", "COMPLETED", "FAILED" }

(* Every state but a terminal one may also fail.                            *)
ValidTransitions ==
  { << "RECEIVED",          "CONTEXT_LOADED"    >>,
    << "CONTEXT_LOADED",    "PROMPT_COMPILED"   >>,
    << "PROMPT_COMPILED",   "LLM_CALLED"        >>,
    << "LLM_CALLED",        "ACTION_DECIDED"    >>,
    << "ACTION_DECIDED",    "AWAITING_APPROVAL" >>,
    << "ACTION_DECIDED",    "EXECUTING"         >>,
    << "AWAITING_APPROVAL", "EXECUTING"         >>,
    << "EXECUTING",         "COMPLETED"         >> }

TerminalStates == { "COMPLETED", "FAILED" }

----------------------------------------------------------------------------

Decisions == { "AUTONOMOUS", "DRAFT", "APPROVAL_REQUIRED", "NA" }

UserTypes == { "admin", "power", "standard", "readonly" }

(* The actions admins and power users may only take with an approval and    *)
(* nobody else may take at all.                                             *)
ApprovedWrites ==
  { "notification_send", "alert_create_update", "skill_execute",
    "escalation_trigger", "source_system_write" }

EvaluateAdm(action, userType) ==
  CASE action \in { "chatbot_simple", "chatbot_deep" } -> "AUTONOMOUS"
    [] action = "report_generate" ->
         IF userType = "readonly" THEN "NA" ELSE "AUTONOMOUS"
    [] action \in ApprovedWrites ->
         IF userType \in { "admin", "power" } THEN "APPROVAL_REQUIRED" ELSE "NA"
    [] action = "okr_create_assign" ->
         CASE userType = "admin" -> "APPROVAL_REQUIRED"
           [] userType = "power" -> "DRAFT"
           [] OTHER              -> "NA"
    [] OTHER -> "NA"

RequiresApproval(decision) == decision \in { "DRAFT", "APPROVAL_REQUIRED" }
============================================================================
