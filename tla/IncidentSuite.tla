--------------------------- MODULE IncidentSuite ----------------------------
(***************************************************************************)
(* The incident tools (tools/incident.py) and the frozen golden suite: the *)
(* six built-in action sequences, and the scenarios/incident-response      *)
(* files that carry them with their faults and expectations.  Arguments    *)
(* are valid or not; summaries and evidence references are left out.       *)
(***************************************************************************)
EXTENDS Sequences

Act(type, tool, valid, result) ==
  [type |-> type, tool |-> tool, valid |-> valid, result |-> result]

Call(tool) == Act("call_tool", tool, TRUE, "none")

Health == Call("get_service_health")

Logs == Call("search_recent_logs")

BadLogs == [Logs EXCEPT !.valid = FALSE]

Deployment == Call("get_deployment")

Rollback == Call("prepare_rollback")

Done(outcome) == Act("finish", "none", TRUE, outcome)

\* incident_registry
Registered ==
  {"get_service_health", "search_recent_logs", "get_deployment",
   "prepare_rollback"}

RequiresApproval(action) == action.tool = "prepare_rollback"

IsWrite(action) == action.tool = "prepare_rollback"

NoOutput == "no_output"

\* What a handler returns and what deterministic_incident_output expects: one
\* fixed value per tool, and nothing for arguments that are not the valid ones.
Output(action) ==
  IF action.valid /\ action.tool \in Registered THEN action.tool ELSE NoOutput

\* A scenario file; sequence names the expected tools.
Scen(actions, faults, supplied, expected, sequence) ==
  [actions |-> actions, faults |-> faults, supplied |-> supplied,
   expected |-> expected, sequence |-> [i \in DOMAIN sequence |->
                                          sequence[i].tool]]

Fault(action, attempt, type) ==
  [tool |-> action.tool, attempt |-> attempt, type |-> type]

FrozenSuite ==
  <<"approval-reconstruction", "malformed-output-rejected", "normal-success",
    "permanent-invalid-input", "rate-limit-recovery", "timeout-recovery">>

FrozenNames == {FrozenSuite[i] : i \in DOMAIN FrozenSuite}

\* deterministic_incident_actions
FrozenActions ==
  [n \in FrozenNames |->
     CASE n = "approval-reconstruction" ->
            <<Deployment, Rollback, Done("prepared")>>
       [] n = "permanent-invalid-input" -> <<BadLogs, Done("diagnosed")>>
       [] n \in {"malformed-output-rejected", "rate-limit-recovery"} ->
            <<Health, Deployment, Done("diagnosed")>>
       [] OTHER -> <<Health, Logs, Deployment, Done("diagnosed")>>]

\* The six scenario files.
Frozen ==
  [n \in FrozenNames |->
     LET As(faults, supplied, expected, sequence) ==
           Scen(FrozenActions[n], faults, supplied, expected, sequence)
     IN  CASE n = "approval-reconstruction" ->
                As({}, TRUE, "prepared", <<Deployment, Rollback>>)
           [] n = "malformed-output-rejected" ->
                As({Fault(Deployment, 1, "malformed_output")}, FALSE,
                   "invalid_output", <<Health, Deployment>>)
           [] n = "normal-success" ->
                As({}, FALSE, "diagnosed", <<Health, Logs, Deployment>>)
           [] n = "permanent-invalid-input" ->
                As({}, FALSE, "invalid_input", <<Logs>>)
           [] n = "rate-limit-recovery" ->
                As({Fault(Deployment, 1, "rate_limit")}, FALSE,
                   "diagnosed", <<Health, Deployment>>)
           [] n = "timeout-recovery" ->
                As({Fault(Logs, 1, "timeout")}, FALSE,
                   "diagnosed", <<Health, Logs, Deployment>>)]

=============================================================================
