------------------------------ MODULE ToolPlans ------------------------------
(***************************************************************************)
(* What each tool, resource and prompt asks of Wazuh: the pools its        *)
(* wrapper in server.py acquires a client from, in that order, and the     *)
(* requests its handler then sends, one after the other.                   *)
(*                                                                         *)
(* A request is a record:                                                  *)
(*   api     the client it goes through                                    *)
(*   writes  it changes something at the Wazuh manager                     *)
(*   must    a WazuhError of it ends the call; otherwise the handler       *)
(*           catches it and goes on without the answer                     *)
(*   empty   what follows an answer that holds nothing: "next" request,    *)
(*           "skip" the next one, "done" (the call ends well) or "error"   *)
(***************************************************************************)
EXTENDS Sequences

Request(api, writes, must, empty) ==
    [api |-> api, writes |-> writes, must |-> must, empty |-> empty]

Search(must, empty) == Request("indexer", FALSE, must, empty)
Get(must, empty)    == Request("server", FALSE, must, empty)
\* put(), delete(), and put_raw() for the XML of a rule file.
Put                 == Request("server", TRUE, TRUE, "next")

Tool(toolset, names) == {<<toolset, n>> : n \in names}

-----------------------------------------------------------------------------
(* The tools by the client their wrapper acquires.                          *)
AlertTools == Tool("alerts",
    {"search_alerts", "get_alert", "alerts_by_agent", "alerts_by_mitre"})
AgentTools == Tool("agents",
    {"list_agents", "get_agent", "agent_processes", "agent_packages", "agent_ports"})
VulnTools    == Tool("vulnerabilities",
    {"list_vulnerabilities_by_agent", "search_vulnerabilities"})
MitreTools   == Tool("mitre", {"get_mitre_technique", "search_mitre"})
HuntTools    == Tool("hunt", {"hunt_query", "pivot_by_ioc"})
ClusterTools == Tool("cluster", {"status"})
FimTools     == Tool("fim", {"fim_history_for_path", "fim_changes_by_agent"})
WriteTools   == Tool("write",
    {"isolate_agent", "restart_agent", "add_agent_to_group",
     "remove_agent_from_group", "create_rule", "update_rule",
     "run_active_response", "run_active_response_on_group",
     "restart_node", "restart_cluster"})
Resources == Tool("resource", {"rules", "mitre", "agent_config"})
Prompts   == Tool("prompt", {"triage_last_hour", "investigate_alert", "agent_posture"})

IndexerTools == AlertTools \cup VulnTools \cup HuntTools \cup FimTools
Operations == IndexerTools \cup AgentTools \cup MitreTools \cup ClusterTools
                \cup WriteTools \cup Resources \cup Prompts

PoolsOf(op) ==
    CASE op \in IndexerTools \cup {<<"prompt", "triage_last_hour">>} -> <<"indexer">>
      [] op \in Prompts \ {<<"prompt", "triage_last_hour">>} -> <<"indexer", "server">>
      [] OTHER -> <<"server">>

-----------------------------------------------------------------------------
(* The requests of each handler.                                            *)
AgentRequests(op) ==
    <<Get(TRUE, IF op[2] = "get_agent" THEN "error" ELSE "next")>>

MitreRequests(op) ==
    <<Get(TRUE, IF op[2] = "get_mitre_technique" THEN "error" ELSE "next")>>

\* cluster_status(): /cluster/nodes is not asked for when clustering is off,
\* which is the "empty" answer of /cluster/status.
StatusRequests(whenOff) == <<Get(TRUE, whenOff), Get(TRUE, "next")>>

\* run_active_response_on_group(): an empty group needs no PUT.
GroupRequests == <<Get(TRUE, "done"), Put>>

\* restart_manager(): the scope is checked against the status first.
RestartRequests(scope) ==
    Append(StatusRequests(IF scope = "cluster" THEN "error" ELSE "skip"), Put)

AgentWriteRequests == <<Put>>       \* isolate, restart, add and remove
RuleRequests       == <<Put>>       \* the whole file, overwrite=true
ResponseRequests   == <<Put>>

WriteRequests(op) ==
    CASE op[2] = "run_active_response_on_group" -> GroupRequests
      [] op[2] = "restart_node"                 -> RestartRequests("node")
      [] op[2] = "restart_cluster"              -> RestartRequests("cluster")
      [] op[2] = "run_active_response"          -> ResponseRequests
      [] op[2] \in {"create_rule", "update_rule"} -> RuleRequests
      [] OTHER                                  -> AgentWriteRequests

RuleResource        == <<Get(TRUE, "error")>>
MitreResource       == <<Get(TRUE, "error")>>
AgentConfigResource == <<Get(TRUE, "error")>>

ResourceRequests(op) ==
    CASE op[2] = "rules" -> RuleResource
      [] op[2] = "mitre" -> MitreResource
      [] OTHER           -> AgentConfigResource

\* Any WazuhError of the one search becomes the text of the prompt.
TriagePrompt == <<Search(FALSE, "next")>>

\* No alert, or an alert without an agent: nothing more is asked.
InvestigatePrompt == <<Search(TRUE, "done"), Get(FALSE, "next"), Search(FALSE, "next")>>

PosturePrompt == <<Get(TRUE, "done"), Search(FALSE, "next"), Search(FALSE, "next")>>

PromptRequests(op) ==
    CASE op[2] = "triage_last_hour"  -> TriagePrompt
      [] op[2] = "investigate_alert" -> InvestigatePrompt
      [] OTHER                       -> PosturePrompt

RequestsOf(op) ==
    CASE op \in AgentTools   -> AgentRequests(op)
      [] op \in MitreTools   -> MitreRequests(op)
      [] op \in ClusterTools -> StatusRequests("skip")
      [] op \in WriteTools   -> WriteRequests(op)
      [] op \in Resources    -> ResourceRequests(op)
      [] op \in Prompts      -> PromptRequests(op)
      [] OTHER               -> <<Search(TRUE, IF op[2] = "get_alert" THEN "error"
                                                                  ELSE "next")>>

\* The requests before which a handler checks arguments itself, with a client
\* already acquired: a builder of wazuh/query.py, a pattern, or the argument
\* model of another tool raises ValueError.  The prompts check the agent's id
\* for alerts_by_agent.  All other arguments are checked before the acquire().
ChecksBefore(op) ==
    CASE op = <<"prompt", "investigate_alert">> -> {1, 3}
      [] op = <<"prompt", "agent_posture">>     -> {1, 2}
      [] op \in Resources \cup MitreTools
                  \cup (IndexerTools \ {<<"hunt", "hunt_query">>}) -> {1}
      [] OTHER                                  -> {}
=============================================================================
