------------------------------ MODULE RbacPolicy ------------------------------
(***************************************************************************)
(* Who may call what: rbac/policy.py, rbac/filter.py, rbac/resolver.py and *)
(* the allowlists of a tenant's configuration.  Configuration is read once *)
(* at start, so these are constant-level operators.                        *)
(*                                                                         *)
(* A tool is <<domain, name>>; a pattern is a tool, <<domain, "*">> or     *)
(* <<"*">>.                                                                *)
(***************************************************************************)
EXTENDS TLC

CONSTANTS
    Tenants,   \* the tenants in the registry
    Config,    \* Config[t]: roles, writes, commands and groups of tenant t
    NoFilter   \* write_allowlist: None

\* DEFAULT_ROLE_TOOL_ALLOWLIST
Defaults ==
    [admin    |-> {<<"*">>},
     analyst  |-> {<<"alerts", "*">>, <<"agents", "*">>, <<"vulnerabilities", "*">>,
                   <<"mitre", "*">>, <<"hunt", "*">>, <<"fim", "*">>},
     readonly |-> {<<"alerts", "*">>, <<"agents", "get_agent">>,
                   <<"agents", "list_agents">>, <<"vulnerabilities", "*">>,
                   <<"mitre", "*">>, <<"fim", "*">>}]

tool_matches(tool, allowlist) ==
    \E p \in allowlist : p = <<"*">> \/ p = tool \/ p = <<tool[1], "*">>

\* A tenant's entry for a role replaces the default for that role only.
effective_allowlist_for(override) == override @@ Defaults

\* A tenant that is not in the registry has no roles at all.
RbacPolicy(tenant) ==
    IF tenant \in Tenants THEN effective_allowlist_for(Config[tenant].roles) ELSE <<>>

is_allowed(role, tool, policy) ==
    /\ role \in DOMAIN policy
    /\ tool_matches(tool, policy[role])

IsWrite(tool) == tool[1] = "write"
RunAr        == <<"write", "run_active_response">>
RunArOnGroup == <<"write", "run_active_response_on_group">>
RestartManager == <<"write", "restart_manager">>

\* _check_write_allowed with make_write_allowlist.
WriteAllowed(tenant, tool) ==
    /\ tenant \in Tenants
    /\ Config[tenant].writes = NoFilter \/ tool \in Config[tenant].writes

\* The allowlist each of the two active-response tools looks an argument up in: the
\* command's for one, the group's for the other, which leaves the command unchecked.
ArAllowed(tenant, tool, command, group) ==
    /\ tool = RunAr        => command \in Config[tenant].commands
    /\ tool = RunArOnGroup => group \in Config[tenant].groups
=============================================================================
