------------------------------ MODULE MCToolCall ------------------------------
(* Two tenants, one of them without a write filter, a tenant nobody has      *)
(* registered, and the tools that take a path of their own.                  *)
EXTENDS ToolCall

CONSTANTS c1, c2
MCCalls   == {c1, c2}
MCTenants == {"acme", "beta"}
MCOwner   == <<"global", "acme", "beta">>

WriteAll == [responder |-> {<<"alerts", "*">>, <<"write", "*">>}]
MCConfig ==
    [acme |-> [roles |-> WriteAll, writes |-> {RunAr, RunArOnGroup},
               commands |-> {"block"}, groups |-> {"web"}],
     beta |-> [roles |-> <<>>, writes |-> NoFilter, commands |-> {}, groups |-> {}]]

Ask(tenant, role, tool, command, group) ==
    [tenant |-> tenant, role |-> role, tool |-> tool, command |-> command,
     group |-> group, schema |-> TRUE, valid |-> TRUE]

Search      == <<"alerts", "search_alerts">>
RestartAgent == <<"write", "restart_agent">>
UpdateRule  == <<"write", "update_rule">>

MCRequests ==
    {Ask("acme", "responder", Search, "-", "-"),
     Ask("acme", "responder", RestartAgent, "-", "-"),
     Ask("acme", "responder", RunAr, "block", "-"),
     Ask("acme", "responder", RunAr, "wipe", "-"),
     Ask("acme", "responder", RunArOnGroup, "block", "db"),
     Ask("acme", "responder", RunArOnGroup, "wipe", "web"),
     Ask("beta", "readonly", RestartAgent, "-", "-"),
     Ask("beta", "admin", RestartManager, "-", "-"),
     Ask("gone", "admin", Search, "-", "-"),
     [Ask("acme", "responder", RunAr, "block", "-") EXCEPT !.schema = FALSE],
     [Ask("beta", "admin", UpdateRule, "-", "-") EXCEPT !.valid = FALSE]}
=============================================================================
