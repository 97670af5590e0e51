------------------------------ MODULE MCUpstream ------------------------------
(* Two calls of one tenant, one operation of each shape a plan can have.     *)
EXTENDS Upstream, TLC

CONSTANTS c1, c2
MCCalls == {c1, c2}
Symmetry == Permutations(MCCalls)
MCOps ==
    {<<"write", "create_rule">>, <<"write", "restart_node">>,
     <<"prompt", "investigate_alert">>}
=============================================================================
