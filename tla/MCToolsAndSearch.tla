--------------------------- MODULE MCToolsAndSearch ---------------------------
(* The path of a call and what a searching tool returns, side by side in one *)
(* run.  They share no variable, so their interleavings would show nothing:  *)
(* `part` says which of them takes steps.                                    *)
EXTENDS MCToolCall, MCAlertSearch

VARIABLE part

CallOrSearchInit == Init /\ SearchInit /\ part \in {"call", "search"}

CallOrSearchNext ==
    \/ part = "call" /\ Next /\ UNCHANGED <<searchVars, part>>
    \/ part = "search" /\ SearchNext /\ UNCHANGED <<vars, part>>

CallOrSearch == CallOrSearchInit /\ [][CallOrSearchNext]_<<vars, searchVars, part>>
=============================================================================
