--------------------------- MODULE MCCircuitBreaker ---------------------------
(* Small instances of CircuitBreaker for TLC.                               *)
EXTENDS CircuitBreaker

CONSTANTS t1, t2, t3
MCTasks    == {t1, t2, t3}
MCTwoTasks == {t1, t2}
MCOneTask  == {t1}
=============================================================================
