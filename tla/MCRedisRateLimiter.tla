-------------------------- MODULE MCRedisRateLimiter --------------------------
(* Small instances of RedisRateLimiter: one tenant, two sessions, a task each. *)
EXTENDS RedisRateLimiter

CONSTANTS t1, t2, s1, s2
MCTasks     == {t1, t2}
MCCanceller == {t1}
MCSessions  == {s1, s2}
MCSessionOf == [t \in MCTasks |-> IF t = t1 THEN s1 ELSE s2]
=============================================================================
