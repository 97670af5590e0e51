----------------------------- MODULE AuditEmitter -----------------------------
(***************************************************************************)
(* MultiSinkAuditEmitter of observability/audit.py and the HTTP lifespan   *)
(* that starts and stops it (transport/http.py).  A sink is a number: its  *)
(* place in _all_sinks, global sinks first.  What a sink does with an      *)
(* event it has accepted is the subject of QueuedSink and                  *)
(* WazuhIndexerSink; here it counts whether the sink was still alive.      *)
(***************************************************************************)
EXTENDS Integers

CONSTANTS
    NumSinks,  \* len(_all_sinks)
    Owner,     \* Owner[s]: the tenant of sink s, or Global
    Global

ASSUME EmitterAssumption == NumSinks \in Nat \ {0}

VARIABLES
    server,    \* where the lifespan is
    sink       \* per sink: "idle" before start(), "running", "stopped"

emitterVars == <<server, sink>>

Sinks == 1..NumSinks
Started == {s \in Sinks : sink[s] = "running"}

EmitterInit ==
    /\ server = "starting"
    /\ sink = [s \in Sinks |-> "idle"]

\* The sinks an event of tenant t is submitted to.
Routed(t) == {s \in Sinks : Owner[s] \in {Global, t}}

\* emit: the sinks that take an event of tenant t and are not stopped.  Before
\* start() they buffer it; a stopped sink queues it for a task that has ended.
Listeners(t) == {s \in Routed(t) : sink[s] # "stopped"}
-----------------------------------------------------------------------------
\* start: in order.  The application serves requests once all have started.
StartSink(s) ==
    /\ server = "starting"
    /\ sink[s] = "idle" /\ \A r \in Sinks : r < s => sink[r] = "running"
    /\ sink' = [sink EXCEPT ![s] = "running"]
    /\ server' = IF s = NumSinks THEN "up" ELSE server

\* A start() that raises and leaves the started sinks alone.
StartFailsAtOnce ==
    /\ server = "starting"
    /\ server' = "failed"
    /\ UNCHANGED sink

\* One sink fails to start: start() stops the started ones and raises.
StartFails ==
    /\ server = "starting"
    /\ server' = IF Started = {} THEN "failed" ELSE "rollback"
    /\ UNCHANGED sink

\* The last started first; a stop() that raises is suppressed.
RollBack(s) ==
    /\ server = "rollback"
    /\ sink[s] = "running" /\ \A r \in Started : r <= s
    /\ sink' = [sink EXCEPT ![s] = "stopped"]
    /\ server' = IF Started = {s} THEN "failed" ELSE server

\* The lifespan ends: the emitter is stopped first.
BeginShutdown ==
    /\ server = "up"
    /\ server' = "stopping"
    /\ UNCHANGED sink

\* stop: in order, every sink even if the stop() of another one raises.  Then the
\* session manager, which was started before the emitter, is closed.
StopSink(s) ==
    /\ server = "stopping"
    /\ sink[s] = "running" /\ \A r \in Started : s <= r
    /\ sink' = [sink EXCEPT ![s] = "stopped"]
    /\ server' = IF Started = {s} THEN "closing" ELSE server
=============================================================================
