------------------------------- MODULE BatchSink -------------------------------
(***************************************************************************)
(* The drain loop that HttpSink (observability/sinks/http.py) and          *)
(* WazuhIndexerSink share: gather up to a batch of events or until flush_ms *)
(* elapses, then send the batch as a whole, with the base sink's retries.  *)
(* It differs from QueuedSink's loop in two ways that matter: task_done()  *)
(* runs as an event is taken, so join() does not wait for the batch in     *)
(* hand, and a retry interrupted by stop() records its events as dropped.  *)
(***************************************************************************)
EXTENDS SinkQueue

CONSTANT Batch   \* batch

ASSUME BatchAssumption == Batch \in Nat \ {0}

\* An event is taken from the queue: task_done() follows at once.
Gather ==
    /\ drain = "gathering"
    /\ queue # <<>> /\ Len(held) < Batch
    /\ held' = Append(held, Head(queue))
    /\ queue' = Tail(queue)
    /\ unfinished' = unfinished - 1
    /\ WakeJoin(unfinished - 1)
    /\ UNCHANGED <<phase, submitted, cut, buffer, drain, attempts, delivered,
                   dropped, abandoned, timedOut>>

\* The batch is full or its deadline has passed.
Flush ==
    /\ drain = "gathering"
    /\ held # <<>>
    /\ drain' = "sending"
    /\ UNCHANGED <<queueVars, held, attempts, delivered, dropped, abandoned, timedOut>>

\* The deadline passed with nothing gathered, and the loop condition fails.
LoopEnds ==
    /\ drain = "gathering"
    /\ stopping /\ queue = <<>> /\ held = <<>>
    /\ drain' = "ended"
    /\ UNCHANGED <<queueVars, held, attempts, delivered, dropped, abandoned, timedOut>>

\* The destination accepted the whole batch.
BatchAccepted == Deliver(0, "gathering")

BatchFailsUncounted ==
    /\ drain' = "backoff"
    /\ UNCHANGED <<queueVars, held, attempts, delivered, dropped, abandoned, timedOut>>

\* An attempt raised: back off, or drop the whole batch.
BatchFails ==
    \/ /\ attempts + 1 < MaxAttempts
       /\ attempts' = attempts + 1
       /\ drain' = "backoff"
       /\ UNCHANGED <<queueVars, held, delivered, dropped, abandoned, timedOut>>
    \/ attempts + 1 >= MaxAttempts /\ RecordDrop(0, "gathering")

\* The backoff elapsed: the batch is sent again.
Retry ==
    /\ drain = "backoff"
    /\ drain' = "sending"
    /\ UNCHANGED <<queueVars, held, attempts, delivered, dropped, abandoned, timedOut>>

\* A stop during the backoff that forgets to record the batch.
InterruptSilently == drain = "backoff" /\ stopping /\ Abandon(0, "gathering")

\* _stop was set during the backoff: the batch is dropped, and recorded.
Interrupt == drain = "backoff" /\ stopping /\ RecordDrop(0, "gathering")

\* stop() cancels the drain task; what it holds is already task_done.
Stop == EndStop(0)
=============================================================================
