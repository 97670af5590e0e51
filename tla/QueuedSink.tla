------------------------------- MODULE QueuedSink -------------------------------
(***************************************************************************)
(* QueuedSink of observability/sinks/base.py with its own drain loop: one  *)
(* event at a time, retried with a backoff that stop() interrupts.  The    *)
(* stderr, stdout and file sinks are this sink with a _deliver that writes *)
(* to a stream.                                                            *)
(***************************************************************************)
EXTENDS SinkQueue

DrainState == {"none", "getting", "delivering", "backoff", "ended"}

TypeOK ==
    /\ phase      \in {"unstarted", "running", "joining", "stopped"}
    /\ submitted  \in 0..MaxEvents
    /\ cut        \in 0..MaxEvents
    /\ buffer     \in EventSeq /\ Len(buffer) <= MaxSize
    /\ queue      \in EventSeq /\ Len(queue) <= MaxSize
    /\ unfinished \in 0..MaxSize + 1
    /\ drain      \in DrainState
    /\ held       \in EventSeq /\ Len(held) <= 1
    /\ attempts   \in 0..MaxAttempts - 1
    /\ delivered  \in SUBSET Events
    /\ dropped    \in SUBSET Events
    /\ abandoned  \in SUBSET Events
    /\ joined     \in BOOLEAN
    /\ timedOut   \in BOOLEAN
-----------------------------------------------------------------------------
(* _drain_loop and _deliver_with_retry.                                    *)

\* get() takes the newest event.
GetNewest ==
    /\ drain = "getting"
    /\ queue # <<>>
    /\ held' = <<queue[Len(queue)]>>
    /\ queue' = SubSeq(queue, 1, Len(queue) - 1)
    /\ drain' = "delivering"
    /\ UNCHANGED <<phase, submitted, cut, buffer, unfinished, joined, attempts,
                   delivered, dropped, abandoned, timedOut>>

\* get() returned within its timeout; the first attempt is under way.
Get ==
    /\ drain = "getting"
    /\ queue # <<>>
    /\ held' = <<Head(queue)>>
    /\ queue' = Tail(queue)
    /\ drain' = "delivering"
    /\ UNCHANGED <<phase, submitted, cut, buffer, unfinished, joined, attempts,
                   delivered, dropped, abandoned, timedOut>>

\* get() timed out and the loop condition fails: stop is set, nothing is left.
LoopEnds ==
    /\ drain = "getting"
    /\ stopping /\ queue = <<>>
    /\ drain' = "ended"
    /\ UNCHANGED <<queueVars, held, attempts, delivered, dropped, abandoned, timedOut>>

\* _deliver returned; task_done() runs in the finally.
DeliverSucceeds == drain = "delivering" /\ Deliver(1, "getting")

\* A failure that is not counted.
DeliverFailsUncounted ==
    /\ drain = "delivering"
    /\ drain' = "backoff"
    /\ UNCHANGED <<queueVars, held, attempts, delivered, dropped, abandoned, timedOut>>

\* _deliver raised and attempts remain: back off.
DeliverFails ==
    /\ drain = "delivering"
    /\ attempts + 1 < MaxAttempts
    /\ attempts' = attempts + 1
    /\ drain' = "backoff"
    /\ UNCHANGED <<queueVars, held, delivered, dropped, abandoned, timedOut>>

\* _deliver raised for the last time.
DeliverExhausted ==
    /\ drain = "delivering"
    /\ attempts + 1 >= MaxAttempts
    /\ RecordDrop(1, "getting")

\* The backoff elapsed before _stop was set.  (A timer that fires in the same
\* loop iteration as the set also counts as elapsed, so `stopping` is no bar.)
Retry ==
    /\ drain = "backoff"
    /\ drain' = "delivering"
    /\ UNCHANGED <<queueVars, held, attempts, delivered, dropped, abandoned, timedOut>>

\* A backoff that gives up whether or not _stop is set.
AbandonAtOnce == drain = "backoff" /\ Abandon(1, "getting")

\* _stop was set during the backoff: give up, without _record_drop.
AbandonRetry == drain = "backoff" /\ stopping /\ Abandon(1, "getting")

\* The `finally` of the drain loop counts an event it was cancelled on.
Stop == EndStop(Len(held))

Drain == Get \/ LoopEnds \/ DeliverSucceeds \/ DeliverFails
           \/ DeliverExhausted \/ Retry \/ AbandonRetry

Init == SinkInit

Next == Submit \/ Start("getting") \/ BeginStop \/ Stop \/ Drain

Spec == Init /\ [][Next]_sinkVars

\* The drain task is scheduled, an attempt ends, a backoff elapses; a stop()
\* whose join() was woken is resumed.  That the timeout around join() fires is
\* not assumed.
FairSpec == Spec /\ WF_sinkVars(Drain) /\ WF_sinkVars(joined /\ Stop)
-----------------------------------------------------------------------------
(* Properties.                                                             *)

\* The counter join() waits on is what the queue and the drain task still
\* hold, through every eviction, delivery, drop, abandonment and cancellation:
\* an eviction without task_done(), or with two, would break stop() (submit).
JoinCountsOpenEvents == unfinished = Len(queue) + Len(held)

\* Each submitted event is waiting, delivered, counted as dropped or abandoned,
\* and only one of them; until stop() is called none is abandoned (submit,
\* start, _drain_loop).
NoSilentLossWhileRunning ==
    /\ Waiting \cup delivered \cup dropped \cup abandoned = 1..submitted
    /\ Waiting \cap (delivered \cup dropped \cup abandoned) = {}
    /\ delivered \cap dropped = {}
    /\ abandoned \cap (delivered \cup dropped) = {}
    /\ ~stopping => abandoned = {}

\* Everything still waiting is younger than everything delivered: neither a
\* retry nor an eviction reorders the audit trail.
DeliveredInOrder == \A d \in delivered, w \in Waiting : d < w

\* A stop() whose join() ended in time leaves at most what it interrupted in a
\* backoff: everything else submitted before it was delivered or counted.
GracefulStopFlushes ==
    phase = "stopped" /\ ~timedOut
      => 1..cut \subseteq delivered \cup dropped \cup abandoned

\* While nobody stops the sink, every event is eventually settled: a failing
\* destination cannot hold up the queue for ever (max_attempts).
EventuallySettled ==
    \A e \in Events :
      (e \in Waiting /\ phase = "running")
        ~> (e \in delivered \cup dropped \/ phase # "running")

\* stop() returns because its join() ends, and does not need shutdown_timeout_s
\* for that: whatever the destination does and whoever goes on submitting, the
\* counter comes down to 0.  One eviction without its task_done(), and every
\* stop() would sit out the timeout (submit, _drain_loop, stop).
JoinReturns == phase = "joining" ~> phase = "stopped"

\* The sink is an audit channel.
ImplementsChannel == Channel!Spec
=============================================================================
