------------------------------- MODULE SinkQueue -------------------------------
(***************************************************************************)
(* The part of QueuedSink (observability/sinks/base.py) that its           *)
(* subclasses inherit unchanged: submit(), start() and stop().  The drain  *)
(* loops are in QueuedSink and WazuhIndexerSink.                           *)
(*                                                                         *)
(* One asyncio task runs at a time and is suspended only at an await, so   *)
(* submit() and start(), which do not await, are one step each.  stop()    *)
(* awaits _queue.join(): it is two steps with the drain task in between.   *)
(*                                                                         *)
(* Events are numbered in the order of their submission.                   *)
(***************************************************************************)
EXTENDS Integers, Sequences

CONSTANTS
    MaxEvents,    \* bound: how many events are submitted
    MaxSize,      \* maxsize
    MaxAttempts   \* max_attempts

ASSUME SinkAssumption ==
    /\ MaxEvents   \in Nat
    /\ MaxSize     \in Nat \ {0}
    /\ MaxAttempts \in Nat \ {0}

VARIABLES
    phase,      \* which of start() and stop() have run
    submitted,  \* history: the number of events submitted so far
    cut,        \* history: the number submitted before stop() was called
    buffer,     \* _pre_start_buffer
    queue,      \* _queue
    unfinished, \* the queue's unfinished-task counter, which join() watches
    joined,     \* the counter was 0 at some point since stop() called join()
    drain,      \* where the drain task is suspended
    held,       \* the events the drain task has taken from the queue
    attempts,   \* failed attempts to deliver what is held
    delivered,  \* history: events whose delivery was acknowledged
    dropped,    \* history: events passed to _record_drop
    abandoned,  \* history: events the drain task gave up without _record_drop
    timedOut    \* history: join() did not end within shutdown_timeout_s

queueVars == <<phase, submitted, cut, buffer, queue, unfinished, joined>>
drainVars == <<drain, held, attempts, delivered, dropped, abandoned>>
sinkVars  == <<phase, submitted, cut, buffer, queue, unfinished, joined, drain,
               held, attempts, delivered, dropped, abandoned, timedOut>>

Events == 1..MaxEvents
EventSeq == Seq(Events)
Elements(s) == {s[i] : i \in 1..Len(s)}
stopping == phase \in {"joining", "stopped"}   \* _stop.is_set()

SinkInit ==
    /\ phase = "unstarted"
    /\ submitted = 0
    /\ cut = 0
    /\ buffer = <<>>
    /\ queue = <<>>
    /\ unfinished = 0
    /\ joined = FALSE
    /\ drain = "none"
    /\ held = <<>>
    /\ attempts = 0
    /\ delivered = {}
    /\ dropped = {}
    /\ abandoned = {}
    /\ timedOut = FALSE

\* `low` is the least value the counter has in a step.  task_done() that brings
\* it to 0 wakes the join() of stop() for good, even if a put() follows.
WakeJoin(low) == joined' = (joined \/ (phase = "joining" /\ low = 0))
-----------------------------------------------------------------------------
(* submit: append, pushing out the oldest event of a full queue.           *)

Full(q) == Len(q) >= MaxSize

SubmitBeforeStart(e) ==
    /\ phase = "unstarted"
    /\ buffer' = Append(IF Full(buffer) THEN Tail(buffer) ELSE buffer, e)
    /\ dropped' = IF Full(buffer) THEN dropped \cup {Head(buffer)} ELSE dropped
    /\ UNCHANGED <<queue, unfinished, joined>>

\* An eviction nobody counts.
SubmitSilently(e) ==
    /\ phase # "unstarted"
    /\ queue' = Append(IF Full(queue) THEN Tail(queue) ELSE queue, e)
    /\ unfinished' = IF Full(queue) THEN unfinished ELSE unfinished + 1
    /\ UNCHANGED <<buffer, dropped, joined>>

\* An eviction without task_done(): the counter drifts away from the queue.
SubmitWithoutTaskDone(e) ==
    /\ phase # "unstarted"
    /\ queue' = Append(IF Full(queue) THEN Tail(queue) ELSE queue, e)
    /\ dropped' = IF Full(queue) THEN dropped \cup {Head(queue)} ELSE dropped
    /\ unfinished' = unfinished + 1
    /\ UNCHANGED <<buffer, joined>>

SubmitToQueue(e) ==
    /\ phase # "unstarted"
    /\ queue' = Append(IF Full(queue) THEN Tail(queue) ELSE queue, e)
    /\ dropped' = IF Full(queue) THEN dropped \cup {Head(queue)} ELSE dropped
    /\ unfinished' = IF Full(queue) THEN unfinished ELSE unfinished + 1
    /\ WakeJoin(IF Full(queue) THEN unfinished - 1 ELSE unfinished)
    /\ UNCHANGED buffer

Submit ==
    /\ submitted < MaxEvents
    /\ submitted' = submitted + 1
    /\ SubmitBeforeStart(submitted + 1) \/ SubmitToQueue(submitted + 1)
    /\ UNCHANGED <<phase, cut, drain, held, attempts, delivered, abandoned, timedOut>>
-----------------------------------------------------------------------------
(* start and stop.                                                         *)

\* What was buffered is submitted to the new queue, then the drain task is
\* created.  The buffer has the queue's bound, so nothing is pushed out.
Start(first) ==
    /\ phase = "unstarted"
    /\ phase' = "running"
    /\ queue' = buffer
    /\ unfinished' = Len(buffer)
    /\ buffer' = <<>>
    /\ drain' = first
    /\ UNCHANGED <<submitted, cut, joined, held, attempts, delivered, dropped,
                   abandoned, timedOut>>

\* _stop.set(), then join() under wait_for.  Before start() stop() returns.
BeginStop ==
    /\ phase = "running"
    /\ phase' = "joining"
    /\ cut' = submitted
    /\ joined' = (unfinished = 0)
    /\ UNCHANGED <<submitted, buffer, queue, unfinished, drainVars, timedOut>>

\* stop() without join().
EndStopAtOnce(counted) ==
    /\ phase = "joining"
    /\ phase' = "stopped"
    /\ drain' = "ended"
    /\ held' = <<>>
    /\ attempts' = 0
    /\ abandoned' = abandoned \cup Elements(held)
    /\ unfinished' = unfinished - counted
    /\ UNCHANGED <<submitted, cut, buffer, queue, joined, delivered, dropped, timedOut>>

\* join() has ended or its timeout has; the drain task is cancelled where it
\* is suspended (if it has not ended) and `counted` of what it held is task_done.
\* CancelledError is not an Exception: nothing it held is retried or recorded.
\* (A timeout may still beat a join() that was woken but has not run yet.)
EndStop(counted) ==
    /\ phase = "joining"
    /\ phase' = "stopped"
    /\ (joined /\ UNCHANGED timedOut) \/ timedOut' = TRUE
    /\ drain' = "ended"
    /\ held' = <<>>
    /\ attempts' = 0
    /\ abandoned' = abandoned \cup Elements(held)
    /\ unfinished' = unfinished - counted
    /\ UNCHANGED <<submitted, cut, buffer, queue, joined, delivered, dropped>>
-----------------------------------------------------------------------------
(* The end of what the drain task holds.                                   *)

Deliver(counted, next) ==
    /\ delivered' = delivered \cup Elements(held)
    /\ held' = <<>>
    /\ attempts' = 0
    /\ drain' = next
    /\ unfinished' = unfinished - counted
    /\ WakeJoin(unfinished - counted)
    /\ UNCHANGED <<phase, submitted, cut, buffer, queue, dropped, abandoned, timedOut>>

RecordDrop(counted, next) ==
    /\ dropped' = dropped \cup Elements(held)
    /\ held' = <<>>
    /\ attempts' = 0
    /\ drain' = next
    /\ unfinished' = unfinished - counted
    /\ WakeJoin(unfinished - counted)
    /\ UNCHANGED <<phase, submitted, cut, buffer, queue, delivered, abandoned, timedOut>>

Abandon(counted, next) ==
    /\ abandoned' = abandoned \cup Elements(held)
    /\ held' = <<>>
    /\ attempts' = 0
    /\ drain' = next
    /\ unfinished' = unfinished - counted
    /\ WakeJoin(unfinished - counted)
    /\ UNCHANGED <<phase, submitted, cut, buffer, queue, delivered, dropped, timedOut>>
-----------------------------------------------------------------------------
(* What every sink promises, whatever its drain loop.                      *)

Waiting == Elements(buffer) \cup Elements(queue) \cup Elements(held)

Channel == INSTANCE AuditChannel WITH
    pending <- Waiting, lost <- abandoned, closing <- stopping
=============================================================================
