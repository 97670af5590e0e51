---------------------------- MODULE WazuhIndexerSink ----------------------------
(***************************************************************************)
(* WazuhIndexerSink of observability/sinks/wazuh_indexer.py: the batched   *)
(* drain loop over a destination that can take part of a batch, or all of  *)
(* it and lose the reply.  A document is identified by the daily index it  *)
(* is in and by the event's event_id, which _build_bulk_body sets as _id:  *)
(* posting an event to an index that has it overwrites the document.       *)
(***************************************************************************)
EXTENDS BatchSink, FiniteSets

CONSTANT MaxDay   \* bound: the run crosses MaxDay - 1 midnights

ASSUME DayAssumption == MaxDay \in Nat \ {0}

VARIABLES
    template,  \* _template_installed
    target,    \* the day of _today_index() in the last bulk body
    day,       \* external: today, in UTC
    docs       \* external: the documents, each an event in a daily index

vars == <<sinkVars, template, target, day, docs>>
destination == <<template, target, day, docs>>

Days == 1..MaxDay

TypeOK ==
    /\ phase      \in {"unstarted", "running", "joining", "stopped"}
    /\ submitted  \in 0..MaxEvents
    /\ cut        \in 0..MaxEvents
    /\ buffer     \in EventSeq /\ Len(buffer) <= MaxSize
    /\ queue      \in EventSeq /\ Len(queue) <= MaxSize
    /\ unfinished \in 0..MaxSize
    /\ drain      \in {"none", "gathering", "sending", "posting", "backoff", "ended"}
    /\ held       \in EventSeq /\ Len(held) <= Batch
    /\ attempts   \in 0..MaxAttempts - 1
    /\ delivered  \in SUBSET Events
    /\ dropped    \in SUBSET Events
    /\ abandoned  \in SUBSET Events
    /\ joined     \in BOOLEAN
    /\ timedOut   \in BOOLEAN
    /\ template   \in BOOLEAN
    /\ target     \in Days
    /\ day        \in Days
    /\ docs       \in SUBSET (Events \X Days)

Init ==
    /\ SinkInit
    /\ template = FALSE
    /\ target = 1
    /\ day = 1
    /\ docs = {}
-----------------------------------------------------------------------------
(* One attempt of _send_with_retry: template, client, bulk.                *)

\* _ensure_template and the pool's acquire went well; the body of the bulk call
\* names the index of the day it is built on.
Prepare ==
    /\ drain = "sending"
    /\ template' = TRUE
    /\ target' = day
    /\ drain' = "posting"
    /\ UNCHANGED <<queueVars, held, attempts, delivered, dropped, abandoned,
                   timedOut, day, docs>>

\* Either of them raised.  The flag is set only after the template call.
PrepareFails ==
    /\ drain = "sending"
    /\ BatchFails
    /\ template' \in {template, TRUE}
    /\ UNCHANGED <<target, day, docs>>

\* The documents of `written` land in the index the body names.
Index(written) == docs' = docs \cup (written \X {target})

\* A reply that reports item errors taken for a success.
PostIgnoresErrors ==
    /\ drain = "posting"
    /\ \E written \in SUBSET Elements(held) : Index(written)
    /\ BatchAccepted
    /\ UNCHANGED <<template, target, day>>

\* The bulk call returned without errors: every item is indexed.
Post ==
    /\ drain = "posting"
    /\ Index(Elements(held))
    /\ BatchAccepted
    /\ UNCHANGED <<template, target, day>>

\* It raised, or reported errors: some items, or all, may be indexed.
PostFails ==
    /\ drain = "posting"
    /\ \E written \in SUBSET Elements(held) : Index(written)
    /\ BatchFails
    /\ UNCHANGED <<template, target, day>>

Midnight ==
    /\ day < MaxDay
    /\ day' = day + 1
    /\ UNCHANGED <<sinkVars, template, target, docs>>

LoopStep == (Gather \/ Flush \/ LoopEnds \/ Retry \/ Interrupt) /\ UNCHANGED destination
Drain == LoopStep \/ Prepare \/ PrepareFails \/ Post \/ PostFails
Lifecycle == (Submit \/ Start("gathering") \/ BeginStop) /\ UNCHANGED destination

\* A bulk call that stop() cancels may have reached the indexer.
Halt ==
    /\ Stop
    /\ \/ drain = "posting" /\ (\E written \in SUBSET Elements(held) : Index(written))
       \/ drain # "posting" /\ UNCHANGED docs
    /\ UNCHANGED <<template, target, day>>

Next == Lifecycle \/ Halt \/ Drain \/ Midnight

Spec == Init /\ [][Next]_vars

\* The drain task is scheduled, a batch's deadline passes, the http client's
\* own timeout ends every attempt, a backoff elapses.
FairSpec == Spec /\ WF_vars(Drain)
-----------------------------------------------------------------------------
(* Properties.                                                             *)

\* An event counted as delivered is in the index: a bulk reply that reports
\* item errors is no delivery (_send_with_retry, resp.get("errors")).
DeliveredIsIndexed ==
    \A e \in delivered : \E d \in Days : <<e, d>> \in docs

\* Does not hold.  "At-least-once delivery becomes effectively exactly-once at
\* the index layer" (docs/deploy/observability.md:196): an event has one document
\* at most.  The _id is one per index, and _build_bulk_body names today's index on
\* every attempt.
OneDocumentPerEvent ==
    \A x, y \in docs : x[1] = y[1] => x = y

\* Only a stop() loses events without a count, and only those in hand: every
\* other one is waiting, delivered or counted, and one of these only (submit,
\* _drain_loop).
NoSilentLossWhileRunning ==
    /\ Waiting \cup delivered \cup dropped \cup abandoned = 1..submitted
    /\ Waiting \cap (delivered \cup dropped \cup abandoned) = {}
    /\ delivered \cap dropped = {}
    /\ abandoned \cap (delivered \cup dropped) = {}
    /\ Cardinality(abandoned) <= Batch
    /\ phase # "stopped" => abandoned = {}

\* What the code does not keep (no configuration asks for it): a sink that was
\* told to stop accounts for every earlier event, "Two loss modes, both
\* surfaced via mcp_audit_drops_total" (observability.md:270).
AccountedWhenStopped ==
    phase = "stopped" /\ ~timedOut => 1..cut \subseteq delivered \cup dropped

\* While nobody stops the sink, every event is eventually delivered or
\* counted as dropped, whatever the indexer answers.
EventuallySettled ==
    \A e \in Events :
      (e \in Waiting /\ phase = "running")
        ~> (e \in delivered \cup dropped \/ phase # "running")

\* The sink is an audit channel: batches settle whole and in order.
ImplementsChannel == Channel!Spec
=============================================================================
