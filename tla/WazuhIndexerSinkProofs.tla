------------------------ MODULE WazuhIndexerSinkProofs ------------------------
(***************************************************************************)
(* Proofs about WazuhIndexerSink for every number of events, queue size,   *)
(* batch size, attempt limit and number of midnights: what its counters    *)
(* and the index say of each other, and that it is an audit channel too.   *)
(***************************************************************************)
EXTENDS WazuhIndexerSink, FiniteSetTheorems, TLAPS

USE SinkAssumption, BatchAssumption, DayAssumption

Increasing(s) == \A i, j \in 1..Len(s) : i < j => s[i] < s[j]
-----------------------------------------------------------------------------
(* The queue, as proved for the sink without batches.                      *)

Q == INSTANCE QueuedSinkProofs

LEMMA AppendElements ==
    ASSUME NEW s \in EventSeq, NEW e \in Events
    PROVE  /\ Append(s, e) \in EventSeq
           /\ Len(Append(s, e)) = Len(s) + 1
           /\ Elements(Append(s, e)) = Elements(s) \cup {e}
BY Q!AppendElements DEF Q!EventSeq, EventSeq, Q!Events, Events, Q!Elements, Elements

LEMMA TailElements ==
    ASSUME NEW s \in EventSeq, s # <<>>, Increasing(s)
    PROVE  /\ Head(s) \in Events
           /\ Tail(s) \in EventSeq
           /\ Len(Tail(s)) = Len(s) - 1
           /\ Head(s) \in Elements(s)
           /\ Elements(Tail(s)) = Elements(s) \ {Head(s)}
           /\ \A x \in Elements(Tail(s)) : Head(s) < x
           /\ Increasing(Tail(s))
BY Q!TailElements DEF Q!EventSeq, EventSeq, Q!Events, Events, Q!Elements, Elements,
                      Q!Increasing, Increasing

LEMMA EmptySeq ==
    /\ <<>> \in EventSeq
    /\ Len(<<>>) = 0
    /\ Elements(<<>>) = {}
    /\ Increasing(<<>>)
BY DEF EventSeq, Elements, Increasing

LEMMA ElementsType ==
    ASSUME NEW s \in EventSeq
    PROVE  /\ Elements(s) \subseteq Events
           /\ Len(s) \in Nat
           /\ s = <<>> <=> Elements(s) = {}
           /\ s = <<>> <=> Len(s) = 0
BY Q!ElementsType DEF Q!EventSeq, EventSeq, Q!Events, Events, Q!Elements, Elements

Enqueued(q, e) == Append(IF Full(q) THEN Tail(q) ELSE q, e)
Evicted(q) == IF Full(q) THEN {Head(q)} ELSE {}

LEMMA Enqueue ==
    ASSUME NEW q \in EventSeq, NEW e \in Events, Increasing(q),
           Len(q) <= MaxSize, \A x \in Elements(q) : x < e
    PROVE  /\ Enqueued(q, e) \in EventSeq
           /\ Enqueued(q, e) # <<>>
           /\ Len(Enqueued(q, e)) = IF Full(q) THEN Len(q) ELSE Len(q) + 1
           /\ Len(Enqueued(q, e)) <= MaxSize
           /\ Increasing(Enqueued(q, e))
           /\ Evicted(q) \subseteq Elements(q)
           /\ Elements(Enqueued(q, e)) = (Elements(q) \ Evicted(q)) \cup {e}
BY Q!Enqueue DEF Q!EventSeq, EventSeq, Q!Events, Events, Q!Elements, Elements,
                 Q!Increasing, Increasing, Q!Enqueued, Enqueued, Q!Evicted, Evicted,
                 Q!Full, Full

\* A sequence has at most as many elements as places.
LEMMA ElementsCount ==
    ASSUME NEW s \in EventSeq
    PROVE  IsFiniteSet(Elements(s)) /\ Cardinality(Elements(s)) <= Len(s)
<1> DEFINE D == 1..Len(s)
           f == [i \in D |-> s[i]]
<1>1. Len(s) \in Nat /\ Len(s) \in Int /\ 1 \in Int
  BY ElementsType
<1>2. IsFiniteSet(D) /\ Cardinality(D) = Len(s)
  <2>1. IsFiniteSet(1..Len(s)) /\ Cardinality(1..Len(s)) = IF 1 > Len(s) THEN 0 ELSE Len(s) - 1 + 1
    BY <1>1, FS_Interval
  <2> QED BY <1>1, <2>1
<1>3. f \in Surjection(D, Elements(s))
  BY DEF Surjection, Elements
<1>4. IsFiniteSet(Elements(s)) /\ Cardinality(Elements(s)) <= Cardinality(D)
  <2> HIDE DEF D, f
  <2> QED BY <1>2, <1>3, FS_Surjection
<1> QED BY <1>2, <1>4
-----------------------------------------------------------------------------
(* The inductive invariant: first what the queue and the drain task keep,  *)
(* then what the index does.                                               *)

SinkTypes ==
    /\ phase      \in {"unstarted", "running", "joining", "stopped"}
    /\ submitted  \in 0..MaxEvents
    /\ cut        \in 0..MaxEvents
    /\ buffer     \in EventSeq /\ Len(buffer) <= MaxSize
    /\ queue      \in EventSeq /\ Len(queue) <= MaxSize
    /\ drain      \in {"none", "gathering", "sending", "posting", "backoff", "ended"}
    /\ held       \in EventSeq /\ Len(held) <= Batch
    /\ attempts   \in 0..MaxAttempts - 1
    /\ delivered  \in SUBSET Events
    /\ dropped    \in SUBSET Events
    /\ abandoned  \in SUBSET Events
    /\ joined     \in BOOLEAN
    /\ timedOut   \in BOOLEAN

\* task_done() runs as an event is taken, so join() counts the queue only.
JoinCountsQueue == unfinished = Len(queue)

\* Which parts of the state go together.  Only stop() abandons, and only the
\* batch in hand.
Shape ==
    /\ phase = "unstarted" => queue = <<>> /\ drain = "none"
    /\ phase # "unstarted" => buffer = <<>>
    /\ drain \in {"sending", "posting", "backoff"} => held # <<>>
    /\ drain \in {"none", "ended"} => held = <<>>
    /\ phase # "stopped" => abandoned = {}
    /\ phase = "stopped" => drain = "ended"
    /\ Cardinality(abandoned) <= Batch

\* The waiting events stand in the order of their numbers, after everything
\* delivered.
Order ==
    /\ Increasing(buffer)
    /\ Increasing(queue)
    /\ \A h \in Elements(held), q \in Elements(queue) : h < q
    /\ \A d \in delivered, w \in Waiting : d < w

\* Every submitted event has a fate, and one only.
Fates ==
    /\ Waiting \cup delivered \cup dropped \cup abandoned = 1..submitted
    /\ Waiting \cap (delivered \cup dropped \cup abandoned) = {}
    /\ delivered \cap dropped = {}
    /\ abandoned \cap (delivered \cup dropped) = {}

SinkInv == SinkTypes /\ JoinCountsQueue /\ Shape /\ Order /\ Fates

IndexInv ==
    /\ template \in BOOLEAN
    /\ day \in Days
    /\ target \in Days
    /\ docs \in SUBSET (Events \X Days)
    /\ DeliveredIsIndexed

IInv == SinkInv /\ IndexInv

\* Seen from outside, a step is one of an audit channel or none at all.
ChannelStep == [Channel!Next]_Channel!vars

LEMMA InvInit == Init => IInv
<1> SUFFICES ASSUME Init PROVE IInv
  OBVIOUS
<1> USE DEF Init, SinkInit
<1>1. SinkTypes /\ JoinCountsQueue
  <2>1. submitted \in 0..MaxEvents /\ cut \in 0..MaxEvents /\ attempts \in 0..MaxAttempts - 1
    OBVIOUS
  <2>2. /\ buffer \in EventSeq /\ Len(buffer) <= MaxSize
        /\ queue \in EventSeq /\ Len(queue) <= MaxSize
        /\ held \in EventSeq /\ Len(held) <= Batch
    BY EmptySeq
  <2> QED BY <2>1, <2>2, EmptySeq DEF SinkTypes, JoinCountsQueue
<1>2. Shape
  BY FS_EmptySet DEF Shape
<1>3. Waiting = {}
  BY EmptySeq DEF Waiting
<1>4. Order /\ Fates
  BY <1>3, EmptySeq DEF Order, Fates
<1>5. IndexInv
  <2>1. docs \in SUBSET (Events \X Days)
    OBVIOUS
  <2>2. day \in Days /\ target \in Days
    BY DEF Days
  <2>3. template \in BOOLEAN /\ DeliveredIsIndexed
    BY DEF DeliveredIsIndexed
  <2> QED BY <2>1, <2>2, <2>3 DEF IndexInv
<1> QED BY <1>1, <1>2, <1>4, <1>5 DEF IInv, SinkInv
-----------------------------------------------------------------------------
(* The backlog.                                                            *)

LEMMA Known ==
    ASSUME SinkInv
    PROVE  /\ Waiting \subseteq 1..submitted
           /\ buffer \in EventSeq /\ queue \in EventSeq /\ held \in EventSeq
           /\ Len(buffer) \in Nat /\ Len(queue) \in Nat /\ Len(held) \in Nat
           /\ submitted \in Nat /\ submitted <= MaxEvents
           /\ Elements(held) \subseteq Events /\ Elements(queue) \subseteq Events
<1>1. Waiting \subseteq 1..submitted
  BY DEF SinkInv, Fates
<1>2. buffer \in EventSeq /\ queue \in EventSeq /\ held \in EventSeq
  BY DEF SinkInv, SinkTypes
<1>3. submitted \in Nat /\ submitted <= MaxEvents
  BY DEF SinkInv, SinkTypes
<1> QED BY <1>1, <1>2, <1>3, ElementsType

LEMMA HeldIsOldest ==
    ASSUME SinkInv
    PROVE  /\ Elements(held) \subseteq Waiting
           /\ \A h \in Elements(held) : \A w \in Waiting \ Elements(held) : h < w
           /\ Elements(held) \cap Elements(queue) = {}
           /\ held # <<>> => Elements(buffer) = {}
<1>1. ASSUME NEW h \in Elements(held), h \in Elements(queue)
      PROVE  FALSE
  <2>1. h \in Nat /\ h < h
    BY <1>1, Known DEF Events, SinkInv, Order
  <2> QED BY <2>1
<1>2. held # <<>> => Elements(buffer) = {}
  BY EmptySeq DEF SinkInv, Shape
<1>3. held = <<>> => Elements(held) = {}
  BY EmptySeq
<1> QED BY <1>1, <1>2, <1>3 DEF SinkInv, Order, Waiting

\* The batch in hand is let go, whatever becomes of it.
LEMMA Release ==
    ASSUME SinkInv, held' = <<>>, queue' = queue, buffer' = buffer
    PROVE  /\ Waiting' = Waiting \ Elements(held)
           /\ Elements(held') = {} /\ Len(held') = 0
           /\ held' \in EventSeq
           /\ Elements(held) \subseteq Waiting
<1>1. CASE held = <<>>
  BY <1>1, EmptySeq DEF Waiting
<1>2. CASE held # <<>>
  <2>1. Elements(buffer) = {} /\ Elements(held) \cap Elements(queue) = {}
    BY <1>2, HeldIsOldest
  <2> QED BY <2>1, EmptySeq DEF Waiting
<1> QED BY <1>1, <1>2
-----------------------------------------------------------------------------
(* What submit(), start() and stop() do.                                   *)

LEMMA SubmitStep ==
    ASSUME SinkInv, Submit
    PROVE  SinkInv' /\ ChannelStep
<1> DEFINE e == submitted + 1
<1>1. /\ e \in Events /\ \A x \in Waiting : x < e
      /\ 1..e = (1..submitted) \cup {e} /\ e \notin 1..submitted
      /\ submitted' = e
      /\ submitted' \in 0..MaxEvents
  BY Known DEF Submit, Events
<1>2. UNCHANGED <<phase, cut, drain, held, attempts, delivered, abandoned, timedOut>>
  BY DEF Submit
<1>3. /\ delivered \subseteq 1..submitted /\ dropped \subseteq 1..submitted
      /\ abandoned \subseteq 1..submitted
  BY DEF SinkInv, Fates
<1>4. ASSUME NEW gone \in SUBSET Waiting, \A x, y \in gone : x = y,
             Waiting' = (Waiting \ gone) \cup {e}, dropped' = dropped \cup gone
      PROVE  /\ Fates' /\ ChannelStep
             /\ \A d \in delivered', w \in Waiting' : d < w
             /\ dropped' \in SUBSET Events
  <2>1. Fates'
    BY <1>1, <1>2, <1>3, <1>4 DEF SinkInv, Fates
  <2>2. \A d \in delivered', w \in Waiting' : d < w
    BY <1>1, <1>2, <1>3, <1>4, Known DEF SinkInv, Order
  <2>3. ChannelStep
    BY <1>1, <1>2, <1>4 DEF ChannelStep, Channel!Next, Channel!Submit, stopping
  <2>4. dropped' \in SUBSET Events
    <3>1. 1..submitted \subseteq Events
      BY Known DEF Events
    <3> QED BY <1>3, <1>4, <3>1, Known
  <2> QED BY <2>1, <2>2, <2>3, <2>4
<1>5. CASE SubmitBeforeStart(e)
  <2>1. /\ buffer' = Enqueued(buffer, e) /\ dropped' = dropped \cup Evicted(buffer)
        /\ phase = "unstarted" /\ queue' = queue /\ unfinished' = unfinished
        /\ joined' = joined
    BY <1>5 DEF SubmitBeforeStart, Enqueued, Evicted
  <2>2. /\ buffer \in EventSeq /\ Increasing(buffer) /\ Len(buffer) <= MaxSize
        /\ \A x \in Elements(buffer) : x < e
    BY <1>1 DEF SinkInv, SinkTypes, Order, Waiting
  <2>3. /\ buffer' \in EventSeq /\ Len(buffer') <= MaxSize /\ Increasing(buffer')
        /\ Evicted(buffer) \subseteq Elements(buffer)
        /\ Elements(buffer') = (Elements(buffer) \ Evicted(buffer)) \cup {e}
    BY <1>1, <2>1, <2>2, Enqueue
  <2>4. Elements(queue) = {} /\ Elements(held) = {}
    BY <2>1, EmptySeq DEF SinkInv, Shape
  <2>5. /\ Evicted(buffer) \in SUBSET Waiting
        /\ \A x, y \in Evicted(buffer) : x = y
        /\ Waiting' = (Waiting \ Evicted(buffer)) \cup {e}
    BY <1>2, <2>1, <2>3, <2>4 DEF Waiting, Evicted
  <2>6. /\ Fates' /\ ChannelStep
        /\ \A d \in delivered', w \in Waiting' : d < w
        /\ dropped' \in SUBSET Events
    BY <1>4, <2>1, <2>5
  <2>7. SinkTypes' /\ JoinCountsQueue' /\ Shape'
    BY <1>1, <1>2, <2>1, <2>3, <2>6 DEF SinkInv, SinkTypes, JoinCountsQueue, Shape
  <2>8. Order'
    BY <1>2, <2>1, <2>3, <2>6 DEF SinkInv, Order
  <2> QED BY <2>6, <2>7, <2>8 DEF SinkInv
<1>6. CASE SubmitToQueue(e)
  <2>1. /\ queue' = Enqueued(queue, e) /\ dropped' = dropped \cup Evicted(queue)
        /\ unfinished' = IF Full(queue) THEN unfinished ELSE unfinished + 1
        /\ phase # "unstarted" /\ buffer' = buffer
        /\ joined' \in BOOLEAN
    BY <1>6 DEF SubmitToQueue, Enqueued, Evicted, WakeJoin
  <2>2. /\ queue \in EventSeq /\ Increasing(queue) /\ Len(queue) <= MaxSize
        /\ \A x \in Elements(queue) : x < e
    BY <1>1 DEF SinkInv, SinkTypes, Order, Waiting
  <2>3. /\ queue' \in EventSeq /\ Len(queue') <= MaxSize /\ Increasing(queue')
        /\ Len(queue') = IF Full(queue) THEN Len(queue) ELSE Len(queue) + 1
        /\ Evicted(queue) \subseteq Elements(queue)
        /\ Elements(queue') = (Elements(queue) \ Evicted(queue)) \cup {e}
    BY <1>1, <2>1, <2>2, Enqueue
  <2>4. Elements(held) \cap Elements(queue) = {}
    BY HeldIsOldest
  <2>5. /\ Evicted(queue) \in SUBSET Waiting
        /\ \A x, y \in Evicted(queue) : x = y
        /\ Waiting' = (Waiting \ Evicted(queue)) \cup {e}
    <3>1. Elements(buffer) = {}
      BY <2>1, EmptySeq DEF SinkInv, Shape
    <3> QED BY <1>2, <2>1, <2>3, <2>4, <3>1 DEF Waiting, Evicted
  <2>6. /\ Fates' /\ ChannelStep
        /\ \A d \in delivered', w \in Waiting' : d < w
        /\ dropped' \in SUBSET Events
    BY <1>4, <2>1, <2>5
  <2>7. SinkTypes' /\ Shape'
    BY <1>1, <1>2, <2>1, <2>3, <2>6 DEF SinkInv, SinkTypes, Shape
  <2>8. JoinCountsQueue'
    BY <2>1, <2>3 DEF SinkInv, JoinCountsQueue
  <2>9. Order'
    <3>1. \A h \in Elements(held) : h < e
      BY <1>1, HeldIsOldest
    <3> QED BY <1>2, <2>1, <2>3, <2>6, <3>1 DEF SinkInv, Order
  <2> QED BY <2>6, <2>7, <2>8, <2>9 DEF SinkInv
<1> QED BY <1>5, <1>6 DEF Submit

LEMMA StartStep ==
    ASSUME SinkInv, Start("gathering")
    PROVE  SinkInv' /\ ChannelStep
<1>1. /\ phase = "unstarted" /\ phase' = "running" /\ queue' = buffer /\ buffer' = <<>>
      /\ unfinished' = Len(buffer) /\ drain' = "gathering"
      /\ UNCHANGED <<submitted, cut, joined, held, attempts, delivered, dropped,
                     abandoned, timedOut>>
  BY DEF Start
<1>2. queue = <<>> /\ held = <<>> /\ held' = <<>>
  BY <1>1 DEF SinkInv, Shape
<1>3. Waiting' = Waiting /\ Elements(held') = {}
  BY <1>1, <1>2, EmptySeq DEF Waiting
<1>4. SinkTypes' /\ JoinCountsQueue'
  BY <1>1, EmptySeq DEF SinkInv, SinkTypes, JoinCountsQueue
<1>5. Shape' /\ Order' /\ Fates'
  BY <1>1, <1>2, <1>3, EmptySeq DEF SinkInv, Shape, Order, Fates
<1>6. ChannelStep
  BY <1>1, <1>3 DEF ChannelStep, Channel!vars, stopping
<1> QED BY <1>4, <1>5, <1>6 DEF SinkInv

LEMMA BeginStopStep ==
    ASSUME SinkInv, BeginStop
    PROVE  SinkInv' /\ ChannelStep
<1>1. /\ phase = "running" /\ phase' = "joining" /\ cut' = submitted
      /\ joined' \in BOOLEAN
      /\ UNCHANGED <<submitted, buffer, queue, unfinished, drain, held, attempts,
                     delivered, dropped, abandoned, timedOut>>
  BY DEF BeginStop, drainVars
<1>2. Waiting' = Waiting
  BY <1>1 DEF Waiting
<1>3. SinkTypes' /\ JoinCountsQueue' /\ Shape' /\ Order' /\ Fates'
  BY <1>1, <1>2 DEF SinkInv, SinkTypes, JoinCountsQueue, Shape, Order, Fates
<1>4. ChannelStep
  BY <1>1, <1>2 DEF ChannelStep, Channel!Next, Channel!Close, stopping
<1> QED BY <1>3, <1>4 DEF SinkInv

\* stop() cancels the drain task: the batch in hand is lost without a count.
LEMMA StopStep ==
    ASSUME SinkInv, Stop
    PROVE  SinkInv' /\ ChannelStep
<1>1. /\ phase = "joining" /\ phase' = "stopped" /\ drain' = "ended"
      /\ held' = <<>> /\ attempts' = 0
      /\ abandoned' = abandoned \cup Elements(held)
      /\ UNCHANGED <<submitted, cut, buffer, queue, joined, delivered, dropped>>
      /\ timedOut' \in {timedOut, TRUE}
  BY DEF Stop, EndStop
<1>2. unfinished' = unfinished
  <2>1. unfinished \in Nat
    BY Known DEF SinkInv, JoinCountsQueue
  <2> QED BY <2>1 DEF Stop, EndStop
<1>3. /\ Waiting' = Waiting \ Elements(held)
      /\ Elements(held') = {} /\ Len(held') = 0 /\ held' \in EventSeq
      /\ Elements(held) \subseteq Waiting
  BY <1>1, Release
<1>4. SinkTypes' /\ JoinCountsQueue'
  <2>1. abandoned' \in SUBSET Events /\ timedOut' \in BOOLEAN
    BY <1>1, Known DEF SinkInv, SinkTypes
  <2>2. attempts' \in 0..MaxAttempts - 1 /\ Len(held') <= Batch
    BY <1>1, <1>3
  <2> QED BY <1>1, <1>2, <1>3, <2>1, <2>2 DEF SinkInv, SinkTypes, JoinCountsQueue
<1>5. Shape'
  <2>1. abandoned' = Elements(held)
    BY <1>1 DEF SinkInv, Shape
  <2>2. Cardinality(Elements(held)) <= Batch
    <3>1. Cardinality(Elements(held)) \in Nat /\ Cardinality(Elements(held)) <= Len(held)
      BY Known, ElementsCount, FS_CardinalityType
    <3> QED BY <3>1, Known DEF SinkInv, SinkTypes
  <2> QED BY <1>1, <2>1, <2>2 DEF SinkInv, Shape
<1>6. Order' /\ Fates'
  BY <1>1, <1>3 DEF SinkInv, Order, Fates
<1>7. ChannelStep
  BY <1>1, <1>3 DEF ChannelStep, Channel!Next, Channel!Lose, stopping
<1> QED BY <1>4, <1>5, <1>6, <1>7 DEF SinkInv
-----------------------------------------------------------------------------
(* What the drain loop does with the backlog.                              *)

\* A step that moves the drain task and leaves the backlog alone.
LEMMA IdleStep ==
    ASSUME SinkInv,
           UNCHANGED <<queueVars, held, delivered, dropped, abandoned, timedOut>>,
           attempts' \in 0..MaxAttempts - 1,
           drain \in {"gathering", "sending", "posting", "backoff"},
           \/ drain' \in {"sending", "posting", "backoff"} /\ held # <<>>
           \/ drain' = "ended" /\ held = <<>>
    PROVE  SinkInv' /\ ChannelStep
<1>1. /\ UNCHANGED <<phase, submitted, cut, buffer, queue, unfinished, joined, held,
                     delivered, dropped, abandoned, timedOut>>
      /\ Waiting' = Waiting
  BY DEF queueVars, Waiting
<1>2. SinkTypes' /\ JoinCountsQueue'
  BY <1>1 DEF SinkInv, SinkTypes, JoinCountsQueue
<1>3. Shape' /\ Order' /\ Fates'
  BY <1>1 DEF SinkInv, Shape, Order, Fates
<1>4. ChannelStep
  BY <1>1 DEF ChannelStep, Channel!vars, stopping
<1> QED BY <1>2, <1>3, <1>4 DEF SinkInv

LEMMA GatherStep ==
    ASSUME SinkInv, Gather
    PROVE  SinkInv' /\ ChannelStep
<1> DEFINE h == Head(queue)
<1>1. /\ drain = "gathering" /\ queue # <<>> /\ Len(held) < Batch
      /\ held' = Append(held, h) /\ queue' = Tail(queue) /\ unfinished' = unfinished - 1
      /\ UNCHANGED <<phase, submitted, cut, buffer, drain, attempts, delivered,
                     dropped, abandoned, timedOut>>
      /\ joined' \in BOOLEAN
  BY DEF Gather, WakeJoin
<1>2. queue \in EventSeq /\ Increasing(queue)
  BY DEF SinkInv, SinkTypes, Order
<1>3. /\ h \in Events /\ h \in Elements(queue)
      /\ queue' \in EventSeq /\ Len(queue') = Len(queue) - 1 /\ Increasing(queue')
      /\ Elements(queue') = Elements(queue) \ {h}
      /\ \A x \in Elements(queue') : h < x
  BY <1>1, <1>2, TailElements
<1>4. /\ held' \in EventSeq /\ Len(held') = Len(held) + 1
      /\ Elements(held') = Elements(held) \cup {h}
  BY <1>1, <1>3, Known, AppendElements
<1>5. Waiting' = Waiting
  BY <1>1, <1>3, <1>4 DEF Waiting
<1>6. SinkTypes' /\ JoinCountsQueue'
  <2>1. Len(held') <= Batch /\ Len(queue') <= MaxSize
    BY <1>1, <1>3, <1>4, Known DEF SinkInv, SinkTypes
  <2> QED BY <1>1, <1>3, <1>4, <2>1, Known DEF SinkInv, SinkTypes, JoinCountsQueue
<1>7. Shape'
  BY <1>1 DEF SinkInv, Shape
<1>8. Order' /\ Fates'
  BY <1>1, <1>3, <1>4, <1>5 DEF SinkInv, Order, Fates
<1>9. ChannelStep
  BY <1>1, <1>5 DEF ChannelStep, Channel!vars, stopping
<1> QED BY <1>6, <1>7, <1>8, <1>9 DEF SinkInv

\* The batch in hand is delivered, or dropped and counted: it is the front of
\* the channel, for nothing older waits and nothing younger was delivered.
LEMMA SettleStep ==
    ASSUME SinkInv, drain \in {"sending", "posting", "backoff"},
           Deliver(0, "gathering") \/ RecordDrop(0, "gathering")
    PROVE  SinkInv' /\ ChannelStep
<1> DEFINE H == Elements(held)
<1>1. /\ held' = <<>> /\ attempts' = 0 /\ drain' = "gathering"
      /\ UNCHANGED <<phase, submitted, cut, buffer, queue, abandoned, timedOut>>
      /\ joined' \in BOOLEAN
  BY DEF Deliver, RecordDrop, WakeJoin
<1>2. unfinished' = unfinished
  <2>1. unfinished \in Nat
    BY Known DEF SinkInv, JoinCountsQueue
  <2> QED BY <2>1 DEF Deliver, RecordDrop
<1>3. \/ delivered' = delivered \cup H /\ dropped' = dropped
      \/ dropped' = dropped \cup H /\ delivered' = delivered
  BY DEF Deliver, RecordDrop
<1>4. /\ Waiting' = Waiting \ H /\ H \subseteq Waiting
      /\ Elements(held') = {} /\ Len(held') = 0 /\ held' \in EventSeq
  BY <1>1, Release
<1>5. \A h \in H : (\A w \in Waiting \ H : h < w) /\ (\A d \in delivered : d < h)
  BY <1>4, HeldIsOldest DEF SinkInv, Order
<1>6. H # {}
  BY Known, ElementsType DEF SinkInv, Shape
<1>7. SinkTypes' /\ JoinCountsQueue'
  <2>1. delivered' \in SUBSET Events /\ dropped' \in SUBSET Events
    BY <1>3, Known DEF SinkInv, SinkTypes
  <2>2. attempts' \in 0..MaxAttempts - 1 /\ Len(held') <= Batch
    BY <1>1, <1>4
  <2> QED BY <1>1, <1>2, <1>4, <2>1, <2>2 DEF SinkInv, SinkTypes, JoinCountsQueue
<1>8. Shape'
  BY <1>1 DEF SinkInv, Shape
<1>9. Order'
  BY <1>1, <1>3, <1>4, <1>5 DEF SinkInv, Order
<1>10. Fates'
  BY <1>1, <1>3, <1>4 DEF SinkInv, Fates
<1>11. ChannelStep
  <2>1. Channel!IsFront(H) /\ H \in SUBSET Waiting /\ stopping' = stopping
    BY <1>1, <1>4, <1>5, <1>6 DEF Channel!IsFront, stopping
  <2>2. CASE delivered' = delivered \cup H /\ dropped' = dropped
    BY <1>1, <1>4, <2>1, <2>2 DEF ChannelStep, Channel!Next, Channel!Deliver
  <2>3. CASE dropped' = dropped \cup H /\ delivered' = delivered
    BY <1>1, <1>4, <2>1, <2>3 DEF ChannelStep, Channel!Next, Channel!GiveUp
  <2> QED BY <1>3, <2>2, <2>3
<1> QED BY <1>7, <1>8, <1>9, <1>10, <1>11 DEF SinkInv

LEMMA BatchFailsStep ==
    ASSUME SinkInv, drain \in {"sending", "posting"}, BatchFails
    PROVE  SinkInv' /\ ChannelStep
<1>1. CASE RecordDrop(0, "gathering")
  BY <1>1, SettleStep
<1>2. CASE /\ attempts + 1 < MaxAttempts /\ attempts' = attempts + 1 /\ drain' = "backoff"
           /\ UNCHANGED <<queueVars, held, delivered, dropped, abandoned, timedOut>>
  <2>1. attempts' \in 0..MaxAttempts - 1 /\ held # <<>>
    BY <1>2 DEF SinkInv, SinkTypes, Shape
  <2> QED BY <1>2, <2>1, IdleStep
<1> QED BY <1>1, <1>2 DEF BatchFails

LEMMA LoopStepHolds ==
    ASSUME SinkInv, Gather \/ Flush \/ LoopEnds \/ Retry \/ Interrupt
    PROVE  SinkInv' /\ ChannelStep
<1>1. attempts \in 0..MaxAttempts - 1
  BY DEF SinkInv, SinkTypes
<1>2. CASE Gather BY <1>2, GatherStep
<1>3. CASE Flush \/ LoopEnds
  BY <1>1, <1>3, IdleStep DEF Flush, LoopEnds
<1>4. CASE Retry
  <2>1. held # <<>>
    BY <1>4 DEF Retry, SinkInv, Shape
  <2> QED BY <1>1, <1>4, <2>1, IdleStep DEF Retry
<1>5. CASE Interrupt
  BY <1>5, SettleStep DEF Interrupt
<1> QED BY <1>2, <1>3, <1>4, <1>5

LEMMA PrepareStep ==
    ASSUME SinkInv, Prepare
    PROVE  SinkInv' /\ ChannelStep
<1>1. attempts' \in 0..MaxAttempts - 1 /\ held # <<>>
  BY DEF Prepare, SinkInv, SinkTypes, Shape
<1> QED BY <1>1, IdleStep DEF Prepare

LEMMA SinkStutter ==
    ASSUME SinkInv, UNCHANGED sinkVars
    PROVE  SinkInv' /\ ChannelStep
BY DEF sinkVars, SinkInv, SinkTypes, JoinCountsQueue, Shape, Order, Fates, Waiting,
       ChannelStep, Channel!vars, stopping

LEMMA SinkStep ==
    ASSUME SinkInv, [Next]_vars
    PROVE  SinkInv' /\ ChannelStep
<1>1. CASE Lifecycle
  BY <1>1, SubmitStep, StartStep, BeginStopStep DEF Lifecycle
<1>2. CASE Halt
  BY <1>2, StopStep DEF Halt
<1>3. CASE LoopStep
  BY <1>3, LoopStepHolds DEF LoopStep
<1>4. CASE Prepare
  BY <1>4, PrepareStep
<1>5. CASE PrepareFails \/ PostFails
  BY <1>5, BatchFailsStep DEF PrepareFails, PostFails
<1>6. CASE Post
  BY <1>6, SettleStep DEF Post, BatchAccepted
<1>7. CASE Midnight
  BY <1>7, SinkStutter DEF Midnight
<1>8. CASE UNCHANGED vars
  BY <1>8, SinkStutter DEF vars
<1> QED BY <1>1, <1>2, <1>3, <1>4, <1>5, <1>6, <1>7, <1>8 DEF Next, Drain
-----------------------------------------------------------------------------
(* What the index holds.                                                   *)

\* Indexing adds documents to one index and takes none away.
LEMMA Indexed ==
    ASSUME IndexInv, NEW written \in SUBSET Events, Index(written)
    PROVE  /\ docs' \in SUBSET (Events \X Days)
           /\ docs \subseteq docs'
           /\ \A e \in written : <<e, target>> \in docs'
BY DEF IndexInv, Index

\* Delivered events stay in the index while nothing more is delivered.
LEMMA KeepsIndex ==
    ASSUME IndexInv, delivered \subseteq Events, delivered' = delivered,
           template' \in BOOLEAN, day' \in Days, target' \in Days,
           docs' = docs \/ \E written \in SUBSET Events : Index(written)
    PROVE  IndexInv'
<1>1. docs' \in SUBSET (Events \X Days) /\ docs \subseteq docs'
  BY Indexed DEF IndexInv
<1>2. DeliveredIsIndexed'
  BY <1>1 DEF IndexInv, DeliveredIsIndexed
<1> QED BY <1>1, <1>2 DEF IndexInv

LEMMA IndexStep ==
    ASSUME SinkInv, IndexInv, [Next]_vars
    PROVE  IndexInv'
<1>1. delivered \subseteq Events /\ Elements(held) \in SUBSET Events
  BY Known DEF SinkInv, SinkTypes
<1>2. template \in BOOLEAN /\ day \in Days /\ target \in Days
  BY DEF IndexInv
<1>3. CASE Post
  <2>1. /\ Index(Elements(held)) /\ delivered' = delivered \cup Elements(held)
        /\ UNCHANGED <<template, target, day>>
    BY <1>3 DEF Post, BatchAccepted, Deliver
  <2>2. /\ docs' \in SUBSET (Events \X Days)
        /\ docs \subseteq docs'
        /\ \A e \in Elements(held) : <<e, target>> \in docs'
    BY <1>1, <2>1, Indexed
  <2>3. DeliveredIsIndexed'
    BY <1>1, <1>2, <2>1, <2>2 DEF IndexInv, DeliveredIsIndexed
  <2> QED BY <1>2, <2>1, <2>2, <2>3 DEF IndexInv
<1>4. CASE PostFails
  <2>1. \E written \in SUBSET Events : Index(written)
    BY <1>1, <1>4 DEF PostFails
  <2>2. delivered' = delivered /\ UNCHANGED <<template, target, day>>
    BY <1>4 DEF PostFails, BatchFails, RecordDrop
  <2> QED BY <1>1, <1>2, <2>1, <2>2, KeepsIndex
<1>5. CASE PrepareFails
  <2>1. /\ delivered' = delivered /\ template' \in BOOLEAN
        /\ UNCHANGED <<target, day, docs>>
    BY <1>2, <1>5 DEF PrepareFails, BatchFails, RecordDrop
  <2> QED BY <1>1, <1>2, <2>1, KeepsIndex
<1>6. CASE Prepare
  <2>1. /\ delivered' = delivered /\ template' = TRUE /\ target' = day
        /\ UNCHANGED <<day, docs>>
    BY <1>6 DEF Prepare
  <2> QED BY <1>1, <1>2, <2>1, KeepsIndex
<1>7. CASE Halt
  <2>1. docs' = docs \/ \E written \in SUBSET Events : Index(written)
    BY <1>1, <1>7 DEF Halt
  <2>2. delivered' = delivered /\ UNCHANGED <<template, target, day>>
    BY <1>7 DEF Halt, Stop, EndStop
  <2> QED BY <1>1, <1>2, <2>1, <2>2, KeepsIndex
<1>8. CASE Midnight
  <2>1. /\ delivered' = delivered /\ UNCHANGED <<template, target, docs>>
        /\ day' \in Days
    BY <1>2, <1>8 DEF Midnight, sinkVars, Days
  <2> QED BY <1>1, <1>2, <2>1, KeepsIndex
<1>9. CASE Lifecycle \/ LoopStep \/ UNCHANGED vars
  <2>1. delivered' = delivered
    BY <1>9 DEF Lifecycle, Submit, Start, BeginStop, drainVars, LoopStep, Gather,
                Flush, LoopEnds, Retry, Interrupt, RecordDrop, vars, sinkVars
  <2>2. UNCHANGED <<template, target, day, docs>>
    BY <1>9 DEF Lifecycle, LoopStep, vars, destination
  <2> QED BY <1>1, <1>2, <2>1, <2>2, KeepsIndex
<1> QED BY <1>3, <1>4, <1>5, <1>6, <1>7, <1>8, <1>9 DEF Next, Drain
-----------------------------------------------------------------------------
(* The theorems.                                                           *)

LEMMA Invariant == Spec => []IInv
<1>1. IInv /\ [Next]_vars => IInv'
  BY SinkStep, IndexStep DEF IInv
<1> QED BY <1>1, InvInit, PTL DEF Spec

\* Queue and batch stay within maxsize and batch, and the counter join()
\* watches within the queue's bound (WazuhIndexerSink, QueuedSink.submit).
THEOREM TypeCorrect == Spec => []TypeOK
<1>1. IInv => TypeOK
  <2> SUFFICES ASSUME IInv PROVE TypeOK
    OBVIOUS
  <2>1. unfinished \in 0..MaxSize
    BY Known DEF IInv, SinkInv, SinkTypes, JoinCountsQueue
  <2> QED BY <2>1 DEF IInv, SinkInv, SinkTypes, IndexInv, TypeOK
<1> QED BY <1>1, Invariant, PTL

\* An event is counted as delivered only once it is in a daily index, however
\* often its batch was retried and across how many midnights (_send_with_retry).
THEOREM DeliveredMeansIndexed == Spec => []DeliveredIsIndexed
<1>1. IInv => DeliveredIsIndexed
  BY DEF IInv, IndexInv
<1> QED BY <1>1, Invariant, PTL

\* Every event is accounted for until stop() cancels the drain task, and then
\* all but at most one batch (submit, _drain_loop, stop).
THEOREM NoSilentLoss == Spec => []NoSilentLossWhileRunning
<1>1. IInv => NoSilentLossWhileRunning
  BY DEF IInv, SinkInv, Fates, Shape, NoSilentLossWhileRunning
<1> QED BY <1>1, Invariant, PTL

\* Batches settle whole and in the order of submission, and nothing is lost
\* without a count before stop(): the batched sink is an audit channel.
THEOREM SinkImplementsChannel == Spec => ImplementsChannel
<1>1. Init => Channel!Init
  BY EmptySeq DEF Init, SinkInit, Channel!Init, Waiting, stopping
<1>2. IInv /\ [Next]_vars => [Channel!Next]_Channel!vars
  BY SinkStep DEF IInv, ChannelStep
<1> QED BY <1>1, <1>2, Invariant, PTL DEF Spec, ImplementsChannel, Channel!Spec
=============================================================================
