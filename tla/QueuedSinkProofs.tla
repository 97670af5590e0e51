---------------------------- MODULE QueuedSinkProofs ----------------------------
(***************************************************************************)
(* Proofs about QueuedSink for every number of events, queue size and      *)
(* attempt limit: its safety properties, and that it is an audit channel.  *)
(***************************************************************************)
EXTENDS QueuedSink, TLAPS

USE SinkAssumption

Increasing(s) == \A i, j \in 1..Len(s) : i < j => s[i] < s[j]
-----------------------------------------------------------------------------
(* The two operations submit() and the drain loop apply to the queue.      *)

LEMMA AppendElements ==
    ASSUME NEW s \in EventSeq, NEW e \in Events
    PROVE  /\ Append(s, e) \in EventSeq
           /\ Len(Append(s, e)) = Len(s) + 1
           /\ Elements(Append(s, e)) = Elements(s) \cup {e}
<1> DEFINE t == Append(s, e)
<1>1. /\ t \in EventSeq /\ Len(s) \in Nat /\ Len(t) = Len(s) + 1
      /\ t[Len(s) + 1] = e
      /\ \A i \in 1..Len(s) : t[i] = s[i]
  BY DEF EventSeq, Events
<1>2. 1..Len(t) = (1..Len(s)) \cup {Len(s) + 1}
  BY <1>1
<1>3. Elements(t) = Elements(s) \cup {e}
  BY <1>1, <1>2 DEF Elements
<1> QED BY <1>1, <1>3

LEMMA AppendIncreasing ==
    ASSUME NEW s \in EventSeq, NEW e \in Events, Increasing(s),
           \A x \in Elements(s) : x < e
    PROVE  Increasing(Append(s, e))
<1> SUFFICES ASSUME NEW i \in 1..Len(Append(s, e)), NEW j \in 1..Len(Append(s, e)), i < j
             PROVE  Append(s, e)[i] < Append(s, e)[j]
  BY DEF Increasing
<1>1. /\ Len(s) \in Nat /\ Len(Append(s, e)) = Len(s) + 1
      /\ Append(s, e)[Len(s) + 1] = e
      /\ \A k \in 1..Len(s) : Append(s, e)[k] = s[k]
  BY DEF EventSeq, Events
<1>2. i \in 1..Len(s)
  BY <1>1
<1>3. CASE j \in 1..Len(s)
  BY <1>1, <1>2, <1>3 DEF Increasing
<1>4. CASE j = Len(s) + 1
  BY <1>1, <1>2, <1>4 DEF Elements
<1> QED BY <1>1, <1>3, <1>4

LEMMA TailElements ==
    ASSUME NEW s \in EventSeq, s # <<>>, Increasing(s)
    PROVE  /\ Head(s) \in Events
           /\ Tail(s) \in EventSeq
           /\ Len(Tail(s)) = Len(s) - 1
           /\ Head(s) \in Elements(s)
           /\ Elements(Tail(s)) = Elements(s) \ {Head(s)}
           /\ \A x \in Elements(Tail(s)) : Head(s) < x
           /\ Increasing(Tail(s))
<1> DEFINE t == Tail(s)
<1>1. /\ Len(s) \in Nat \ {0} /\ Head(s) = s[1] /\ Head(s) \in Events
      /\ t \in EventSeq /\ Len(t) = Len(s) - 1
      /\ \A i \in 1..Len(t) : t[i] = s[i + 1]
      /\ \A i \in 1..Len(s) : s[i] \in Events
  BY DEF EventSeq, Events
<1>2. Head(s) \in Elements(s)
  BY <1>1 DEF Elements
<1>3. Elements(t) \subseteq Elements(s)
  BY <1>1 DEF Elements
<1>4. \A x \in Elements(t) : Head(s) < x
  <2> SUFFICES ASSUME NEW i \in 1..Len(t) PROVE s[1] < t[i]
    BY <1>1 DEF Elements
  <2>1. i + 1 \in 1..Len(s) /\ 1 \in 1..Len(s) /\ 1 < i + 1
    BY <1>1
  <2> QED BY <1>1, <2>1 DEF Increasing
<1>5. ASSUME NEW x \in Elements(s), x # Head(s)
      PROVE  x \in Elements(t)
  <2>1. PICK i \in 1..Len(s) : x = s[i]
    BY DEF Elements
  <2>2. i - 1 \in 1..Len(t) /\ t[i - 1] = s[i]
    BY <1>1, <1>5, <2>1
  <2> QED BY <2>1, <2>2 DEF Elements
<1>6. Increasing(t)
  <2> SUFFICES ASSUME NEW i \in 1..Len(t), NEW j \in 1..Len(t), i < j
               PROVE  t[i] < t[j]
    BY DEF Increasing
  <2>1. i + 1 \in 1..Len(s) /\ j + 1 \in 1..Len(s) /\ i + 1 < j + 1
    BY <1>1
  <2> QED BY <1>1, <2>1 DEF Increasing
<1>7. Elements(t) = Elements(s) \ {Head(s)}
  <2>1. Head(s) \notin Elements(t)
    BY <1>1, <1>4 DEF Events
  <2> QED BY <1>3, <1>5, <2>1
<1> QED BY <1>1, <1>2, <1>4, <1>6, <1>7

LEMMA EmptySeq ==
    /\ <<>> \in EventSeq
    /\ Len(<<>>) = 0
    /\ Elements(<<>>) = {}
    /\ Increasing(<<>>)
BY DEF EventSeq, Elements, Increasing

LEMMA OneElement == \A e : Elements(<<e>>) = {e}
<1> TAKE e
<1>1. Len(<<e>>) = 1 /\ <<e>>[1] = e /\ 1..1 = {1}
  OBVIOUS
<1> QED BY <1>1 DEF Elements

LEMMA ElementsType ==
    ASSUME NEW s \in EventSeq
    PROVE  /\ Elements(s) \subseteq Events
           /\ Len(s) \in Nat
           /\ s = <<>> <=> Elements(s) = {}
           /\ s = <<>> <=> Len(s) = 0
<1>1. Elements(s) \subseteq Events /\ Len(s) \in Nat
  BY DEF Elements, EventSeq
<1>2. s = <<>> <=> Len(s) = 0
  BY DEF EventSeq
<1>3. ASSUME Len(s) > 0 PROVE s[1] \in Elements(s)
  BY <1>1, <1>3 DEF Elements
<1> QED BY <1>1, <1>2, <1>3, EmptySeq

\* What submit() leaves in a queue: the new event last, the oldest gone if it
\* was full.
Enqueued(q, e) == Append(IF Full(q) THEN Tail(q) ELSE q, e)
Evicted(q) == IF Full(q) THEN {Head(q)} ELSE {}

LEMMA Enqueue ==
    ASSUME NEW q \in EventSeq, NEW e \in Events, Increasing(q),
           Len(q) <= MaxSize, \A x \in Elements(q) : x < e
    PROVE  /\ Enqueued(q, e) \in EventSeq
           /\ Enqueued(q, e) # <<>>
           /\ Len(Enqueued(q, e)) = IF Full(q) THEN Len(q) ELSE Len(q) + 1
           /\ Len(Enqueued(q, e)) <= MaxSize
           /\ Increasing(Enqueued(q, e))
           /\ Evicted(q) \subseteq Elements(q)
           /\ Elements(Enqueued(q, e)) = (Elements(q) \ Evicted(q)) \cup {e}
<1>0. Len(q) \in Nat
  BY DEF EventSeq, Events
<1>1. CASE Full(q)
  <2>1. q # <<>>
    BY <1>1 DEF Full
  <2>2. /\ Tail(q) \in EventSeq /\ Len(Tail(q)) = Len(q) - 1 /\ Increasing(Tail(q))
        /\ Elements(Tail(q)) = Elements(q) \ {Head(q)} /\ Head(q) \in Elements(q)
    BY <2>1, TailElements
  <2>3. /\ Append(Tail(q), e) \in EventSeq /\ Len(Append(Tail(q), e)) = Len(q)
        /\ Elements(Append(Tail(q), e)) = (Elements(q) \ {Head(q)}) \cup {e}
    BY <1>0, <2>2, AppendElements
  <2>4. Increasing(Append(Tail(q), e))
    BY <2>2, AppendIncreasing
  <2>5. Append(Tail(q), e) # <<>>
    BY <1>0, <2>3, EmptySeq
  <2> QED BY <1>1, <2>2, <2>3, <2>4, <2>5 DEF Enqueued, Evicted
<1>2. CASE ~Full(q)
  <2>1. /\ Append(q, e) \in EventSeq /\ Len(Append(q, e)) = Len(q) + 1
        /\ Elements(Append(q, e)) = Elements(q) \cup {e}
    BY AppendElements
  <2>2. Increasing(Append(q, e))
    BY AppendIncreasing
  <2>3. Append(q, e) # <<>>
    BY <1>0, <2>1, EmptySeq
  <2> QED BY <1>0, <1>2, <2>1, <2>2, <2>3 DEF Enqueued, Evicted, Full
<1> QED BY <1>1, <1>2
-----------------------------------------------------------------------------
(* The inductive invariant.                                                *)

\* Which parts of the state go together: the buffer is used before start()
\* only, and the drain task holds an event exactly while it delivers one.
Shape ==
    /\ phase = "unstarted" => queue = <<>> /\ drain = "none"
    /\ phase # "unstarted" => buffer = <<>>
    /\ drain \in {"delivering", "backoff"} <=> held # <<>>
    /\ ~stopping => abandoned = {}
    /\ phase = "stopped" => drain = "ended"
    /\ cut <= submitted

\* The waiting events stand in the order of their numbers, after everything
\* delivered.
Order ==
    /\ Increasing(buffer)
    /\ Increasing(queue)
    /\ \A h \in Elements(held), q \in Elements(queue) : h < q
    /\ DeliveredInOrder

\* Every submitted event has a fate, and one only.
Fates ==
    /\ Waiting \cup delivered \cup dropped \cup abandoned = 1..submitted
    /\ Waiting \cap (delivered \cup dropped \cup abandoned) = {}
    /\ delivered \cap dropped = {}
    /\ abandoned \cap (delivered \cup dropped) = {}

\* A join() that was woken has seen everything before stop() settled, and so
\* has a stop() that did not time out.
Flushed ==
    /\ joined => 1..cut \subseteq delivered \cup dropped \cup abandoned
    /\ GracefulStopFlushes

IInv == TypeOK /\ JoinCountsOpenEvents /\ Shape /\ Order /\ Fates /\ Flushed

LEMMA InvInit == Init => IInv
<1> SUFFICES ASSUME Init PROVE IInv
  OBVIOUS
<1> USE DEF Init, SinkInit
<1>1. TypeOK
  <2>1. /\ buffer \in EventSeq /\ Len(buffer) <= MaxSize
        /\ queue \in EventSeq /\ Len(queue) <= MaxSize
        /\ held \in EventSeq /\ Len(held) <= 1
    BY EmptySeq
  <2>2. /\ submitted \in 0..MaxEvents /\ cut \in 0..MaxEvents 
        /\ unfinished \in 0..MaxSize + 1
        /\ attempts \in 0..MaxAttempts - 1
    OBVIOUS
  <2> QED BY <2>1, <2>2 DEF TypeOK, DrainState
<1>2. JoinCountsOpenEvents /\ Flushed
  BY EmptySeq DEF JoinCountsOpenEvents, Flushed, GracefulStopFlushes
<1>3. Shape
  BY DEF Shape
<1>4. Waiting = {}
  BY EmptySeq DEF Waiting
<1>5. Order
  BY <1>4, EmptySeq DEF Order, DeliveredInOrder
<1>6. Fates
  BY <1>4 DEF Fates
<1> QED BY <1>1, <1>2, <1>3, <1>5, <1>6 DEF IInv
-----------------------------------------------------------------------------
(* Every step preserves it.                                                *)

\* The numbers in the backlog are events submitted before.
LEMMA Known ==
    ASSUME IInv
    PROVE  /\ Waiting \subseteq 1..submitted
           /\ buffer \in EventSeq /\ queue \in EventSeq /\ held \in EventSeq
           /\ Len(queue) \in Nat /\ Len(held) \in Nat
           /\ submitted \in Nat /\ submitted <= MaxEvents
<1>1. Waiting \subseteq 1..submitted
  BY DEF IInv, Fates
<1>2. buffer \in EventSeq /\ queue \in EventSeq /\ held \in EventSeq
  BY DEF IInv, TypeOK, EventSeq, Events
<1>3. submitted \in Nat /\ submitted <= MaxEvents
  BY DEF IInv, TypeOK
<1>4. Len(queue) \in Nat /\ Len(held) \in Nat
  BY <1>2 DEF EventSeq, Events
<1> QED BY <1>1, <1>2, <1>3, <1>4

\* The counter at 0 means that nothing waits.
LEMMA NothingOpen ==
    ASSUME IInv, phase # "unstarted", unfinished = 0
    PROVE  Waiting = {}
<1>1. Len(queue) = 0 /\ Len(held) = 0
  BY Known DEF IInv, JoinCountsOpenEvents
<1>2. buffer = <<>>
  BY DEF IInv, Shape
<1> QED BY <1>1, <1>2, Known, ElementsType, EmptySeq DEF Waiting

LEMMA SubmitStep ==
    ASSUME IInv, Submit
    PROVE  IInv'
<1> DEFINE e == submitted + 1
<1>1. /\ e \in Events /\ \A x \in Waiting : x < e
      /\ 1..e = (1..submitted) \cup {e} /\ e \notin 1..submitted
      /\ submitted' = e
  BY Known DEF Submit, Events
<1>2. /\ phase' = phase /\ cut' = cut /\ drain' = drain /\ held' = held
      /\ attempts' = attempts /\ delivered' = delivered /\ abandoned' = abandoned
      /\ timedOut' = timedOut
  BY DEF Submit
<1>3. /\ delivered \subseteq 1..submitted /\ dropped \subseteq 1..submitted
      /\ abandoned \subseteq 1..submitted
  BY DEF IInv, Fates
<1>4. CASE SubmitBeforeStart(e)
  <2>1. /\ buffer' = Enqueued(buffer, e) /\ dropped' = dropped \cup Evicted(buffer)
        /\ phase = "unstarted" /\ queue' = queue /\ unfinished' = unfinished
        /\ joined' = joined
    BY <1>4 DEF SubmitBeforeStart, Enqueued, Evicted
  <2>2. /\ buffer \in EventSeq /\ Increasing(buffer) /\ Len(buffer) <= MaxSize
        /\ \A x \in Elements(buffer) : x < e
    BY <1>1, Known DEF IInv, TypeOK, Order, Waiting
  <2>3. /\ buffer' \in EventSeq /\ Len(buffer') <= MaxSize /\ Increasing(buffer')
        /\ Evicted(buffer) \subseteq Elements(buffer)
        /\ Elements(buffer') = (Elements(buffer) \ Evicted(buffer)) \cup {e}
    BY <1>1, <2>1, <2>2, Enqueue
  <2>4. Elements(queue) = {} /\ Elements(held) = {}
    BY <2>1, EmptySeq DEF IInv, Shape
  <2>5. /\ Waiting = Elements(buffer)
        /\ Waiting' = (Waiting \ Evicted(buffer)) \cup {e}
    BY <1>2, <2>1, <2>3, <2>4 DEF Waiting
  <2>6. TypeOK'
    <3>1. /\ buffer' \in EventSeq /\ Len(buffer') <= MaxSize
          /\ queue' \in EventSeq /\ Len(queue') <= MaxSize
          /\ held' \in EventSeq /\ Len(held') <= 1
      BY <1>2, <2>1, <2>3 DEF IInv, TypeOK
    <3>2. submitted' \in 0..MaxEvents
      BY <1>1 DEF Events
    <3>3. dropped' \in SUBSET Events
      <4>1. Elements(buffer) \subseteq Events
        BY <2>2, ElementsType
      <4>2. dropped \subseteq Events
        BY DEF IInv, TypeOK
      <4> QED BY <2>1, <2>3, <4>1, <4>2
    <3> QED BY <1>2, <2>1, <3>1, <3>2, <3>3 DEF IInv, TypeOK
  <2>7. JoinCountsOpenEvents' /\ Shape' /\ Flushed'
    BY <1>1, <1>2, <2>1, Known
       DEF IInv, TypeOK, JoinCountsOpenEvents, Shape, Flushed, GracefulStopFlushes,
           stopping
  <2>8. Order'
    BY <1>1, <1>2, <1>3, <2>1, <2>3, <2>4, <2>5, Known
       DEF IInv, Order, DeliveredInOrder
  <2>9. Fates'
    BY <1>1, <1>2, <1>3, <2>1, <2>3, <2>5 DEF IInv, Fates, Order, DeliveredInOrder
  <2> QED BY <2>6, <2>7, <2>8, <2>9 DEF IInv
<1>5. CASE SubmitToQueue(e)
  <2>1. /\ queue' = Enqueued(queue, e) /\ dropped' = dropped \cup Evicted(queue)
        /\ unfinished' = IF Full(queue) THEN unfinished ELSE unfinished + 1
        /\ phase # "unstarted" /\ buffer' = buffer
        /\ WakeJoin(IF Full(queue) THEN unfinished - 1 ELSE unfinished)
    BY <1>5 DEF SubmitToQueue, Enqueued, Evicted
  <2>2. /\ queue \in EventSeq /\ Increasing(queue) /\ Len(queue) <= MaxSize
        /\ \A x \in Elements(queue) : x < e
    BY <1>1, Known DEF IInv, TypeOK, Order, Waiting
  <2>3. /\ queue' \in EventSeq /\ Len(queue') <= MaxSize /\ Increasing(queue')
        /\ Len(queue') = IF Full(queue) THEN Len(queue) ELSE Len(queue) + 1
        /\ Evicted(queue) \subseteq Elements(queue)
        /\ Elements(queue') = (Elements(queue) \ Evicted(queue)) \cup {e}
    BY <1>1, <2>1, <2>2, Enqueue
  <2>4. Elements(buffer) = {} /\ Elements(buffer') = {}
    BY <2>1, EmptySeq DEF IInv, Shape
  <2>5. /\ Waiting = Elements(queue) \cup Elements(held)
        /\ Waiting' = Elements(queue') \cup Elements(held)
        /\ \A h \in Elements(held) : h \notin Elements(queue)
    <3>1. ASSUME NEW h \in Elements(held), h \in Elements(queue) PROVE FALSE
      <4>1. h < h
        BY <3>1 DEF IInv, Order
      <4>2. h \in Nat
        BY <3>1, Known, ElementsType DEF Events
      <4> QED BY <4>1, <4>2
    <3> QED BY <1>2, <2>4, <3>1 DEF Waiting
  <2>7. JoinCountsOpenEvents'
    <3>1. unfinished = Len(queue) + Len(held) /\ Len(held') = Len(held)
      BY <1>2 DEF IInv, JoinCountsOpenEvents
    <3>2. unfinished' = Len(queue') + Len(held)
      BY <2>1, <2>3, <3>1, Known
    <3> QED BY <3>1, <3>2 DEF JoinCountsOpenEvents
  <2>6. TypeOK'
    <3>1. /\ buffer' \in EventSeq /\ Len(buffer') <= MaxSize
          /\ queue' \in EventSeq /\ Len(queue') <= MaxSize
          /\ held' \in EventSeq /\ Len(held') <= 1
      BY <1>2, <2>1, <2>3 DEF IInv, TypeOK
    <3>2. submitted' \in 0..MaxEvents
      BY <1>1 DEF Events
    <3>3. dropped' \in SUBSET Events
      <4>1. Elements(queue) \subseteq Events
        BY <2>2, ElementsType
      <4>2. dropped \subseteq Events
        BY DEF IInv, TypeOK
      <4> QED BY <2>1, <2>3, <4>1, <4>2
    <3>4. unfinished' \in 0..MaxSize + 1
      BY <2>7, <3>1, ElementsType DEF JoinCountsOpenEvents
    <3>5. joined' \in BOOLEAN
      BY <2>1 DEF WakeJoin
    <3> QED BY <1>2, <2>1, <3>1, <3>2, <3>3, <3>4, <3>5 DEF IInv, TypeOK
  <2>8. Shape'
    BY <1>1, <1>2, <2>1, Known DEF IInv, TypeOK, Shape, stopping
  <2>11. Flushed'
    <3>1. CASE joined' = joined
      BY <1>2, <2>1, <3>1 DEF IInv, Flushed, GracefulStopFlushes
    <3>2. CASE joined' # joined
      <4>1. (IF Full(queue) THEN unfinished - 1 ELSE unfinished) = 0 /\ phase = "joining"
        BY <2>1, <3>2 DEF WakeJoin, IInv, TypeOK
      <4>2. /\ unfinished = Len(queue) + Len(held) /\ Len(queue) \in Nat
            /\ Len(held) \in Nat /\ MaxSize \in Nat \ {0}
        BY Known DEF IInv, JoinCountsOpenEvents
      <4>3. Len(held) = 0
        BY <4>1, <4>2 DEF Full
      <4>4. Elements(held) = {}
        BY <4>3, Known, EmptySeq, ElementsType
      <4>5. Elements(queue) \ Evicted(queue) = {}
        <5>1. CASE ~Full(queue)
          BY <4>1, <4>2, <5>1, Known, EmptySeq, ElementsType
        <5>2. CASE Full(queue)
          <6>1. Len(queue) = 1
            <7>1. Len(queue) >= 1
              BY <4>2, <5>2 DEF Full
            <7>2. unfinished = 1
              BY <4>1, <4>2, <5>2
            <7> QED BY <7>1, <7>2, <4>2, <4>3
          <6>2. Elements(queue) = {Head(queue)}
            BY <2>2, <6>1 DEF Elements, EventSeq
          <6> QED BY <5>2, <6>2 DEF Evicted
        <5> QED BY <5>1, <5>2
      <4>6. 1..submitted \subseteq delivered \cup dropped' \cup abandoned
        BY <2>1, <2>5, <4>4, <4>5 DEF IInv, Fates
      <4>7. 1..cut \subseteq 1..submitted
        BY DEF IInv, TypeOK, Shape
      <4> QED BY <1>2, <4>1, <4>6, <4>7 DEF Flushed, GracefulStopFlushes
    <3> QED BY <3>1, <3>2
  <2>9. Order'
    BY <1>1, <1>2, <1>3, <2>1, <2>3, <2>4, <2>5, Known
       DEF IInv, Order, DeliveredInOrder, Waiting
  <2>10. Fates'
    BY <1>1, <1>2, <1>3, <2>1, <2>3, <2>5 DEF IInv, Fates, Order, DeliveredInOrder
  <2> QED BY <2>6, <2>7, <2>8, <2>9, <2>10, <2>11 DEF IInv
<1> QED BY <1>4, <1>5 DEF Submit

LEMMA StartStep ==
    ASSUME IInv, Start("getting")
    PROVE  IInv'
<1>1. /\ phase = "unstarted" /\ phase' = "running" /\ queue' = buffer /\ buffer' = <<>>
      /\ unfinished' = Len(buffer) /\ drain' = "getting"
      /\ UNCHANGED <<submitted, cut, joined, held, attempts, delivered, dropped,
                     abandoned, timedOut>>
  BY DEF Start
<1>2. queue = <<>> /\ held = <<>>
  BY <1>1 DEF IInv, Shape
<1>3. /\ Waiting' = Waiting /\ Elements(held) = {} /\ Len(held) = 0
      /\ Elements(held') = {}
  BY <1>1, <1>2, EmptySeq DEF Waiting
<1>4. TypeOK'
  <2>1. /\ buffer' \in EventSeq /\ Len(buffer') <= MaxSize
        /\ queue' \in EventSeq /\ Len(queue') <= MaxSize /\ Len(buffer) \in Nat
    BY <1>1, EmptySeq, ElementsType DEF IInv, TypeOK
  <2>2. unfinished' \in 0..MaxSize + 1
    BY <1>1, <2>1 DEF IInv, TypeOK
  <2> QED BY <1>1, <2>1, <2>2 DEF IInv, TypeOK, DrainState
<1>5. JoinCountsOpenEvents'
  BY <1>1, <1>3, Known, ElementsType DEF JoinCountsOpenEvents
<1>6. Shape' /\ Flushed'
  BY <1>1, <1>2 DEF IInv, Shape, stopping, Flushed, GracefulStopFlushes
<1>7. Order'
  BY <1>1, <1>3, EmptySeq DEF IInv, Order, DeliveredInOrder
<1>8. Fates'
  BY <1>1, <1>3 DEF IInv, Fates
<1> QED BY <1>4, <1>5, <1>6, <1>7, <1>8 DEF IInv

LEMMA BeginStopStep ==
    ASSUME IInv, BeginStop
    PROVE  IInv'
<1>1. /\ phase = "running" /\ phase' = "joining" /\ cut' = submitted
      /\ joined' = (unfinished = 0)
      /\ UNCHANGED <<submitted, buffer, queue, unfinished, drain, held, attempts,
                     delivered, dropped, abandoned, timedOut>>
  BY DEF BeginStop, drainVars
<1>2. Waiting' = Waiting
  BY <1>1 DEF Waiting
<1>3. TypeOK' /\ JoinCountsOpenEvents'
  BY <1>1 DEF IInv, TypeOK, JoinCountsOpenEvents
<1>4. Shape'
  BY <1>1, Known DEF IInv, Shape, stopping
<1>6. Flushed'
  <2> SUFFICES ASSUME unfinished = 0
               PROVE  1..submitted \subseteq delivered \cup dropped \cup abandoned
    BY <1>1 DEF Flushed, GracefulStopFlushes
  <2>1. Waiting = {}
    BY <1>1, NothingOpen DEF IInv, TypeOK
  <2> QED BY <2>1 DEF IInv, Fates
<1>5. Order' /\ Fates'
  BY <1>1, <1>2 DEF IInv, Order, DeliveredInOrder, Fates
<1> QED BY <1>3, <1>4, <1>5, <1>6 DEF IInv

\* The three ways in which the drain task is rid of what it holds.
LEMMA HeldIsOldest ==
    ASSUME IInv
    PROVE  /\ Elements(held) \subseteq Waiting
           /\ \A h \in Elements(held) : \A w \in Waiting \ Elements(held) : h < w
           /\ \A h \in Elements(held) : h \notin Elements(queue)
           /\ held # <<>> => Elements(buffer) = {}
<1>1. ASSUME NEW h \in Elements(held)
      PROVE  h \notin Elements(queue)
  <2>1. h \in Nat
    BY Known, ElementsType DEF Events
  <2> QED BY <2>1 DEF IInv, Order
<1>2. held # <<>> => Elements(buffer) = {}
  BY EmptySeq DEF IInv, Shape
<1>3. held = <<>> => Elements(held) = {}
  BY EmptySeq
<1> QED BY <1>1, <1>2, <1>3 DEF IInv, Order, Waiting

LEMMA Release ==
    ASSUME IInv, held' = <<>>, queue' = queue, buffer' = buffer
    PROVE  /\ Waiting' = Waiting \ Elements(held)
           /\ Elements(held') = {} /\ Len(held') = 0
           /\ held' \in EventSeq
           /\ Elements(held) \subseteq Waiting
<1>1. CASE held = <<>>
  BY <1>1, EmptySeq DEF Waiting
<1>2. CASE held # <<>>
  <2>1. Elements(buffer) = {} /\ Elements(held) \cap Elements(queue) = {}
    BY <1>2, HeldIsOldest
  <2> QED BY <2>1, EmptySeq DEF Waiting
<1> QED BY <1>1, <1>2

LEMMA HeldAlone ==
    ASSUME IInv, held # <<>>
    PROVE  Len(held) = 1
<1>1. Len(held) \in Nat /\ Len(held) # 0
  BY Known, ElementsType
<1>2. Len(held) <= 1
  BY DEF IInv, TypeOK
<1> QED BY <1>1, <1>2

\* Whatever the fate of the event in hand, the rest of the backlog stays.
LEMMA SettleStep ==
    ASSUME IInv, drain \in {"delivering", "backoff"},
           Deliver(1, "getting") \/ RecordDrop(1, "getting")
             \/ (stopping /\ Abandon(1, "getting"))
    PROVE  IInv'
<1>1. /\ held' = <<>> /\ attempts' = 0 /\ drain' = "getting"
      /\ unfinished' = unfinished - 1 /\ WakeJoin(unfinished - 1)
      /\ UNCHANGED <<phase, submitted, cut, buffer, queue, timedOut>>
  BY DEF Deliver, RecordDrop, Abandon
<1>2. \/ delivered' = delivered \cup Elements(held) /\ UNCHANGED <<dropped, abandoned>>
      \/ dropped' = dropped \cup Elements(held) /\ UNCHANGED <<delivered, abandoned>>
      \/ stopping /\ abandoned' = abandoned \cup Elements(held) /\ UNCHANGED <<delivered, dropped>>
  BY DEF Deliver, RecordDrop, Abandon
<1>3. /\ Waiting' = Waiting \ Elements(held)
      /\ Elements(held') = {} /\ Len(held') = 0 /\ held' \in EventSeq
      /\ Elements(held) \subseteq Waiting
  BY <1>1, Release
<1>4. held # <<>> /\ Len(held) = 1
  BY HeldAlone DEF IInv, Shape
<1>5. JoinCountsOpenEvents'
  BY <1>1, <1>3, <1>4, Known DEF IInv, JoinCountsOpenEvents
<1>6. TypeOK'
  <2>1. Elements(held) \subseteq Events
    BY Known, ElementsType
  <2>2. /\ delivered' \in SUBSET Events /\ dropped' \in SUBSET Events
        /\ abandoned' \in SUBSET Events
    BY <1>2, <2>1 DEF IInv, TypeOK
  <2>3. attempts' \in 0..MaxAttempts - 1
    BY <1>1
  <2>4. unfinished' \in 0..MaxSize + 1
    <3>1. unfinished \in 0..MaxSize + 1 /\ unfinished = Len(queue) + Len(held)
      BY DEF IInv, TypeOK, JoinCountsOpenEvents
    <3> QED BY <1>1, <1>4, <3>1, Known
  <2>5. joined' \in BOOLEAN
    BY <1>1 DEF WakeJoin
  <2> QED BY <1>1, <1>3, <2>2, <2>3, <2>4, <2>5 DEF IInv, TypeOK, DrainState
<1>7. Shape'
  BY <1>1, <1>2, <1>4 DEF IInv, Shape, stopping
<1>9. DeliveredInOrder'
  <2>1. \A h \in Elements(held) : \A w \in Waiting' : h < w
    BY <1>3, HeldIsOldest
  <2> QED BY <1>2, <1>3, <2>1 DEF IInv, Order, DeliveredInOrder
<1>10. Order'
  BY <1>1, <1>3, <1>9 DEF IInv, Order
<1>11. Fates'
  BY <1>1, <1>2, <1>3 DEF IInv, Fates
<1>8. Flushed'
  <2>1. phase # "stopped"
    BY DEF IInv, Shape
  <2>2. CASE joined' = joined
    BY <1>1, <1>2, <2>1, <2>2 DEF IInv, Flushed, GracefulStopFlushes
  <2>3. CASE joined' # joined
    <3>1. unfinished - 1 = 0 /\ unfinished = Len(queue) + Len(held) /\ phase = "joining"
      BY <1>1, <2>3 DEF WakeJoin, IInv, TypeOK, JoinCountsOpenEvents
    <3>2. Len(queue) = 0 /\ buffer = <<>>
      BY <1>4, <3>1, Known DEF IInv, Shape
    <3>3. Waiting' = {}
      BY <1>1, <1>3, <3>2, Known, ElementsType, EmptySeq DEF Waiting
    <3>4. 1..cut \subseteq 1..submitted
      BY DEF IInv, TypeOK, Shape
    <3>5. 1..submitted \subseteq delivered' \cup dropped' \cup abandoned'
      BY <1>1, <1>11, <3>3 DEF Fates
    <3> QED BY <1>1, <3>4, <3>5 DEF Flushed, GracefulStopFlushes
  <2> QED BY <2>2, <2>3
<1> QED BY <1>5, <1>6, <1>7, <1>8, <1>10, <1>11 DEF IInv

LEMMA GetStep ==
    ASSUME IInv, Get
    PROVE  IInv' /\ Waiting' = Waiting
<1>1. /\ drain = "getting" /\ queue # <<>> /\ drain' = "delivering"
      /\ held' = <<Head(queue)>> /\ queue' = Tail(queue)
      /\ UNCHANGED <<phase, submitted, cut, buffer, unfinished, joined, attempts,
                     delivered, dropped, abandoned, timedOut>>
  BY DEF Get
<1>2. /\ queue \in EventSeq /\ Increasing(queue) /\ held = <<>>
  BY <1>1 DEF IInv, TypeOK, Order, Shape
<1>3. /\ Head(queue) \in Events /\ queue' \in EventSeq /\ Len(queue') = Len(queue) - 1
      /\ Head(queue) \in Elements(queue)
      /\ Elements(queue') = Elements(queue) \ {Head(queue)}
      /\ \A x \in Elements(queue') : Head(queue) < x
      /\ Increasing(queue')
  BY <1>1, <1>2, TailElements
<1>4. /\ Elements(held') = {Head(queue)} /\ Elements(held) = {} /\ Len(held) = 0
      /\ held' \in EventSeq /\ Len(held') = 1 /\ held' # <<>>
  <2>1. held' \in EventSeq /\ Len(held') = 1
    BY <1>1, <1>3 DEF EventSeq
  <2> QED BY <1>1, <1>2, <2>1, OneElement, EmptySeq
<1>5. Waiting' = Waiting
  BY <1>1, <1>3, <1>4 DEF Waiting
<1>6. JoinCountsOpenEvents'
  BY <1>1, <1>3, <1>4, Known DEF IInv, JoinCountsOpenEvents
<1>7. TypeOK'
  <2>1. Len(queue') <= MaxSize
    BY <1>3, Known DEF IInv, TypeOK
  <2> QED BY <1>1, <1>3, <1>4, <2>1 DEF IInv, TypeOK, DrainState
<1>8. Shape' /\ Flushed'
  BY <1>1, <1>4 DEF IInv, Shape, stopping, Flushed, GracefulStopFlushes
<1>9. Order'
  BY <1>1, <1>3, <1>4, <1>5 DEF IInv, Order, DeliveredInOrder
<1>10. Fates'
  BY <1>1, <1>5 DEF IInv, Fates
<1> QED BY <1>5, <1>6, <1>7, <1>8, <1>9, <1>10 DEF IInv

LEMMA StopStep ==
    ASSUME IInv, Stop
    PROVE  IInv'
<1>1. /\ phase = "joining" /\ phase' = "stopped" /\ drain' = "ended"
      /\ held' = <<>> /\ attempts' = 0
      /\ abandoned' = abandoned \cup Elements(held)
      /\ unfinished' = unfinished - Len(held)
      /\ (joined /\ timedOut' = timedOut) \/ timedOut' = TRUE
      /\ UNCHANGED <<submitted, cut, buffer, queue, joined, delivered, dropped>>
  BY DEF Stop, EndStop
<1>2. /\ Waiting' = Waiting \ Elements(held)
      /\ Elements(held') = {} /\ Len(held') = 0 /\ held' \in EventSeq
      /\ Elements(held) \subseteq Waiting
  BY <1>1, Release
<1>3. JoinCountsOpenEvents'
  BY <1>1, <1>2, Known DEF IInv, JoinCountsOpenEvents
<1>4. TypeOK'
  <2>1. abandoned' \in SUBSET Events
    BY <1>1, Known, ElementsType DEF IInv, TypeOK
  <2>2. unfinished' \in 0..MaxSize + 1
    <3>1. unfinished \in 0..MaxSize + 1 /\ unfinished = Len(queue) + Len(held)
      BY DEF IInv, TypeOK, JoinCountsOpenEvents
    <3> QED BY <1>1, <3>1, Known
  <2>3. attempts' \in 0..MaxAttempts - 1
    BY <1>1
  <2>4. timedOut' \in BOOLEAN
    BY <1>1 DEF IInv, TypeOK
  <2> QED BY <1>1, <1>2, <2>1, <2>2, <2>3, <2>4 DEF IInv, TypeOK, DrainState
<1>5. Shape'
  BY <1>1 DEF IInv, Shape, stopping
<1>6. Order'
  BY <1>1, <1>2 DEF IInv, Order, DeliveredInOrder
<1>7. Fates'
  BY <1>1, <1>2 DEF IInv, Fates
<1>8. Flushed'
  BY <1>1 DEF IInv, Flushed, GracefulStopFlushes
<1> QED BY <1>3, <1>4, <1>5, <1>6, <1>7, <1>8 DEF IInv

\* Steps that move the drain task and leave the backlog alone.
LEMMA IdleStep ==
    ASSUME IInv, LoopEnds \/ DeliverFails \/ Retry
    PROVE  IInv'
<1>1. /\ UNCHANGED <<phase, submitted, cut, buffer, queue, unfinished, joined, held,
                     delivered, dropped, abandoned, timedOut>>
      /\ Waiting' = Waiting
  BY DEF LoopEnds, DeliverFails, Retry, queueVars, Waiting
<1>2. attempts' \in 0..MaxAttempts - 1
  <2>1. CASE DeliverFails BY <2>1 DEF DeliverFails, IInv, TypeOK
  <2>2. CASE LoopEnds \/ Retry BY <2>2 DEF LoopEnds, Retry, IInv, TypeOK
  <2> QED BY <2>1, <2>2
<1>3. TypeOK'
  BY <1>1, <1>2 DEF LoopEnds, DeliverFails, Retry, IInv, TypeOK, DrainState
<1>4. Shape'
  BY <1>1 DEF LoopEnds, DeliverFails, Retry, IInv, Shape, stopping
<1>5. JoinCountsOpenEvents' /\ Flushed' /\ Order' /\ Fates'
  BY <1>1 DEF IInv, JoinCountsOpenEvents, Flushed, GracefulStopFlushes, Order, Fates,
              DeliveredInOrder
<1> QED BY <1>3, <1>4, <1>5 DEF IInv

LEMMA StutterStep ==
    ASSUME IInv, UNCHANGED sinkVars
    PROVE  IInv'
BY DEF sinkVars, IInv, TypeOK, JoinCountsOpenEvents, Shape, Order, Fates, Flushed,
       GracefulStopFlushes, DeliveredInOrder, Waiting, stopping

LEMMA DrainStep ==
    ASSUME IInv, Drain
    PROVE  IInv'
<1>1. CASE Get BY <1>1, GetStep
<1>2. CASE DeliverSucceeds
  BY <1>2, SettleStep DEF DeliverSucceeds
<1>3. CASE DeliverExhausted
  BY <1>3, SettleStep DEF DeliverExhausted
<1>4. CASE AbandonRetry
  BY <1>4, SettleStep DEF AbandonRetry
<1>5. CASE LoopEnds \/ DeliverFails \/ Retry
  BY <1>5, IdleStep
<1> QED BY <1>1, <1>2, <1>3, <1>4, <1>5 DEF Drain

LEMMA InvNext == IInv /\ [Next]_sinkVars => IInv'
BY SubmitStep, StartStep, BeginStopStep, StopStep, DrainStep, StutterStep DEF Next

LEMMA Invariant == Spec => []IInv
BY InvInit, InvNext, PTL DEF Spec

\* The queues stay within maxsize, the drain task holds one event at most and
\* no event gets more than max_attempts attempts (QueuedSink).
THEOREM TypeCorrect == Spec => []TypeOK
BY Invariant, PTL DEF IInv

\* join() waits for exactly the events that are still open (submit's eviction
\* path, the finally of _drain_loop, cancellation by stop).
THEOREM JoinIsExact == Spec => []JoinCountsOpenEvents
BY Invariant, PTL DEF IInv

\* No event disappears while the sink runs (submit, start, _drain_loop).
THEOREM NoSilentLoss == Spec => []NoSilentLossWhileRunning
<1>1. IInv => NoSilentLossWhileRunning
  BY DEF IInv, Fates, Shape, NoSilentLossWhileRunning
<1> QED BY <1>1, Invariant, PTL

\* Retries and evictions never reorder the audit trail (_deliver_with_retry).
THEOREM InOrder == Spec => []DeliveredInOrder
<1>1. IInv => DeliveredInOrder
  BY DEF IInv, Order
<1> QED BY <1>1, Invariant, PTL

\* A stop() whose join() ended leaves nothing but interrupted retries (stop).
THEOREM StopFlushes == Spec => []GracefulStopFlushes
<1>1. IInv => GracefulStopFlushes
  BY DEF IInv, Flushed
<1> QED BY <1>1, Invariant, PTL
-----------------------------------------------------------------------------
(* QueuedSink implements AuditChannel.                                     *)

LEMMA ChannelStep ==
    ASSUME IInv, Next
    PROVE  Channel!Next \/ UNCHANGED Channel!vars
<1> DEFINE e == submitted + 1
<1> USE DEF Channel!vars
<1>1. CASE SubmitBeforeStart(e) /\ Submit
  <2>1. /\ buffer' = Enqueued(buffer, e) /\ dropped' = dropped \cup Evicted(buffer)
        /\ queue' = queue /\ held' = held /\ phase' = phase /\ submitted' = e
        /\ UNCHANGED <<delivered, abandoned>> /\ phase = "unstarted"
        /\ submitted < MaxEvents
    BY <1>1 DEF SubmitBeforeStart, Submit, Enqueued, Evicted
  <2>2. /\ buffer \in EventSeq /\ Increasing(buffer) /\ Len(buffer) <= MaxSize
        /\ e \in Events /\ \A x \in Elements(buffer) : x < e
    BY <2>1, Known DEF IInv, TypeOK, Order, Waiting, Events
  <2>3. /\ Evicted(buffer) \subseteq Elements(buffer)
        /\ Elements(buffer') = (Elements(buffer) \ Evicted(buffer)) \cup {e}
    BY <2>1, <2>2, Enqueue
  <2>4. Waiting = Elements(buffer) /\ Waiting' = Elements(buffer')
    BY <2>1, EmptySeq DEF IInv, Shape, Waiting
  <2>5. \A x, y \in Evicted(buffer) : x = y
    BY DEF Evicted
  <2>6. stopping' = stopping
    BY <2>1 DEF stopping
  <2>7. Evicted(buffer) \in SUBSET Waiting
    BY <2>3, <2>4
  <2> QED BY <2>1, <2>3, <2>4, <2>5, <2>6, <2>7 DEF Channel!Next, Channel!Submit
<1>2. CASE SubmitToQueue(e) /\ Submit
  <2>1. /\ queue' = Enqueued(queue, e) /\ dropped' = dropped \cup Evicted(queue)
        /\ buffer' = buffer /\ held' = held /\ phase' = phase /\ submitted' = e
        /\ UNCHANGED <<delivered, abandoned>> /\ phase # "unstarted"
        /\ submitted < MaxEvents
    BY <1>2 DEF SubmitToQueue, Submit, Enqueued, Evicted
  <2>2. /\ queue \in EventSeq /\ Increasing(queue) /\ Len(queue) <= MaxSize
        /\ e \in Events /\ \A x \in Elements(queue) : x < e
    BY <2>1, Known DEF IInv, TypeOK, Order, Waiting, Events
  <2>3. /\ Evicted(queue) \subseteq Elements(queue)
        /\ Elements(queue') = (Elements(queue) \ Evicted(queue)) \cup {e}
    BY <2>1, <2>2, Enqueue
  <2>4. /\ Waiting = Elements(queue) \cup Elements(held)
        /\ Waiting' = Elements(queue') \cup Elements(held)
    BY <2>1, EmptySeq DEF IInv, Shape, Waiting
  <2>5. Elements(held) \cap Elements(queue) = {}
    BY HeldIsOldest
  <2>6. Waiting' = (Waiting \ Evicted(queue)) \cup {e}
    BY <2>3, <2>4, <2>5
  <2>7. \A x, y \in Evicted(queue) : x = y
    BY DEF Evicted
  <2>8. stopping' = stopping
    BY <2>1 DEF stopping
  <2>9. Evicted(queue) \in SUBSET Waiting
    BY <2>3, <2>4
  <2> QED BY <2>1, <2>6, <2>7, <2>8, <2>9 DEF Channel!Next, Channel!Submit
<1>3. CASE Start("getting")
  <2>1. /\ phase = "unstarted" /\ phase' = "running" /\ queue' = buffer /\ buffer' = <<>>
        /\ UNCHANGED <<submitted, held, delivered, dropped, abandoned>>
    BY <1>3 DEF Start
  <2>2. Waiting' = Waiting
    BY <2>1, EmptySeq DEF IInv, Shape, Waiting
  <2> QED BY <2>1, <2>2 DEF stopping
<1>4. CASE BeginStop
  BY <1>4 DEF BeginStop, drainVars, Waiting, stopping, Channel!Next, Channel!Close
<1>5. CASE Stop
  <2>1. /\ Waiting' = Waiting \ Elements(held) /\ Elements(held) \subseteq Waiting
    BY <1>5, Release DEF Stop, EndStop
  <2> QED BY <1>5, <2>1 DEF Stop, EndStop, stopping, Channel!Next, Channel!Lose
<1>6. CASE Get
  BY <1>6, GetStep DEF Get, stopping
<1>7. CASE LoopEnds \/ DeliverFails \/ Retry
  BY <1>7 DEF LoopEnds, DeliverFails, Retry, queueVars, Waiting, stopping
<1>8. ASSUME drain \in {"delivering", "backoff"},
             Deliver(1, "getting") \/ RecordDrop(1, "getting")
               \/ (stopping /\ Abandon(1, "getting"))
      PROVE  Channel!Next
  <2>1. /\ Waiting' = Waiting \ Elements(held) /\ Elements(held) \subseteq Waiting
        /\ UNCHANGED <<submitted, phase>> /\ stopping' = stopping
    BY <1>8, Release DEF Deliver, RecordDrop, Abandon, stopping
  <2>2. Channel!IsFront(Elements(held))
    <3>1. Elements(held) # {}
      BY <1>8, Known, ElementsType DEF IInv, Shape
    <3> QED BY <2>1, <3>1, HeldIsOldest
            DEF Channel!IsFront, IInv, Order, DeliveredInOrder
  <2>3. Elements(held) \in SUBSET Waiting
    BY <2>1
  <2>4. CASE Deliver(1, "getting")
    BY <2>1, <2>2, <2>3, <2>4 DEF Deliver, Channel!Next, Channel!Deliver
  <2>5. CASE RecordDrop(1, "getting")
    BY <2>1, <2>2, <2>3, <2>5 DEF RecordDrop, Channel!Next, Channel!GiveUp
  <2>6. CASE stopping /\ Abandon(1, "getting")
    BY <2>1, <2>3, <2>6 DEF Abandon, Channel!Next, Channel!Lose
  <2> QED BY <1>8, <2>4, <2>5, <2>6
<1>9. CASE DeliverSucceeds \/ DeliverExhausted \/ AbandonRetry
  BY <1>8, <1>9 DEF DeliverSucceeds, DeliverExhausted, AbandonRetry
<1>10. CASE Submit
  BY <1>1, <1>2, <1>10 DEF Submit
<1> QED BY <1>3, <1>4, <1>5, <1>6, <1>7, <1>9, <1>10 DEF Next, Drain

\* Every behaviour of the sink is one of an audit channel: events settle
\* once, in order, and are lost without a count only after stop() was called.
THEOREM SinkImplementsChannel == Spec => ImplementsChannel
<1>1. Init => Channel!Init
  BY EmptySeq DEF Init, SinkInit, Channel!Init, Waiting, stopping
<1>2. IInv /\ [Next]_sinkVars => [Channel!Next]_Channel!vars
  <2>1. ASSUME UNCHANGED sinkVars PROVE UNCHANGED Channel!vars
    BY <2>1 DEF sinkVars, Channel!vars, Waiting, stopping
  <2> QED BY <2>1, ChannelStep
<1> QED BY <1>1, <1>2, Invariant, PTL DEF Spec, ImplementsChannel, Channel!Spec
=============================================================================
