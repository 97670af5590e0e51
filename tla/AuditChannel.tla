------------------------------ MODULE AuditChannel ------------------------------
(***************************************************************************)
(* What an audit sink promises to the code that submits events to it: the  *)
(* abstract specification that QueuedSink and WazuhIndexerSink implement.  *)
(*                                                                         *)
(* Events are numbered in the order of submit().  The channel settles them *)
(* in that order, each exactly once: delivered, or dropped and counted.  A *)
(* submit may push out one older event.  Only a closing channel may lose   *)
(* events without counting them.                                           *)
(***************************************************************************)
EXTENDS Integers

VARIABLES
    submitted,  \* how many events have been submitted: they are 1..submitted
    pending,    \* the events whose fate is open
    delivered,  \* the events the destination has acknowledged
    dropped,    \* the events reported to _record_drop
    lost,       \* the events given up without a report
    closing     \* stop() has been called

vars == <<submitted, pending, delivered, dropped, lost, closing>>

Init ==
    /\ submitted = 0
    /\ pending = {}
    /\ delivered = {}
    /\ dropped = {}
    /\ lost = {}
    /\ closing = FALSE

\* The oldest pending events, none of them overtaking or overtaken.
IsFront(S) ==
    /\ S # {} /\ S \subseteq pending
    /\ \A e \in S : (\A p \in pending \ S : e < p) /\ (\A d \in delivered : d < e)

Submit ==
    /\ submitted' = submitted + 1
    /\ \E evicted \in SUBSET pending :
         /\ \A e, f \in evicted : e = f
         /\ pending' = (pending \ evicted) \cup {submitted + 1}
         /\ dropped' = dropped \cup evicted
    /\ UNCHANGED <<delivered, lost, closing>>

Deliver ==
    \E S \in SUBSET pending :
      /\ IsFront(S)
      /\ pending' = pending \ S
      /\ delivered' = delivered \cup S
      /\ UNCHANGED <<submitted, dropped, lost, closing>>

GiveUp ==
    \E S \in SUBSET pending :
      /\ IsFront(S)
      /\ pending' = pending \ S
      /\ dropped' = dropped \cup S
      /\ UNCHANGED <<submitted, delivered, lost, closing>>

Close ==
    /\ closing' = TRUE
    /\ UNCHANGED <<submitted, pending, delivered, dropped, lost>>

Lose ==
    /\ closing
    /\ \E S \in SUBSET pending : pending' = pending \ S /\ lost' = lost \cup S
    /\ UNCHANGED <<submitted, delivered, dropped, closing>>

Next == Submit \/ Deliver \/ GiveUp \/ Close \/ Lose

Spec == Init /\ [][Next]_vars
=============================================================================
