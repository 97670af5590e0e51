------------------------------ MODULE IdealBucket ------------------------------
(***************************************************************************)
(* What a token bucket promises: a level that rises at a constant rate up  *)
(* to the capacity, and a call is granted exactly when the level covers    *)
(* its cost.  Amounts are counted in fractions of a token, Cost of which   *)
(* make one, so that any rational refill rate is a whole number.           *)
(***************************************************************************)
EXTENDS Integers

CONSTANTS
    Full,   \* the capacity, in fractions
    Cost,   \* fractions of a token that make one
    Rate    \* fractions refilled per tick

VARIABLES
    clock,    \* ticks since the start
    level,    \* the content of the bucket
    since,    \* the start of an observed window of time
    counted   \* calls granted in that window

vars == <<clock, level, since, counted>>

AtMostFull(n) == IF n < Full THEN n ELSE Full

Init == clock = 0 /\ level = Full /\ since = 0 /\ counted = 0

Tick ==
    /\ clock' = clock + 1
    /\ level' = AtMostFull(level + Rate)
    /\ UNCHANGED <<since, counted>>

Grant ==
    /\ level >= Cost
    /\ level' = level - Cost
    /\ counted' = counted + 1
    /\ UNCHANGED <<clock, since>>

\* A new window is observed.
Watch == since' = clock /\ counted' = 0 /\ UNCHANGED <<clock, level>>

Next == Tick \/ Grant \/ Watch

Spec == Init /\ [][Next]_vars
=============================================================================
