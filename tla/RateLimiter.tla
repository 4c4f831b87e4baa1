------------------------------ MODULE RateLimiter ------------------------------
(***************************************************************************)
(* SlidingWindowRateLimiter of services/oral_assessment/middleware.py, for *)
(* the one key all the threads of a worker share.  The clock is monotonic  *)
(* and two requests may read the same time.                                *)
(***************************************************************************)
EXTENDS Integers, Sequences, SequencesExt

CONSTANTS
    Limit,          \* limit_per_minute
    Window,         \* 60 seconds
    MaxTime         \* bound on the clock

ASSUME LimiterAssumption == Limit \in Nat /\ Window \in Nat \ {0} /\ MaxTime \in Nat

VARIABLES
    now,            \* time.monotonic()
    events,         \* the deque of the key
    admitted        \* every time a request was let in, for the properties

limiterVars == <<now, events, admitted>>

LimiterInit ==
    /\ now = 0
    /\ events = <<>>
    /\ admitted = <<>>

Tick ==
    /\ now < MaxTime
    /\ now' = now + 1
    /\ UNCHANGED <<events, admitted>>

\* Events leave at the front of the deque while they are older than the window.
\* Mutant: an event exactly as old as the window leaves.
RecentOpen ==
    LET kept == {i \in DOMAIN events : events[i] > now - Window}
    IN  IF kept = {} THEN <<>> ELSE SubSeq(events, Min(kept), Len(events))

Recent ==
    LET kept == {i \in DOMAIN events : events[i] >= now - Window}
    IN  IF kept = {} THEN <<>> ELSE SubSeq(events, Min(kept), Len(events))

\* allow
Admit ==
    /\ Len(Recent) < Limit
    /\ events' = Append(Recent, now)
    /\ admitted' = Append(admitted, now)
    /\ UNCHANGED now

Refuse ==
    /\ Len(Recent) >= Limit
    /\ events' = Recent
    /\ UNCHANGED <<now, admitted>>

LimiterTypeOK ==
    /\ now \in 0..MaxTime
    /\ events \in Seq(0..MaxTime)
    /\ admitted \in Seq(0..MaxTime)

\* No minute, wherever it begins and both of its ends included, saw more
\* requests let in than the limit: what the deque has forgotten does not
\* matter any more.
WindowHolds ==
    \A i \in DOMAIN admitted :
        i + Limit \in DOMAIN admitted => admitted[i + Limit] > admitted[i] + Window
=============================================================================
