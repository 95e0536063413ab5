------------------------------- MODULE Limiter -------------------------------
(***************************************************************************)
(* What a semaphore with a queue promises to those that pass through it.   *)
(* The concurrency limit of a route (Server) is shown to implement it.     *)
(***************************************************************************)
EXTENDS Integers, SequencesExt

CONSTANTS
    Users,   \* who may pass
    Limit    \* how many at once

VARIABLES
    inside,  \* the users that hold a permit
    queue    \* the users that wait for one, in the order they came

limiterVars == <<inside, queue>>

Queueing == {queue[k] : k \in 1 .. Len(queue)}

LimiterInit == inside = {} /\ queue = <<>>

\* There is room: a user gets in at once.
Enter(u) ==
    /\ u \notin inside
    /\ Cardinality(inside) < Limit
    /\ queue = <<>>
    /\ inside' = inside \cup {u}
    /\ UNCHANGED queue

\* There is none: it goes to the end of the queue,
Wait(u) ==
    /\ u \notin inside \cup Queueing
    /\ Cardinality(inside) = Limit
    /\ queue' = Append(queue, u)
    /\ UNCHANGED inside

\* from where it may leave,
GiveUp(u) ==
    /\ \E k \in 1 .. Len(queue) : queue[k] = u /\ queue' = RemoveAt(queue, k)
    /\ UNCHANGED inside

\* and where it gets the permit of a user that is done, when it is the first.
Leave(u) ==
    /\ u \in inside
    /\ inside' = (inside \ {u}) \cup (IF queue = <<>> THEN {} ELSE {Head(queue)})
    /\ queue' = IF queue = <<>> THEN queue ELSE Tail(queue)

LimiterNext == \E u \in Users : Enter(u) \/ Wait(u) \/ GiveUp(u) \/ Leave(u)

LimiterSpec == LimiterInit /\ [][LimiterNext]_limiterVars
=============================================================================
