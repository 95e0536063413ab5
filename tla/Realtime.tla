------------------------------ MODULE Realtime ------------------------------
(***************************************************************************)
(* Realtime subscriptions: POST /subscribe/<channel> (src/app/realtime.rs). *)
(*                                                                         *)
(* A subscription takes a permit of the realtime semaphore, opens its own  *)
(* Pub/Sub connection and becomes an event stream that lives until the     *)
(* client drops it, over any number of losses of the Redis connection.     *)
(* All streams listen to one channel, whose messages are numbered in the   *)
(* order Redis publishes them.                                             *)
(***************************************************************************)
EXTENDS Integers, Sequences, FiniteSets

CONSTANTS
    Streams,         \* subscription requests of a run; each happens once
    RealtimeLimit,   \* RRB_REALTIME_MAX_CONCURRENCY, at least 1
    FirstBackoff,    \* 250 ms, the unit of the delays
    LastBackoff,     \* 5 s
    MaxMessages      \* bound of the messages published in a run

ASSUME RealtimeAssumption ==
    /\ IsFiniteSet(Streams)
    /\ RealtimeLimit \in Nat \ {0}
    /\ FirstBackoff \in Nat \ {0}
    /\ LastBackoff \in Nat /\ FirstBackoff <= LastBackoff
    /\ MaxMessages \in Nat

VARIABLES
    redis,      \* how Redis answers: "up", "flaky" or "down" (external)
    published,  \* messages published so far (external)
    permits,    \* free permits of the realtime semaphore
    inflight,   \* the realtime_inflight gauge
    stage,      \* where each subscription is
    reply,      \* the HTTP answer of each subscription
    linked,     \* its Pub/Sub connection is alive
    buffer,     \* messages received on that connection and not yet taken
    delay,      \* backoff
    events      \* the events the client was sent

backendVars == <<redis, published>>
streamVars  == <<permits, inflight, stage, reply, linked, buffer, delay, events>>
realtimeVars == <<backendVars, streamVars>>

\* Stages in which the event stream exists, and in which the permit is held.
Open    == {"accepted", "streaming", "reconnecting", "sleeping"}
Holding == Open \cup {"setup"}
Stages  == Holding \cup {"idle", "closed"}

Denials == {"auth", "invalid_json", "invalid_body", "channel"}
Replies == Denials \cup {"none", "capacity", "backend", "timeout", "stream"}

\* Events are message numbers; 0 is the initial "subscribe" event.
Subscribed == 0

InStage(set) == {c \in Streams : stage[c] \in set}

RealtimeInit ==
    /\ redis = "up"
    /\ published = 0
    /\ permits = RealtimeLimit
    /\ inflight = 0
    /\ stage = [c \in Streams |-> "idle"]
    /\ reply = [c \in Streams |-> "none"]
    /\ linked = [c \in Streams |-> FALSE]
    /\ buffer = [c \in Streams |-> <<>>]
    /\ delay = [c \in Streams |-> FirstBackoff]
    /\ events = [c \in Streams |-> <<>>]

-----------------------------------------------------------------------------
(* Redis.                                                                  *)

Redis ==
    /\ redis' \in {"up", "flaky", "down"} \ {redis}
    /\ UNCHANGED <<published, streamVars>>

\* A message reaches every live Pub/Sub connection.
Publish ==
    /\ published < MaxMessages
    /\ published' = published + 1
    /\ buffer' = [c \in Streams |-> IF linked[c] THEN Append(buffer[c], published + 1)
                                    ELSE buffer[c]]
    /\ UNCHANGED <<redis, permits, inflight, stage, reply, linked, delay, events>>

\* A Pub/Sub connection breaks; the last messages may not have arrived.
Break(c) ==
    /\ redis # "up"
    /\ linked[c]
    /\ linked' = [linked EXCEPT ![c] = FALSE]
    /\ \E n \in 0 .. Len(buffer[c]) :
          buffer' = [buffer EXCEPT ![c] = SubSeq(@, 1, n)]
    /\ UNCHANGED <<backendVars, permits, inflight, stage, reply, delay, events>>

-----------------------------------------------------------------------------
(* A subscription.                                                         *)

Go(c, from, to) == stage[c] = from /\ stage' = [stage EXCEPT ![c] = to]

\* Authentication, body or channel refused: no permit is taken.
Deny(c) ==
    /\ Go(c, "idle", "closed")
    /\ \E d \in Denials : reply' = [reply EXCEPT ![c] = d]
    /\ UNCHANGED <<backendVars, permits, inflight, linked, buffer, delay, events>>

\* try_acquire_owned: a permit at once, or 429.
Acquire(c) ==
    /\ Go(c, "idle", IF permits > 0 THEN "setup" ELSE "closed")
    /\ permits' = IF permits > 0 THEN permits - 1 ELSE permits
    /\ reply' = [reply EXCEPT ![c] = IF permits > 0 THEN @ ELSE "capacity"]
    /\ UNCHANGED <<backendVars, inflight, linked, buffer, delay, events>>

\* pubsub() and subscribe() succeed within the request timeout.
SetupOk(c) ==
    /\ redis # "down"
    /\ Go(c, "setup", "accepted")
    /\ reply' = [reply EXCEPT ![c] = "stream"]
    /\ inflight' = inflight + 1
    /\ linked' = [linked EXCEPT ![c] = TRUE]
    /\ UNCHANGED <<backendVars, permits, buffer, delay, events>>

\* Mutant: the permit is given up only by a stream that was set up.
MutSetupFailed(c) ==
    /\ redis # "up"
    /\ Go(c, "setup", "closed")
    /\ \E e \in {"backend", "timeout"} : reply' = [reply EXCEPT ![c] = e]
    /\ UNCHANGED <<backendVars, permits, inflight, linked, buffer, delay, events>>

\* 503 or 504; the permit is dropped on the way out.
SetupFailed(c) ==
    /\ redis # "up"
    /\ Go(c, "setup", "closed")
    /\ \E e \in {"backend", "timeout"} : reply' = [reply EXCEPT ![c] = e]
    /\ permits' = permits + 1
    /\ UNCHANGED <<backendVars, inflight, linked, buffer, delay, events>>

\* The initial event of the stream.
FirstEvent(c) ==
    /\ Go(c, "accepted", "streaming")
    /\ events' = [events EXCEPT ![c] = Append(@, Subscribed)]
    /\ UNCHANGED <<backendVars, permits, inflight, reply, linked, buffer, delay>>

\* Mutant: what has arrived is taken at once, and the first of it sent.
MutNextMessage(c) ==
    /\ stage[c] = "streaming"
    /\ buffer[c] # <<>>
    /\ events' = [events EXCEPT ![c] = Append(@, Head(buffer[c]))]
    /\ buffer' = [buffer EXCEPT ![c] = <<>>]
    /\ UNCHANGED <<backendVars, permits, inflight, stage, reply, linked, delay>>

\* messages.next() yields a message: one event.
NextMessage(c) ==
    /\ stage[c] = "streaming"
    /\ buffer[c] # <<>>
    /\ events' = [events EXCEPT ![c] = Append(@, Head(buffer[c]))]
    /\ buffer' = [buffer EXCEPT ![c] = Tail(@)]
    /\ UNCHANGED <<backendVars, permits, inflight, stage, reply, linked, delay>>

\* Mutant: the permit is given up with the connection.
MutStreamEnded(c) ==
    /\ buffer[c] = <<>>
    /\ ~linked[c]
    /\ Go(c, "streaming", "reconnecting")
    /\ permits' = permits + 1
    /\ UNCHANGED <<backendVars, inflight, reply, linked, buffer, delay, events>>

\* messages.next() yields None: the connection is gone, and is dropped.
StreamEnded(c) ==
    /\ buffer[c] = <<>>
    /\ ~linked[c]
    /\ Go(c, "streaming", "reconnecting")
    /\ UNCHANGED <<backendVars, permits, inflight, reply, linked, buffer, delay, events>>

\* Mutant: the stream is subscribed again from the last message it was sent.
MutReconnectOk(c) ==
    /\ redis # "down"
    /\ Go(c, "reconnecting", "streaming")
    /\ linked' = [linked EXCEPT ![c] = TRUE]
    /\ buffer' = [buffer EXCEPT ![c] = IF Len(events[c]) > 1
                                         THEN <<events[c][Len(events[c])]>> ELSE @]
    /\ delay' = [delay EXCEPT ![c] = FirstBackoff]
    /\ UNCHANGED <<backendVars, permits, inflight, reply, events>>

\* A new Pub/Sub connection, subscribed again; the delay starts over.
ReconnectOk(c) ==
    /\ redis # "down"
    /\ Go(c, "reconnecting", "streaming")
    /\ linked' = [linked EXCEPT ![c] = TRUE]
    /\ delay' = [delay EXCEPT ![c] = FirstBackoff]
    /\ UNCHANGED <<backendVars, permits, inflight, reply, buffer, events>>

\* No connection, or not within the request timeout: sleep(backoff).
ReconnectFailed(c) ==
    /\ redis # "up"
    /\ Go(c, "reconnecting", "sleeping")
    /\ UNCHANGED <<backendVars, permits, inflight, reply, linked, buffer, delay, events>>

\* backoff.saturating_mul(2).min(5 s)
Longer(d) == IF 2 * d < LastBackoff THEN 2 * d ELSE LastBackoff

\* Mutant: a stream that could not reconnect at the longest delay gives up.
MutDelayElapsed(c) ==
    /\ delay[c] < LastBackoff
    /\ Go(c, "sleeping", "reconnecting")
    /\ delay' = [delay EXCEPT ![c] = Longer(@)]
    /\ UNCHANGED <<backendVars, permits, inflight, reply, linked, buffer, events>>

\* The sleep ends, and the next one is longer.
DelayElapsed(c) ==
    /\ Go(c, "sleeping", "reconnecting")
    /\ delay' = [delay EXCEPT ![c] = Longer(@)]
    /\ UNCHANGED <<backendVars, permits, inflight, reply, linked, buffer, events>>

\* The client goes away: the handler's future or the event stream is dropped
\* wherever it is, with its connection, its permit and, if it has one, its
\* metrics guard.
ClientGone(c) ==
    /\ stage[c] \in Holding
    /\ stage' = [stage EXCEPT ![c] = "closed"]
    /\ permits' = permits + 1
    /\ inflight' = IF stage[c] \in Open THEN inflight - 1 ELSE inflight
    /\ linked' = [linked EXCEPT ![c] = FALSE]
    /\ buffer' = [buffer EXCEPT ![c] = <<>>]
    /\ UNCHANGED <<backendVars, reply, delay, events>>

RealtimeNext ==
    \/ Redis \/ Publish
    \/ \E c \in Streams :
          \/ Break(c) \/ Deny(c) \/ Acquire(c) \/ SetupOk(c) \/ SetupFailed(c)
          \/ FirstEvent(c) \/ NextMessage(c) \/ StreamEnded(c)
          \/ ReconnectOk(c) \/ ReconnectFailed(c) \/ DelayElapsed(c) \/ ClientGone(c)

RealtimeSpec == RealtimeInit /\ [][RealtimeNext]_realtimeVars

\* The client reads its stream, so the stream is polled, and every attempt to
\* reconnect and every delay ends.  Clients need not ever go away.
RealtimeFairness ==
    \A c \in Streams :
        WF_realtimeVars(\/ FirstEvent(c) \/ NextMessage(c) \/ StreamEnded(c)
                        \/ ReconnectOk(c) \/ ReconnectFailed(c) \/ DelayElapsed(c))

RealtimeFairSpec == RealtimeSpec /\ RealtimeFairness

-----------------------------------------------------------------------------
(* Properties.                                                             *)

\* Types, the bounds of the permits, and a reconnection delay within its range.
RealtimeTypeOK ==
    /\ redis \in {"up", "flaky", "down"}
    /\ published \in 0 .. MaxMessages
    /\ permits \in 0 .. RealtimeLimit
    /\ inflight \in Int
    /\ stage \in [Streams -> Stages]
    /\ reply \in [Streams -> Replies]
    /\ linked \in [Streams -> BOOLEAN]
    /\ buffer \in [Streams -> Seq(1 .. MaxMessages)]
    /\ delay \in [Streams -> FirstBackoff .. LastBackoff]
    /\ events \in [Streams -> Seq(0 .. MaxMessages)]

\* Capacity is exact over the whole life of a subscription: a permit is held
\* from acquire_realtime to the end of the setup or of the stream, reconnections
\* included, and the gauge counts exactly the open streams.
CapacityExact ==
    /\ permits + Cardinality(InStage(Holding)) = RealtimeLimit
    /\ inflight = Cardinality(InStage(Open))

\* What a client reads: the "subscribe" event once, first, then messages in the
\* order of their publication, none of them twice, over any reconnections.
EventsInOrder ==
    \A c \in Streams :
        /\ events[c] # <<>> => events[c][1] = Subscribed
        /\ \A i, j \in 1 .. Len(events[c]) : i < j => events[c][i] < events[c][j]

\* A client that stays is connected again once Redis stays up.
StreamsRecover ==
    <>[](redis = "up") =>
        \A c \in Streams : [](stage[c] \in Open => <>(linked[c] \/ stage[c] = "closed"))

Holds(seq, m) == \E k \in 1 .. Len(seq) : seq[k] = m

\* A message that reached the bridge is sent to the client, unless the Redis
\* connection or the client is lost first.
MessagesArrive ==
    \A c \in Streams, m \in 1 .. MaxMessages :
        Holds(buffer[c], m) ~> (Holds(events[c], m) \/ ~linked[c])
=============================================================================
