--------------------------- MODULE RealtimeProofs ---------------------------
(***************************************************************************)
(* Proofs about Realtime, for every set of streams, every limit and every   *)
(* range of delays.                                                        *)
(***************************************************************************)
EXTENDS Realtime, FiniteSetTheorems, SequenceTheorems, TLAPS

\* A stream's events start with the first poll and not before it.
EventsStart ==
    \A c \in Streams :
        /\ stage[c] \in {"idle", "setup", "accepted"} => events[c] = <<>>
        /\ stage[c] \in {"streaming", "reconnecting", "sleeping"} => events[c] # <<>>

\* A stream that was sent the events e and has the messages b waiting, with p
\* messages published: both in order, what waits newer than all that was sent.
InOrder(e, b, p) ==
    /\ e # <<>> => e[1] = Subscribed
    /\ \A i, j \in 1 .. Len(e) : i < j => e[i] < e[j]
    /\ \A i, j \in 1 .. Len(b) : i < j => b[i] < b[j]
    /\ \A i \in 1 .. Len(e), j \in 1 .. Len(b) : e[i] < b[j]
    /\ \A i \in 1 .. Len(e) : e[i] <= p
    /\ \A i \in 1 .. Len(b) : b[i] <= p

StreamsInOrder == \A c \in Streams : InOrder(events[c], buffer[c], published)

RealtimeInv ==
    /\ RealtimeTypeOK
    /\ CapacityExact
    /\ EventsStart
    /\ StreamsInOrder

\* The counted sets are finite, whatever the stages.
LEMMA StageSetsFinite ==
    ASSUME NEW set
    PROVE  IsFiniteSet(InStage(set)) /\ Cardinality(InStage(set)) \in Nat
<1>1. InStage(set) \in SUBSET Streams
  BY DEF InStage
<1>2. IsFiniteSet(InStage(set))
  BY <1>1, FS_Subset, RealtimeAssumption
<1> QED BY <1>2, FS_CardinalityType

\* How one subscription that changes its stage moves a count.
LEMMA StageMove ==
    ASSUME NEW set, NEW c \in Streams, NEW s,
           stage \in [Streams -> Stages], stage' = [stage EXCEPT ![c] = s]
    PROVE  Cardinality(InStage(set)') = Cardinality(InStage(set))
               + (IF s \in set THEN 1 ELSE 0) - (IF stage[c] \in set THEN 1 ELSE 0)
<1>1. IsFiniteSet(InStage(set)) /\ Cardinality(InStage(set)) \in Nat
  BY StageSetsFinite
<1>2. CASE s \in set
  <2>1. InStage(set)' = InStage(set) \cup {c}
    BY <1>2 DEF InStage
  <2>2. c \in InStage(set) <=> stage[c] \in set
    BY DEF InStage
  <2>3. Cardinality(InStage(set) \cup {c}) =
          IF c \in InStage(set) THEN Cardinality(InStage(set))
                                ELSE Cardinality(InStage(set)) + 1
    BY <1>1, FS_AddElement
  <2> QED BY <1>1, <1>2, <2>1, <2>2, <2>3
<1>3. CASE s \notin set
  <2>1. InStage(set)' = InStage(set) \ {c}
    BY <1>3 DEF InStage
  <2>2. c \in InStage(set) <=> stage[c] \in set
    BY DEF InStage
  <2>3. Cardinality(InStage(set) \ {c}) =
          IF c \in InStage(set) THEN Cardinality(InStage(set)) - 1
                                ELSE Cardinality(InStage(set))
    BY <1>1, FS_RemoveElement
  <2> QED BY <1>1, <1>3, <2>1, <2>2, <2>3
<1> QED BY <1>2, <1>3

\* A step that changes a stage moves the semaphore and the gauge with it.
LEMMA CapacityStep ==
    RealtimeTypeOK /\ CapacityExact /\ [RealtimeNext]_realtimeVars => CapacityExact'
<1> SUFFICES ASSUME RealtimeTypeOK, CapacityExact, [RealtimeNext]_realtimeVars
             PROVE  CapacityExact'
  OBVIOUS
<1>0. /\ permits \in Int /\ inflight \in Int /\ RealtimeLimit \in Int
      /\ stage \in [Streams -> Stages]
      /\ Cardinality(InStage(Holding)) \in Nat
      /\ Cardinality(InStage(Open)) \in Nat
  BY StageSetsFinite, RealtimeAssumption DEF RealtimeTypeOK
<1>1. CASE UNCHANGED <<permits, inflight, stage>>
  BY <1>1 DEF CapacityExact, InStage
<1>2. ASSUME NEW c \in Streams, NEW s, stage' = [stage EXCEPT ![c] = s],
             permits' = permits - (IF s \in Holding THEN 1 ELSE 0)
                                + (IF stage[c] \in Holding THEN 1 ELSE 0),
             inflight' = inflight + (IF s \in Open THEN 1 ELSE 0)
                                  - (IF stage[c] \in Open THEN 1 ELSE 0)
      PROVE  CapacityExact'
  <2>1. Cardinality(InStage(Holding)') = Cardinality(InStage(Holding))
          + (IF s \in Holding THEN 1 ELSE 0) - (IF stage[c] \in Holding THEN 1 ELSE 0)
    BY <1>0, <1>2, StageMove
  <2>2. Cardinality(InStage(Open)') = Cardinality(InStage(Open))
          + (IF s \in Open THEN 1 ELSE 0) - (IF stage[c] \in Open THEN 1 ELSE 0)
    BY <1>0, <1>2, StageMove
  <2> QED BY <1>0, <1>2, <2>1, <2>2 DEF CapacityExact
<1>3. CASE Redis \/ Publish \/ UNCHANGED realtimeVars
  BY <1>1, <1>3 DEF Redis, Publish, realtimeVars, streamVars
<1>4. ASSUME NEW c \in Streams,
             \/ Break(c) \/ NextMessage(c)
      PROVE  CapacityExact'
  BY <1>1, <1>4 DEF Break, NextMessage
<1>5. ASSUME NEW c \in Streams, Deny(c) \/ SetupFailed(c) \/ ClientGone(c) PROVE CapacityExact'
  <2>1. /\ stage' = [stage EXCEPT ![c] = "closed"]
        /\ permits' = permits - (IF "closed" \in Holding THEN 1 ELSE 0)
                              + (IF stage[c] \in Holding THEN 1 ELSE 0)
        /\ inflight' = inflight + (IF "closed" \in Open THEN 1 ELSE 0)
                                - (IF stage[c] \in Open THEN 1 ELSE 0)
    BY <1>0, <1>5 DEF Deny, SetupFailed, ClientGone, Go, Holding, Open
  <2> QED BY <1>2, <2>1
<1>6. ASSUME NEW c \in Streams, Acquire(c) PROVE CapacityExact'
  <2>1. CASE permits > 0
    <3>1. /\ stage' = [stage EXCEPT ![c] = "setup"]
          /\ permits' = permits - (IF "setup" \in Holding THEN 1 ELSE 0)
                                + (IF stage[c] \in Holding THEN 1 ELSE 0)
          /\ inflight' = inflight + (IF "setup" \in Open THEN 1 ELSE 0)
                                  - (IF stage[c] \in Open THEN 1 ELSE 0)
      BY <1>0, <1>6, <2>1 DEF Acquire, Go, Holding, Open
    <3> QED BY <1>2, <3>1
  <2>2. CASE ~(permits > 0)
    <3>1. /\ stage' = [stage EXCEPT ![c] = "closed"]
          /\ permits' = permits - (IF "closed" \in Holding THEN 1 ELSE 0)
                                + (IF stage[c] \in Holding THEN 1 ELSE 0)
          /\ inflight' = inflight + (IF "closed" \in Open THEN 1 ELSE 0)
                                  - (IF stage[c] \in Open THEN 1 ELSE 0)
      BY <1>0, <1>6, <2>2 DEF Acquire, Go, Holding, Open
    <3> QED BY <1>2, <3>1
  <2> QED BY <2>1, <2>2
<1>7. ASSUME NEW c \in Streams, SetupOk(c) PROVE CapacityExact'
  <2>1. /\ stage' = [stage EXCEPT ![c] = "accepted"]
        /\ permits' = permits - (IF "accepted" \in Holding THEN 1 ELSE 0)
                              + (IF stage[c] \in Holding THEN 1 ELSE 0)
        /\ inflight' = inflight + (IF "accepted" \in Open THEN 1 ELSE 0)
                                - (IF stage[c] \in Open THEN 1 ELSE 0)
    BY <1>0, <1>7 DEF SetupOk, Go, Holding, Open
  <2> QED BY <1>2, <2>1
<1>8. ASSUME NEW c \in Streams, FirstEvent(c) \/ ReconnectOk(c) PROVE CapacityExact'
  <2>1. /\ stage' = [stage EXCEPT ![c] = "streaming"]
        /\ permits' = permits - (IF "streaming" \in Holding THEN 1 ELSE 0)
                              + (IF stage[c] \in Holding THEN 1 ELSE 0)
        /\ inflight' = inflight + (IF "streaming" \in Open THEN 1 ELSE 0)
                                - (IF stage[c] \in Open THEN 1 ELSE 0)
    BY <1>0, <1>8 DEF FirstEvent, ReconnectOk, Go, Holding, Open
  <2> QED BY <1>2, <2>1
<1>9. ASSUME NEW c \in Streams, StreamEnded(c) \/ DelayElapsed(c) PROVE CapacityExact'
  <2>1. /\ stage' = [stage EXCEPT ![c] = "reconnecting"]
        /\ permits' = permits - (IF "reconnecting" \in Holding THEN 1 ELSE 0)
                              + (IF stage[c] \in Holding THEN 1 ELSE 0)
        /\ inflight' = inflight + (IF "reconnecting" \in Open THEN 1 ELSE 0)
                                - (IF stage[c] \in Open THEN 1 ELSE 0)
    BY <1>0, <1>9 DEF StreamEnded, DelayElapsed, Go, Holding, Open
  <2> QED BY <1>2, <2>1
<1>10. ASSUME NEW c \in Streams, ReconnectFailed(c) PROVE CapacityExact'
  <2>1. /\ stage' = [stage EXCEPT ![c] = "sleeping"]
        /\ permits' = permits - (IF "sleeping" \in Holding THEN 1 ELSE 0)
                              + (IF stage[c] \in Holding THEN 1 ELSE 0)
        /\ inflight' = inflight + (IF "sleeping" \in Open THEN 1 ELSE 0)
                                - (IF stage[c] \in Open THEN 1 ELSE 0)
    BY <1>0, <1>10 DEF ReconnectFailed, Go, Holding, Open
  <2> QED BY <1>2, <2>1
<1> QED BY <1>3, <1>4, <1>5, <1>6, <1>7, <1>8, <1>9, <1>10 DEF RealtimeNext

\* Every action keeps the types; the upper bound of the permits is the capacity's.
LEMMA TypeStep ==
    RealtimeTypeOK /\ CapacityExact /\ [RealtimeNext]_realtimeVars => RealtimeTypeOK'
<1> SUFFICES ASSUME RealtimeTypeOK, CapacityExact, [RealtimeNext]_realtimeVars
             PROVE  RealtimeTypeOK'
  OBVIOUS
<1>0. permits' \in Nat => permits' \in 0 .. RealtimeLimit
  <2>1. CapacityExact'
    BY CapacityStep
  <2>2. Cardinality(InStage(Holding)') \in Nat
    <3>1. InStage(Holding)' \in SUBSET Streams
      BY DEF InStage
    <3> QED BY <3>1, FS_Subset, FS_CardinalityType, RealtimeAssumption
  <2> QED BY <2>1, <2>2, RealtimeAssumption DEF CapacityExact
<1> USE DEF RealtimeTypeOK
<1>1. CASE UNCHANGED realtimeVars
  BY <1>1 DEF realtimeVars, backendVars, streamVars
<1>2. CASE Redis
  BY <1>2 DEF Redis, streamVars
<1>3. CASE Publish
  <2>1. published' \in 0 .. MaxMessages /\ published + 1 \in 1 .. MaxMessages
    BY <1>3, RealtimeAssumption DEF Publish
  <2>2. buffer' \in [Streams -> Seq(1 .. MaxMessages)]
    BY <1>3, <2>1, AppendProperties DEF Publish
  <2> QED BY <1>3, <2>1, <2>2 DEF Publish
<1>4. ASSUME NEW c \in Streams, Break(c) PROVE RealtimeTypeOK'
  <2>1. PICK n \in 0 .. Len(buffer[c]) : buffer' = [buffer EXCEPT ![c] = SubSeq(@, 1, n)]
    BY <1>4 DEF Break
  <2>2. SubSeq(buffer[c], 1, n) \in Seq(1 .. MaxMessages)
    <3>1. buffer[c] \in Seq(1 .. MaxMessages)
      OBVIOUS
    <3>2. Len(buffer[c]) \in Nat
      BY <3>1, LenProperties
    <3>3. \A i \in 1 .. n : i \in 1 .. Len(buffer[c])
      BY <3>2
    <3>4. \A i \in 1 .. n : buffer[c][i] \in 1 .. MaxMessages
      BY <3>1, <3>3, ElementOfSeq
    <3>5. n \in Int
      BY <3>2
    <3> HIDE DEF RealtimeTypeOK
    <3> QED BY <3>4, <3>5, SubSeqProperties
  <2> QED BY <1>4, <2>1, <2>2 DEF Break, backendVars
<1>5. ASSUME NEW c \in Streams, Deny(c) PROVE RealtimeTypeOK'
  BY <1>5 DEF Deny, Go, backendVars, Stages, Replies, Denials
<1>6. ASSUME NEW c \in Streams, Acquire(c) PROVE RealtimeTypeOK'
  BY <1>6, RealtimeAssumption DEF Acquire, Go, backendVars, Stages, Holding, Replies
<1>7. ASSUME NEW c \in Streams, SetupOk(c) PROVE RealtimeTypeOK'
  BY <1>7 DEF SetupOk, Go, backendVars, Stages, Holding, Open, Replies
<1>8. ASSUME NEW c \in Streams, SetupFailed(c) PROVE RealtimeTypeOK'
  BY <1>0, <1>8 DEF SetupFailed, Go, backendVars, Stages, Replies
<1>9. ASSUME NEW c \in Streams, FirstEvent(c) PROVE RealtimeTypeOK'
  <2>1. Append(events[c], Subscribed) \in Seq(0 .. MaxMessages)
    BY AppendProperties, RealtimeAssumption DEF Subscribed
  <2> QED BY <1>9, <2>1 DEF FirstEvent, Go, backendVars, Stages, Holding, Open
<1>10. ASSUME NEW c \in Streams, NextMessage(c) PROVE RealtimeTypeOK'
  <2>1. /\ Head(buffer[c]) \in 1 .. MaxMessages
        /\ Tail(buffer[c]) \in Seq(1 .. MaxMessages)
    BY <1>10, HeadTailProperties DEF NextMessage
  <2>2. Append(events[c], Head(buffer[c])) \in Seq(0 .. MaxMessages)
    BY <2>1, AppendProperties
  <2> QED BY <1>10, <2>1, <2>2 DEF NextMessage, backendVars
<1>11. ASSUME NEW c \in Streams, StreamEnded(c) PROVE RealtimeTypeOK'
  BY <1>11 DEF StreamEnded, Go, backendVars, Stages, Holding, Open
<1>12. ASSUME NEW c \in Streams, ReconnectOk(c) PROVE RealtimeTypeOK'
  BY <1>12, RealtimeAssumption DEF ReconnectOk, Go, backendVars, Stages, Holding, Open
<1>13. ASSUME NEW c \in Streams, ReconnectFailed(c) PROVE RealtimeTypeOK'
  BY <1>13 DEF ReconnectFailed, Go, backendVars, Stages, Holding, Open
<1>14. ASSUME NEW c \in Streams, DelayElapsed(c) PROVE RealtimeTypeOK'
  <2>1. Longer(delay[c]) \in FirstBackoff .. LastBackoff
    BY RealtimeAssumption DEF Longer
  <2> QED BY <1>14, <2>1 DEF DelayElapsed, Go, backendVars, Stages, Holding, Open
<1>15. ASSUME NEW c \in Streams, ClientGone(c) PROVE RealtimeTypeOK'
  <2>1. <<>> \in Seq(1 .. MaxMessages)
    BY EmptySeq
  <2> QED BY <1>0, <1>15, <2>1 DEF ClientGone, backendVars, Stages
<1> QED BY <1>1, <1>2, <1>3, <1>4, <1>5, <1>6, <1>7, <1>8, <1>9, <1>10, <1>11,
           <1>12, <1>13, <1>14, <1>15 DEF RealtimeNext

\* The stages and the first event move together.
LEMMA StartStep ==
    RealtimeTypeOK /\ EventsStart /\ [RealtimeNext]_realtimeVars => EventsStart'
<1> SUFFICES ASSUME RealtimeTypeOK, EventsStart, [RealtimeNext]_realtimeVars
             PROVE  EventsStart'
  OBVIOUS
<1>0. stage \in [Streams -> Stages] /\ events \in [Streams -> Seq(0 .. MaxMessages)]
  BY DEF RealtimeTypeOK
<1>1. CASE Redis \/ Publish \/ UNCHANGED realtimeVars
  BY <1>1 DEF Redis, Publish, realtimeVars, streamVars, EventsStart
<1>2. ASSUME NEW c \in Streams, Break(c) PROVE EventsStart'
  BY <1>2 DEF Break, EventsStart
<1>3. ASSUME NEW c \in Streams,
             Deny(c) \/ Acquire(c) \/ SetupOk(c) \/ SetupFailed(c) \/ ClientGone(c)
      PROVE  EventsStart'
  BY <1>0, <1>3 DEF Deny, Acquire, SetupOk, SetupFailed, ClientGone, Go, EventsStart
<1>4. ASSUME NEW c \in Streams,
             StreamEnded(c) \/ ReconnectOk(c) \/ ReconnectFailed(c) \/ DelayElapsed(c)
      PROVE  EventsStart'
  BY <1>0, <1>4 DEF StreamEnded, ReconnectOk, ReconnectFailed, DelayElapsed, Go, EventsStart
<1>5. ASSUME NEW c \in Streams, NEW e \in 0 .. MaxMessages,
             events' = [events EXCEPT ![c] = Append(@, e)],
             stage' = [stage EXCEPT ![c] = "streaming"]
      PROVE  EventsStart'
  <2>1. Append(events[c], e) # <<>>
    BY <1>0, AppendProperties
  <2> QED BY <1>0, <1>5, <2>1 DEF EventsStart
<1>6. ASSUME NEW c \in Streams, FirstEvent(c) PROVE EventsStart'
  <2>1. Subscribed \in 0 .. MaxMessages
    BY RealtimeAssumption DEF Subscribed
  <2>2. /\ events' = [events EXCEPT ![c] = Append(@, Subscribed)]
        /\ stage' = [stage EXCEPT ![c] = "streaming"]
    BY <1>6 DEF FirstEvent, Go
  <2> QED BY <1>5, <2>1, <2>2
<1>7. ASSUME NEW c \in Streams, NextMessage(c) PROVE EventsStart'
  <2>1. Head(buffer[c]) \in 0 .. MaxMessages
    <3>1. buffer[c] \in Seq(1 .. MaxMessages) /\ buffer[c] # <<>>
      BY <1>7 DEF NextMessage, RealtimeTypeOK
    <3>2. Head(buffer[c]) \in 1 .. MaxMessages
      BY <3>1, HeadTailProperties
    <3> QED BY <3>2
  <2>2. /\ events' = [events EXCEPT ![c] = Append(@, Head(buffer[c]))]
        /\ stage' = [stage EXCEPT ![c] = "streaming"]
    BY <1>0, <1>7 DEF NextMessage
  <2>3. \E e \in 0 .. MaxMessages : /\ events' = [events EXCEPT ![c] = Append(@, e)]
                                    /\ stage' = [stage EXCEPT ![c] = "streaming"]
    BY <2>1, <2>2
  <2> QED BY <1>5, <2>3
<1> QED BY <1>1, <1>2, <1>3, <1>4, <1>6, <1>7 DEF RealtimeNext

\* A message published to a live connection is the newest of its buffer.
LEMMA InOrderPublish ==
    ASSUME NEW e \in Seq(Nat), NEW b \in Seq(Nat), NEW p \in Nat, InOrder(e, b, p)
    PROVE  InOrder(e, b, p + 1) /\ InOrder(e, Append(b, p + 1), p + 1)
<1>1. /\ Len(e) \in Nat /\ Len(b) \in Nat
      /\ \A i \in 1 .. Len(e) : e[i] \in Nat
      /\ \A i \in 1 .. Len(b) : b[i] \in Nat
  BY LenProperties, ElementOfSeq
<1>2. InOrder(e, b, p + 1)
  BY <1>1, SMTT(30) DEF InOrder
<1> DEFINE t == Append(b, p + 1)
<1>3. /\ Len(t) = Len(b) + 1
      /\ \A i \in 1 .. Len(b) : t[i] = b[i]
      /\ t[Len(b) + 1] = p + 1
  BY AppendProperties
<1> HIDE DEF t
<1>4. ASSUME NEW j \in 1 .. Len(t) PROVE j \in 1 .. Len(b) \/ j = Len(b) + 1
  BY <1>1, <1>3
<1>5. ASSUME NEW j \in 1 .. Len(t)
      PROVE  /\ t[j] <= p + 1
             /\ \A i \in 1 .. Len(e) : e[i] < t[j]
             /\ \A i \in 1 .. Len(t) : i < j => t[i] < t[j]
  <2>1. CASE j \in 1 .. Len(b)
    <3>1. \A i \in 1 .. Len(t) : i < j => i \in 1 .. Len(b)
      BY <1>1, <1>3, <2>1
    <3>2. t[j] = b[j] /\ b[j] \in Nat /\ b[j] <= p
      BY <1>1, <1>3, <2>1 DEF InOrder
    <3>3. \A i \in 1 .. Len(e) : e[i] < t[j]
      BY <2>1, <3>2 DEF InOrder
    <3>4. \A i \in 1 .. Len(t) : i < j => t[i] < t[j]
      BY <1>3, <2>1, <3>1, <3>2 DEF InOrder
    <3> QED BY <3>2, <3>3, <3>4
  <2>2. CASE j = Len(b) + 1
    <3>1. \A i \in 1 .. Len(t) : i < j => i \in 1 .. Len(b)
      BY <1>1, <1>3, <2>2
    <3>2. t[j] = p + 1
      BY <1>3, <2>2
    <3>3. \A i \in 1 .. Len(e) : e[i] < t[j]
      BY <1>1, <3>2 DEF InOrder
    <3>4. \A i \in 1 .. Len(t) : i < j => t[i] < t[j]
      BY <1>1, <1>3, <3>1, <3>2 DEF InOrder
    <3> QED BY <3>2, <3>3, <3>4
  <2> QED BY <1>4, <2>1, <2>2
<1>6. InOrder(e, t, p + 1)
  BY <1>1, <1>2, <1>5 DEF InOrder
<1> QED BY <1>2, <1>6 DEF t

\* The messages that arrived before a connection broke are still in order.
LEMMA InOrderCut ==
    ASSUME NEW e \in Seq(Nat), NEW b \in Seq(Nat), NEW p \in Nat, InOrder(e, b, p),
           NEW n \in 0 .. Len(b)
    PROVE  InOrder(e, SubSeq(b, 1, n), p)
<1>1. /\ Len(b) \in Nat /\ n \in Int
      /\ \A i \in 1 .. n : i \in 1 .. Len(b)
  BY LenProperties
<1>2. \A i \in 1 .. n : b[i] \in Nat
  BY <1>1, ElementOfSeq
<1> DEFINE t == SubSeq(b, 1, n)
<1>3. /\ Len(t) = IF 1 <= n THEN n - 1 + 1 ELSE 0
      /\ \A i \in 1 .. n - 1 + 1 : t[i] = b[1 + i - 1]
  BY <1>1, <1>2, SubSeqProperties
<1> HIDE DEF t
<1>4. Len(t) = n /\ \A i \in 1 .. n : t[i] = b[i]
  BY <1>1, <1>3
<1>5. InOrder(e, t, p)
  BY <1>1, <1>4 DEF InOrder
<1> QED BY <1>5 DEF t

\* A buffer dropped with its connection.
LEMMA InOrderDrop ==
    ASSUME NEW e, NEW b, NEW p, InOrder(e, b, p)
    PROVE  InOrder(e, <<>>, p)
BY DEF InOrder

\* The subscribe event is older than every message.
LEMMA InOrderFirst ==
    ASSUME NEW b \in Seq(Nat \ {0}), NEW p \in Nat, InOrder(<<>>, b, p)
    PROVE  InOrder(Append(<<>>, Subscribed), b, p)
<1>1. \A i \in 1 .. Len(b) : b[i] \in Nat \ {0}
  BY ElementOfSeq
<1>2. /\ Len(<<0>>) = 1 /\ <<0>>[1] = 0
      /\ Append(<<>>, Subscribed) = <<0>>
  BY DEF Subscribed
<1> QED BY <1>1, <1>2 DEF InOrder, Subscribed

\* The oldest waiting message becomes the newest event.
LEMMA InOrderSend ==
    ASSUME NEW e \in Seq(Nat), e # <<>>, NEW b \in Seq(Nat), b # <<>>, NEW p \in Nat,
           InOrder(e, b, p)
    PROVE  InOrder(Append(e, Head(b)), Tail(b), p)
<1>1. /\ Len(e) \in Nat \ {0} /\ Len(b) \in Nat \ {0}
      /\ \A i \in 1 .. Len(e) : e[i] \in Nat
      /\ \A i \in 1 .. Len(b) : b[i] \in Nat
  BY EmptySeq, ElementOfSeq
<1>2. Head(b) = b[1] /\ b[1] \in Nat
  BY <1>1
<1> DEFINE f == Append(e, Head(b))
           t == Tail(b)
<1>3. /\ Len(f) = Len(e) + 1
      /\ \A i \in 1 .. Len(e) : f[i] = e[i]
      /\ f[Len(e) + 1] = b[1]
  BY <1>2, AppendProperties
<1>4. /\ Len(t) = Len(b) - 1
      /\ \A i \in 1 .. Len(t) : t[i] = b[i + 1]
  BY HeadTailProperties
<1> HIDE DEF f, t
<1>5. ASSUME NEW j \in 1 .. Len(t)
      PROVE  /\ j + 1 \in 1 .. Len(b) /\ t[j] = b[j + 1]
             /\ 1 \in 1 .. Len(b) /\ 1 < j + 1
  BY <1>1, <1>4
<1>6. ASSUME NEW j \in 1 .. Len(t)
      PROVE  t[j] <= p /\ \A i \in 1 .. Len(t) : i < j => t[i] < t[j]
  <2>1. \A i \in 1 .. Len(t) : i < j => i + 1 < j + 1
    BY <1>1, <1>4
  <2> QED BY <1>5, <2>1 DEF InOrder
<1>7. ASSUME NEW j \in 1 .. Len(f)
      PROVE  /\ f[j] <= p
             /\ \A i \in 1 .. Len(f) : i < j => f[i] < f[j]
             /\ \A i \in 1 .. Len(t) : f[j] < t[i]
  <2>1. \A i \in 1 .. Len(f) : i < j => i \in 1 .. Len(e)
    BY <1>1, <1>3
  <2>2. CASE j \in 1 .. Len(e)
    BY <1>3, <1>5, <2>1, <2>2 DEF InOrder
  <2>3. CASE j = Len(e) + 1
    <3>1. 1 \in 1 .. Len(b) /\ f[j] = b[1]
      BY <1>1, <1>3, <2>3
    <3> QED BY <1>3, <1>5, <2>1, <3>1 DEF InOrder
  <2> QED BY <1>1, <1>3, <2>2, <2>3
<1>8. f[1] = Subscribed
  <2>1. e[1] = Subscribed
    BY DEF InOrder
  <2>2. f[1] = e[1]
    BY <1>1, <1>3
  <2> QED BY <2>1, <2>2
<1>9. InOrder(f, t, p)
  BY <1>6, <1>7, <1>8 DEF InOrder
<1> QED BY <1>9 DEF f, t

\* Every action keeps the events and the buffer of every stream in order.
LEMMA OrderStep ==
    /\ RealtimeTypeOK /\ EventsStart /\ StreamsInOrder /\ [RealtimeNext]_realtimeVars
    => StreamsInOrder'
<1> SUFFICES ASSUME RealtimeTypeOK, EventsStart, StreamsInOrder,
                    [RealtimeNext]_realtimeVars
             PROVE  StreamsInOrder'
  OBVIOUS
<1> USE DEF StreamsInOrder
<1>0. /\ events \in [Streams -> Seq(0 .. MaxMessages)]
      /\ buffer \in [Streams -> Seq(1 .. MaxMessages)]
      /\ published \in Nat
      /\ \A c \in Streams : /\ events[c] \in Seq(Nat)
                            /\ buffer[c] \in Seq(Nat)
                            /\ buffer[c] \in Seq(Nat \ {0})
  <2>1. /\ 0 .. MaxMessages \subseteq Nat
        /\ 1 .. MaxMessages \subseteq Nat
        /\ 1 .. MaxMessages \subseteq Nat \ {0}
    OBVIOUS
  <2>2. /\ events \in [Streams -> Seq(0 .. MaxMessages)]
        /\ buffer \in [Streams -> Seq(1 .. MaxMessages)]
        /\ published \in Nat
    BY DEF RealtimeTypeOK
  <2>3. \A c \in Streams : /\ events[c] \in Seq(0 .. MaxMessages)
                           /\ buffer[c] \in Seq(1 .. MaxMessages)
    BY <2>2
  <2> QED BY <2>1, <2>2, <2>3, SeqMonotonic
<1>2. CASE UNCHANGED <<published, buffer, events>>
  BY <1>2
<1>3. CASE Redis \/ UNCHANGED realtimeVars
  BY <1>2, <1>3 DEF Redis, realtimeVars, backendVars, streamVars
<1>4. ASSUME NEW c \in Streams,
             \/ Deny(c) \/ Acquire(c) \/ SetupOk(c) \/ SetupFailed(c) \/ StreamEnded(c)
             \/ ReconnectOk(c) \/ ReconnectFailed(c) \/ DelayElapsed(c)
      PROVE  StreamsInOrder'
  BY <1>2, <1>4 DEF Deny, Acquire, SetupOk, SetupFailed, StreamEnded, ReconnectOk,
                    ReconnectFailed, DelayElapsed, backendVars
<1>5. CASE Publish
  BY <1>0, <1>5, InOrderPublish DEF Publish
<1>6. ASSUME NEW c \in Streams, Break(c) PROVE StreamsInOrder'
  <2>1. PICK n \in 0 .. Len(buffer[c]) : buffer' = [buffer EXCEPT ![c] = SubSeq(@, 1, n)]
    BY <1>6 DEF Break
  <2>2. InOrder(events[c], SubSeq(buffer[c], 1, n), published)
    BY <1>0, InOrderCut
  <2> QED BY <1>0, <1>6, <2>1, <2>2 DEF Break, backendVars
<1>7. ASSUME NEW c \in Streams, FirstEvent(c) PROVE StreamsInOrder'
  <2>1. events[c] = <<>>
    BY <1>7 DEF FirstEvent, Go, EventsStart
  <2>2. InOrder(Append(events[c], Subscribed), buffer[c], published)
    BY <1>0, <2>1, InOrderFirst
  <2> QED BY <1>0, <1>7, <2>2 DEF FirstEvent, backendVars
<1>8. ASSUME NEW c \in Streams, NextMessage(c) PROVE StreamsInOrder'
  <2>1. events[c] # <<>> /\ buffer[c] # <<>>
    BY <1>8 DEF NextMessage, EventsStart
  <2>2. InOrder(Append(events[c], Head(buffer[c])), Tail(buffer[c]), published)
    BY <1>0, <2>1, InOrderSend
  <2> QED BY <1>0, <1>8, <2>2 DEF NextMessage, backendVars
<1>9. ASSUME NEW c \in Streams, ClientGone(c) PROVE StreamsInOrder'
  <2>1. InOrder(events[c], <<>>, published)
    BY InOrderDrop
  <2> QED BY <1>0, <1>9, <2>1 DEF ClientGone, backendVars
<1> QED BY <1>3, <1>4, <1>5, <1>6, <1>7, <1>8, <1>9 DEF RealtimeNext

\* The inductive invariant of subscribe() and of the streams it returns.
THEOREM RealtimeInvariant == RealtimeSpec => []RealtimeInv
<1>1. RealtimeInit => RealtimeInv
  <2> SUFFICES ASSUME RealtimeInit PROVE RealtimeInv
    OBVIOUS
  <2> USE DEF RealtimeInit
  <2>1. RealtimeTypeOK
    BY EmptySeq, RealtimeAssumption DEF RealtimeTypeOK, Stages, Replies
  <2>2. InStage(Holding) = {} /\ InStage(Open) = {}
    BY DEF InStage, Holding, Open
  <2>3. CapacityExact
    BY <2>2, FS_EmptySet, RealtimeAssumption DEF CapacityExact
  <2>4. EventsStart /\ StreamsInOrder
    BY DEF EventsStart, StreamsInOrder, InOrder
  <2> QED BY <2>1, <2>3, <2>4 DEF RealtimeInv
<1>2. RealtimeInv /\ [RealtimeNext]_realtimeVars => RealtimeInv'
  BY CapacityStep, TypeStep, StartStep, OrderStep DEF RealtimeInv
<1> QED BY <1>1, <1>2, PTL DEF RealtimeSpec

\* Types, and a reconnection delay that never leaves 250 ms .. 5 s however often
\* it is doubled.
THEOREM RealtimeTypeCorrect == RealtimeSpec => []RealtimeTypeOK
<1>1. RealtimeInv => RealtimeTypeOK
  BY DEF RealtimeInv
<1> QED BY <1>1, RealtimeInvariant, PTL

\* However many subscriptions are set up, reconnect, fail or are dropped, the
\* permits and the gauge are exact: acquire_realtime never hands out more than
\* RRB_REALTIME_MAX_CONCURRENCY and none is lost.
THEOREM CapacityIsExact == RealtimeSpec => []CapacityExact
<1>1. RealtimeInv => CapacityExact
  BY DEF RealtimeInv
<1> QED BY <1>1, RealtimeInvariant, PTL

\* Every client of the event stream reads the subscribe event and then messages
\* in the order of their publication, none twice, over any reconnections.
THEOREM EventsAreInOrder == RealtimeSpec => []EventsInOrder
<1>1. RealtimeInv => EventsInOrder
  BY DEF RealtimeInv, StreamsInOrder, InOrder, EventsInOrder
<1> QED BY <1>1, RealtimeInvariant, PTL
=============================================================================
