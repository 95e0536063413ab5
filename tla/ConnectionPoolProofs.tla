------------------------ MODULE ConnectionPoolProofs ------------------------
(***************************************************************************)
(* Proofs about ConnectionPool, for every number of shards and callers and *)
(* every width of the counters.                                            *)
(***************************************************************************)
EXTENDS ConnectionPool, FiniteSetTheorems, TLAPS

\* A scan of NumShards offsets from any start index reads every shard: the
\* round-robin arithmetic of select_ready_shard skips none.
LEMMA ScanCoversShards ==
    ASSUME NEW a \in Nat, NEW s \in Shards
    PROVE  \E i \in 0 .. NumShards - 1 : ShardAt(a, i) = s
<1> DEFINE b == a % NumShards
<1>1. b \in 0 .. NumShards - 1
  BY PoolAssumption
<1>2. CASE b <= s
  <2>1. s - b \in 0 .. NumShards - 1 /\ b + (s - b) = s
    BY <1>1, <1>2, PoolAssumption DEF Shards
  <2>2. s % NumShards = s
    BY PoolAssumption DEF Shards
  <2>3. ShardAt(a, s - b) = s
    BY <2>1, <2>2 DEF ShardAt
  <2> QED BY <2>1, <2>3
<1>3. CASE b > s
  <2>1. /\ s - b + NumShards \in 0 .. NumShards - 1
        /\ b + (s - b + NumShards) = s + NumShards
    BY <1>1, <1>3, PoolAssumption DEF Shards
  <2>2. (s + NumShards) % NumShards = s
    BY PoolAssumption DEF Shards
  <2>3. ShardAt(a, s - b + NumShards) = s
    BY <2>1, <2>2 DEF ShardAt
  <2> QED BY <2>1, <2>3
<1> QED BY <1>1, <1>2, <1>3, PoolAssumption DEF Shards

\* Every offset of a scan names a shard.
LEMMA ScanReadsShard ==
    ASSUME NEW a \in Nat, NEW i \in Nat
    PROVE  ShardAt(a, i) \in Shards
BY PoolAssumption DEF ShardAt, Shards

\* Every action keeps the types, the bounds of the counters and of the delay.
LEMMA TypeStep ==
    PoolTypeOK /\ [PoolNext]_poolVars => PoolTypeOK'
<1> SUFFICES ASSUME PoolTypeOK, [PoolNext]_poolVars PROVE PoolTypeOK'
  OBVIOUS
<1> USE PoolAssumption DEF PoolTypeOK, WorkerPC, CallerPC, Connecting,
        Disconnecting, Searching, poolVars, slotVars, countVars, workerVars,
        callerVars
<1>1. CASE UNCHANGED poolVars
  BY <1>1
<1>2. CASE Backend
  BY <1>2 DEF Backend
<1>3. ASSUME NEW s \in Shards, Worker(s) PROVE PoolTypeOK'
  <2>1. CASE StartWorker(s)
    BY <2>1 DEF StartWorker, WorkerAt
  <2>2. CASE ReadSlot(s)
    BY <2>2 DEF ReadSlot, WorkerAt
  <2>3. CASE ProbeDue(s)
    BY <2>3 DEF ProbeDue, WorkerAt
  <2>4. CASE ProbeOk(s)
    BY <2>4 DEF ProbeOk, WorkerAt
  <2>5. CASE ProbeFailed(s)
    BY <2>5 DEF ProbeFailed, WorkerAt
  <2>6. CASE Disconnect(s)
    BY <2>6 DEF Disconnect, WorkerAt, Invalidates
  <2>7. CASE DisconnectGauge(s)
    BY <2>7 DEF DisconnectGauge, WorkerAt
  <2>8. CASE DisconnectAvailable(s)
    BY <2>8 DEF DisconnectAvailable, WorkerAt
  <2>9. CASE DisconnectNotify(s)
    BY <2>9 DEF DisconnectNotify, WorkerAt, Notify
  <2>10. CASE Connect(s)
    BY <2>10 DEF Connect, WorkerAt, NextGeneration
  <2>11. CASE ConnectGauge(s)
    BY <2>11 DEF ConnectGauge, WorkerAt
  <2>12. CASE ConnectAvailable(s)
    BY <2>12 DEF ConnectAvailable, WorkerAt
  <2>13. CASE ConnectNotify(s)
    BY <2>13 DEF ConnectNotify, WorkerAt, Notify
  <2>14. CASE ConnectFailed(s)
    BY <2>14 DEF ConnectFailed, WorkerAt
  <2>15. CASE BackoffElapsed(s)
    BY <2>15 DEF BackoffElapsed, WorkerAt, NextBackoff
  <2> QED BY <1>3, <2>1, <2>2, <2>3, <2>4, <2>5, <2>6, <2>7, <2>8, <2>9, <2>10, <2>11, <2>12, <2>13, <2>14, <2>15 DEF Worker
<1>4. ASSUME NEW r \in Callers, CallConnection(r) \/ Search(r) \/ Leave(r)
      PROVE  PoolTypeOK'
  <2>1. CASE CallConnection(r)
    BY <2>1 DEF CallConnection, CallerAt
  <2>2. CASE MarkSeen(r)
    BY <2>2 DEF MarkSeen, CallerAt
  <2>3. CASE ScanSlot(r)
    BY <2>3 DEF ScanSlot, CallerAt
  <2>4. CASE CloneSlot(r)
    BY <2>4 DEF CloneSlot, CallerAt
  <2>5. CASE Wake(r)
    BY <2>5 DEF Wake, CallerAt
  <2>6. CASE Leave(r)
    BY <2>6 DEF Leave
  <2> QED BY <1>4, <2>1, <2>2, <2>3, <2>4, <2>5, <2>6 DEF Search
<1> QED BY <1>1, <1>2, <1>3, <1>4 DEF PoolNext

\* A slot and its supervisor's position agree after every action.
LEMMA SlotStep ==
    PoolTypeOK /\ SlotDiscipline /\ [PoolNext]_poolVars => SlotDiscipline'
<1> SUFFICES ASSUME PoolTypeOK, SlotDiscipline, [PoolNext]_poolVars
             PROVE  SlotDiscipline'
  OBVIOUS
<1> USE PoolAssumption DEF PoolTypeOK, SlotDiscipline, WorkerPC, Connecting,
        Disconnecting
<1>1. CASE UNCHANGED poolVars
  BY <1>1 DEF poolVars, slotVars, workerVars
<1>2. CASE Backend
  BY <1>2 DEF Backend, slotVars, workerVars
<1>3. ASSUME NEW s \in Shards, Worker(s) PROVE SlotDiscipline'
  <2>1. CASE StartWorker(s)
    BY <2>1 DEF StartWorker, WorkerAt, slotVars
  <2>2. CASE ReadSlot(s)
    BY <2>2 DEF ReadSlot, WorkerAt, slotVars
  <2>3. CASE ProbeDue(s)
    BY <2>3 DEF ProbeDue, WorkerAt, slotVars
  <2>4. CASE ProbeOk(s)
    BY <2>4 DEF ProbeOk, WorkerAt, slotVars
  <2>5. CASE ProbeFailed(s)
    BY <2>5 DEF ProbeFailed, WorkerAt, slotVars
  <2>6. CASE Disconnect(s)
    <3>1. Invalidates(s)
      BY <2>6 DEF Disconnect, WorkerAt, Invalidates
    <3>2. /\ present' = [present EXCEPT ![s] = FALSE]
          /\ wpc' = [wpc EXCEPT ![s] = "d_gauge"]
      BY <2>6, <3>1 DEF Disconnect, WorkerAt
    <3> QED BY <2>6, <3>1, <3>2 DEF Disconnect
  <2>7. CASE DisconnectGauge(s)
    BY <2>7 DEF DisconnectGauge, WorkerAt, slotVars
  <2>8. CASE DisconnectAvailable(s)
    BY <2>8 DEF DisconnectAvailable, WorkerAt, slotVars
  <2>9. CASE DisconnectNotify(s)
    BY <2>9 DEF DisconnectNotify, WorkerAt, Notify, slotVars
  <2>10. CASE Connect(s)
    BY <2>10 DEF Connect, WorkerAt, NextGeneration, slotVars
  <2>11. CASE ConnectGauge(s)
    BY <2>11 DEF ConnectGauge, WorkerAt, slotVars
  <2>12. CASE ConnectAvailable(s)
    BY <2>12 DEF ConnectAvailable, WorkerAt, slotVars
  <2>13. CASE ConnectNotify(s)
    BY <2>13 DEF ConnectNotify, WorkerAt, Notify, slotVars
  <2>14. CASE ConnectFailed(s)
    BY <2>14 DEF ConnectFailed, WorkerAt, slotVars
  <2>15. CASE BackoffElapsed(s)
    BY <2>15 DEF BackoffElapsed, WorkerAt, NextBackoff, slotVars
  <2> QED BY <1>3, <2>1, <2>2, <2>3, <2>4, <2>5, <2>6, <2>7, <2>8, <2>9, <2>10, <2>11, <2>12, <2>13, <2>14, <2>15 DEF Worker
<1>4. ASSUME NEW r \in Callers, CallConnection(r) \/ Search(r) \/ Leave(r)
      PROVE  SlotDiscipline'
  <2>1. UNCHANGED <<slotVars, workerVars>>
    BY <1>4 DEF Search, CallConnection, MarkSeen, ScanSlot, CloneSlot, Wake, Leave
  <2> QED BY <2>1 DEF slotVars, workerVars
<1> QED BY <1>1, <1>2, <1>3, <1>4 DEF PoolNext

\* The counted shards are finitely many.
LEMMA CountedFinite == IsFiniteSet(Counted) /\ IsFiniteSet(Gauged)
<1>1. IsFiniteSet(Shards)
  BY PoolAssumption, FS_Interval DEF Shards
<1> QED BY <1>1, FS_Subset DEF Counted, Gauged

\* Counter and gauge follow the counted shards through every action: one shard
\* joins or leaves the set exactly when its supervisor reaches the counter.
LEMMA CountStep ==
    /\ PoolTypeOK /\ SlotDiscipline /\ AvailableExact
    /\ [PoolNext]_poolVars
    => AvailableExact'
<1> SUFFICES ASSUME PoolTypeOK, SlotDiscipline, AvailableExact,
                    [PoolNext]_poolVars
             PROVE  AvailableExact'
  OBVIOUS
<1> USE DEF PoolTypeOK, WorkerPC, SlotDiscipline, Connecting, Disconnecting
<1>0. /\ Cardinality(Counted) \in Nat
      /\ Cardinality(Gauged) \in Nat
  BY CountedFinite, FS_CardinalityType
<1>1. CASE UNCHANGED poolVars
  BY <1>1 DEF poolVars, slotVars, countVars, workerVars, AvailableExact, Counted,
              Gauged
<1>2. CASE Backend
  BY <1>2 DEF Backend, slotVars, countVars, workerVars, AvailableExact, Counted,
              Gauged
<1>3. ASSUME NEW s \in Shards, Worker(s) PROVE AvailableExact'
  <2>1. CASE StartWorker(s)
    <3>1. Counted' = Counted /\ Gauged' = Gauged
      BY <2>1 DEF StartWorker, WorkerAt, slotVars, Counted, Gauged
    <3> QED BY <2>1, <3>1 DEF StartWorker, countVars, AvailableExact
  <2>2. CASE ReadSlot(s)
    <3>1. Counted' = Counted /\ Gauged' = Gauged
      BY <2>2 DEF ReadSlot, WorkerAt, slotVars, Counted, Gauged
    <3> QED BY <2>2, <3>1 DEF ReadSlot, countVars, AvailableExact
  <2>3. CASE ProbeDue(s)
    <3>1. Counted' = Counted /\ Gauged' = Gauged
      BY <2>3 DEF ProbeDue, WorkerAt, slotVars, Counted, Gauged
    <3> QED BY <2>3, <3>1 DEF ProbeDue, countVars, AvailableExact
  <2>4. CASE ProbeOk(s)
    <3>1. Counted' = Counted /\ Gauged' = Gauged
      BY <2>4 DEF ProbeOk, WorkerAt, slotVars, Counted, Gauged
    <3> QED BY <2>4, <3>1 DEF ProbeOk, countVars, AvailableExact
  <2>5. CASE ProbeFailed(s)
    <3>1. Counted' = Counted /\ Gauged' = Gauged
      BY <2>5 DEF ProbeFailed, WorkerAt, slotVars, Counted, Gauged
    <3> QED BY <2>5, <3>1 DEF ProbeFailed, countVars, AvailableExact
  <2>6. CASE Disconnect(s)
    <3>0. Invalidates(s)
      BY <2>6 DEF Disconnect, WorkerAt, Invalidates
    <3>1. Counted' = Counted /\ Gauged' = Gauged
      BY <2>6, <3>0 DEF Disconnect, WorkerAt, slotVars, Counted, Gauged
    <3> QED BY <2>6, <3>1 DEF Disconnect, countVars, AvailableExact
  <2>7. CASE DisconnectGauge(s)
    <3>1. s \in Gauged /\ Gauged' = Gauged \ {s} /\ Counted' = Counted
      BY <2>7 DEF DisconnectGauge, WorkerAt, slotVars, Counted, Gauged
    <3>2. Cardinality(Gauged') = Cardinality(Gauged) - 1
      BY <3>1, CountedFinite, FS_RemoveElement
    <3> QED BY <2>7, <3>1, <3>2, <1>0 DEF DisconnectGauge, AvailableExact
  <2>8. CASE DisconnectAvailable(s)
    <3>1. s \in Counted /\ Counted' = Counted \ {s} /\ Gauged' = Gauged
      BY <2>8 DEF DisconnectAvailable, WorkerAt, slotVars, Counted, Gauged
    <3>2. Cardinality(Counted') = Cardinality(Counted) - 1
      BY <3>1, CountedFinite, FS_RemoveElement
    <3> QED BY <2>8, <3>1, <3>2, <1>0 DEF DisconnectAvailable, AvailableExact
  <2>9. CASE DisconnectNotify(s)
    <3>1. Counted' = Counted /\ Gauged' = Gauged
      BY <2>9 DEF DisconnectNotify, WorkerAt, Notify, slotVars, Counted, Gauged
    <3> QED BY <2>9, <3>1 DEF DisconnectNotify, countVars, AvailableExact
  <2>10. CASE Connect(s)
    <3>1. Counted' = Counted /\ Gauged' = Gauged
      BY <2>10 DEF Connect, WorkerAt, NextGeneration, slotVars, Counted, Gauged
    <3> QED BY <2>10, <3>1 DEF Connect, countVars, AvailableExact
  <2>11. CASE ConnectGauge(s)
    <3>1. s \notin Gauged /\ Gauged' = Gauged \cup {s} /\ Counted' = Counted
      BY <2>11 DEF ConnectGauge, WorkerAt, slotVars, Counted, Gauged
    <3>2. Cardinality(Gauged') = Cardinality(Gauged) + 1
      BY <3>1, CountedFinite, FS_AddElement
    <3> QED BY <2>11, <3>1, <3>2, <1>0 DEF ConnectGauge, AvailableExact
  <2>12. CASE ConnectAvailable(s)
    <3>1. s \notin Counted /\ Counted' = Counted \cup {s} /\ Gauged' = Gauged
      BY <2>12 DEF ConnectAvailable, WorkerAt, slotVars, Counted, Gauged
    <3>2. Cardinality(Counted') = Cardinality(Counted) + 1
      BY <3>1, CountedFinite, FS_AddElement
    <3> QED BY <2>12, <3>1, <3>2, <1>0 DEF ConnectAvailable, AvailableExact
  <2>13. CASE ConnectNotify(s)
    <3>1. Counted' = Counted /\ Gauged' = Gauged
      BY <2>13 DEF ConnectNotify, WorkerAt, Notify, slotVars, Counted, Gauged
    <3> QED BY <2>13, <3>1 DEF ConnectNotify, countVars, AvailableExact
  <2>14. CASE ConnectFailed(s)
    <3>1. Counted' = Counted /\ Gauged' = Gauged
      BY <2>14 DEF ConnectFailed, WorkerAt, slotVars, Counted, Gauged
    <3> QED BY <2>14, <3>1 DEF ConnectFailed, countVars, AvailableExact
  <2>15. CASE BackoffElapsed(s)
    <3>1. Counted' = Counted /\ Gauged' = Gauged
      BY <2>15 DEF BackoffElapsed, WorkerAt, NextBackoff, slotVars, Counted, Gauged
    <3> QED BY <2>15, <3>1 DEF BackoffElapsed, countVars, AvailableExact
  <2> QED BY <1>3, <2>1, <2>2, <2>3, <2>4, <2>5, <2>6, <2>7, <2>8, <2>9, <2>10, <2>11, <2>12, <2>13, <2>14, <2>15 DEF Worker
<1>4. ASSUME NEW r \in Callers, CallConnection(r) \/ Search(r) \/ Leave(r)
      PROVE  AvailableExact'
  <2>1. UNCHANGED <<slotVars, countVars, workerVars>>
    BY <1>4 DEF Search, CallConnection, MarkSeen, ScanSlot, CloneSlot, Wake, Leave
  <2> QED BY <2>1 DEF slotVars, countVars, workerVars, AvailableExact, Counted,
                      Gauged
<1> QED BY <1>1, <1>2, <1>3, <1>4 DEF PoolNext

\* A step of a supervisor that does not move the revision: what an up-to-date
\* caller knows of the slots stays true.
LEMMA QuietStep ==
    ASSUME PoolTypeOK, ScanSound, UNCHANGED callerVars,
           \A t \in Shards : present'[t] /\ wpc'[t] \notin Connecting =>
                             present[t] /\ wpc[t] \notin Connecting,
           \A t \in Shards : present[t] \/ wpc[t] \in Disconnecting =>
                             present'[t] \/ wpc'[t] \in Disconnecting,
           \A t \in Shards : wpc[t] \in Disconnecting => wpc'[t] \in Disconnecting
    PROVE  ScanSound'
<1> SUFFICES ASSUME NEW r \in Callers, seen[r]
             PROVE  /\ cpc[r] = "scan" =>
                          \A i \in 0 .. offset[r] - 1 :
                              LET s == ShardAt(start[r], i)
                              IN  present'[s] => wpc'[s] \in Connecting
                    /\ cpc[r] = "clone" =>
                          LET s == ShardAt(start[r], offset[r])
                          IN  present'[s] \/ wpc'[s] \in Disconnecting
                    /\ cpc[r] = "waiting" =>
                          \/ \A s \in Shards : present'[s] => wpc'[s] \in Connecting
                          \/ \E t \in Shards : wpc'[t] \in Disconnecting
  BY DEF ScanSound, callerVars
<1>1. /\ start[r] \in Nat
      /\ offset[r] \in Nat
  BY PoolAssumption DEF PoolTypeOK
<1>2. \A i \in Nat : ShardAt(start[r], i) \in Shards
  BY <1>1, ScanReadsShard
<1>3. ASSUME cpc[r] = "scan", NEW i \in 0 .. offset[r] - 1
      PROVE  present'[ShardAt(start[r], i)] =>
                 wpc'[ShardAt(start[r], i)] \in Connecting
  BY <1>1, <1>2, <1>3 DEF ScanSound
<1>4. ASSUME cpc[r] = "clone"
      PROVE  \/ present'[ShardAt(start[r], offset[r])]
             \/ wpc'[ShardAt(start[r], offset[r])] \in Disconnecting
  BY <1>1, <1>2, <1>4 DEF ScanSound
<1>5. ASSUME cpc[r] = "waiting"
      PROVE  \/ \A s \in Shards : present'[s] => wpc'[s] \in Connecting
             \/ \E t \in Shards : wpc'[t] \in Disconnecting
  BY <1>5 DEF ScanSound
<1> QED BY <1>3, <1>4, <1>5

\* What a caller knows of the slots it read survives every action: a slot is
\* filled on the way to a notification, and emptied on the way to one.
LEMMA ScanStep ==
    PoolTypeOK /\ SlotDiscipline /\ ScanSound /\ [PoolNext]_poolVars => ScanSound'
<1> SUFFICES ASSUME PoolTypeOK, SlotDiscipline, ScanSound, [PoolNext]_poolVars
             PROVE  ScanSound'
  OBVIOUS
<1>1. CASE UNCHANGED poolVars
  BY <1>1 DEF poolVars, slotVars, workerVars, callerVars, ScanSound
<1>2. CASE Backend
  BY <1>2 DEF Backend, slotVars, workerVars, callerVars, ScanSound
<1>3. ASSUME NEW s \in Shards, Worker(s) PROVE ScanSound'
  <2>1. CASE StartWorker(s)
    BY <2>1, QuietStep DEF StartWorker, WorkerAt, slotVars, callerVars, PoolTypeOK,
       Connecting, Disconnecting
  <2>2. CASE ReadSlot(s)
    BY <2>2, QuietStep DEF ReadSlot, WorkerAt, slotVars, callerVars, PoolTypeOK,
       Connecting, Disconnecting
  <2>3. CASE ProbeDue(s)
    BY <2>3, QuietStep DEF ProbeDue, WorkerAt, slotVars, callerVars, PoolTypeOK,
       Connecting, Disconnecting
  <2>4. CASE ProbeOk(s)
    BY <2>4, QuietStep DEF ProbeOk, WorkerAt, slotVars, callerVars, PoolTypeOK,
       Connecting, Disconnecting
  <2>5. CASE ProbeFailed(s)
    BY <2>5, QuietStep DEF ProbeFailed, WorkerAt, slotVars, callerVars, PoolTypeOK,
       Connecting, Disconnecting
  <2>6. CASE Disconnect(s)
    BY <2>6, QuietStep DEF Disconnect, WorkerAt, Invalidates, slotVars, callerVars, PoolTypeOK,
       Connecting, Disconnecting
  <2>7. CASE DisconnectGauge(s)
    BY <2>7, QuietStep DEF DisconnectGauge, WorkerAt, slotVars, callerVars, PoolTypeOK,
       Connecting, Disconnecting
  <2>8. CASE DisconnectAvailable(s)
    BY <2>8, QuietStep DEF DisconnectAvailable, WorkerAt, slotVars, callerVars, PoolTypeOK,
       Connecting, Disconnecting
  <2>9. CASE DisconnectNotify(s)
    BY <2>9 DEF DisconnectNotify, Notify, ScanSound
  <2>10. CASE Connect(s)
    BY <2>10, QuietStep DEF Connect, WorkerAt, slotVars, callerVars, PoolTypeOK,
       Connecting, Disconnecting
  <2>11. CASE ConnectGauge(s)
    BY <2>11, QuietStep DEF ConnectGauge, WorkerAt, slotVars, callerVars, PoolTypeOK,
       Connecting, Disconnecting
  <2>12. CASE ConnectAvailable(s)
    BY <2>12, QuietStep DEF ConnectAvailable, WorkerAt, slotVars, callerVars, PoolTypeOK,
       Connecting, Disconnecting
  <2>13. CASE ConnectNotify(s)
    BY <2>13 DEF ConnectNotify, Notify, ScanSound
  <2>14. CASE ConnectFailed(s)
    BY <2>14, QuietStep DEF ConnectFailed, WorkerAt, slotVars, callerVars, PoolTypeOK,
       Connecting, Disconnecting
  <2>15. CASE BackoffElapsed(s)
    BY <2>15, QuietStep DEF BackoffElapsed, WorkerAt, slotVars, callerVars, PoolTypeOK,
       Connecting, Disconnecting
  <2> QED BY <1>3, <2>1, <2>2, <2>3, <2>4, <2>5, <2>6, <2>7, <2>8, <2>9, <2>10, <2>11, <2>12, <2>13, <2>14, <2>15 DEF Worker
<1>4. ASSUME NEW r \in Callers, CallConnection(r) \/ Search(r) \/ Leave(r)
      PROVE  ScanSound'
  <2>0. /\ UNCHANGED <<slotVars, workerVars>>
        /\ \A q \in Callers \ {r} : /\ cpc'[q] = cpc[q]
                                    /\ seen'[q] = seen[q]
                                    /\ start'[q] = start[q]
                                    /\ offset'[q] = offset[q]
    BY <1>4 DEF Search, CallConnection, MarkSeen, ScanSlot, CloneSlot, Wake, Leave,
                CallerAt, PoolTypeOK
  <2> DEFINE Sound(q) ==
        seen'[q] =>
        /\ cpc'[q] = "scan" =>
              \A i \in 0 .. offset'[q] - 1 :
                  LET s == ShardAt(start'[q], i)
                  IN  present[s] => wpc[s] \in Connecting
        /\ cpc'[q] = "clone" =>
              LET s == ShardAt(start'[q], offset'[q])
              IN  present[s] \/ wpc[s] \in Disconnecting
        /\ cpc'[q] = "waiting" =>
              \/ \A s \in Shards : present[s] => wpc[s] \in Connecting
              \/ \E t \in Shards : wpc[t] \in Disconnecting
  <2>1. \A q \in Callers \ {r} : Sound(q)
    BY <2>0 DEF ScanSound
  <2>2. SUFFICES Sound(r)
    BY <2>0, <2>1 DEF ScanSound, slotVars, workerVars
  <2>3. /\ start[r] \in Nat
        /\ offset[r] \in 0 .. NumShards - 1
    BY PoolAssumption DEF PoolTypeOK
  <2>4. CASE CallConnection(r)
    BY <2>4 DEF CallConnection, CallerAt, PoolTypeOK
  <2>5. CASE MarkSeen(r)
    BY <2>5, PoolAssumption DEF MarkSeen, CallerAt, PoolTypeOK
  <2>6. CASE ScanSlot(r)
    <3> DEFINE at == ShardAt(start[r], offset[r])
    <3>1. /\ cpc[r] = "scan"
          /\ cpc'[r] = IF present[at] THEN "clone"
                       ELSE IF offset[r] + 1 = NumShards THEN "waiting" ELSE "scan"
          /\ offset'[r] = IF present[at] \/ offset[r] + 1 = NumShards
                            THEN offset[r] ELSE offset[r] + 1
          /\ seen'[r] = seen[r] /\ start'[r] = start[r]
      BY <2>6 DEF ScanSlot, CallerAt, PoolTypeOK
    <3> SUFFICES ASSUME seen[r] PROVE Sound(r)
      BY <3>1
    <3>2. \A i \in 0 .. offset[r] - 1 :
             LET s == ShardAt(start[r], i)
             IN  present[s] => wpc[s] \in Connecting
      BY <3>1 DEF ScanSound
    <3>3. CASE present[at]
      BY <3>1, <3>3
    <3>4. CASE ~present[at]
      <4>1. \A i \in 0 .. offset[r] :
               LET s == ShardAt(start[r], i)
               IN  present[s] => wpc[s] \in Connecting
        <5> SUFFICES ASSUME NEW i \in 0 .. offset[r]
                     PROVE  present[ShardAt(start[r], i)] =>
                                wpc[ShardAt(start[r], i)] \in Connecting
          OBVIOUS
        <5>1. CASE i = offset[r]
          BY <5>1, <3>4
        <5>2. CASE i # offset[r]
          <6>1. i \in 0 .. offset[r] - 1
            BY <5>2, <2>3
          <6> QED BY <6>1, <3>2
        <5> QED BY <5>1, <5>2
      <4>2. CASE offset[r] + 1 = NumShards
        <5>1. \A t \in Shards : present[t] => wpc[t] \in Connecting
          <6> SUFFICES ASSUME NEW t \in Shards
                       PROVE  present[t] => wpc[t] \in Connecting
            OBVIOUS
          <6>1. PICK i \in 0 .. NumShards - 1 : ShardAt(start[r], i) = t
            BY <2>3, ScanCoversShards
          <6>2. i \in 0 .. offset[r]
            BY <4>2, <2>3, PoolAssumption
          <6> QED BY <6>1, <6>2, <4>1
        <5> QED BY <3>1, <3>4, <4>2, <5>1
      <4>3. CASE offset[r] + 1 # NumShards
        <5>1. offset'[r] = offset[r] + 1 /\ cpc'[r] = "scan"
          BY <3>1, <3>4, <4>3
        <5>2. offset'[r] - 1 = offset[r]
          BY <5>1, <2>3
        <5> QED BY <3>1, <5>1, <5>2, <4>1
      <4> QED BY <4>2, <4>3
    <3> QED BY <3>3, <3>4
  <2>7. CASE CloneSlot(r)
    <3> DEFINE at == ShardAt(start[r], offset[r])
    <3>1. /\ cpc[r] = "clone"
          /\ cpc'[r] = IF present[at] THEN "got" ELSE "waiting"
          /\ seen'[r] = seen[r]
      BY <2>7 DEF CloneSlot, CallerAt, PoolTypeOK
    <3>2. at \in Shards
      BY <2>3, ScanReadsShard
    <3>3. seen[r] => present[at] \/ wpc[at] \in Disconnecting
      BY <3>1 DEF ScanSound
    <3> QED BY <3>1, <3>2, <3>3
  <2>8. CASE Wake(r)
    BY <2>8 DEF Wake, CallerAt, PoolTypeOK
  <2>9. CASE Leave(r)
    BY <2>9 DEF Leave, PoolTypeOK
  <2> QED BY <1>4, <2>4, <2>5, <2>6, <2>7, <2>8, <2>9 DEF Search
<1> QED BY <1>1, <1>2, <1>3, <1>4 DEF PoolNext

-----------------------------------------------------------------------------
(* The theorems.                                                           *)

\* The inductive invariant of the pool.
PoolInv == PoolTypeOK /\ SlotDiscipline /\ AvailableExact /\ ScanSound

\* A pool starts with empty slots, nothing counted and nobody asleep.
LEMMA PoolInvInit == PoolInit => PoolInv
<1> SUFFICES ASSUME PoolInit PROVE PoolInv
  OBVIOUS
<1> USE PoolAssumption DEF PoolInit
<1>1. PoolTypeOK
  BY DEF PoolTypeOK, WorkerPC, CallerPC
<1>2. SlotDiscipline
  BY DEF SlotDiscipline, Connecting, Disconnecting
<1>3. AvailableExact
  <2>1. Counted = {} /\ Gauged = {}
    BY DEF Counted, Gauged
  <2> QED BY <2>1, FS_EmptySet DEF AvailableExact
<1>4. ScanSound
  BY DEF ScanSound
<1> QED BY <1>1, <1>2, <1>3, <1>4 DEF PoolInv

\* In every reachable state of the pool, for every number of shards and callers.
THEOREM PoolInvariant == PoolSpec => []PoolInv
<1>1. PoolInv /\ [PoolNext]_poolVars => PoolInv'
  BY TypeStep, SlotStep, CountStep, ScanStep DEF PoolInv
<1> QED BY PoolInvInit, <1>1, PTL DEF PoolSpec

\* The variables keep their types: the failed-probe count stays below
\* MAX_FAILED_PROBES, the retry delay between its bounds, generations wrap.
THEOREM PoolTypeCorrect == PoolSpec => []PoolTypeOK
<1>1. PoolInv => PoolTypeOK
  BY DEF PoolInv
<1> QED BY PoolInvariant, <1>1, PTL

\* available_shards and the gauge count exactly the shards whose supervisor has
\* passed them in connected() and not yet in disconnected(): no interleaving of
\* the supervisors makes /readyz's counter drift or underflow.
THEOREM AvailableIsExact == PoolSpec => []AvailableExact
<1>1. PoolInv => AvailableExact
  BY DEF PoolInv
<1> QED BY PoolInvariant, <1>1, PTL

\* The counter is between zero and the number of shards, so fetch_sub never
\* underflows.
THEOREM AvailableBounded == PoolSpec => [](available \in 0 .. NumShards)
<1>1. PoolInv => available \in 0 .. NumShards
  <2> SUFFICES ASSUME PoolInv PROVE available \in 0 .. NumShards
    OBVIOUS
  <2>1. IsFiniteSet(Shards) /\ Cardinality(Shards) = NumShards
    BY PoolAssumption, FS_Interval DEF Shards
  <2>2. Counted \subseteq Shards
    BY DEF Counted
  <2>3. Cardinality(Counted) \in Nat /\ Cardinality(Counted) <= NumShards
    BY <2>1, <2>2, FS_Subset, FS_CardinalityType
  <2> QED BY <2>3, PoolAssumption DEF PoolInv, AvailableExact
<1> QED BY PoolInvariant, <1>1, PTL

\* A supervisor that waits for or runs a probe copied the slot as it still is.
THEOREM ProbesHoldCurrentSlot == PoolSpec => []ProbeHoldsCurrentSlot
<1>1. PoolInv => ProbeHoldsCurrentSlot
  BY DEF PoolInv, SlotDiscipline, ProbeHoldsCurrentSlot
<1> QED BY PoolInvariant, <1>1, PTL

\* connection() never sleeps while a shard it could use has been announced.
THEOREM WakeupsAreNotLost == PoolSpec => []NoLostWakeup
<1>1. PoolInv => NoLostWakeup
  BY DEF PoolInv, ScanSound, NoLostWakeup
<1> QED BY PoolInvariant, <1>1, PTL

\* A shard is dropped only after MAX_FAILED_PROBES failed probes in a row on the
\* connection that is dropped.
THEOREM LossIsJustified == PoolSpec => LossNeedsFailuresInARow
<1> DEFINE Justified == \A s \in Shards : present[s] /\ ~present'[s] =>
                           probes'[s] >= MaxFailedProbes
<1>1. PoolInv /\ [PoolNext]_poolVars => [Justified]_poolVars
  <2> SUFFICES ASSUME PoolInv, PoolNext PROVE Justified
    OBVIOUS
  <2> USE DEF PoolInv, PoolTypeOK
  <2>1. CASE Backend
    BY <2>1 DEF Backend, slotVars
  <2>2. ASSUME NEW s \in Shards, Worker(s) PROVE Justified
    <3>1. CASE Disconnect(s)
      <4>1. /\ \A t \in Shards \ {s} : present'[t] = present[t]
            /\ probes'[s] = probes[s] + 1
            /\ failed_probes[s] + 1 >= MaxFailedProbes
        BY <3>1 DEF Disconnect
      <4>2. failed_probes[s] <= probes[s]
        BY DEF SlotDiscipline
      <4>3. probes'[s] >= MaxFailedProbes
        BY <4>1, <4>2, PoolAssumption
      <4> QED BY <4>1, <4>3
    <3>2. CASE ~Disconnect(s)
      <4>1. \A t \in Shards : present[t] => present'[t]
        BY <2>2, <3>2 DEF Worker, StartWorker, ReadSlot, ProbeDue, ProbeOk,
           ProbeFailed, DisconnectGauge, DisconnectAvailable, DisconnectNotify,
           Connect, ConnectGauge, ConnectAvailable, ConnectNotify,
           ConnectFailed, BackoffElapsed, slotVars
      <4> QED BY <4>1
    <3> QED BY <3>1, <3>2
  <2>3. ASSUME NEW r \in Callers, CallConnection(r) \/ Search(r) \/ Leave(r)
        PROVE  Justified
    BY <2>3 DEF Search, CallConnection, MarkSeen, ScanSlot, CloneSlot, Wake, Leave,
                slotVars
  <2> QED BY <2>1, <2>2, <2>3 DEF PoolNext
<1>2. PoolSpec => [][Justified]_poolVars
  BY PoolInvariant, <1>1, PTL DEF PoolSpec
<1> QED BY <1>2 DEF LossNeedsFailuresInARow

=============================================================================
