-------------------------- MODULE RedisTargetProofs --------------------------
(***************************************************************************)
(* Proofs about OperationGate, for every set of operations, every limit    *)
(* and all timeouts; and about RedisTarget: a target implements the pool   *)
(* and the gate it is made of, so what is proved about each of them holds  *)
(* of every target.                                                        *)
(***************************************************************************)
EXTENDS RedisTarget, ConnectionPoolProofs

-----------------------------------------------------------------------------
(* The gate.                                                               *)

\* What the accounting rests on: an operation has no answer before its inner
\* future ends, no permit before it is given one, and one from then on.
StagesAgree ==
    \A r \in Requests :
        /\ stage[r] \notin {"settling", "done"} => answer[r] = "none"
        /\ stage[r] \in {"idle", "queued"} => since[r] = -1
        /\ stage[r] \in {"granted", "connecting", "running"} => since[r] >= 0

GateInv ==
    /\ GateTypeOK
    /\ StagesAgree
    /\ PermitsConserved
    /\ OperationsAccounted
    /\ SaturationIs429

\* The counted sets are finite, whatever the stages.
LEMMA CountedSets ==
    /\ IsFiniteSet(Queued) /\ IsFiniteSet(Holders)
    /\ IsFiniteSet(Begun) /\ IsFiniteSet(Active)
    /\ \A l : IsFiniteSet(Settled(l))
    /\ Cardinality(Holders) \in Nat /\ Cardinality(Begun) \in Nat
    /\ Cardinality(Active) \in Nat
    /\ \A l : Cardinality(Settled(l)) \in Nat
<1>1. /\ Queued \subseteq Requests /\ Holders \subseteq Requests
      /\ Begun \subseteq Requests /\ Active \subseteq Requests
      /\ \A l : Settled(l) \subseteq Requests
  BY DEF Queued, Holders, Begun, Active, Settled
<1>2. /\ IsFiniteSet(Queued) /\ IsFiniteSet(Holders)
      /\ IsFiniteSet(Begun) /\ IsFiniteSet(Active)
      /\ \A l : IsFiniteSet(Settled(l))
  BY <1>1, FS_Subset, GateAssumption
<1> QED BY <1>2, FS_CardinalityType

\* The five ways an inner future ends are instances of End.
LEMMA EndCases ==
    ASSUME NEW r \in Requests,
           AcquireElapsed(r) \/ Finish(r) \/ RequestElapsed(r) \/ Cancel(r)
    PROVE  \E a \in Answers \ {"none"} : End(r, a)
BY DEF AcquireElapsed, Finish, RequestElapsed, Cancel, Answers

\* Every action keeps the types.
LEMMA GateTypeStep ==
    GateTypeOK /\ [GateNext]_gateVars => GateTypeOK'
<1> SUFFICES ASSUME GateTypeOK, [GateNext]_gateVars PROVE GateTypeOK'
  OBVIOUS
<1> USE DEF GateTypeOK
<1>0. MaxAge \in Nat
  BY GateAssumption DEF MaxAge
<1>1. CASE UNCHANGED gateVars
  BY <1>1 DEF gateVars
<1>2. ASSUME NEW r \in Requests, Begin(r) PROVE GateTypeOK'
  <2>1. Cardinality(Begun) \in Nat
    BY CountedSets
  <2> QED BY <1>0, <1>2, <2>1 DEF Begin, Stages
<1>3. ASSUME NEW r \in Requests, NEW a \in Answers, End(r, a) PROVE GateTypeOK'
  <2>1. /\ permits' \in Nat
        /\ stage' \in [Requests -> Stages]
        /\ since' \in [Requests -> -1 .. MaxAge]
    BY <1>0, <1>3 DEF End, Stages, Queued, IsNext
  <2> QED BY <1>3, <2>1 DEF End
<1>4. ASSUME NEW r \in Requests, EnterConnection(r) \/ Connected(r) PROVE GateTypeOK'
  BY <1>4 DEF EnterConnection, Connected, Stages
<1>5. ASSUME NEW r \in Requests, Settle(r) PROVE GateTypeOK'
  <2>1. Label(answer[r]) \in Labels
    BY DEF Label, Labels
  <2> QED BY <1>5, <2>1 DEF Settle, Stages
<1>6. CASE Tick
  <2>1. \A r \in Requests : Older(r) \in 0 .. MaxAge
    BY <1>0 DEF Older
  <2> QED BY <1>6, <2>1 DEF Tick
<1> QED BY <1>1, <1>2, <1>3, <1>4, <1>5, <1>6, EndCases DEF GateNext

\* Permits: the semaphore's free permits and the operations that hold one always
\* add up, and a free permit means an empty queue.
LEMMA PermitStep ==
    GateTypeOK /\ PermitsConserved /\ [GateNext]_gateVars => PermitsConserved'
<1> SUFFICES ASSUME GateTypeOK, PermitsConserved, [GateNext]_gateVars
             PROVE  PermitsConserved'
  OBVIOUS
<1> USE DEF GateTypeOK
<1>0. /\ IsFiniteSet(Holders)
      /\ Cardinality(Holders) \in Nat
      /\ OperationLimit \in Nat
      /\ permits + Cardinality(Holders) = OperationLimit
      /\ permits > 0 => Queued = {}
  BY CountedSets, GateAssumption DEF PermitsConserved
<1>1. CASE UNCHANGED gateVars
  BY <1>1 DEF gateVars, PermitsConserved, Holders, Queued
<1>2. ASSUME NEW r \in Requests, Begin(r) PROVE PermitsConserved'
  <2>1. CASE permits > 0
    <3>1. Holders' = Holders \cup {r} /\ r \notin Holders /\ Queued' = Queued
      BY <1>2, <2>1 DEF Begin, Holders, Queued
    <3>2. Cardinality(Holders') = Cardinality(Holders) + 1
      BY <1>0, <3>1, FS_AddElement
    <3> QED BY <1>0, <1>2, <2>1, <3>1, <3>2 DEF Begin, PermitsConserved
  <2>2. CASE ~(permits > 0)
    <3>1. Holders' = Holders
      BY <1>2, <2>2 DEF Begin, Holders
    <3> QED BY <1>0, <1>2, <2>2, <3>1 DEF Begin, PermitsConserved
  <2> QED BY <2>1, <2>2
<1>3. ASSUME NEW r \in Requests, NEW a, End(r, a) PROVE PermitsConserved'
  <2>1. CASE /\ r \in Holders /\ Queued = {}
             /\ permits' = permits + 1
             /\ stage' = [stage EXCEPT ![r] = "settling"]
    <3>1. Holders' = Holders \ {r} /\ Queued' = {}
      BY <2>1 DEF Holders, Queued
    <3>2. Cardinality(Holders') = Cardinality(Holders) - 1
      BY <1>0, <2>1, <3>1, FS_RemoveElement
    <3> QED BY <1>0, <2>1, <3>1, <3>2 DEF PermitsConserved
  <2>2. ASSUME r \in Holders,
               NEW q \in Queued, IsNext(q, r),
               stage' = [stage EXCEPT ![r] = "settling", ![q] = "granted"],
               UNCHANGED permits
        PROVE  PermitsConserved'
    <3>1. q \notin Holders /\ q # r
      BY <2>2 DEF IsNext, Holders, Queued
    <3>2. Holders' = (Holders \cup {q}) \ {r}
      BY <2>2, <3>1 DEF Holders, Queued
    <3>3. /\ IsFiniteSet(Holders \cup {q})
          /\ Cardinality(Holders \cup {q}) = Cardinality(Holders) + 1
      BY <1>0, <3>1, FS_AddElement
    <3>4. Cardinality((Holders \cup {q}) \ {r}) = Cardinality(Holders \cup {q}) - 1
      BY <2>2, <3>3, FS_RemoveElement
    <3>5. Cardinality(Holders') = Cardinality(Holders)
      BY <1>0, <3>2, <3>3, <3>4
    <3>6. permits = 0
      BY <1>0, <2>2
    <3> QED BY <1>0, <2>2, <3>5, <3>6 DEF PermitsConserved
  <2>3. CASE /\ r \in Queued
             /\ stage' = [stage EXCEPT ![r] = "settling"]
             /\ UNCHANGED permits
    <3>1. Holders' = Holders /\ Queued' \subseteq Queued
      BY <2>3 DEF Holders, Queued
    <3> QED BY <1>0, <2>3, <3>1 DEF PermitsConserved
  <2> QED BY <1>3, <2>1, <2>2, <2>3 DEF End
<1>4. ASSUME NEW r \in Requests, EnterConnection(r) \/ Connected(r) \/ Settle(r)
      PROVE  PermitsConserved'
  <2>1. Holders' = Holders /\ Queued' = Queued
    BY <1>4 DEF EnterConnection, Connected, Settle, Holders, Queued
  <2> QED BY <1>0, <1>4, <2>1 DEF EnterConnection, Connected, Settle, PermitsConserved
<1>5. CASE Tick
  BY <1>0, <1>5 DEF Tick, PermitsConserved, Holders, Queued
<1> QED BY <1>1, <1>2, <1>3, <1>4, <1>5, EndCases DEF GateNext

\* The guard: the gauge counts the operations in progress and the counters the
\* settled ones, by status.
LEMMA AccountStep ==
    GateTypeOK /\ OperationsAccounted /\ [GateNext]_gateVars => OperationsAccounted'
<1> SUFFICES ASSUME GateTypeOK, OperationsAccounted, [GateNext]_gateVars
             PROVE  OperationsAccounted'
  OBVIOUS
<1> USE DEF GateTypeOK
<1>0. /\ inflight = Cardinality(Active)
      /\ \A l \in Labels : total[l] = Cardinality(Settled(l))
  BY DEF OperationsAccounted
<1>1. CASE UNCHANGED gateVars
  BY <1>1 DEF gateVars, OperationsAccounted, Active, Settled
<1>2. ASSUME NEW r \in Requests, Begin(r) PROVE OperationsAccounted'
  <2>1. /\ r \notin Active
        /\ Active' = Active \cup {r}
        /\ \A l \in Labels : Settled(l)' = Settled(l)
    BY <1>2 DEF Begin, Active, Settled
  <2>2. Cardinality(Active') = Cardinality(Active) + 1
    BY <2>1, CountedSets, FS_AddElement
  <2> QED BY <1>0, <1>2, <2>1, <2>2 DEF Begin, OperationsAccounted
<1>3. ASSUME NEW r \in Requests, NEW a, End(r, a) PROVE OperationsAccounted'
  <2>1. /\ r \in Active
        /\ stage[r] # "done" /\ stage'[r] = "settling"
        /\ \A p \in Requests \ {r} : answer'[p] = answer[p]
    BY <1>3 DEF End, Active, Holders, Queued, IsNext
  <2>2. \A p \in Requests \ {r} :
            /\ stage'[p] = "done" <=> stage[p] = "done"
            /\ stage'[p] = "idle" <=> stage[p] = "idle"
    BY <1>3 DEF End, Queued
  <2>3. Active' = Active /\ \A l \in Labels : Settled(l)' = Settled(l)
    BY <2>1, <2>2 DEF Active, Settled
  <2> QED BY <1>0, <1>3, <2>3 DEF End, OperationsAccounted
<1>4. ASSUME NEW r \in Requests, EnterConnection(r) \/ Connected(r)
      PROVE  OperationsAccounted'
  <2>1. Active' = Active /\ \A l \in Labels : Settled(l)' = Settled(l)
    BY <1>4 DEF EnterConnection, Connected, Active, Settled
  <2> QED BY <1>0, <1>4, <2>1 DEF EnterConnection, Connected, OperationsAccounted
<1>5. ASSUME NEW r \in Requests, Settle(r) PROVE OperationsAccounted'
  <2> DEFINE l0 == Label(answer[r])
  <2>1. l0 \in Labels
    BY DEF Label, Labels
  <2>2. r \in Active /\ Active' = Active \ {r}
    BY <1>5 DEF Settle, Active
  <2>3. Cardinality(Active') = Cardinality(Active) - 1
    BY <2>2, CountedSets, FS_RemoveElement
  <2>4. r \notin Settled(l0) /\ Settled(l0)' = Settled(l0) \cup {r}
    BY <1>5 DEF Settle, Settled
  <2>5. Cardinality(Settled(l0)') = Cardinality(Settled(l0)) + 1
    BY <2>4, CountedSets, FS_AddElement
  <2>6. \A l \in Labels \ {l0} : Settled(l)' = Settled(l)
    BY <1>5 DEF Settle, Settled
  <2>7. \A l \in Labels : total'[l] = Cardinality(Settled(l)')
    BY <1>0, <1>5, <2>1, <2>5, <2>6 DEF Settle
  <2> QED BY <1>0, <1>5, <2>3, <2>7 DEF Settle, OperationsAccounted
<1>6. CASE Tick
  BY <1>0, <1>6 DEF Tick, OperationsAccounted, Active, Settled
<1> QED BY <1>1, <1>2, <1>3, <1>4, <1>5, <1>6, EndCases DEF GateNext

\* The stages agree with answers and permits, and the statuses tell saturation
\* from a stuck backend.
LEMMA StatusStep ==
    GateTypeOK /\ StagesAgree /\ SaturationIs429 /\ [GateNext]_gateVars
        => StagesAgree' /\ SaturationIs429'
<1> SUFFICES ASSUME GateTypeOK, StagesAgree, SaturationIs429, [GateNext]_gateVars
             PROVE  StagesAgree' /\ SaturationIs429'
  OBVIOUS
<1> USE DEF GateTypeOK, StagesAgree, SaturationIs429
<1>0. MaxAge \in Nat
  BY GateAssumption DEF MaxAge
<1>1. CASE UNCHANGED gateVars
  BY <1>1 DEF gateVars
<1>2. ASSUME NEW r \in Requests, Begin(r) PROVE StagesAgree' /\ SaturationIs429'
  BY <1>0, <1>2 DEF Begin
<1>3. ASSUME NEW r \in Requests, NEW a \in Answers, End(r, a),
             a = "saturated" => stage[r] = "queued" /\ age[r] >= AcquireTimeout,
             a = "timeout" => r \in Holders
      PROVE  StagesAgree' /\ SaturationIs429'
  <2>1. /\ answer' = [answer EXCEPT ![r] = a]
        /\ UNCHANGED age
        /\ r \in Queued \cup Holders
        /\ stage'[r] = "settling" /\ since'[r] = since[r]
    BY <1>3 DEF End, IsNext, Queued, Holders
  <2>2. \A p \in Requests \ {r} :
            \/ stage'[p] = stage[p] /\ since'[p] = since[p]
            \/ stage[p] = "queued" /\ stage'[p] = "granted" /\ since'[p] >= 0
    BY <1>0, <1>3 DEF End, Queued, IsNext
  <2> QED BY <1>3, <2>1, <2>2 DEF Queued, Holders
<1>4. ASSUME NEW r \in Requests, EnterConnection(r) \/ Connected(r) \/ Settle(r)
      PROVE  StagesAgree' /\ SaturationIs429'
  BY <1>4 DEF EnterConnection, Connected, Settle
<1>5. CASE Tick
  <2>1. /\ UNCHANGED <<stage, since, answer>>
        /\ \A r \in Requests : age[r] \in Nat /\ age'[r] \in Nat /\ age'[r] >= age[r]
    BY <1>0, <1>5 DEF Tick, Older
  <2>2. \A r \in Requests : age[r] >= AcquireTimeout => age'[r] >= AcquireTimeout
    BY <2>1, GateAssumption
  <2> QED BY <2>1, <2>2
<1>6. ASSUME NEW r \in Requests, AcquireElapsed(r) PROVE StagesAgree' /\ SaturationIs429'
  BY <1>3, <1>6 DEF AcquireElapsed, Answers
<1>7. ASSUME NEW r \in Requests, Finish(r) \/ Cancel(r)
      PROVE  StagesAgree' /\ SaturationIs429'
  BY <1>3, <1>7 DEF Finish, Cancel, Answers
<1>8. ASSUME NEW r \in Requests, RequestElapsed(r) PROVE StagesAgree' /\ SaturationIs429'
  <2>1. r \in Holders
    BY <1>0, <1>8, GateAssumption DEF RequestElapsed, Holders
  <2> QED BY <1>3, <1>8, <2>1 DEF RequestElapsed, Answers
<1> QED BY <1>1, <1>2, <1>4, <1>5, <1>6, <1>7, <1>8 DEF GateNext

\* Before the first operation all permits are free and nothing is counted.
LEMMA GateInvInit == GateInit => GateInv
<1> SUFFICES ASSUME GateInit PROVE GateInv
  OBVIOUS
<1>0. MaxAge \in Nat
  BY GateAssumption DEF MaxAge
<1>1. GateTypeOK /\ StagesAgree /\ SaturationIs429
  BY <1>0, GateAssumption DEF GateInit, GateTypeOK, StagesAgree, SaturationIs429,
                              Stages, Answers
<1>2. /\ Holders = {} /\ Queued = {} /\ Active = {}
      /\ \A l \in Labels : Settled(l) = {}
  BY DEF GateInit, Holders, Queued, Active, Settled
<1>3. PermitsConserved /\ OperationsAccounted
  BY <1>2, FS_EmptySet, GateAssumption DEF GateInit, PermitsConserved, OperationsAccounted
<1> QED BY <1>1, <1>3 DEF GateInv

\* The inductive invariant holds in every reachable state of the gate.
THEOREM GateInvariant == GateSpec => []GateInv
<1>1. GateInv /\ [GateNext]_gateVars => GateInv'
  BY GateTypeStep, PermitStep, AccountStep, StatusStep DEF GateInv
<1> QED BY GateInvInit, <1>1, PTL DEF GateSpec

\* The variables of the gate keep their types: no permit count goes below zero.
THEOREM GateTypeCorrect == GateSpec => []GateTypeOK
<1>1. GateInv => GateTypeOK
  BY DEF GateInv
<1> QED BY GateInvariant, <1>1, PTL

\* No operation permit is lost or made up, however operations end, and none lies
\* idle while an operation waits.
THEOREM PermitsAreConserved == GateSpec => []PermitsConserved
<1>1. GateInv => PermitsConserved
  BY DEF GateInv
<1> QED BY GateInvariant, <1>1, PTL

\* The inflight gauge and the per-status counters of the guard are exact.
THEOREM OperationsAreAccounted == GateSpec => []OperationsAccounted
<1>1. GateInv => OperationsAccounted
  BY DEF GateInv
<1> QED BY GateInvariant, <1>1, PTL

\* 429 means the operation never had a permit, 504 that it had one, whatever the
\* timeouts, given only that the acquire timeout is the smaller one.
THEOREM StatusTellsSaturation == GateSpec => []SaturationIs429
<1>1. GateInv => SaturationIs429
  BY DEF GateInv
<1> QED BY GateInvariant, <1>1, PTL
-----------------------------------------------------------------------------
(* The target.                                                             *)

\* Every step of a target is a step of its pool or leaves the pool alone.
LEMMA PoolSimulation == [TargetNext]_targetVars => [PoolNext]_poolVars
<1> SUFFICES ASSUME TargetNext PROVE [PoolNext]_poolVars
  BY DEF targetVars
<1>1. CASE (Backend \/ \E s \in Shards : Worker(s)) /\ UNCHANGED gateVars
  BY <1>1 DEF PoolNext
<1>2. ASSUME NEW r \in Requests, GateOnly(r) PROVE [PoolNext]_poolVars
  BY <1>2 DEF GateOnly
<1>3. ASSUME NEW r \in Requests, CallTarget(r) PROVE [PoolNext]_poolVars
  BY <1>3, CallersAreRequests DEF CallTarget, PoolNext
<1>4. ASSUME NEW r \in Requests, SearchTarget(r) PROVE [PoolNext]_poolVars
  BY <1>4, CallersAreRequests DEF SearchTarget, PoolNext
<1>5. ASSUME NEW r \in Requests,
             FinishTarget(r) \/ TimeoutTarget(r) \/ CancelTarget(r)
      PROVE  [PoolNext]_poolVars
  BY <1>5, CallersAreRequests DEF FinishTarget, TimeoutTarget, CancelTarget, PoolNext
<1>6. CASE Tick /\ UNCHANGED poolVars
  BY <1>6
<1> QED BY <1>1, <1>2, <1>3, <1>4, <1>5, <1>6 DEF TargetNext

\* Every step of a target is a step of its gate or leaves the gate alone.
LEMMA GateSimulation == [TargetNext]_targetVars => [GateNext]_gateVars
<1> SUFFICES ASSUME TargetNext PROVE [GateNext]_gateVars
  BY DEF targetVars
<1>1. CASE (Backend \/ \E s \in Shards : Worker(s)) /\ UNCHANGED gateVars
  BY <1>1
<1>2. ASSUME NEW r \in Requests, GateOnly(r) PROVE [GateNext]_gateVars
  BY <1>2 DEF GateOnly, GateNext
<1>3. ASSUME NEW r \in Requests, CallTarget(r) PROVE [GateNext]_gateVars
  BY <1>3 DEF CallTarget, GateNext
<1>4. ASSUME NEW r \in Requests, SearchTarget(r) PROVE [GateNext]_gateVars
  BY <1>4 DEF SearchTarget, GateNext
<1>5. ASSUME NEW r \in Requests,
             FinishTarget(r) \/ TimeoutTarget(r) \/ CancelTarget(r)
      PROVE  [GateNext]_gateVars
  BY <1>5 DEF FinishTarget, TimeoutTarget, CancelTarget, GateNext
<1>6. CASE Tick /\ UNCHANGED poolVars
  BY <1>6 DEF GateNext
<1> QED BY <1>1, <1>2, <1>3, <1>4, <1>5, <1>6 DEF TargetNext

\* Whatever the operations of a target do (answer, time out, are dropped), its
\* pool behaves as a pool: no operation touches a slot or a counter.
THEOREM TargetImplementsPool == TargetSpec => ImplementsPool
<1>1. TargetInit => PoolInit
  BY DEF TargetInit
<1> QED BY <1>1, PoolSimulation, PTL DEF TargetSpec, PoolSpec, ImplementsPool

\* Whatever the pool does, the operations of a target pass the gate as they do
\* in front of any backend.
THEOREM TargetImplementsGate == TargetSpec => ImplementsGate
<1>1. TargetInit => GateInit
  BY DEF TargetInit
<1> QED BY <1>1, GateSimulation, PTL DEF TargetSpec, GateSpec, ImplementsGate

\* The operations inside connection() or a command are exactly those that the
\* gate has between their permit and their end.
THEOREM TargetJoined == TargetSpec => []Joined
<1> DEFINE Types == PoolTypeOK /\ GateTypeOK
<1>1. TargetInit => Joined
  BY CallersAreRequests DEF TargetInit, PoolInit, GateInit, Joined, Searching
<1>2. Types /\ Joined /\ [TargetNext]_targetVars => Joined'
  <2> SUFFICES ASSUME PoolTypeOK, GateTypeOK, Joined, [TargetNext]_targetVars
               PROVE  Joined'
    OBVIOUS
  <2>0. /\ cpc \in [Requests -> CallerPC]
        /\ stage \in [Requests -> Stages]
    BY CallersAreRequests DEF PoolTypeOK, GateTypeOK
  <2>1. CASE UNCHANGED targetVars
    BY <2>1 DEF targetVars, poolVars, callerVars, gateVars, Joined
  <2>2. CASE (Backend \/ \E s \in Shards : Worker(s)) /\ UNCHANGED gateVars
    <3>1. UNCHANGED cpc
      BY <2>2 DEF Backend, Worker, StartWorker, ReadSlot, ProbeDue, ProbeOk,
         ProbeFailed, Disconnect, DisconnectGauge, DisconnectAvailable,
         DisconnectNotify, Connect, ConnectGauge, ConnectAvailable,
         ConnectNotify, ConnectFailed, BackoffElapsed, callerVars
    <3> QED BY <2>2, <3>1 DEF gateVars, Joined
  <2>3. ASSUME NEW r \in Requests, NEW a, End(r, a)
        PROVE  /\ stage'[r] = "settling"
               /\ \A p \in Requests \ {r} :
                     \/ stage'[p] = stage[p]
                     \/ stage[p] = "queued" /\ stage'[p] = "granted"
    BY <2>0, <2>3 DEF End, Queued, Holders, IsNext
  <2>4. ASSUME NEW r \in Requests, NEW a, End(r, a),
               \/ Leave(r)
               \/ stage[r] \in {"queued", "granted"} /\ UNCHANGED poolVars
        PROVE  Joined'
    <3>1. cpc'[r] \notin Searching \cup {"got"}
      BY <2>0, <2>4 DEF Leave, Joined, Searching, CallerPC, poolVars, callerVars
    <3>2. \A p \in Requests \ {r} : cpc'[p] = cpc[p]
      BY <2>0, <2>4 DEF Leave, poolVars, callerVars
    <3> QED BY <2>3, <2>4, <3>1, <3>2 DEF Joined
  <2>5. ASSUME NEW r \in Requests, GateOnly(r) PROVE Joined'
    <3>1. CASE Begin(r) \/ Settle(r)
      BY <2>0, <2>5, <3>1 DEF GateOnly, Begin, Settle, Joined, poolVars, callerVars
    <3>2. CASE AcquireElapsed(r)
      BY <2>4, <2>5, <3>2 DEF GateOnly, AcquireElapsed
    <3> QED BY <2>5, <3>1, <3>2 DEF GateOnly
  <2>6. ASSUME NEW r \in Requests, CallTarget(r) PROVE Joined'
    BY <2>0, <2>6 DEF CallTarget, EnterConnection, CallConnection, CallerAt, Joined,
                      Searching
  <2>7. ASSUME NEW r \in Requests, SearchTarget(r) PROVE Joined'
    <3>1. /\ cpc'[r] \in Searching \cup {"got"}
          /\ \A p \in Requests \ {r} : cpc'[p] = cpc[p]
      BY <2>0, <2>7 DEF SearchTarget, Search, MarkSeen, ScanSlot, CloneSlot, Wake,
                        CallerAt, Searching
    <3>2. CASE cpc'[r] = "got"
      BY <2>0, <2>7, <3>1, <3>2 DEF SearchTarget, Connected, Joined, Searching
    <3>3. CASE cpc'[r] # "got"
      BY <2>0, <2>7, <3>1, <3>3 DEF SearchTarget, gateVars, Joined, Searching
    <3> QED BY <3>2, <3>3
  <2>8. ASSUME NEW r \in Requests, FinishTarget(r) PROVE Joined'
    BY <2>4, <2>8 DEF FinishTarget, Finish
  <2>9. ASSUME NEW r \in Requests, TimeoutTarget(r) PROVE Joined'
    BY <2>4, <2>9 DEF TimeoutTarget, RequestElapsed
  <2>10. ASSUME NEW r \in Requests, CancelTarget(r) PROVE Joined'
    BY <2>4, <2>10 DEF CancelTarget, Cancel
  <2>11. CASE Tick /\ UNCHANGED poolVars
    BY <2>11 DEF Tick, poolVars, callerVars, Joined
  <2> QED BY <2>1, <2>2, <2>5, <2>6, <2>7, <2>8, <2>9, <2>10, <2>11 DEF TargetNext
<1>3. TargetSpec => []Types
  BY TargetImplementsPool, TargetImplementsGate, PoolTypeCorrect, GateTypeCorrect, PTL
     DEF ImplementsPool, ImplementsGate
<1> QED BY <1>1, <1>2, <1>3, PTL DEF TargetSpec

\* The operations that search the shards of a target or hold a connection of it.
InsidePool == {r \in Requests : cpc[r] \in Searching \cup {"got"}}

\* operation_limit bounds the load of the pool, not only the permits: however
\* operations end, no more than that many are inside it, and while one waits for
\* a permit those inside or on their way there have all of them.
LoadBounded ==
    /\ Cardinality(InsidePool) <= OperationLimit
    /\ Queued # {} => Cardinality(Holders) = OperationLimit /\ InsidePool \subseteq Holders

\* From the gate's permits and the joint: what a target lets into its pool.
THEOREM TargetLoadIsBounded == TargetSpec => []LoadBounded
<1>1. GateTypeOK /\ PermitsConserved /\ Joined => LoadBounded
  <2> SUFFICES ASSUME GateTypeOK, PermitsConserved, Joined PROVE LoadBounded
    OBVIOUS
  <2>1. InsidePool \subseteq Holders
    BY DEF InsidePool, Holders, Joined
  <2>2. IsFiniteSet(Holders) /\ Cardinality(Holders) \in Nat
    BY CountedSets
  <2>3. Cardinality(InsidePool) \in Nat /\ Cardinality(InsidePool) <= Cardinality(Holders)
    BY <2>1, <2>2, FS_Subset, FS_CardinalityType
  <2>4. /\ permits \in Nat /\ permits + Cardinality(Holders) = OperationLimit
        /\ permits > 0 => Queued = {}
    BY DEF GateTypeOK, PermitsConserved
  <2>5. OperationLimit \in Nat
    BY GateAssumption
  <2>6. Cardinality(InsidePool) <= OperationLimit
    BY <2>2, <2>3, <2>4, <2>5
  <2>7. Queued # {} => Cardinality(Holders) = OperationLimit
    BY <2>2, <2>4, <2>5
  <2> QED BY <2>1, <2>6, <2>7 DEF LoadBounded
<1> QED BY <1>1, TargetJoined, TargetImplementsGate, GateTypeCorrect, PermitsAreConserved, PTL
        DEF ImplementsGate

\* What is proved of a pool and of a gate is so of every target: its counter of
\* available shards is exact and nobody sleeps past a shard, no permit is lost,
\* every operation is counted, and 429 and 504 tell saturation from slowness.
THEOREM TargetIsSound ==
    TargetSpec => [](/\ AvailableExact /\ NoLostWakeup
                     /\ PermitsConserved /\ OperationsAccounted /\ SaturationIs429)
BY TargetImplementsPool, TargetImplementsGate, AvailableIsExact, WakeupsAreNotLost,
   PermitsAreConserved, OperationsAreAccounted, StatusTellsSaturation, PTL
   DEF ImplementsPool, ImplementsGate
=============================================================================
