----------------------------- MODULE RedisTarget -----------------------------
(***************************************************************************)
(* A Redis target as execute_operation uses it: the operation gate in front *)
(* of the shard pool.  An operation that holds a permit is a caller of     *)
(* connection() until it has a connection, and an operation that ends      *)
(* inside connection() drops its place there.  The requests of the gate    *)
(* are the callers of the pool.                                            *)
(***************************************************************************)
EXTENDS ConnectionPool, OperationGate

ASSUME CallersAreRequests == Callers = Requests

targetVars == <<poolVars, gateVars>>

TargetInit == PoolInit /\ GateInit

\* Outside connection() and the command, an operation touches only the gate.
GateOnly(r) ==
    /\ Begin(r) \/ AcquireElapsed(r) \/ Settle(r)
    /\ UNCHANGED poolVars

\* The permit is there: connection() begins.
CallTarget(r) == EnterConnection(r) /\ CallConnection(r)

\* Steps inside connection(), the last of which gives the operation a shard.
SearchTarget(r) ==
    /\ stage[r] = "connecting"
    /\ Search(r)
    /\ IF cpc'[r] = "got" THEN Connected(r) ELSE UNCHANGED gateVars

\* Mutant: an error of the connection ends the command with its permit kept.
MutFinishTarget(r) ==
    /\ stage[r] = "running"
    /\ stage' = [stage EXCEPT ![r] = "settling"]
    /\ answer' = [answer EXCEPT ![r] = "unavailable"]
    /\ UNCHANGED <<permits, ticket, age, since, inflight, total>>
    /\ Leave(r)

\* Redis answers while it is not down, and an error of the connection maps to
\* 503 while it is not up.
FinishTarget(r) ==
    /\ Finish(r)
    /\ (backend = "down") => answer'[r] = "unavailable"
    /\ (backend = "up") => answer'[r] # "unavailable"
    /\ Leave(r)

\* Mutant: a timeout discards the connection it waited for.
MutTimeoutTarget(r) ==
    /\ RequestElapsed(r)
    /\ cpc[r] = "got"
    /\ cpc' = [cpc EXCEPT ![r] = "idle"]
    /\ present' = [present EXCEPT ![ShardAt(start[r], offset[r])] = FALSE]
    /\ UNCHANGED <<backend, generation, countVars, workerVars, next_connection,
                   seen, start, offset>>

\* Mutant: only the command itself is under the request timeout.
MutTimeoutTargetLate(r) == RequestElapsed(r) /\ cpc[r] = "got" /\ Leave(r)

\* The request timer fires on a pending future, which is dropped.  A change of
\* the pool may be announced between the poll of changed() and the timer's, so
\* the caller's receiver may be behind.  The connection stays in the pool: a
\* slow command does not prove the socket dead.
TimeoutTarget(r) == RequestElapsed(r) /\ Leave(r)

\* Mutant: the dropped operation stays in connection().
MutCancelTarget(r) == Cancel(r) /\ UNCHANGED poolVars

\* The client goes away: in the queue, with a permit, or inside connection() or
\* the command, at an await point.
CancelTarget(r) ==
    /\ Cancel(r)
    /\ IF stage[r] \in {"queued", "granted"} THEN UNCHANGED poolVars ELSE Leave(r)

TargetNext ==
    \/ (Backend \/ \E s \in Shards : Worker(s)) /\ UNCHANGED gateVars
    \/ \E r \in Requests :
          \/ GateOnly(r) \/ CallTarget(r) \/ SearchTarget(r)
          \/ FinishTarget(r) \/ TimeoutTarget(r) \/ CancelTarget(r)
    \/ Tick /\ UNCHANGED poolVars

TargetSpec == TargetInit /\ [][TargetNext]_targetVars

\* As for the parts: timers fire and tasks that can run are polled; Redis may
\* never answer a command.
TargetFairness ==
    /\ \A s \in Shards : WF_targetVars(Worker(s) /\ UNCHANGED gateVars)
    /\ WF_targetVars(Tick /\ UNCHANGED poolVars)
    /\ \A r \in Requests :
          /\ WF_targetVars((AcquireElapsed(r) \/ Settle(r)) /\ UNCHANGED poolVars)
          /\ WF_targetVars(CallTarget(r))
          /\ WF_targetVars(SearchTarget(r))
          /\ SF_targetVars(TimeoutTarget(r))

TargetFairSpec == TargetSpec /\ TargetFairness

-----------------------------------------------------------------------------
(* Properties.                                                             *)

\* The two state machines stay in step: exactly the operations between their
\* permit and the end of the command are inside the pool.
Joined ==
    \A r \in Requests :
        /\ stage[r] = "connecting" <=> cpc[r] \in Searching
        /\ stage[r] = "running" <=> cpc[r] = "got"

\* The target implements its pool: whatever execute_operation does, times out or
\* drops, the pool only ever takes its own steps (a request never touches a slot
\* or a counter).
ImplementsPool == PoolSpec

\* The target implements its gate: in front of this pool, operations take the
\* steps they may take in front of any backend.
ImplementsGate == GateSpec
=============================================================================
