--------------------------- MODULE ConnectionPool ---------------------------
(***************************************************************************)
(* The shard pool of one Redis target (src/app/state.rs).                  *)
(*                                                                         *)
(* Each shard has a slot (a tokio watch channel holding a generation and an *)
(* optional connection) written only by its own supervisor task            *)
(* (maintain_connection), a per-target counter available_shards read by    *)
(* /readyz, a gauge redis_connected_shards, and a revision channel         *)
(* connection_changed on which callers of connection() sleep.              *)
(*                                                                         *)
(* One action is at most one access to state another task can see: the     *)
(* slot, the gauge, the counter and the revision are updated one after the *)
(* other, and a caller's scan reads one slot at a time.                    *)
(***************************************************************************)
EXTENDS Integers, FiniteSets

CONSTANTS
    NumShards,        \* connections.len(), at least 1 (AppState::new)
    Callers,          \* tasks that may be inside connection()
    IndexMod,         \* width of next_connection: 2^64 in the build
    GenMod,           \* width of a slot's generation: 2^64 in the build
    MaxFailedProbes,  \* MAX_FAILED_PROBES
    InitialBackoff,   \* INITIAL_BACKOFF, in units of 250 ms
    MaxBackoff        \* MAX_BACKOFF, in units of 250 ms

ASSUME PoolAssumption ==
    /\ NumShards \in Nat \ {0}
    /\ IndexMod \in Nat \ {0}
    /\ GenMod \in Nat /\ GenMod > 1
    /\ MaxFailedProbes \in Nat \ {0}
    /\ InitialBackoff \in Nat \ {0}
    /\ MaxBackoff \in Nat /\ InitialBackoff <= MaxBackoff

Shards == 0 .. NumShards - 1

VARIABLES
    backend,          \* how Redis answers: "up", "flaky" or "down" (external)
    generation,       \* ConnectionSlot.generation of each shard
    present,          \* ConnectionSlot.connection.is_some() of each shard
    gauge,            \* the redis_connected_shards gauge
    available,        \* available_shards
    next_connection,  \* the round-robin counter of connection()
    wpc,              \* where each supervisor is
    slotSeen,         \* the supervisor's receiver is at the slot's version
    held,             \* the generation in the supervisor's copy of the slot
    failed_probes,
    backoff,
    probes,           \* history: results of the probes of this connection
                      \* since the last answered one, all failures
    cpc,              \* where each caller of connection() is
    seen,             \* the caller's receiver is at the current revision
    start,            \* the caller's value of next_connection
    offset            \* the caller's position in select_ready_shard

slotVars   == <<generation, present>>
countVars  == <<gauge, available>>
workerVars == <<wpc, slotSeen, held, failed_probes, backoff, probes>>
callerVars == <<next_connection, cpc, seen, start, offset>>
poolVars   == <<backend, slotVars, countVars, workerVars, callerVars>>

\* The stretches of connected() and disconnected() after the slot is written.
Connecting    == {"c_gauge", "c_available", "c_notify"}
Disconnecting == {"d_gauge", "d_available", "d_notify"}
WorkerPC == {"starting", "top", "hold", "ping", "connect", "sleep"}
                \cup Connecting \cup Disconnecting

\* Where a caller inside connection() can be, and the await point among them.
Searching == {"mark", "scan", "clone", "waiting"}
CallerPC  == {"idle", "got"} \cup Searching

\* select_ready_shard: the shard read at an offset of a scan from "from".
ShardAt(from, off) == ((from % NumShards) + off) % NumShards

\* wrapping_add(1).max(1): generation 0 is the slot that never connected.
NextGeneration(g) == IF (g + 1) % GenMod = 0 THEN 1 ELSE (g + 1) % GenMod

\* Mutant: the doubled delay is not capped.
MutNextBackoff(b) == 2 * b

\* backoff.saturating_mul(2).min(MAX_BACKOFF)
NextBackoff(b) == IF 2 * b < MaxBackoff THEN 2 * b ELSE MaxBackoff

-----------------------------------------------------------------------------
PoolInit ==
    /\ backend = "down"
    /\ generation = [s \in Shards |-> 0]
    /\ present = [s \in Shards |-> FALSE]
    /\ gauge = 0
    /\ available = 0
    /\ next_connection = 0
    /\ wpc = [s \in Shards |-> "starting"]
    /\ slotSeen = [s \in Shards |-> TRUE]
    /\ held = [s \in Shards |-> 0]
    /\ failed_probes = [s \in Shards |-> 0]
    /\ backoff = [s \in Shards |-> InitialBackoff]
    /\ probes = [s \in Shards |-> 0]
    /\ cpc = [r \in Callers |-> "idle"]
    /\ seen = [r \in Callers |-> TRUE]
    /\ start = [r \in Callers |-> 0]
    /\ offset = [r \in Callers |-> 0]

-----------------------------------------------------------------------------
(* The environment.  A backend that comes back is flaky first: the sockets *)
(* opened before the outage still fail their next command.                 *)

Backend ==
    /\ \E b \in {"up", "flaky", "down"} \ {backend} :
          /\ (backend = "down") => (b = "flaky")
          /\ backend' = b
    /\ UNCHANGED <<slotVars, countVars, workerVars, callerVars>>

-----------------------------------------------------------------------------
(* The supervisor of shard s: maintain_connection, connected, disconnected. *)

WorkerAt(s, from, to) == wpc[s] = from /\ wpc' = [wpc EXCEPT ![s] = to]

\* The startup delay and receiver = connections[shard].subscribe().
StartWorker(s) ==
    /\ WorkerAt(s, "starting", "top")
    /\ slotSeen' = [slotSeen EXCEPT ![s] = TRUE]
    /\ UNCHANGED <<backend, slotVars, countVars, callerVars,
                   held, failed_probes, backoff, probes>>

\* Mutant: borrow() in place of borrow_and_update().
MutReadSlot(s) ==
    /\ WorkerAt(s, "top", IF present[s] THEN "hold" ELSE "connect")
    /\ held' = [held EXCEPT ![s] = generation[s]]
    /\ UNCHANGED <<backend, slotVars, countVars, callerVars,
                   slotSeen, failed_probes, backoff, probes>>

\* slot = receiver.borrow_and_update().clone()
ReadSlot(s) ==
    /\ WorkerAt(s, "top", IF present[s] THEN "hold" ELSE "connect")
    /\ slotSeen' = [slotSeen EXCEPT ![s] = TRUE]
    /\ held' = [held EXCEPT ![s] = generation[s]]
    /\ UNCHANGED <<backend, slotVars, countVars, callerVars,
                   failed_probes, backoff, probes>>

\* select! between receiver.changed() and the probe interval.
ProbeDue(s) ==
    /\ \E to \in IF slotSeen[s] THEN {"ping"} ELSE {"ping", "top"} :
          WorkerAt(s, "hold", to)
    /\ UNCHANGED <<backend, slotVars, countVars, callerVars,
                   slotSeen, held, failed_probes, backoff, probes>>

\* Mutant: an answered probe does not reset failed_probes.
MutProbeOk(s) ==
    /\ backend # "down"
    /\ WorkerAt(s, "ping", "top")
    /\ probes' = [probes EXCEPT ![s] = 0]
    /\ UNCHANGED <<backend, slotVars, countVars, callerVars,
                   slotSeen, held, failed_probes, backoff>>

ProbeOk(s) ==
    /\ backend # "down"
    /\ WorkerAt(s, "ping", "top")
    /\ failed_probes' = [failed_probes EXCEPT ![s] = 0]
    /\ probes' = [probes EXCEPT ![s] = 0]
    /\ UNCHANGED <<backend, slotVars, countVars, callerVars,
                   slotSeen, held, backoff>>

\* Mutant: failed_probes restarts with every copy of the slot.
MutProbeFailed(s) ==
    /\ backend # "up"
    /\ failed_probes[s] + 1 < MaxFailedProbes
    /\ WorkerAt(s, "ping", "top")
    /\ UNCHANGED <<backend, slotVars, countVars, callerVars,
                   slotSeen, held, failed_probes, backoff, probes>>

\* A PING that fails, answers something else or misses PROBE_TIMEOUT, short of
\* the limit.
ProbeFailed(s) ==
    /\ backend # "up"
    /\ failed_probes[s] + 1 < MaxFailedProbes
    /\ WorkerAt(s, "ping", "top")
    /\ failed_probes' = [failed_probes EXCEPT ![s] = @ + 1]
    /\ probes' = [probes EXCEPT ![s] = @ + 1]
    /\ UNCHANGED <<backend, slotVars, countVars, callerVars,
                   slotSeen, held, backoff>>

\* disconnected()'s send_if_modified refuses a slot that is not the one probed.
Invalidates(s) == generation[s] = held[s] /\ present[s]

\* The failed probe that reaches the limit: disconnected(shard, generation)
\* empties the slot, then updates gauge, counter and revision.
Disconnect(s) ==
    /\ backend # "up"
    /\ failed_probes[s] + 1 >= MaxFailedProbes
    /\ WorkerAt(s, "ping", IF Invalidates(s) THEN "d_gauge" ELSE "top")
    /\ present' = [present EXCEPT ![s] = @ /\ ~Invalidates(s)]
    /\ slotSeen' = [slotSeen EXCEPT ![s] = @ /\ ~Invalidates(s)]
    /\ failed_probes' = [failed_probes EXCEPT ![s] = 0]
    /\ probes' = [probes EXCEPT ![s] = @ + 1]
    /\ UNCHANGED <<backend, generation, countVars, callerVars, held, backoff>>

DisconnectGauge(s) ==
    /\ WorkerAt(s, "d_gauge", "d_available")
    /\ gauge' = gauge - 1
    /\ UNCHANGED <<backend, slotVars, available, callerVars,
                   slotSeen, held, failed_probes, backoff, probes>>

\* Mutant: the counter is recomputed from the slots and stored.
MutDisconnectAvailable(s) ==
    /\ WorkerAt(s, "d_available", "d_notify")
    /\ available' = Cardinality({t \in Shards : present[t]})
    /\ UNCHANGED <<backend, slotVars, gauge, callerVars,
                   slotSeen, held, failed_probes, backoff, probes>>

DisconnectAvailable(s) ==
    /\ WorkerAt(s, "d_available", "d_notify")
    /\ available' = available - 1
    /\ UNCHANGED <<backend, slotVars, gauge, callerVars,
                   slotSeen, held, failed_probes, backoff, probes>>

\* connection_changed.send_modify: every receiver is behind the new revision.
Notify == seen' = [r \in Callers |-> FALSE]

\* Mutant: a loss does not wake callers, since it offers them nothing.
MutDisconnectNotify(s) ==
    /\ WorkerAt(s, "d_notify", "top")
    /\ UNCHANGED <<backend, slotVars, countVars, callerVars,
                   slotSeen, held, failed_probes, backoff, probes>>

DisconnectNotify(s) ==
    /\ WorkerAt(s, "d_notify", "top")
    /\ Notify
    /\ UNCHANGED <<backend, slotVars, countVars,
                   slotSeen, held, failed_probes, backoff, probes,
                   next_connection, cpc, start, offset>>

\* get_connection_manager_with_config succeeds; connected() fills the slot,
\* then updates gauge, counter and revision.
Connect(s) ==
    /\ backend # "down"
    /\ WorkerAt(s, "connect", "c_gauge")
    /\ generation' = [generation EXCEPT ![s] = NextGeneration(@)]
    /\ present' = [present EXCEPT ![s] = TRUE]
    /\ slotSeen' = [slotSeen EXCEPT ![s] = FALSE]
    /\ probes' = [probes EXCEPT ![s] = 0]
    /\ UNCHANGED <<backend, countVars, callerVars, held, failed_probes, backoff>>

ConnectGauge(s) ==
    /\ WorkerAt(s, "c_gauge", "c_available")
    /\ gauge' = gauge + 1
    /\ UNCHANGED <<backend, slotVars, available, callerVars,
                   slotSeen, held, failed_probes, backoff, probes>>

ConnectAvailable(s) ==
    /\ WorkerAt(s, "c_available", "c_notify")
    /\ available' = available + 1
    /\ UNCHANGED <<backend, slotVars, gauge, callerVars,
                   slotSeen, held, failed_probes, backoff, probes>>

\* Mutant: connected() does not move the revision.
MutConnectNotify(s) ==
    /\ WorkerAt(s, "c_notify", "top")
    /\ failed_probes' = [failed_probes EXCEPT ![s] = 0]
    /\ backoff' = [backoff EXCEPT ![s] = InitialBackoff]
    /\ UNCHANGED <<backend, slotVars, countVars, slotSeen, held, probes,
                   callerVars>>

ConnectNotify(s) ==
    /\ WorkerAt(s, "c_notify", "top")
    /\ Notify
    /\ failed_probes' = [failed_probes EXCEPT ![s] = 0]
    /\ backoff' = [backoff EXCEPT ![s] = InitialBackoff]
    /\ UNCHANGED <<backend, slotVars, countVars, slotSeen, held, probes,
                   next_connection, cpc, start, offset>>

\* Mutant: the supervisor gives up when the delay is at its maximum.
MutConnectFailed(s) ==
    /\ backend # "up"
    /\ WorkerAt(s, "connect", IF backoff[s] = MaxBackoff THEN "stopped" ELSE "sleep")
    /\ UNCHANGED <<backend, slotVars, countVars, callerVars,
                   slotSeen, held, failed_probes, backoff, probes>>

ConnectFailed(s) ==
    /\ backend # "up"
    /\ WorkerAt(s, "connect", "sleep")
    /\ UNCHANGED <<backend, slotVars, countVars, callerVars,
                   slotSeen, held, failed_probes, backoff, probes>>

\* sleep(backoff) ends and the delay doubles.
BackoffElapsed(s) ==
    /\ WorkerAt(s, "sleep", "top")
    /\ backoff' = [backoff EXCEPT ![s] = NextBackoff(@)]
    /\ UNCHANGED <<backend, slotVars, countVars, callerVars,
                   slotSeen, held, failed_probes, probes>>

Worker(s) ==
    \/ StartWorker(s) \/ ReadSlot(s) \/ ProbeDue(s)
    \/ ProbeOk(s) \/ ProbeFailed(s)
    \/ Disconnect(s) \/ DisconnectGauge(s)
    \/ DisconnectAvailable(s) \/ DisconnectNotify(s)
    \/ Connect(s) \/ ConnectGauge(s)
    \/ ConnectAvailable(s) \/ ConnectNotify(s)
    \/ ConnectFailed(s) \/ BackoffElapsed(s)

-----------------------------------------------------------------------------
(* A caller r of connection().                                             *)

CallerAt(r, from, to) == cpc[r] = from /\ cpc' = [cpc EXCEPT ![r] = to]

\* Subscribe to connection_changed and take the next start index.
CallConnection(r) ==
    /\ CallerAt(r, "idle", "mark")
    /\ seen' = [seen EXCEPT ![r] = TRUE]
    /\ start' = [start EXCEPT ![r] = next_connection]
    /\ next_connection' = (next_connection + 1) % IndexMod
    /\ UNCHANGED <<backend, slotVars, countVars, workerVars, offset>>

\* drop(changes.borrow_and_update()), and the scan starts over.
MarkSeen(r) ==
    /\ CallerAt(r, "mark", "scan")
    /\ seen' = [seen EXCEPT ![r] = TRUE]
    /\ offset' = [offset EXCEPT ![r] = 0]
    /\ UNCHANGED <<backend, slotVars, countVars, workerVars,
                   next_connection, start>>

\* One slot read of select_ready_shard.
ScanSlot(r) ==
    LET ready == present[ShardAt(start[r], offset[r])]
        last  == offset[r] + 1 = NumShards
    IN  /\ CallerAt(r, "scan", IF ready THEN "clone"
                               ELSE IF last THEN "waiting" ELSE "scan")
        /\ offset' = [offset EXCEPT ![r] = IF ready \/ last THEN @ ELSE @ + 1]
        /\ UNCHANGED <<backend, slotVars, countVars, workerVars,
                       next_connection, seen, start>>

\* The slot is read again to be cloned: the connection may be gone by now.
\* The shard and generation returned with it are ignored by the only caller
\* (execute_operation), so "got" carries neither.
CloneSlot(r) ==
    LET s == ShardAt(start[r], offset[r])
    IN  /\ CallerAt(r, "clone", IF present[s] THEN "got" ELSE "waiting")
        /\ UNCHANGED <<backend, slotVars, countVars, workerVars,
                       next_connection, seen, start, offset>>

\* changes.changed().await returns: the revision moved.
Wake(r) ==
    /\ ~seen[r]
    /\ CallerAt(r, "waiting", "mark")
    /\ seen' = [seen EXCEPT ![r] = TRUE]
    /\ UNCHANGED <<backend, slotVars, countVars, workerVars,
                   next_connection, start, offset>>

\* The caller lets go: its future is dropped at the await point (a timeout or
\* a client that went away), or it is done with the connection it was given.
Leave(r) ==
    /\ cpc[r] \in {"waiting", "got"}
    /\ cpc' = [cpc EXCEPT ![r] = "idle"]
    /\ seen' = [seen EXCEPT ![r] = TRUE]
    /\ start' = [start EXCEPT ![r] = 0]
    /\ offset' = [offset EXCEPT ![r] = 0]
    /\ UNCHANGED <<backend, slotVars, countVars, workerVars, next_connection>>

Search(r) == MarkSeen(r) \/ ScanSlot(r) \/ CloneSlot(r) \/ Wake(r)

PoolNext ==
    \/ Backend
    \/ \E s \in Shards : Worker(s)
    \/ \E r \in Callers : CallConnection(r) \/ Search(r) \/ Leave(r)

PoolSpec == PoolInit /\ [][PoolNext]_poolVars

\* Every sleep, probe and connection attempt of a supervisor ends (all three
\* are bounded by timers), and the runtime polls a caller that can run.
PoolFairness ==
    /\ \A s \in Shards : WF_poolVars(Worker(s))
    /\ \A r \in Callers : WF_poolVars(Search(r))

PoolFairSpec == PoolSpec /\ PoolFairness

-----------------------------------------------------------------------------
(* Properties.                                                             *)

\* Types; generations and indexes within their width, failed_probes below its
\* limit and the retry delay within its range.
PoolTypeOK ==
    /\ backend \in {"up", "flaky", "down"}
    /\ generation \in [Shards -> 0 .. GenMod - 1]
    /\ present \in [Shards -> BOOLEAN]
    /\ gauge \in Int
    /\ available \in Int
    /\ next_connection \in 0 .. IndexMod - 1
    /\ wpc \in [Shards -> WorkerPC]
    /\ slotSeen \in [Shards -> BOOLEAN]
    /\ held \in [Shards -> 0 .. GenMod - 1]
    /\ failed_probes \in [Shards -> 0 .. MaxFailedProbes - 1]
    /\ backoff \in [Shards -> InitialBackoff .. MaxBackoff]
    /\ probes \in [Shards -> Nat]
    /\ cpc \in [Callers -> CallerPC]
    /\ seen \in [Callers -> BOOLEAN]
    /\ start \in [Callers -> 0 .. IndexMod - 1]
    /\ offset \in [Callers -> 0 .. NumShards - 1]

\* The shards available_shards, respectively the gauge, has counted: a slot
\* that is filled, unless connected() has not reached the counter yet, and one
\* that is emptied as long as disconnected() has not reached it.
Counted == {s \in Shards : \/ present[s] /\ wpc[s] \notin {"c_gauge", "c_available"}
                           \/ wpc[s] \in {"d_gauge", "d_available"}}
Gauged  == {s \in Shards : \/ present[s] /\ wpc[s] # "c_gauge"
                           \/ wpc[s] = "d_gauge"}

\* available_shards and the gauge, each updated apart from the slot by every
\* supervisor of the target, never miss or repeat a shard: the counter that
\* /readyz trusts cannot drift, underflow, or exceed the number of shards.
AvailableExact ==
    /\ available = Cardinality(Counted)
    /\ gauge = Cardinality(Gauged)

\* While a supervisor waits for or runs a probe, the slot still holds the
\* connection it copied: the changed() arm of its select never fires, and
\* disconnected() never refuses because of its generation test.
ProbeHoldsCurrentSlot ==
    \A s \in Shards : wpc[s] \in {"hold", "ping"} =>
        present[s] /\ slotSeen[s] /\ held[s] = generation[s]

\* connection() never sleeps through a connection: when a caller is asleep with
\* nothing to wake it, every filled slot belongs to a supervisor still on its
\* way to notify, or another shard's loss is about to be notified.
NoLostWakeup ==
    \A r \in Callers : cpc[r] = "waiting" /\ seen[r] =>
        \/ \A s \in Shards : present[s] => wpc[s] \in Connecting
        \/ \E t \in Shards : wpc[t] \in Disconnecting

\* The inductive strengthening of the three: what a slot and its supervisor's
\* position say of each other,
SlotDiscipline ==
    \A s \in Shards :
        /\ wpc[s] \in {"hold", "ping"} =>
              present[s] /\ slotSeen[s] /\ held[s] = generation[s]
        /\ wpc[s] \in Connecting => present[s]
        /\ wpc[s] \in Disconnecting \cup {"starting", "connect", "sleep"} =>
              ~present[s]
        /\ ~present[s] => failed_probes[s] = 0
        /\ failed_probes[s] <= probes[s]

\* and what a caller whose receiver is up to date knows of the slots it read:
\* the ones it passed over were empty and a filled one has yet to be notified,
\* and the one it stopped at is still filled or its loss has yet to be notified.
ScanSound ==
    \A r \in Callers : seen[r] =>
        /\ cpc[r] = "scan" =>
              \A i \in 0 .. offset[r] - 1 :
                  LET s == ShardAt(start[r], i)
                  IN  present[s] => wpc[s] \in Connecting
        /\ cpc[r] = "clone" =>
              LET s == ShardAt(start[r], offset[r])
              IN  present[s] \/ wpc[s] \in Disconnecting
        /\ cpc[r] = "waiting" =>
              \/ \A s \in Shards : present[s] => wpc[s] \in Connecting
              \/ \E t \in Shards : wpc[t] \in Disconnecting

\* A shard leaves the pool only after MAX_FAILED_PROBES probes in a row failed
\* on the very connection it drops: an answered probe starts the count anew.
LossNeedsFailuresInARow ==
    [][\A s \in Shards : present[s] /\ ~present'[s] =>
          probes'[s] >= MaxFailedProbes]_poolVars

\* The supervisors converge: once Redis answers for good every shard is in the
\* pool and counted for good, whatever the outages before.
RecoversFully ==
    <>[](backend = "up") => <>[](available = NumShards /\ gauge = NumShards)

\* Once Redis is gone for good, /readyz eventually reports it for good.
OutageDetected ==
    <>[](backend = "down") => <>[](available = 0 /\ gauge = 0)

\* A caller inside connection() is served (or gives up) once Redis stays up.
CallersServed ==
    <>[](backend = "up") =>
        \A r \in Callers : [](cpc[r] \in Searching => <>(cpc[r] \in {"idle", "got"}))
=============================================================================
