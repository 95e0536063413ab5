---------------------------- MODULE OperationGate ----------------------------
(***************************************************************************)
(* One Redis operation per request behind a target's operation semaphore:  *)
(* execute_operation (src/redis/execute.rs) with its two nested timeouts   *)
(* and the metrics guard (src/metrics/guard.rs).                           *)
(*                                                                         *)
(* The semaphore is tokio's: fair, and a released permit goes straight to  *)
(* the longest waiting acquire.  tokio's timeout() polls the wrapped future *)
(* before its timer, so an operation that can go on does.  A tick is longer *)
(* than the code between two polls: both timers of an operation start in   *)
(* the same tick.                                                          *)
(***************************************************************************)
EXTENDS Integers, FiniteSets

CONSTANTS
    Requests,        \* the operations of a run; each happens once
    OperationLimit,  \* RRB_OPERATION_LIMIT, at least 1 (AppState::new)
    AcquireTimeout,  \* RRB_ACQUIRE_TIMEOUT_MS, in ticks
    RequestTimeout   \* RRB_REQUEST_TIMEOUT_MS, in ticks

\* The configuration refuses an acquire timeout that is not the smaller one.
ASSUME GateAssumption ==
    /\ IsFiniteSet(Requests)
    /\ OperationLimit \in Nat \ {0}
    /\ AcquireTimeout \in Nat \ {0}
    /\ RequestTimeout \in Nat
    /\ AcquireTimeout < RequestTimeout

VARIABLES
    permits,   \* free permits of operation_limit
    stage,     \* where each operation is
    ticket,    \* the order in which acquires entered the semaphore's queue
    age,       \* ticks since the operation began, up to MaxAge
    since,     \* history: the age at which it was given a permit, or -1
    answer,    \* how the operation ended
    inflight,  \* the redis_operations_inflight gauge
    total      \* redis_operations_total, by status

gateVars == <<permits, stage, ticket, age, since, answer, inflight, total>>

MaxAge == RequestTimeout + AcquireTimeout   \* ages beyond it are not told apart

Stages == {"idle", "queued", "granted", "connecting", "running", "settling", "done"}
Answers == {"none", "value", "rejected", "unavailable",   \* 200, 400, 503
            "saturated", "timeout", "dropped"}            \* 429, 504, no answer
Labels == {"ok", "error", "timeout", "cancelled"}

\* The status under which the guard counts an operation.
Label(a) == CASE a = "value" -> "ok"
              [] a = "timeout" -> "timeout"
              [] a = "dropped" -> "cancelled"
              [] OTHER -> "error"

Queued  == {r \in Requests : stage[r] = "queued"}
Holders == {r \in Requests : stage[r] \in {"granted", "connecting", "running"}}
Begun   == {r \in Requests : stage[r] # "idle"}
Active  == {r \in Requests : stage[r] \notin {"idle", "done"}}
Timed   == Queued \cup Holders    \* both timers are running

\* The acquire at the head of the semaphore's queue, r itself excepted.
IsNext(q, r) == /\ q \in Queued \ {r}
                /\ \A p \in Queued \ {r} : ticket[q] <= ticket[p]

GateInit ==
    /\ permits = OperationLimit
    /\ stage = [r \in Requests |-> "idle"]
    /\ ticket = [r \in Requests |-> 0]
    /\ age = [r \in Requests |-> 0]
    /\ since = [r \in Requests |-> -1]
    /\ answer = [r \in Requests |-> "none"]
    /\ inflight = 0
    /\ total = [l \in Labels |-> 0]

-----------------------------------------------------------------------------
\* Mutant: the semaphore is consulted, its refusal ignored.
MutBegin(r) ==
    /\ stage[r] = "idle"
    /\ inflight' = inflight + 1
    /\ permits' = permits - 1
    /\ stage' = [stage EXCEPT ![r] = "granted"]
    /\ since' = [since EXCEPT ![r] = 0]
    /\ UNCHANGED <<ticket, age, answer, total>>

\* begin_operation counts the operation in flight; the first poll of acquire()
\* takes a free permit or joins the queue.
Begin(r) ==
    /\ stage[r] = "idle"
    /\ inflight' = inflight + 1
    /\ IF permits > 0
         THEN /\ permits' = permits - 1
              /\ stage' = [stage EXCEPT ![r] = "granted"]
              /\ since' = [since EXCEPT ![r] = 0]
              /\ UNCHANGED ticket
         ELSE /\ stage' = [stage EXCEPT ![r] = "queued"]
              /\ ticket' = [ticket EXCEPT ![r] = Cardinality(Begun)]
              /\ UNCHANGED <<permits, since>>
    /\ UNCHANGED <<age, answer, total>>

\* Mutant: a future dropped with a permit it never used does not return it.
MutEnd(r, a) ==
    /\ \/ /\ r \in Holders /\ stage[r] # "granted"
          /\ Queued = {}
          /\ permits' = permits + 1
          /\ stage' = [stage EXCEPT ![r] = "settling"]
          /\ UNCHANGED since
       \/ /\ r \in Holders /\ stage[r] # "granted"
          /\ \E q \in Queued :
                /\ IsNext(q, r)
                /\ stage' = [stage EXCEPT ![r] = "settling", ![q] = "granted"]
                /\ since' = [since EXCEPT ![q] = age[q]]
          /\ UNCHANGED permits
       \/ /\ r \in Queued \/ stage[r] = "granted"
          /\ stage' = [stage EXCEPT ![r] = "settling"]
          /\ UNCHANGED <<permits, since>>
    /\ answer' = [answer EXCEPT ![r] = a]
    /\ UNCHANGED <<ticket, age, inflight, total>>

\* The inner future of r ends with a, by returning or by being dropped.  Its
\* permit, if it has one (a granted acquire that was never polled included),
\* goes to the head of the queue; a queued acquire leaves the queue.
End(r, a) ==
    /\ \/ /\ r \in Holders
          /\ Queued = {}
          /\ permits' = permits + 1
          /\ stage' = [stage EXCEPT ![r] = "settling"]
          /\ UNCHANGED since
       \/ /\ r \in Holders
          /\ \E q \in Queued :
                /\ IsNext(q, r)
                /\ stage' = [stage EXCEPT ![r] = "settling", ![q] = "granted"]
                /\ since' = [since EXCEPT ![q] = age[q]]
          /\ UNCHANGED permits
       \/ /\ r \in Queued
          /\ stage' = [stage EXCEPT ![r] = "settling"]
          /\ UNCHANGED <<permits, since>>
    /\ answer' = [answer EXCEPT ![r] = a]
    /\ UNCHANGED <<ticket, age, inflight, total>>

\* timeout(acquire_timeout, ...) elapses on an acquire still in the queue: 429.
AcquireElapsed(r) ==
    /\ stage[r] = "queued"
    /\ age[r] >= AcquireTimeout
    /\ End(r, "saturated")

\* The task is polled with its permit and calls target.connection().
EnterConnection(r) ==
    /\ stage[r] = "granted"
    /\ stage' = [stage EXCEPT ![r] = "connecting"]
    /\ UNCHANGED <<permits, ticket, age, since, answer, inflight, total>>

\* connection() returns (it never fails: the sender outlives the target), and
\* the command is sent.
Connected(r) ==
    /\ stage[r] = "connecting"
    /\ stage' = [stage EXCEPT ![r] = "running"]
    /\ UNCHANGED <<permits, ticket, age, since, answer, inflight, total>>

\* Redis answers, or redis_api_error maps its error to 400 or 503.
Finish(r) ==
    /\ stage[r] = "running"
    /\ \E a \in {"value", "rejected", "unavailable"} : End(r, a)

\* Mutant: the request timer is looked at before the inner future.
MutRequestElapsed(r) ==
    /\ stage[r] \in {"queued", "connecting", "running"}
    /\ age[r] >= RequestTimeout
    /\ End(r, "timeout")

\* Mutant: connection() is awaited outside the request timeout.
MutRequestElapsedLate(r) ==
    /\ stage[r] = "running"
    /\ age[r] >= RequestTimeout
    /\ End(r, "timeout")

\* timeout(request_timeout, ...) elapses: 504.  The inner future is polled
\* first, so an acquire whose own timer is over answers 429 instead.
RequestElapsed(r) ==
    /\ stage[r] \in {"queued", "connecting", "running"}
    /\ age[r] >= RequestTimeout
    /\ (stage[r] = "queued") => (age[r] < AcquireTimeout)
    /\ End(r, "timeout")

\* The client goes away and the handler's future is dropped at an await point.
Cancel(r) ==
    /\ stage[r] \in {"queued", "granted", "connecting", "running"}
    /\ End(r, "dropped")

\* Mutant: a guard that was not completed does not leave the gauge.
MutSettle(r) ==
    /\ stage[r] = "settling"
    /\ stage' = [stage EXCEPT ![r] = "done"]
    /\ total' = [total EXCEPT ![Label(answer[r])] = @ + 1]
    /\ inflight' = IF answer[r] = "dropped" THEN inflight ELSE inflight - 1
    /\ UNCHANGED <<permits, ticket, age, since, answer>>

\* The guard: one of success(), error(), timeout(), or neither, and its Drop.
Settle(r) ==
    /\ stage[r] = "settling"
    /\ stage' = [stage EXCEPT ![r] = "done"]
    /\ total' = [total EXCEPT ![Label(answer[r])] = @ + 1]
    /\ inflight' = inflight - 1
    /\ UNCHANGED <<permits, ticket, age, since, answer>>

Older(r) == IF r \in Timed /\ age[r] < MaxAge THEN age[r] + 1 ELSE age[r]

Tick ==
    /\ age' = [r \in Requests |-> Older(r)]
    /\ age' # age
    /\ UNCHANGED <<permits, stage, ticket, since, answer, inflight, total>>

GateNext ==
    \/ \E r \in Requests :
          \/ Begin(r) \/ AcquireElapsed(r) \/ EnterConnection(r) \/ Connected(r)
          \/ Finish(r) \/ RequestElapsed(r) \/ Cancel(r) \/ Settle(r)
    \/ Tick

GateSpec == GateInit /\ [][GateNext]_gateVars

\* Time passes and the runtime polls a task whose timer fired or that has been
\* woken.  Nothing is assumed of Redis: no fairness for Connected or Finish.
GateFairness ==
    /\ WF_gateVars(Tick)
    /\ \A r \in Requests :
          WF_gateVars(AcquireElapsed(r) \/ EnterConnection(r)
                        \/ RequestElapsed(r) \/ Settle(r))

GateFairSpec == GateSpec /\ GateFairness

-----------------------------------------------------------------------------
(* Properties.                                                             *)

\* Types; the number of free permits never goes below zero.
GateTypeOK ==
    /\ permits \in Nat
    /\ stage \in [Requests -> Stages]
    /\ ticket \in [Requests -> Nat]
    /\ age \in [Requests -> 0 .. MaxAge]
    /\ since \in [Requests -> -1 .. MaxAge]
    /\ answer \in [Requests -> Answers]
    /\ inflight \in Int
    /\ total \in [Labels -> Nat]

\* No permit is lost or made up, whichever way an operation ends (answered,
\* timed out, dropped in the queue, dropped between being granted a permit and
\* being polled), and no permit lies idle while an acquire waits.
PermitsConserved ==
    /\ permits + Cardinality(Holders) = OperationLimit
    /\ permits > 0 => Queued = {}

Settled(l) == {r \in Requests : stage[r] = "done" /\ Label(answer[r]) = l}

\* The gauge counts exactly the operations between begin_operation and the
\* guard's Drop, and every operation is counted once, under its own status: the
\* early return of any error path, and a dropped future, reach the guard.
OperationsAccounted ==
    /\ inflight = Cardinality(Active)
    /\ \A l \in Labels : total[l] = Cardinality(Settled(l))

\* The status tells saturation from a stuck backend: 429 goes only to an
\* operation that waited out its acquire timeout and never had a permit, 504
\* only to one that had one.
SaturationIs429 ==
    \A r \in Requests :
        /\ answer[r] = "saturated" => since[r] = -1 /\ age[r] >= AcquireTimeout
        /\ answer[r] = "timeout" => since[r] >= 0

\* Every operation that began ends and is accounted for, even if Redis never
\* gives a connection or an answer: the timeouts alone see to it.
EveryOperationEnds ==
    \A r \in Requests : stage[r] \in {"queued", "granted"} ~> stage[r] = "done"

\* README.md: RRB_REQUEST_TIMEOUT_MS covers connection acquisition and execution
\* "after an operation permit is available".  Then a 504 would leave an
\* operation all of RequestTimeout once it has its permit.
TimeoutRunsFromPermit ==
    \A r \in Requests :
        answer[r] = "timeout" => age[r] - since[r] >= RequestTimeout
=============================================================================
