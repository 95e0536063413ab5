------------------------------- MODULE Server -------------------------------
(***************************************************************************)
(* The HTTP server (src/main.rs): connections, the routes they call, the   *)
(* concurrency limit of the API routes, the graceful shutdown, and the     *)
(* readiness probe over all targets.                                       *)
(*                                                                         *)
(* A connection serves one request after the other.  What a handler does   *)
(* between its body and its answer is one step here: the other modules     *)
(* model it, and show that it ends.  A request body, though, arrives when  *)
(* its client sends it, and an event stream lasts as long as its client.   *)
(***************************************************************************)
EXTENDS Integers, SequencesExt

CONSTANTS
    Conns,           \* client connections; one that was closed may come again
    Visited,         \* the routes that clients call in a run
    MaxConcurrency,  \* RRB_MAX_CONCURRENCY
    TargetCount      \* the configured Redis targets

Api    == {"root", "command", "pipeline", "multi_exec"}
Health == {"healthz", "readyz", "metrics"}
Routes == Api \cup Health \cup {"subscribe"}
NoRoute == "none"

\* Bridge::from_env refuses a limit of zero and a configuration with no target.
ASSUME ServerAssumption ==
    /\ IsFiniteSet(Conns)
    /\ Visited \subseteq Routes
    /\ MaxConcurrency \in Nat \ {0}
    /\ TargetCount \in Nat \ {0}

VARIABLES
    life,     \* "serving", "draining" after the signal, "stopped"
    told,     \* open connections on which graceful_shutdown was called
    stage,    \* "closed", "open", or where its request is: "queued", "reading",
              \* "handling" (with a permit in both) or "streaming"
    route,    \* the route of its request, NoRoute between requests
    answer,   \* "pending" while it has a request, then what /readyz said
    permits,  \* of each API route, the free permits of its concurrency limit
    waiting,  \* of each API route, the connections queued for one
    up,       \* of each target, whether available_shards > 0
    at,       \* of each /readyz request, the target it looks at next
    was_up    \* history: the targets that had a shard during that request

connVars   == <<told, stage, route, answer>>
limitVars  == <<permits, waiting>>
readyVars  == <<at, was_up>>
serverVars == <<life, connVars, limitVars, up, readyVars>>

Targets == 1 .. TargetCount

UpNow == {t \in Targets : up[t]}

\* Mutant: one limit on the merged router.
MutLimitOf(r) == "command"

\* ConcurrencyLimitLayer wraps every route of the API router by itself, and
\* no other route.
LimitOf(r) == IF r \in Api THEN r ELSE NoRoute

\* The first step of a request that was let in.
FirstStage(r) == IF r \in {"command", "pipeline", "multi_exec", "subscribe"}
                   THEN "reading" ELSE "handling"

HoldersOf(r) == {c \in Conns : LimitOf(route[c]) = r /\ stage[c] \in {"reading", "handling"}}

ServerInit ==
    /\ life = "serving"
    /\ told = {}
    /\ stage = [c \in Conns |-> "closed"]
    /\ route = [c \in Conns |-> NoRoute]
    /\ answer = [c \in Conns |-> "none"]
    /\ permits = [r \in Api |-> MaxConcurrency]
    /\ waiting = [r \in Api |-> <<>>]
    /\ up = [t \in Targets |-> FALSE]
    /\ at = [c \in Conns |-> 1]
    /\ was_up = [c \in Conns |-> {}]

-----------------------------------------------------------------------------
(* Targets.                                                                *)

\* The supervisors of a target connect its first shard or lose its last.
Supervise(t) ==
    /\ life # "stopped"
    /\ up' = [up EXCEPT ![t] = ~@]
    /\ was_up' = [c \in Conns |->
                     IF stage[c] = "handling" /\ route[c] = "readyz" /\ up'[t]
                       THEN was_up[c] \cup {t} ELSE was_up[c]]
    /\ UNCHANGED <<life, connVars, limitVars, at>>

-----------------------------------------------------------------------------
(* Connections and requests.                                               *)

\* The listener accepts until the signal.
Accept(c) ==
    /\ life = "serving"
    /\ stage[c] = "closed"
    /\ stage' = [stage EXCEPT ![c] = "open"]
    /\ answer' = [answer EXCEPT ![c] = "none"]
    /\ UNCHANGED <<life, told, route, limitVars, up, readyVars>>

\* Mutant: the limit is met one request too late.
MutHasRoom(l) == permits[l] >= 0

HasRoom(l) == permits[l] > 0

\* A request is let in at once, or queued for a permit of its route.
Request(c, r) ==
    /\ stage[c] = "open"
    /\ route' = [route EXCEPT ![c] = r]
    /\ answer' = [answer EXCEPT ![c] = "pending"]
    /\ LET l == LimitOf(r)
       IN  \/ /\ l \notin Api
              /\ stage' = [stage EXCEPT ![c] = FirstStage(r)]
              /\ UNCHANGED limitVars
           \/ /\ l \in Api /\ HasRoom(l)
              /\ stage' = [stage EXCEPT ![c] = FirstStage(r)]
              /\ permits' = [permits EXCEPT ![l] = @ - 1]
              /\ UNCHANGED waiting
           \/ /\ l \in Api /\ ~HasRoom(l)
              /\ stage' = [stage EXCEPT ![c] = "queued"]
              /\ waiting' = [waiting EXCEPT ![l] = Append(@, c)]
              /\ UNCHANGED permits
    /\ was_up' = [was_up EXCEPT ![c] = IF r = "readyz" THEN UpNow ELSE {}]
    /\ UNCHANGED <<life, told, up, at>>

\* The rest of the body arrives.
BodyArrives(c) ==
    /\ stage[c] = "reading"
    /\ stage' = [stage EXCEPT ![c] = "handling"]
    /\ UNCHANGED <<life, told, route, answer, limitVars, up, readyVars>>

\* Mutant: the permit goes back, and nobody in the queue is told.
MutEndRequest(c, next) ==
    LET l == LimitOf(route[c])
    IN  /\ stage' = [stage EXCEPT ![c] = next]
        /\ permits' = IF l \in Api /\ stage[c] # "queued"
                        THEN [permits EXCEPT ![l] = @ + 1] ELSE permits
        /\ waiting' = IF stage[c] = "queued"
                        THEN [waiting EXCEPT ![l] = Remove(@, c)]
                        ELSE waiting

\* Mutant: the permit goes to the request that came last.
MutEndRequestLast(c, next) ==
    LET l == LimitOf(route[c])
    IN  \/ /\ l \in Api /\ stage[c] # "queued" /\ waiting[l] # <<>>
           /\ LET q == waiting[l][Len(waiting[l])]
              IN  stage' = [stage EXCEPT ![c] = next, ![q] = FirstStage(l)]
           /\ waiting' = [waiting EXCEPT ![l] = SubSeq(@, 1, Len(@) - 1)]
           /\ UNCHANGED permits
        \/ /\ l \in Api /\ stage[c] # "queued" /\ waiting[l] = <<>>
           /\ stage' = [stage EXCEPT ![c] = next]
           /\ permits' = [permits EXCEPT ![l] = @ + 1]
           /\ UNCHANGED waiting
        \/ /\ l \in Api /\ stage[c] = "queued"
           /\ stage' = [stage EXCEPT ![c] = next]
           /\ \E k \in 1 .. Len(waiting[l]) :
                 waiting[l][k] = c /\ waiting' = [waiting EXCEPT ![l] = RemoveAt(@, k)]
           /\ UNCHANGED permits
        \/ /\ l \notin Api
           /\ stage' = [stage EXCEPT ![c] = next]
           /\ UNCHANGED limitVars

\* The response future of c ends or is dropped, and c goes on to next.  Its
\* permit goes to the request that has waited longest; one that waits itself
\* leaves the queue.
EndRequest(c, next) ==
    LET l == LimitOf(route[c])
    IN  \/ /\ l \in Api /\ stage[c] # "queued" /\ waiting[l] # <<>>
           /\ LET q == Head(waiting[l])
              IN  stage' = [stage EXCEPT ![c] = next, ![q] = FirstStage(route[q])]
           /\ waiting' = [waiting EXCEPT ![l] = Tail(@)]
           /\ UNCHANGED permits
        \/ /\ l \in Api /\ stage[c] # "queued" /\ waiting[l] = <<>>
           /\ stage' = [stage EXCEPT ![c] = next]
           /\ permits' = [permits EXCEPT ![l] = @ + 1]
           /\ UNCHANGED waiting
        \/ /\ l \in Api /\ stage[c] = "queued"
           /\ stage' = [stage EXCEPT ![c] = next]
           /\ \E k \in 1 .. Len(waiting[l]) :
                 waiting[l][k] = c /\ waiting' = [waiting EXCEPT ![l] = RemoveAt(@, k)]
           /\ UNCHANGED permits
        \/ /\ l \notin Api
           /\ stage' = [stage EXCEPT ![c] = next]
           /\ UNCHANGED limitVars

\* Nothing of a request outlives it; nor of a connection that has been told.
RequestOver(c) ==
    /\ told' = told \ {c}
    /\ route' = [route EXCEPT ![c] = NoRoute]
    /\ at' = [at EXCEPT ![c] = 1]
    /\ was_up' = [was_up EXCEPT ![c] = {}]
    /\ UNCHANGED <<life, up>>

\* After its answer a connection waits for the next request, unless it was
\* told to shut down.
Respond(c, a) ==
    /\ EndRequest(c, IF c \in told THEN "closed" ELSE "open")
    /\ answer' = [answer EXCEPT ![c] = a]
    /\ RequestOver(c)

Handle(c) ==
    /\ stage[c] = "handling"
    /\ route[c] # "readyz"
    /\ Respond(c, "none")

\* subscribe answers with an event stream.
Stream(c) ==
    /\ stage[c] = "handling"
    /\ route[c] = "subscribe"
    /\ stage' = [stage EXCEPT ![c] = "streaming"]
    /\ UNCHANGED <<life, told, route, answer, limitVars, up, readyVars>>

\* Mutant: the probe is content with one target.
MutReadTarget(c) ==
    /\ stage[c] = "handling"
    /\ route[c] = "readyz"
    /\ Respond(c, IF up[at[c]] THEN "ready" ELSE "unavailable")

\* targets_ready loads one counter after the other, up to the first target
\* with no shard.
ReadTarget(c) ==
    /\ stage[c] = "handling"
    /\ route[c] = "readyz"
    /\ \/ ~up[at[c]] /\ Respond(c, "unavailable")
       \/ up[at[c]] /\ at[c] = TargetCount /\ Respond(c, "ready")
       \/ /\ up[at[c]] /\ at[c] < TargetCount
          /\ at' = [at EXCEPT ![c] = @ + 1]
          /\ UNCHANGED <<life, connVars, limitVars, up, was_up>>

\* A client closes its connection, and what the request holds is dropped.
ClientGone(c) ==
    /\ stage[c] # "closed"
    /\ IF stage[c] = "open"
         THEN stage' = [stage EXCEPT ![c] = "closed"] /\ UNCHANGED limitVars
         ELSE EndRequest(c, "closed")
    /\ answer' = [answer EXCEPT ![c] = "none"]
    /\ RequestOver(c)

-----------------------------------------------------------------------------
(* Shutdown.                                                               *)

\* SIGTERM or SIGINT: axum stops accepting.
Signal ==
    /\ life = "serving"
    /\ life' = "draining"
    /\ UNCHANGED <<connVars, limitVars, up, readyVars>>

\* Mutant: the connection is closed, not its keep-alive.
MutNotice(c) ==
    /\ life = "draining"
    /\ c \notin told /\ stage[c] # "closed"
    /\ told' = told \cup {c}
    /\ stage' = [stage EXCEPT ![c] = "closed"]
    /\ UNCHANGED <<life, route, answer, limitVars, up, readyVars>>

\* Mutant: an idle connection keeps waiting for its next request.
MutNoticeIdle(c) ==
    /\ life = "draining"
    /\ c \notin told /\ stage[c] # "closed"
    /\ told' = told \cup {c}
    /\ UNCHANGED <<life, stage, route, answer, limitVars, up, readyVars>>

\* Each connection's task calls graceful_shutdown: an idle connection is closed,
\* a busy one after the response it is in.
Notice(c) ==
    /\ life = "draining"
    /\ c \notin told /\ stage[c] # "closed"
    /\ told' = IF stage[c] = "open" THEN told ELSE told \cup {c}
    /\ stage' = [stage EXCEPT ![c] = IF @ = "open" THEN "closed" ELSE @]
    /\ UNCHANGED <<life, route, answer, limitVars, up, readyVars>>

\* serve() returns when the last connection is gone, and main with it.
Stop ==
    /\ life = "draining"
    /\ \A c \in Conns : stage[c] = "closed"
    /\ life' = "stopped"
    /\ UNCHANGED <<connVars, limitVars, up, readyVars>>

ServerNext ==
    \/ Signal \/ Stop
    \/ \E t \in Targets : Supervise(t)
    \/ \E c \in Conns :
          \/ Accept(c) \/ \E r \in Visited : Request(c, r)
          \/ BodyArrives(c) \/ Handle(c) \/ Stream(c) \/ ReadTarget(c)
          \/ ClientGone(c) \/ Notice(c)

ServerSpec == ServerInit /\ [][ServerNext]_serverVars

\* Handlers run to their end (every operation does), connection tasks see the
\* signal, serve() returns.  Clients owe nothing: neither a body nor a close.
ServerFairness ==
    /\ WF_serverVars(Stop)
    /\ \A c \in Conns : /\ WF_serverVars(Handle(c) \/ Stream(c) \/ ReadTarget(c))
                        /\ WF_serverVars(Notice(c))

ServerFairSpec == ServerSpec /\ ServerFairness

-----------------------------------------------------------------------------
(* Properties.                                                             *)

RootLimiter == INSTANCE Limiter WITH
    Users <- Conns, Limit <- MaxConcurrency,
    inside <- HoldersOf("root"), queue <- waiting["root"]
CommandLimiter == INSTANCE Limiter WITH
    Users <- Conns, Limit <- MaxConcurrency,
    inside <- HoldersOf("command"), queue <- waiting["command"]
PipelineLimiter == INSTANCE Limiter WITH
    Users <- Conns, Limit <- MaxConcurrency,
    inside <- HoldersOf("pipeline"), queue <- waiting["pipeline"]
MultiExecLimiter == INSTANCE Limiter WITH
    Users <- Conns, Limit <- MaxConcurrency,
    inside <- HoldersOf("multi_exec"), queue <- waiting["multi_exec"]

\* The concurrency limit of an API route is a limiter: at most MaxConcurrency of its
\* requests are past it, none waits while there is room, and a permit that comes
\* free, by an answer or by a client that goes away, goes to the request that has
\* waited longest.
RoutesAreLimited ==
    /\ RootLimiter!LimiterSpec
    /\ CommandLimiter!LimiterSpec
    /\ PipelineLimiter!LimiterSpec
    /\ MultiExecLimiter!LimiterSpec

\* No connection is left, by the shutdown or otherwise, with a request that was
\* neither answered nor given up by its client: the bridge stops only when every
\* request it took on has its answer.
NoRequestCut ==
    \A c \in Conns : stage[c] \in {"closed", "open"} => answer[c] # "pending"

\* /readyz reads the targets one by one while supervisors connect and lose
\* shards: when it says ready, every target had a shard at some moment of the
\* request (not necessarily all at the same moment).
ReadyIsJustified ==
    [][\A c \in Conns :
          answer[c] = "pending" /\ answer'[c] = "ready" => was_up[c] = Targets]_serverVars

Patient == {"reading", "streaming"}   \* stages that only a client can end

\* Health routes answer however busy the API is: with every permit taken by
\* requests whose bodies never arrive, /healthz, /readyz and /metrics still do.
HealthAnswers ==
    \A c \in Conns :
        answer[c] = "pending" /\ route[c] \in Health ~> answer[c] # "pending"

\* A queued request gets its turn, while the bridge serves and while it drains,
\* provided that no client withholds a request body for ever.
QueuedIsServed ==
    (\A d \in Conns : []<>(stage[d] # "reading")) =>
        \A c \in Conns : stage[c] = "queued" ~> stage[c] # "queued"

\* The shutdown comes to an end once no client withholds a body and no client
\* stays on an event stream.  (It waits for both without a limit.)
ShutdownEnds ==
    <>[](\A c \in Conns : stage[c] \notin Patient) =>
        (life = "draining" ~> life = "stopped")

\* README.md: "`GET /readyz` reports startup readiness. It confirms that at
\* least one Redis target loaded."  Targets are loaded before the server
\* listens, so the probe would never answer 503.
ReadyOnceLoaded == \A c \in Conns : answer[c] # "unavailable"

\* README.md: "`RRB_MAX_CONCURRENCY` limits the number of concurrent HTTP requests
\* handled by the bridge.  It is a global API-level limit."
GlobalLimit ==
    Cardinality({c \in Conns : route[c] \in Api /\ stage[c] \in {"reading", "handling"}})
        <= MaxConcurrency
=============================================================================
