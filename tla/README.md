# Rubix Redis Bridge: TLA+ verification project

The bridge is an HTTP front end for Redis: a token-authenticated request carries
a command, a pipeline, a transaction or a subscription, a policy decides whether
it may run, and it runs on one of a few shared connections to the token's Redis
target. This directory models it from its configuration to its answers, checks the
models with TLC and proves their safety properties with TLAPS.

Source paths below are relative to the repository.

## 1. The system and its parts

| Part | Source | State it keeps | Operations |
|---|---|---|---|
| Shard pool and supervisors | `src/app/state.rs` | per shard a slot (generation, optional connection) in a watch channel; `available_shards`; the `redis_connected_shards` gauge; the revision `connection_changed`; `next_connection` | `maintain_connection` (one task per shard), `connected`, `disconnected`, `connection` |
| Operation gate and guard | `src/redis/execute.rs`, `src/metrics/guard.rs` | the per-target semaphore, in-flight gauge, per-status counters | `execute_operation` under two nested timeouts, `Guard` |
| Authentication lockout | `src/auth/lockout.rs`, `src/auth/request.rs` | a mutex-protected map from client IP to its failures; two gauges | `record_failure`, `record_success`, `snapshot`, the authentication functions, the metrics handler |
| Realtime subscriptions | `src/app/realtime.rs` | the realtime semaphore, the gauge, one Pub/Sub connection and one event stream per subscription | `subscribe` and the stream it returns |
| Command policy | `src/security/`, `src/commands.rs`, part of `src/config/` | none after the start | `validate`, `parse_command_list`, `parse_command_array`, `validate_subcommand` |
| Configuration | `src/config/`, `AppState::new` | the token table, fixed at the start | `from_env`, `load_targets`, token hashing |
| HTTP handlers, responses | `src/app/handlers.rs`, `src/app/response.rs`, `src/redis/value.rs`, `src/redis/response.rs` | none | compose authentication, policy, execution, serialization |
| Client IP resolution | `src/client/` | none | header parsing, trusted proxy chain |
| Server | `src/main.rs` | connections, a concurrency semaphore per API route | routing, `/readyz`, graceful shutdown |

How they interact. A handler authenticates (lockout table, shared by all
requests), asks the policy, and calls `execute_operation`, which takes a permit
of the target's semaphore, then a connection of the target's pool. The pool is
written only by its supervisors; callers only read slots and sleep on the
revision channel. A subscription takes a permit of one bridge-wide semaphore and
then lives apart from the pool. `/readyz` and `/metrics` read what the others
write.

What is hard in it, and therefore what the properties are about (each at its
line under "hazards" in `PROJECT.json`):

- slot, gauge, counter and revision change one after the other, under readers
  that read one slot at a time and then sleep: lost wakeups, drifting counters;
- futures are dropped at any await point, by two nested timers or by a client
  that goes away: permits, gauges and counters must balance on every path;
- the clock is read before a mutex and results are stored after it;
- supervisors and streams must go on through outages of any length;
- tables and semaphores at their limits, counters that wrap, a sum that
  overflows;
- a policy made of four lists, three capabilities and a special case;
- a start that must refuse what the rest relies on never to see, and a token table
  built in two places;
- four handlers that repeat one chain of early returns, each with its own labels,
  behind extractors that answer before them;
- a client address taken from five headers, and a mask with two special ends;
- a size limit counted over many writes, and map keys that print alike;
- a semaphore per route, held while a client sends its body, and a shutdown that
  waits for clients.

## 2. Modules

| Module | Models | Extends |
|---|---|---|
| `ConnectionPool` | the shard pool of one target | |
| `OperationGate` | `execute_operation` in front of any backend | |
| `RedisTarget` | the gate in front of the pool | `ConnectionPool`, `OperationGate` |
| `AuthLockout` | the lockout table and the handlers on it | |
| `Limiter` | abstract: what a semaphore with a queue promises | |
| `Realtime` | subscriptions | |
| `Server` | connections, routes, readiness, shutdown | (instantiates `Limiter`) |
| `SecurityPolicy` | the command policy | |
| `ClientIp` | forwarded headers and trusted networks | |
| `Startup` | settings, targets, tokens, the token table | `SecurityPolicy`, `ClientIp` |
| `Response` | RESP values to JSON, the size limit | |
| `Handlers` | the start, and a request from its arrival to its answer | `Startup`, `Response` |
| `ConnectionPoolProofs`, `RedisTargetProofs`, `RealtimeProofs`, `AuthLockoutProofs`, `SecurityPolicyProofs`, `ServerProofs`, `HandlersProofs` | theorems | their component (`RedisTargetProofs`: `OperationGate` too) |
| `ReplyProofs` | theorems about replies, and end to end about requests | `HandlersProofs`, `SecurityPolicyProofs` |
| `MC...` | instances for TLC: symmetry sets, and the inputs of the handlers | their component |

Definitions named `Mut...` are deliberate mistakes: each replaces one definition
and must make one property fail (the list is under "mutants" in `PROJECT.json`).
They take no part in any specification.

### ConnectionPool

A step is at most one access to state that another task can see. The supervisor
of a shard is a loop of `ReadSlot` (`borrow_and_update`), then either `ProbeDue`
and a probe (`ProbeOk`, `ProbeFailed`, `Disconnect`) or a connection attempt
(`Connect`, `ConnectFailed`, `BackoffElapsed`). `connected` and `disconnected`
are four steps each: slot, gauge, counter, revision. A caller of `connection()`
marks the revision as seen (`MarkSeen`), reads the slots one by one from its start
index (`ScanSlot`), reads the one it found again to clone it (`CloneSlot`), and
otherwise sleeps until the revision moves (`Wake`). `Leave` is the drop of its
future, or the end of the command.

A watch channel is modelled by what its receivers know: whether they are at the
current version. The build has one receiver per supervisor and one per caller,
so a flag for each is exact, and no revision number is needed. Redis is external:
up (everything succeeds), down (everything fails), or flaky (either). It does not
go from down to up directly, since sockets of before the outage fail once more.
The history variable `probes` counts the failures since the last answered probe
of a connection. The clock is left out: probes and delays just end.

### OperationGate and RedisTarget

An operation is `idle`, `queued` in the semaphore, `granted` a permit it has not
seen yet, `connecting`, `running`, `settling` (its inner future is gone, the guard
is not) and `done`. Tokio's semaphore is fair and hands a permit that comes free
directly to the head of its queue; `End` models that with the drop of the inner
future. Tokio's `timeout` polls its future before its timer; hence an acquire whose
timer is over is answered 429 before the request timer is looked at, and a granted
operation enters `connection()` before it can time out. Both timers count ticks
from `Begin`; ages are capped at `MaxAge`, beyond which no timer tells them apart.
Each operation of the set `Requests` happens once.

`RedisTarget` joins the two: `CallTarget` enters `connection()`, `SearchTarget`
takes its steps, the last of which is `Connected`, and `FinishTarget`,
`TimeoutTarget` and `CancelTarget` leave both. A future can only be dropped where
it waits, so `Leave` needs the caller to be asleep or in the command.

### AuthLockout

Each critical section of the mutex is one step, computed by `RecordFailureAt` and
`CleanupStaleEntries`, which follow the code's functions. What the code does
outside the mutex is a step of its own: reading the clock (`Unauthorized`,
`ReadClock`) and storing the gauges (`SetTracked`, `SetLocked`). A scrape of
`/metrics` refreshes twice, in `metrics_auth` and before it renders. The sum
`now + lockout_duration` panics beyond `InstantMax`; the mutex is then poisoned and
every later `lock().expect(..)` ends its request. Whether a token is valid is an
input. Two history variables only record: `lock` until when an IP was locked out, and
`failed` when the last failures of each IP were that the table took in, since its
last lockout or valid token. `LockoutEarned` holds a lockout against them: it
takes as many failures as the threshold, all within one window.

### Realtime

A subscription is refused before it costs anything (`Deny`), takes a permit or is
refused for capacity (`Acquire`), sets up a Pub/Sub connection (`SetupOk`,
`SetupFailed`), and then is a stream that sends its first event, messages, and
reconnects with a growing delay when its connection ends. `ClientGone` drops it
anywhere, with what it holds. All streams listen to one channel; messages are
numbered in the order of publication, and `Break` loses any suffix of what was on
its way.

### Server

A connection (HTTP/1.1, the only version in the build) is closed, open between
requests, or has a request that is queued for its route's semaphore, is being read,
handled or streamed. `Router::layer` gives each method of each API route a
`ConcurrencyLimit` of its own, `LimitOf`; the permit is taken before the body is read
and goes with the response future (`EndRequest`), to the head of the queue. A handler
is one step (`Handle`), since the other modules model it and show that it ends; only
`/readyz` is more, one step per target (`ReadTarget`), because `targets_ready` reads
one counter after the other while `Supervise` moves them. After `Signal` no
connection is accepted, each is told once (`Notice`), which closes it when idle and
else after its response, and `Stop` comes when all are closed. axum, hyper and tower
are external and modelled from how `main` uses them. The limit of each of the four
API routes is shown to implement `Limiter` (`RoutesAreLimited`).

### SecurityPolicy

The complete lists of `src/commands.rs`, the derivation of the blocklist, the
start-up validation, and the chain of checks of `parse_command_array` over batches.
An argument is its JSON kind, its word after trimming and upper-casing, whether it
was spelled that way, and its length. `POST /` is a batch of one; unlike
`parse_command_list` it does not consult `RRB_MAX_PIPELINE_COMMANDS`, which makes no
difference unless that limit is 0.

### ClientIp, Startup

An address is its bits, so that masks are computed as the code does, shift and all
(`PrefixMask`, `Contains`). The text of an address in a header is what the parsers
tell apart: brackets, and what follows. `Startup` is a machine because the code is
one: `CheckSettings` is `from_env` up to the targets, `LoadEnvTarget` or `OpenFile`,
`TakeTarget`, `TakeToken` and `CloseTarget` are the loader with its three sets of
names and hashes seen so far, `BuildTarget` is `AppState::new`, one target at a time,
and `Listen` the rest of `main`. Every refusal ends in stage `refused`. A number that
does not parse is -1, a name is its trimmed text, a hash is its key and token (no
collisions), a URL that `redis::Client::open` rejects is `"no url"`. `IsSettings` and
`IsAddr`, `IsText` say which values the environment, the token file and a header can
have at all; a text that reads as another text (an IPv6 address with a port and no
brackets) is that other text. `x-forwarded-for` is read as a list (`ListIp`), the
other single-address headers as one value (`HeaderIp`). The constant `MaxPermits` is
tokio's `Semaphore::MAX_PERMITS`: a semaphore with more permits panics, which ends the
start where it is made, in `AppState::new` (`BuildTarget`) or in `main` (`Listen`).

### Response, Handlers

`JsonOf` and its helpers follow `src/redis/value.rs` case by case and give a tree;
`WritesOf` is the sequence of sizes in which serde_json writes it, and `LimitBody`
folds `LimitBody::write` over them. The serializers call themselves on the parts of a
value. Here these calls are the constant operators `RedisJson` and `Writes` (and
`SizeOf`, `NoRepeatedKey` of the reference definitions), and `ResponseAssumption` says
that on all values and texts they are what `JsonOf` and `WritesOf` (`SizeFrom`,
`EachKeyOnce`) give: the equations of the recursion, without a recursive operator,
which the prover could not be used with. `MCHandlers` closes the circle for TLC
(`MCRedisJson` is `JsonOf`, and so on), which then unfolds the recursion, and gives all
replies that are tried, with their parts, as values and texts. Characters that JSON
escapes are left out, which keeps a string's length its length. `ResponseError::Encode` cannot
happen: keys are strings and non-finite numbers are tagged.

`Handlers` follows one request: `Authenticate` (or `Metrics`), the body, `ApplyPolicy`,
`Execute`, `Respond`, or `Subscribe`, each with the denials it counts. A channel
that is not UTF-8 never gets that far: axum's `Path<String>` answers 400 before the
handler is called, so that nobody is authenticated and nothing is counted
(`RejectPath`). The three
command handlers differ in labels and in what an error of one command does, so they
are one chain over `request.route`. The lockout table, execution and the event stream
are other modules' business and give here any answer they can give there. That
`Metrics::render` fails is left out.

## 3. Runs

| Run | Checks | Instance | Distinct states |
|---|---|---|---|
| `pool` | types, counters, probes, wakeups, justified losses; recovery, outage detection, callers served | 2 shards, 1 caller, wrapping indexes and generations | 354,432 |
| `gate` | types, permits, accounting, statuses; every operation ends | 2 operations, 1 permit | 40,035 |
| `gate_timeout_base` | fails: see findings | 2 operations, 1 permit | |
| `target_refinement` | the target implements pool and gate, and keeps them in step | 1 shard, 2 operations, 1 permit | 1,045,038 |
| `target_liveness` | every operation ends behind a pool that may never have a shard | 2 shards, 1 operation | 203,292 |
| `lockout` | lockouts last and are earned within a window, bound, limit | 2 IPs, a table of 1, 2 handlers, 5 instants | 1,954,020 |
| `lockout_poison` | fails: see findings | | |
| `realtime` | capacity, event order; reconnection, delivery | 2 streams, 1 permit, 3 messages | 15,672 |
| `handlers` | sound starts, policy, targets and capabilities, client address, denials, replies | sweeps, see below | 95,521 |
| `server` | fair limiters, no request cut, readiness justified; health routes, queue and shutdown end | 3 connections, 3 routes, 1 permit, 2 targets | 61,945 |
| `server_ready`, `server_limit` | fail: see findings | 2 connections | |

Bounds. Two shards are the least at which supervisors race on the counters and a
scan passes one slot while another changes. Callers of the pool touch nothing of
each other's but the start index, so one caller with every start index shows what
can happen to any; the theorems remove the bound. The widths `IndexMod` and
`GenMod` are small so that both wrap. In the gate there are more operations than
permits, so one waits, is granted or times out while the other ends in each
possible way; longer queues are left to the theorems. The lockout table has fewer
entries than there are IPs, so that it is full; two handlers are enough for one to
come late; the clock (`MaxTime`) runs over a window and a lockout. Realtime has
more streams than permits and enough messages for a loss between two that arrive.
The server has three connections so that one holds the permit, one waits first and
one behind it, or asks for its health; two targets so that one may change after it
was read. One API route is visited, so three of the four limiters stay empty in this
run; that routes do not disturb each other is left to the theorem.

The inputs of `handlers` are sweeps: each varies one part and keeps the rest plain.
Settings: every number at -1, 0, 1, 2 and 3, where 3 is more than a semaphore
holds, with the lockout on and off; one fault or
none in each place of a token file of two targets, with every pair of a repeated,
disabled, upper-case or malformed hash; all environments of `RRB_MODE=env`; one
network with every prefix. Requests: every token and form of the Authorization header
on every route; every body; every spelling of an address and all mixes of the five
headers, from peers inside and outside the network; a batch for every list and limit
of the policy under all seven kinds of token, six allow lists and three block lists;
maps with every pair of 15 keys, in both encodings; and replies under every limit from
1 to 60 bytes, so that each write of a reply is the first that does not fit. Addresses
have 3 and 2 bits, which leaves every prefix, both ends included.
Where a run may end because every operation happens once, its configuration says
so and does not check for deadlock.

Symmetry is used in the runs `target_refinement` and `lockout`, which check
invariants and step properties only, never with liveness.

Fairness. Supervisors: weak fairness of their steps, as every sleep, probe (2 s)
and connection attempt (1 s, two retries) is bounded by a timer and the runtime
polls what is ready. Callers: weak fairness inside `connection()`. Gate: weak
fairness of time and of the steps whose timer fired or that were woken; nothing is
assumed of Redis. In the target the request timer has strong fairness: it may be
disabled for a moment each time its caller is woken to scan in vain, but the
runtime polls the timer at every such poll and never lets it starve. Realtime:
weak fairness of each stream, as the client reads it; clients need not ever leave.
Server: handlers end, tasks see the signal and `serve` returns, each with weak
fairness; clients owe nothing, neither a body nor a close, and where a property needs
them to, it says so (`QueuedIsServed`, `ShutdownEnds`).

## 4. Findings

Four runs refute what the repository says of itself:

- `gate_timeout_base`: the request timeout starts before the permit is acquired,
  not after (`src/redis/execute.rs:131`, `README.md:284`).
- `lockout_poison`: a very large lockout duration panics with the mutex held
  (`src/auth/lockout.rs:127`, the `expect` at line 93).
- `server_ready`: `/readyz` is 503 while any target has no shard, although all are
  loaded (`src/app/state.rs:207`, `README.md:388`).
- `server_limit`: `RRB_MAX_CONCURRENCY` bounds each API route and not their sum
  (`src/main.rs:59`, `README.md:274`).

In four places a document says otherwise than a property that holds, so that a passing
run shows the code's side of the disagreement:

- `handlers`, `WithinLimit`: a reply above `RRB_MAX_RESPONSE_BYTES` is answered 502 and
  not returned (`src/app/response.rs:98`), while `docs/THREAT_MODEL.md:491` expects the
  bridge to return a very large value, and lines 94 and 636 say that nothing limits the
  size of a response.
- `handlers`, `DenialsCounted`: `README.md:409` calls `rrb_request_denied_total` the
  denials before Redis. It also counts `response_too_large`, after Redis ran the
  command (`src/app/handlers.rs:57`), and it misses a channel that is not UTF-8, which
  is answered before the handler (`src/app/realtime.rs:25`).
- `gate`, `SaturationIs429`: with every shard dropped an operation waits in
  `connection()` with its permit and ends in 504 (`src/redis/execute.rs:187`), where
  `README.md:390` says 503.
- `realtime`, `CapacityExact`: a stream whose Pub/Sub connection closes reconnects and
  keeps its permit (`src/app/realtime.rs:144`), where `README.md:276` and
  `docs/THREAT_MODEL.md:176` say that it gives it up.

A smaller one can be read off `AuthLockout`: a handler that stores an old count after a
scrape's refresh makes `/metrics` show a number of tracked IPs that is not current
(`SetTracked`). No document promises more.

## 5. Proofs

All theorems hold for every value of the constants that the named assumptions
admit, and TLC evaluates these on every instance it checks:

| Assumption | Says | Because |
|---|---|---|
| `PoolAssumption` | at least one shard; counters of any width, a generation of at least two values | the start refuses 0 shards; the counters are machine integers |
| `GateAssumption` | finitely many operations, at least one permit, an acquire timeout below the request timeout | the start refuses all else |
| `CallersAreRequests` | the pool's callers are the gate's operations | `execute_operation` is the only caller |
| `RealtimeAssumption` | finitely many subscriptions, at least one permit, a first backoff not above the last | the start; two constants of the code |
| `LockoutAssumption` | window, duration and table size above zero, finitely many IPs | the start (`LockoutOk`) |
| `PolicyAssumption` | no command of the allow list is empty; batches are sequences of commands of arguments; limits are naturals | `parse_command_list` drops empty names; serde |
| `PermitsAssumption` | the most permits of a semaphore are a natural number | a constant of tokio |
| `AddressAssumption` | addresses have at least one bit | they have 32 and 128 |
| `ResponseAssumption` | every value and text comes with its parts; the JSON, writes and size of each are made of those of its parts; a size is a natural number, so no text contains itself | `redis::Value` and the output of serde_json are finite trees |
| `HandlersAssumption` | environments, token files and requests have the shape their parsers give them, of any size and content; `POST /` has one command, and Redis has an item for each command (`IsBatch`) | serde, `parse_env_or_default`, the header parsers, the redis crate |
| `ServerAssumption` | finitely many connections, a limit above zero, at least one target | the start |

**ConnectionPool.** The inductive invariant is
`PoolInv == PoolTypeOK /\ SlotDiscipline /\ AvailableExact /\ ScanSound`.
`SlotDiscipline` ties the position of a supervisor to its slot (full while probing
or announcing, empty while connecting, and the copied generation the current one);
it is what makes `disconnected()` always find the slot it probed, and bounds
`failed_probes` by the history. `ScanSound` is what `NoLostWakeup` needs to be
inductive: it says what an up-to-date caller already knows half-way through its
scan: every slot it has passed is empty or not yet announced, a slot it is about
to clone is still full or its loss is about to be announced. `ScanCoversShards`
shows that the modular scan reads every shard from any start index. From `PoolInv`
follow `PoolTypeCorrect`, `AvailableIsExact`, `AvailableBounded`,
`ProbesHoldCurrentSlot`, `WakeupsAreNotLost` and, as an action property,
`LossIsJustified`.

**OperationGate.** `GateInv` adds `StagesAgree` to the checked invariants: no
answer before the inner future ends, no permit before one is given, one from then
on. Every way an operation ends is an instance of `End` (`EndCases`), so each lemma
treats `End` once, with one case for each of a permit set free, a permit handed on
and a place left in the queue. Cardinalities move by `FS_AddElement` and
`FS_RemoveElement`.

**RedisTarget.** `TargetImplementsPool` and `TargetImplementsGate` map every step
to a step or a stutter of the part, so that every theorem about pool and gate holds
of a target (`TargetIsSound`); `TargetJoined` rests on the types so obtained. With the
gate's permits it gives what neither part says alone: `operation_limit` bounds the
operations inside the pool (`TargetLoadIsBounded`).

**Realtime.** `RealtimeInv` adds two facts to `RealtimeTypeOK` and `CapacityExact`.
`EventsStart` says that a stream's events begin with its first poll; `StreamsInOrder`
strengthens `EventsInOrder` by what waits in the buffer: it is sorted, newer than
every event and already published, so that the next message may be sent or published.
`InOrder` and its lemmas (publish, cut, drop, first event, send) treat one stream as a
pair of sequences; `StageMove` says how a change of stage moves a count. Of it follow
`RealtimeTypeCorrect` (with the cap of the backoff), `CapacityIsExact` and
`EventsAreInOrder`.

**AuthLockout.** `LockoutInv` joins what the run checks with `UnlockedBelowThreshold`
(a count that is not yet a lockout is below the threshold) and is inductive once
`LockoutTypes` adds that no handler holds a time ahead of the clock, which is what
keeps a late handler from taking a running lockout for a stale entry. Lemmas on the
map (`Keep`, `Put`, cleanup, room, window, count) say what each helper does to an
entry and to the size of the table; `RecordFailureAt` is treated case by case with
them, any number of handlers at any place. `LimitMeansFullTable` is an action
property from the same invariant. `LockoutsAreEarned` needs one more, `WindowInv`: an
entry that is not locked counts no more failures than are recorded of its IP, and the
last that many of them lie between the start of its window and the window's end. This is
the half of `RecordFailureAt` that resets a count when its window is over: without the
reset the count would run on over failures of older windows. The lemmas from
`RecentTimes` to `WindowStep` carry it through a failure tracked, a lockout and a
cleanup.

**SecurityPolicy.** `PolicyInv` says that no allowed name is empty, that
`validate` accepted the lists of a bridge that judges, and that a judged batch is
`ParseCommandList` of it. Lemmas show that one command passes the
chain of `parse_command_array` exactly when the documented policy grants it, with
the real command lists of `src/commands.rs`.

**Server.** `ServerInv` ties each connection to its route's semaphore: `Limited`
says of a route that its queue is exactly its queued connections, none twice, that
free permits and holders make up the limit, and that none is free while one waits.
`ProbesAgree` says of a readiness request that the targets it has passed, and those up
now, were up during it. The end of a request frees a permit, hands it to the head of
the queue or leaves the queue; `EndRequestEffect` treats the three once for every
caller. `LimiterSteps` says for any route that such a step is one of `Limiter`, and
`RoutesImplementLimiter` cites it for each of the four instances (one instance with the
route as its parameter is beyond this version of the prover). `EveryRouteIsLimited` is
the bound that follows, for all routes at once.

**Handlers.** `HandlersInv == StartInv /\ RequestInv`. `StartInv` says stage by stage
what the loader has read and checked: which part of the file is known to be sound,
that the three sets of names and hashes are exactly those of the part read, that
the targets built so far and the token table are those of it, and, on refusal, that the
configuration is not sound. So `StartIsSound` holds for files of any number of targets
and tokens, and `EntriesAgree` can compare the table with the operator's own entries:
the loader checks the file in one order and `AppState::new` builds the table in
another, and a repeated or disabled hash must not come between. `RequestInv` says
what a request was routed, counted and run as. `HandlersImplementPolicy` maps the
start and `ApplyPolicy` to the steps of `SecurityPolicy`, so that `BatchesAreDecided`
and `HardDeniesHold` are true of the bridge. For `TheClientIsCharged`, `MaskIs` and
`MaskCompares` show that `network & mask = ip & mask` is agreement in the first bits,
for every width and every prefix from 0 to the width, and `FirstAddrIs` .. `ForwardedIs`
that the nested `find_map`s over five headers give the first readable address in the
documented order. `ServedAsAssumed` ties the parts together: the settings of a bridge
that serves satisfy the assumptions of the table above, so that each theorem about a
part applies to every bridge that starts.

**Replies.** `ReplyProofs` has two halves. The first is about `Response` alone. What a
recursion gives is shown by induction, and the induction is carried out on sizes: among
the texts that fail there would be one of the least size (`LeastNatural`), but its parts
are smaller (`JsonInduction`, `ArrayAdds`, `ObjectAdds`). The sums and concatenations
over the parts of a text are functions defined from each number to the next
(`StepsExist`, `TotalIs`, `SumsAgree`). So `WritesAddUp`: the sizes of the writes of a
text add up to its size; `LimitIsOnTheSum`: the writer of `LimitBody::write` is exceeded
after a sequence of writes exactly if their sum is above the limit, since what was
written before the first refusal is the sum so far; and `ValuesOnce`: no object in the
JSON of a value has a key twice. There `RedisMapOnce` is the case that matters: a map is
written as an object only if `object_keys` found all keys different (`KeysDiffer`), and
otherwise as a tagged list of pairs. The second half brings this to the handlers.
`ReplyInv` adds to `HandlersInv` that nothing is returned before the answer, that a
batch that is sent is sent whole (`JudgedWhole`), and that the answer is the reply of
all its items, if it fits. `RepliesAreWhole` and `NoEntriesAreLost` follow.
`HandlersDecideAsDocumented` carries the policy's theorems over to the handlers along
`HandlersImplementPolicy`, and `HardDeniedRunsAsGranted` joins it with `TokensAreRouted`:
from the operator's entry for a token to the commands its target gets.

Proof attempts changed the model where it could not be reasoned about, and nowhere
what it says: a request leaves a queue at its index instead of by a filter
(`Server`, `Limiter`), the first address is the one at the least index (`ClientIp`), the
shape of inputs is stated (`IsSettings`, `IsRequest`, `Arguments`), and the recursion of
`Response` is stated by its equations.

Only model-checked: the liveness properties `RecoversFully`, `OutageDetected`,
`CallersServed`, `EveryOperationEnds`, `StreamsRecover`, `MessagesArrive`,
`HealthAnswers`, `QueuedIsServed` and `ShutdownEnds`, since fairness is out of the
prover's reach. Every other property of a passing run is stated by a theorem.

## 6. Not modelled, and what is left

Every part in the table of section 1 is modelled. Left out on purpose: log lines and
message texts, SSE framing and the characters of a channel name, JSON escapes, the
constant-time comparison and the hash functions, the warning about file permissions,
the registration and rendering of metrics and counters that nothing reads, a start
that runs out of memory over a very large number of shards, and a
command that Redis still runs after its operation timed out (Redis is outside).

Left to prove: nothing that a run checks and the prover can state. That operators with
the equations of `ResponseAssumption` exist at all is induction over values, and is
assumed; TLC evaluates the assumption on every reply it tries.
