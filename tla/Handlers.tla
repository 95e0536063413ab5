------------------------------ MODULE Handlers ------------------------------
(***************************************************************************)
(* The handlers of POST /, /pipeline, /multi-exec and /subscribe and of    *)
(* GET /metrics (src/app/handlers.rs, src/auth/request.rs) on a bridge     *)
(* that has started: client address, authentication, body, policy,         *)
(* execution and answer.  It joins Startup, ClientIp, SecurityPolicy and   *)
(* Response.  The lockout table is AuthLockout's, execution OperationGate's*)
(* and the event stream Realtime's: here they give any answer they can.    *)
(*                                                                         *)
(* One request is followed to its answer: handlers share nothing but what  *)
(* those modules model.                                                    *)
(***************************************************************************)
EXTENDS Startup, Response

CONSTANTS
    Environments,    \* settings and policy configurations that are tried
    RequestsFor(_)   \* the requests that are tried under some settings

VARIABLES
    request,         \* the request, NoRequest before it comes
    route,           \* AuthRoute: its target and capabilities
    charged,         \* the address record_failure was called with
    cleared,         \* the address record_success was called with
    status,          \* the HTTP status of the answer, 0 before it
    denied,          \* request_denied_total: labels counted by this request
    command_denied,  \* command_denied_total: the same
    ran,             \* what was handed to the target: [target, commands]
    body             \* the JSON body of a successful answer

requestVars == <<request, route, charged, cleared, status, denied, command_denied, ran, body>>
handlerVars == <<policyVars, startupVars, requestVars>>

CommandRoutes == {"command", "pipeline", "multi_exec"}
NoRequest == [route |-> "none"]
NoRoute   == [target |-> "", caps |-> {}]
NoRun     == [target |-> "", commands |-> <<>>]
NoBody    == [json |-> "none"]

\* The batch of a request and what Redis has for it, one item for each command.
IsBatch(r) ==
    LET items == [k \in 1 .. Len(r.list) |-> r.redis[k]]
    IN  /\ r.list \in Batches
        /\ r.route = "command" => Len(r.list) = 1
        /\ \A k \in 1 .. Len(items) : items[k].ok => items[k].value \in RedisValues
        /\ \A base64 \in BOOLEAN : ResponseJson(r.route, items, base64) \in JsonTexts

\* A request: an address at the other end, a path, headers, a body.  A channel is
\* one validate_channel takes, one it does not, or no text at all once the escapes
\* of the path are undone.
IsRequest(r) ==
    /\ r.route \in CommandRoutes \cup {"subscribe", "metrics"}
    /\ IsAddr(r.peer)
    /\ r.channel \in {"good", "bad", "not utf-8"}
    /\ r.route \in CommandRoutes => IsBatch(r)
    /\ LET h == r.headers
       IN  /\ \A values \in {h.cf_connecting_ip, h.true_client_ip, h.x_forwarded_for, h.x_real_ip} :
                 IsSeq(values) /\ \A k \in 1 .. Len(values) : IsText(values[k])
           /\ \A values \in {h.cf_connecting_ip, h.true_client_ip, h.x_real_ip} : Len(values) <= 1
           /\ IsSeq(h.forwarded)
           /\ \A e \in 1 .. Len(h.forwarded) :
                 /\ IsSeq(h.forwarded[e])
                 /\ \A k \in 1 .. Len(h.forwarded[e]) : IsText(h.forwarded[e][k].value)

ASSUME HandlersAssumption ==
    \A e \in Environments :
        /\ e = [settings |-> e.settings, allowed |-> e.allowed, extra |-> e.extra]
        /\ IsSettings(e.settings)
        /\ \A r \in RequestsFor(e) : IsRequest(r)

HandlersInit ==
    /\ \E e \in Environments :
          settings = e.settings /\ allowed = e.allowed /\ extra = e.extra
    /\ PolicyInit
    /\ StartupInit
    /\ request = NoRequest
    /\ route = NoRoute
    /\ charged = NoAddr
    /\ cleared = NoAddr
    /\ status = 0
    /\ denied = <<>>
    /\ command_denied = <<>>
    /\ ran = NoRun
    /\ body = NoBody

-----------------------------------------------------------------------------
(* A request.                                                              *)

Arrive ==
    /\ stage = "serving"
    /\ request' \in RequestsFor([settings |-> settings, allowed |-> allowed, extra |-> extra])
    /\ stage' = "auth"
    /\ UNCHANGED <<policyVars, settings, load, targets, routes, route, charged, cleared,
                   status, denied, command_denied, ran, body>>

\* The handler goes on, and has not answered yet.
GoOn(next) ==
    /\ stage' = next
    /\ UNCHANGED <<settings, load, targets, routes, request, status>>

Answer(code) ==
    /\ stage' = "answered"
    /\ status' = code
    /\ UNCHANGED <<settings, load, targets, routes, request>>

\* Mutant: a label copied from the first handler.
MutCount(reason) == Append(denied, <<"command", reason>>)

\* Metrics::request_denied
Count(reason) == Append(denied, <<request.route, reason>>)

\* AppState::client_ip
ClientIp == Resolve(TrustedProxies, request.headers, request.peer)

\* bearer_token, as a set of at most one token.
BearerToken ==
    LET a == request.authorization
    IN  IF a.words = 2 /\ a.scheme = "bearer" /\ Trim(a.token) # "" THEN {Trim(a.token)} ELSE {}

\* hash_token: the key, in file mode only.
HashOf(token) ==
    IF settings.mode = "file" THEN HmacSha256(Trim(settings.hash_token), token) ELSE Sha256(token)

\* AppState::unauthorized: the failure is recorded, and the answer is 401, or
\* 429 when the client is or gets locked out.
Unauthorized ==
    /\ \E code \in {401, 429} : (code = 429 => settings.auth_lockout_failures > 0) /\ Answer(code)
    /\ charged' = ClientIp
    /\ denied' = Count("auth")
    /\ UNCHANGED <<policyVars, route, cleared, command_denied, ran, body>>

\* The channel of the path is not UTF-8.
PathRejected == request.route = "subscribe" /\ request.channel = "not utf-8"

\* Path(channel), an extractor, turns it away before the handler is called: nobody
\* is authenticated and nothing is counted.
RejectPath ==
    /\ stage = "auth"
    /\ PathRejected
    /\ Answer(400)
    /\ UNCHANGED <<policyVars, route, charged, cleared, denied, command_denied, ran, body>>

\* bridge_auth and what command_auth and realtime_auth add to it.
Authenticate ==
    /\ stage = "auth"
    /\ request.route # "metrics"
    /\ ~PathRejected
    /\ LET known == {t \in BearerToken : HashOf(t) \in DOMAIN routes}
       IN  \/ known = {} /\ Unauthorized
           \/ \E t \in known :
                 /\ cleared' = ClientIp
                 /\ LET r == routes[HashOf(t)]
                        may == IF request.route = "subscribe" THEN "realtime" \in r.caps
                               ELSE r.caps # {}
                    IN  \/ /\ may /\ GoOn("body")
                           /\ route' = r
                           /\ UNCHANGED denied
                        \/ /\ ~may /\ Answer(403)
                           /\ denied' = Count("auth")
                           /\ UNCHANGED route
                 /\ UNCHANGED <<policyVars, charged, command_denied, ran, body>>

\* The metrics handler; without RRB_METRICS_TOKEN it answers nobody.
Metrics ==
    /\ stage = "auth"
    /\ request.route = "metrics"
    /\ \/ /\ settings.metrics_token = ""
          /\ Answer(401)
          /\ denied' = Count("auth")
          /\ UNCHANGED <<policyVars, route, charged, cleared, command_denied, ran, body>>
       \/ /\ settings.metrics_token # ""
          /\ settings.metrics_token \notin BearerToken
          /\ Unauthorized
       \/ /\ settings.metrics_token # ""
          /\ settings.metrics_token \in BearerToken
          /\ Answer(200)
          /\ cleared' = ClientIp
          /\ UNCHANGED <<policyVars, route, charged, denied, command_denied, ran, body>>

\* The body was read before the handler was called; what came of it is looked
\* at only now.
InvalidJson ==
    /\ stage = "body"
    /\ ~request.json
    /\ Answer(400)
    /\ denied' = Count("invalid_json")
    /\ UNCHANGED <<policyVars, route, charged, cleared, command_denied, ran, body>>

TakeBody ==
    /\ stage = "body"
    /\ request.json
    /\ request.route \in CommandRoutes
    /\ Receive(route.caps, request.list)
    /\ GoOn("policy")
    /\ UNCHANGED <<route, charged, cleared, denied, command_denied, ran, body>>

\* The kind command_denied is called with.
Kind == IF request.route = "command" THEN "single" ELSE request.route

\* Mutant: what the policy says of a batch is counted and not enforced.
MutApplyPolicy ==
    /\ stage = "policy"
    /\ Judge
    /\ GoOn("execute")
    /\ denied' = IF sent' = Denied THEN Count("policy") ELSE denied
    /\ UNCHANGED <<route, charged, cleared, command_denied, ran, body>>

\* parse_command or parse_command_list.
ApplyPolicy ==
    /\ stage = "policy"
    /\ Judge
    /\ \/ /\ sent' = Denied
          /\ Answer(400)
          /\ command_denied' = Append(command_denied, <<route.target, Kind>>)
          /\ denied' = Count("policy")
       \/ /\ sent' # Denied
          /\ GoOn("execute")
          /\ UNCHANGED <<denied, command_denied>>
    /\ UNCHANGED <<route, charged, cleared, ran, body>>

\* What Redis answers to the commands: one item each.
Items == [k \in 1 .. Len(sent) |-> request.redis[k]]

\* execute_command, execute_pipeline, execute_transaction.  A pipeline keeps the
\* errors of its commands; elsewhere one is the answer to the request: 503 for
\* what backend_unavailable knows, 400 for the rest.  Saturation and timeouts are
\* OperationGate's.
Execute ==
    /\ stage = "execute"
    /\ ran' = [target |-> route.target, commands |-> sent]
    /\ \/ /\ request.route = "pipeline" \/ \A k \in 1 .. Len(sent) : Items[k].ok
          /\ GoOn("reply")
       \/ \E code \in {400, 429, 503, 504} : Answer(code)
    /\ UNCHANGED <<policyVars, route, charged, cleared, denied, command_denied, body>>

\* AppState::base64
Base64 == \E k \in 1 .. Len(request.encoding) : request.encoding[k] = "base64"

\* response_or_denied
Respond ==
    /\ stage = "reply"
    /\ LET json == ResponseJson(request.route, Items, Base64)
       IN  \/ /\ ~Exceeds(json, settings.max_response_bytes)
              /\ Answer(200)
              /\ body' = json
              /\ UNCHANGED denied
           \/ /\ Exceeds(json, settings.max_response_bytes)
              /\ Answer(502)
              /\ denied' = Count("response_too_large")
              /\ UNCHANGED body
    /\ UNCHANGED <<policyVars, route, charged, cleared, command_denied, ran>>

\* subscribe, up to the event stream.
Subscribe ==
    /\ stage = "body"
    /\ request.json
    /\ request.route = "subscribe"
    /\ LET valid == request.channel = "good"
       IN  \/ request.list # <<>> /\ Answer(400) /\ denied' = Count("invalid_body")
           \/ request.list = <<>> /\ ~valid /\ Answer(400) /\ denied' = Count("channel")
           \/ request.list = <<>> /\ valid /\ Answer(429) /\ denied' = Count("capacity")
           \/ request.list = <<>> /\ valid /\ Answer(503) /\ denied' = Count("backend")
           \/ request.list = <<>> /\ valid /\ Answer(504) /\ denied' = Count("timeout")
           \/ request.list = <<>> /\ valid /\ Answer(200) /\ UNCHANGED denied
    /\ UNCHANGED <<policyVars, route, charged, cleared, command_denied, ran, body>>

HandlersNext ==
    \/ StartupNext /\ UNCHANGED requestVars
    \/ Arrive \/ RejectPath \/ Authenticate \/ Metrics \/ InvalidJson \/ TakeBody
    \/ ApplyPolicy \/ Execute \/ Respond \/ Subscribe

HandlersSpec == HandlersInit /\ [][HandlersNext]_handlerVars

-----------------------------------------------------------------------------
(* Properties.                                                             *)

\* The policy as specified by SecurityPolicy: no handler judges a batch twice,
\* hands a batch to Redis that was not judged, or judges it for another token.
ImplementsPolicy ==
    /\ PolicySpec
    /\ [](ran # NoRun => phase = "judged" /\ sent # Denied /\ ran.commands = sent)

\* The operator's entries for a token: pairs of a target and capabilities.
EntriesOf(token) ==
    IF settings.mode = "env"
      THEN IF token = settings.env.token.word THEN {<<"env", settings.env.token_type>>} ELSE {}
      ELSE {<<settings.file.targets[p[1]].rrb_id.word, TokenAt(p).token_type>> : p \in
              {q \in Places : /\ TokenAt(q).enabled
                              /\ TokenAt(q).hash.digest =
                                    <<"hmac", settings.hash_token.word, token>>}}

Presented ==
    IF request.authorization.words = 2 /\ request.authorization.scheme = "bearer"
      THEN request.authorization.token.word ELSE ""

\* A request runs on the target whose enabled entry its token has, with the
\* capabilities of that entry, and on no other; a token with no enabled entry,
\* or a disabled one, reaches no target, and one with an entry is not turned away
\* as unknown.  (/metrics has a token of its own; a path that cannot be read is turned
\* away whoever asks.)
RunsWhereConfigured ==
    stage = "answered" /\ request.route # "metrics" =>
        LET entries == IF Presented = "" THEN {} ELSE EntriesOf(Presented)
        IN  /\ ran # NoRun => \E e \in entries :
                  /\ entries = {e}
                  /\ ran.target = e[1]
                  /\ caps = IF e[2] = NoType THEN {"command"} ELSE e[2] \ {""}
            /\ (charged # NoAddr) = (entries = {} /\ ~PathRejected)

\* A text a proxy may write for an address, and the address it stands for.
Readable ==
    ({FALSE} \X {FALSE} \X Families \X {"none"})
      \cup ({FALSE} \X {FALSE} \X {"v4"} \X {"port", "colon"})
      \cup ({TRUE} \X {TRUE} \X Families \X {"none", "port", "colon", "junk"})

\* The places of the addresses in the headers: the rank of the header in the
\* README's list, the entry (of Forwarded), the place in it.
Header(n) == <<request.headers.cf_connecting_ip, request.headers.true_client_ip,
               request.headers.x_forwarded_for, request.headers.x_real_ip>>[n]
Fields ==
    LET entries == request.headers.forwarded
    IN  (UNION {{<<n, 1, k>> : k \in 1 .. Len(Header(n))} : n \in 1 .. 4})
          \cup (UNION {{<<5, e, k>> : k \in {j \in 1 .. Len(entries[e]) : entries[e][j].key = "for"}} :
                          e \in 1 .. Len(entries)})
TextAt(p) == IF p[1] = 5 THEN request.headers.forwarded[p[2]][p[3]].value ELSE Header(p[1])[p[3]]

Named == {p \in Fields : LET t == TextAt(p)
                         IN  <<t.open, t.close, t.addr.family, t.tail>> \in Readable}

Before(p, q) ==
    \/ p[1] < q[1]
    \/ p[1] = q[1] /\ p[2] < q[2]
    \/ p[1] = q[1] /\ p[2] = q[2] /\ p[3] < q[3]

\* The addresses named first of all: one, or none.
NamedFirst == {TextAt(p).addr : p \in {q \in Named : \A r \in Named : ~Before(r, q)}}

\* The peer is in a configured network: it agrees with it in the whole prefix.
FromProxy ==
    /\ settings.trust
    /\ \E p \in Proxies :
          /\ p.network.family = request.peer.family
          /\ \A k \in 1 .. (IF p.slash THEN p.prefix ELSE Len(p.network.bits)) :
                p.network.bits[k] = request.peer.bits[k]

\* A failure is charged to, and a success clears, the client the README names:
\* the peer itself unless it is a trusted proxy, and then the first readable
\* address in the documented order of the headers.  "Requests from untrusted
\* peers cannot control the client IP used for authentication lockout."  And no
\* request both fails and succeeds.
ChargesTheClient ==
    stage = "answered" =>
        \E client \in IF FromProxy /\ Named # {} THEN NamedFirst ELSE {request.peer} :
            /\ charged \in {NoAddr, client} /\ cleared \in {NoAddr, client}
            /\ charged = NoAddr \/ cleared = NoAddr

\* Each answer of a handler other than what Redis or its target gave is counted
\* once, under its own route, and only then: a request is denied or it runs, but for
\* a reply that ran and was too large to return.  What an extractor answers before
\* the handler is counted nowhere.
DenialsCounted ==
    stage = "answered" =>
        /\ (denied = <<>>) = \/ status = 200
                             \/ ran # NoRun /\ status # 502
                             \/ PathRejected
        /\ \A k \in 1 .. Len(denied) : k = 1 /\ denied[k][1] = request.route
        /\ (command_denied # <<>>) = (sent = Denied)
        /\ status = 502 => ran # NoRun

\* A reply is returned whole or not at all: 200 exactly when its text is within
\* RRB_MAX_RESPONSE_BYTES, however many writes it takes.
WithinLimit ==
    stage = "answered" /\ ran # NoRun /\ status \in {200, 502} =>
        LET json == ResponseJson(request.route, Items, Base64)
        IN  /\ (status = 200) = (SizeOf(json) <= settings.max_response_bytes)
            /\ status = 200 => body = json

\* No entry of a Redis map is lost in JSON, where a key that comes twice is
\* dropped by most readers: not for keys of different types that print alike,
\* nor for keys that base64 makes alike.
NoEntryLost == stage = "answered" /\ body # NoBody => NoRepeatedKey(body)
=============================================================================
