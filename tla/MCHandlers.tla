----------------------------- MODULE MCHandlers -----------------------------
(* Instances of Handlers for TLC.  Settings and requests are sweeps: each  *)
(* set varies one part of the configuration or of the request around a     *)
(* plain one, and the requests that are tried depend on the settings.      *)
EXTENDS Handlers

-----------------------------------------------------------------------------
(* Addresses: IPv4 of three bits and IPv6 of two.                          *)

V4(a, b, c) == [family |-> "v4", bits |-> <<a, b, c>>]
V6(a, b)    == [family |-> "v6", bits |-> <<a, b>>]
Peer        == V4(1, 0, 1)

Text(addr) == [open |-> FALSE, close |-> FALSE, addr |-> addr, tail |-> "none"]
Unknown    == Text(NoAddr)
Texts(addrs) ==
    {t \in [open : BOOLEAN, close : BOOLEAN, addr : addrs, tail : {"none", "port", "colon", "junk"}] :
        IsText(t)}

NoHeaders == [cf_connecting_ip |-> <<>>, true_client_ip |-> <<>>, x_forwarded_for |-> <<>>,
              x_real_ip |-> <<>>, forwarded |-> <<>>]
Entry(key, t) == <<[key |-> "proto", value |-> Text(V4(1, 1, 1))], [key |-> key, value |-> t]>>

\* Every text, in the list header and in Forwarded; and every mix of headers.
TextHeaders ==
    {[NoHeaders EXCEPT !.x_forwarded_for = <<Unknown, t, Text(V4(0, 0, 0))>>] :
        t \in Texts({NoAddr, V4(1, 1, 0), V6(0, 1)})}
      \cup {[NoHeaders EXCEPT !.forwarded = <<Entry(k, t), Entry("for", Text(V4(0, 0, 1)))>>] :
              k \in {"for", "by", ""}, t \in Texts({V4(1, 1, 0), V6(0, 1)})}
MixedHeaders ==
    [cf_connecting_ip : {<<>>, <<Unknown>>, <<Text(V4(0, 0, 1))>>},
     true_client_ip   : {<<>>, <<Text(V4(0, 1, 0))>>},
     x_forwarded_for  : {<<>>, <<Unknown>>, <<Text(V4(0, 1, 1)), Text(V6(1, 1))>>},
     x_real_ip        : {<<>>, <<Text(V4(1, 0, 0))>>},
     forwarded        : {<<>>, <<Entry("for", Text(V4(1, 1, 1)))>>}]

-----------------------------------------------------------------------------
(* Settings.                                                               *)

Name(w)   == [word |-> w, plain |-> TRUE]
Padded(w) == [word |-> w, plain |-> FALSE]
Hex(key, token, form) == [digest |-> HmacSha256(key, token), form |-> form]
Token(id, hash, type, on) == [id |-> id, hash |-> hash, token_type |-> type, enabled |-> on]
Target(id, tokens) ==
    [rrb_id |-> Name(id), connection_string |-> Name("redis://a"), operation_limit |-> 1,
     connection_shards |-> 1, tokens |-> tokens]

AppToken == Token(Name("app"), Hex("key", "t1", "lower"), NoType, TRUE)
JobToken == Token(Name("job"), Hex("key", "t2", "upper"), {"realtime", ""}, TRUE)
OffToken == Token(Name("off"), Hex("key", "t3", "lower"), {"command"}, FALSE)

File(ts) == [readable |-> TRUE, version |-> 1, targets |-> ts]
TwoTargets == File(<<Target("a", <<AppToken, OffToken>>), Target("b", <<JobToken>>)>>)

Plain == [mode |-> "file", parse |-> TRUE, bind |-> TRUE, trust |-> FALSE, proxies |-> <<>>,
          max_concurrency |-> 1, max_realtime_concurrency |-> 1, request_timeout_ms |-> 2,
          acquire_timeout_ms |-> 1, max_response_bytes |-> 999, auth_lockout_failures |-> 1,
          auth_lockout_window_seconds |-> 1, auth_lockout_seconds |-> 1,
          auth_lockout_max_entries |-> 1, metrics_token |-> "m", hash_token |-> Padded("key"),
          file |-> TwoTargets,
          env |-> [token |-> Padded("t1"), connection_string |-> Name("redis://a"),
                   operation_limit |-> 1, connection_shards |-> 1, token_type |-> NoType]]

\* One number at a time at its edges, with the lockout on and off.
NumberSettings ==
    {[s EXCEPT ![n] = v] : s \in {Plain, [Plain EXCEPT !.auth_lockout_failures = 0]},
                           n \in Numbers, v \in {-1, 0, 1, 2, 3}}
      \cup {[Plain EXCEPT !.mode = "other"], [Plain EXCEPT !.bind = FALSE], [Plain EXCEPT !.parse = FALSE],
            [Plain EXCEPT !.hash_token = Padded("")], [Plain EXCEPT !.hash_token = Name("new")],
            [Plain EXCEPT !.metrics_token = ""], [Plain EXCEPT !.auth_lockout_failures = 0]}

\* One fault, or none, in one place of the token file.
Second(t) == [Plain EXCEPT !.file.targets[2] = t]
FileSettings ==
    {[Plain EXCEPT !.file = f] : f \in {File(<<>>), [TwoTargets EXCEPT !.readable = FALSE],
                                        [TwoTargets EXCEPT !.version = 2]}}
      \cup {Second([Target("b", <<JobToken>>) EXCEPT !.rrb_id = n, !.connection_string = c]) :
              n \in {Padded("a"), Padded(""), Padded("b")},
              c \in {Name("redis://b"), Padded(""), Name("no url")}}
      \cup {Second([Target("b", ts) EXCEPT !.operation_limit = n, !.connection_shards = m]) :
              ts \in {<<>>, <<OffToken>>, <<JobToken>>}, n \in {0, 1, 2, 3}, m \in {0, 1}}
      \cup {Second(Target("b", <<Token(i, h, {"realtime", ""}, on)>> \o rest)) :
              i \in {Padded("app"), Padded(""), Name("x")},
              h \in {Hex("key", t, f) : t \in {"t1", "t2", "t3"}, f \in {"upper", "short"}}
                      \cup {Hex("old", "t1", "lower")},
              on \in BOOLEAN, rest \in {<<>>, <<JobToken>>}}
      \cup {Second(Target("b", <<Token(Name("x"), Hex("key", "t2", "lower"), ty, on)>>)) :
              ty \in {NoType, {""}, {}, {"admin"}, {"command", "admin"}, {"ratelimit", ""}},
              on \in BOOLEAN}

EnvSettings ==
    {[Plain EXCEPT !.mode = "env", !.env.token = t, !.env.connection_string = c,
                   !.env.operation_limit = n, !.env.connection_shards = m, !.env.token_type = ty] :
        t \in {Padded("t1"), Padded("")}, c \in {Name("redis://a"), Padded(""), Name("no url")},
        n \in {0, 1, 3}, m \in {-1, 1}, ty \in {NoType, {""}, {"realtime"}}}

\* One network, with every prefix, or none that is one.
Network(addr, slash, prefix) ==
    [blank |-> FALSE, network |-> addr, slash |-> slash, prefix |-> prefix]
Blank == [Network(NoAddr, FALSE, 0) EXCEPT !.blank = TRUE]
Trusting(ps) == [Plain EXCEPT !.trust = TRUE, !.proxies = ps]
ProxySettings ==
    {Trusting(<<Blank, Network(n, TRUE, k)>>) :
        n \in {Peer, V4(1, 1, 1), V6(1, 0), NoAddr}, k \in -1 .. 4}
      \cup {Trusting(ps) : ps \in {<<>>, <<Blank>>, <<Network(Peer, FALSE, 0)>>,
                                   <<Network(V6(0, 0), FALSE, 0), Network(Peer, TRUE, 3)>>}}

\* For the policy: a token of every kind; for the replies: every limit.
Kinds == <<{"command"}, {"ratelimit"}, {"realtime"}, {"command", "ratelimit"},
           {"command", "realtime"}, {"ratelimit", "realtime"}, Capabilities>>
KindNames == <<"k1", "k2", "k3", "k4", "k5", "k6", "k7">>
PolicySettings ==
    [Plain EXCEPT !.file = File(<<Target("a", [k \in 1 .. 7 |->
        Token(Name(KindNames[k]), Hex("key", KindNames[k], "lower"), Kinds[k], TRUE)])>>)]
Limits == 1 .. 60
ReplySettings == {[Plain EXCEPT !.mode = "env", !.max_response_bytes = n] : n \in Limits \cup {999}}

MCAllowed == {AllowedCommands, {"GET"}, {"GET", "UNKNOWN"}, {"GET", "CONFIG"},
              {"GET", "PUBLISH"}, {}}
MCBlocked == {{}, {"GET", "PUBLISH"}, {"EVAL", "SCRIPT", "XADD"}}

Environment(s) == [settings |-> s, allowed |-> AllowedCommands, extra |-> {}]
MCEnvironments ==
    {Environment(s) : s \in NumberSettings \cup FileSettings \cup EnvSettings
                              \cup ProxySettings \cup ReplySettings}
      \cup {[settings |-> PolicySettings, allowed |-> a, extra |-> b] :
              a \in MCAllowed, b \in MCBlocked}

-----------------------------------------------------------------------------
(* Requests.                                                               *)

Str(w) == [kind |-> "string", word |-> w, plain |-> TRUE, bytes |-> 1]
Odd(w) == [kind |-> "string", word |-> w, plain |-> FALSE, bytes |-> 1]
Long   == [kind |-> "string", word |-> "V", plain |-> TRUE, bytes |-> MaxArgBytes + 1]
Num    == [kind |-> "number", word |-> "", plain |-> TRUE, bytes |-> 1]
Null   == [kind |-> "null", word |-> "", plain |-> TRUE, bytes |-> 0]

\* An allowed command, a hard-denied one, one of each kind of profile, and a
\* word on no list, plainly spelled or not.
Names  == {"GET", "CONFIG", "EVAL", "PUBLISH", "XADD", "UNKNOWN"}
BareCommands == {<<Str(n)>> : n \in Names} \cup {<<Odd(n)>> : n \in Names}
Shapes == {<<>>, <<Num>>, <<Null>>, <<Str("")>>, <<Str("GET"), Str("V")>>,
           <<Str("GET"), Null>>, <<Str("GET"), Long>>, <<Str("GET"), Num>>,
           <<Str("EVAL"), Str("V"), Num, Num>>,
           <<Str("GET"), Str("V"), Num, Num, Num>>}
Scripts == {<<Odd("SCRIPT")>> \o tail : tail \in
              {<<>>, <<Num>>}
                \cup {<<Str(s)>> : s \in {"LOAD", "EXISTS", "FLUSH", "KILL"}}
                \cup {<<Odd(s), Str(m)>> : s \in {"LOAD", "EXISTS", "FLUSH", "DEBUG"},
                                          m \in {"SYNC", "V"}}
                \cup {<<Str(s), Str("SYNC"), Str("V")>> : s \in {"LOAD", "EXISTS", "FLUSH"}}
                \cup {<<Str("FLUSH"), Num>>}}
SingleLists == {<<a>> : a \in BareCommands \cup Shapes \cup Scripts}
Get   == <<<<Str("GET"), Str("V")>>>>
Lists == {<<>>, Get \o Get, Get \o Get \o Get}
           \cup {<<a, b>> : a, b \in BareCommands \cup {<<>>, <<Odd("SCRIPT"), Str("KILL")>>}}
MCBatches == SingleLists \cup Lists

Utf8(text, base64) == [text |-> text, utf8 |-> TRUE, base64 |-> base64]
Raw(base64)        == [text |-> "", utf8 |-> FALSE, base64 |-> base64]
Bulk(bytes) == [kind |-> "bulk", bytes |-> bytes]
Number(text)   == [kind |-> "int", text |-> text]
Ok(v)       == [ok |-> TRUE, value |-> v, message |-> ""]
Failed      == [ok |-> FALSE, value |-> [kind |-> "nil"], message |-> "ERR"]

Hi   == Utf8("hi", "aGk=")
Keys == {[kind |-> "nil"], Number("1"), [kind |-> "bool", text |-> "true"], [kind |-> "big", text |-> "1"],
         [kind |-> "double", text |-> "1.5", finite |-> TRUE],
         [kind |-> "double", text |-> "inf", finite |-> FALSE],
         [kind |-> "simple", bytes |-> Utf8("OK", "T0s=")], [kind |-> "simple", bytes |-> Hi],
         [kind |-> "array", items |-> <<>>], Bulk(Hi), Bulk(Raw("null")), Bulk(Raw("true")),
         Bulk(Utf8("null", "bnVsbA==")), Bulk(Utf8("1", "MQ==")), Bulk(Utf8("aGk=", "YUdrPQ=="))}
Map(k1, k2) == [kind |-> "map", entries |-> <<<<k1, Number("1")>>, <<k2, Bulk(Hi)>>>>]
Nested == {[kind |-> "okay"], [kind |-> "other"], [kind |-> "error", text |-> "ERR x"],
           [kind |-> "verbatim", format |-> "Text", text |-> "hi"],
           [kind |-> "push", name |-> "Message", items |-> <<Number("1")>>],
           [kind |-> "set", items |-> <<Number("1"), Map(Number("1"), Bulk(Utf8("1", "MQ==")))>>],
           [kind |-> "attribute", data |-> Bulk(Hi),
            entries |-> <<<<Bulk(Hi), Map([kind |-> "nil"], Number("2"))>>>>]}

Bearer(token) == [words |-> 2, scheme |-> "bearer", token |-> token]
Ask(r, token, list) ==
    [route |-> r, peer |-> Peer, headers |-> NoHeaders, encoding |-> <<>>, channel |-> "good",
     authorization |-> Bearer(Name(token)), json |-> TRUE, list |-> list,
     redis |-> <<Ok(Number("1")), Failed, Failed>>]

Routes == CommandRoutes \cup {"subscribe", "metrics"}
\* Every token and form of the Authorization header, on every route.
TokenRequests ==
    {Ask(r, t, Get) : r \in Routes, t \in {"t1", "t2", "t3", "t4", "m"}}
      \cup {[Ask(r, "t1", Get) EXCEPT !.authorization = a] : r \in Routes,
              a \in {[words |-> w, scheme |-> s, token |-> t] :
                       w \in {0, 1, 2}, s \in {"bearer", "basic"}, t \in {Padded("t1"), Padded("")}}}
\* The body of / is one command: a list of one.
BodyRequests ==
    {[Ask(r, t, IF r = "command" /\ l = <<>> THEN <<<<>>>> ELSE l) EXCEPT !.json = j, !.channel = c] :
        r \in Routes \ {"metrics"}, t \in {"t1", "t2"},
        l \in {<<>>, Get, <<<<Str("CONFIG")>>>>}, j \in BOOLEAN,
        c \in {"good", "bad", "not utf-8"}}
ProxyRequests ==
    {[Ask(r, "t4", Get) EXCEPT !.headers = h, !.peer = p] :
        r \in {"command", "metrics"}, p \in {Peer, V4(1, 0, 0), V4(0, 0, 1), V6(1, 1)},
        h \in {NoHeaders, [NoHeaders EXCEPT !.x_real_ip = <<Text(V6(0, 0))>>]}}
HeaderRequests ==
    {[Ask("command", "t1", Get) EXCEPT !.headers = h] : h \in TextHeaders \cup MixedHeaders}
PolicyRequests ==
    {Ask(IF Len(l) = 1 THEN "command" ELSE "pipeline", KindNames[k], l) :
        k \in 1 .. 7, l \in MCBatches}
ReplyRequests ==
    {[Ask("command", "t1", Get) EXCEPT !.encoding = e, !.redis = <<Ok(v)>>] :
        e \in {<<>>, <<"gzip", "base64">>}, v \in Nested \cup {Map(k1, k2) : k1, k2 \in Keys}}
LimitRequests ==
    {[Ask(r, "t1", IF r = "command" THEN Get ELSE Get \o Get) EXCEPT
        !.encoding = <<"base64">>, !.redis = <<Ok(Map(Number("1"), Bulk(Hi))), i>>] :
        r \in CommandRoutes, i \in {Ok(Bulk(Raw("/w=="))), Failed}}

MCRequestsFor(e) ==
    CASE e.settings = PolicySettings -> PolicyRequests
      [] e.settings = [Plain EXCEPT !.mode = "env"] -> ReplyRequests
      [] e.settings.max_response_bytes # 999 -> LimitRequests
      [] e.settings = Trusting(<<Network(Peer, FALSE, 0)>>) -> HeaderRequests \cup ProxyRequests
      [] e.settings.trust -> ProxyRequests
      [] e.settings = Plain -> BodyRequests \cup TokenRequests
      [] OTHER -> TokenRequests

-----------------------------------------------------------------------------
(* The recursion of Response, which ends since values are finite, and the  *)
(* values and texts that are tried.                                        *)

MCRedisJson(v, base64) == LET json == JsonOf(v, base64) IN json
MCWrites(j)            == LET writes == WritesOf(j) IN writes
MCSizeOf(j)            == LET size == SizeFrom(j) IN size
MCNoRepeatedKey(j)     == LET once == EachKeyOnce(j) IN once

ItemsOf(r) == [k \in 1 .. Len(r.list) |-> r.redis[k]]
Replied ==
    {<<r.route, ItemsOf(r)>> :
        r \in {q \in TokenRequests \cup BodyRequests \cup ProxyRequests \cup HeaderRequests
                       \cup PolicyRequests \cup ReplyRequests \cup LimitRequests :
                 q.route \in CommandRoutes}}

PartsOf(v) ==
    (IF v.kind \in {"array", "set", "push"} THEN {v.items[k] : k \in 1 .. Len(v.items)} ELSE {})
      \cup (IF v.kind \in {"map", "attribute"}
              THEN UNION {{v.entries[k][1], v.entries[k][2]} : k \in 1 .. Len(v.entries)} ELSE {})
      \cup (IF v.kind = "attribute" THEN {v.data} ELSE {})
JsonParts(j) ==
    CASE j.json = "array" -> {j.items[k] : k \in 1 .. Len(j.items)}
      [] j.json = "object" -> {j.fields[k][2] : k \in 1 .. Len(j.fields)}
      [] OTHER -> {}

\* A set with the parts of its members, the parts of these, and so on.
Nesting == 8
WithParts(vs) ==
    LET down[n \in 0 .. Nesting] ==
            IF n = 0 THEN vs ELSE LET above == down[n - 1] IN above \cup UNION {PartsOf(v) : v \in above}
    IN  down[Nesting]
WithJsonParts(js) ==
    LET down[n \in 0 .. Nesting] ==
            IF n = 0 THEN js ELSE LET above == down[n - 1] IN above \cup UNION {JsonParts(j) : j \in above}
    IN  down[Nesting]

\* (Sets of their own: TLC evaluates these once, and what a constant is
\* replaced by whenever the constant is used.)
ValuesTried ==
    WithParts(UNION {{i.value : i \in {q[2][k] : k \in 1 .. Len(q[2])}} : q \in Replied})
TextsTried ==
    WithJsonParts({ResponseJson(q[1], q[2], base64) : q \in Replied, base64 \in BOOLEAN}
                    \cup {RedisJson(v, base64) : v \in ValuesTried, base64 \in BOOLEAN})
MCRedisValues == ValuesTried
MCJsonTexts   == TextsTried
=============================================================================
