------------------------------ MODULE Startup ------------------------------
(***************************************************************************)
(* From the environment to a bridge that serves, or to a process that      *)
(* refuses to start (src/config, AppState::new): the settings, the Redis   *)
(* targets and their tokens, and the table from token hashes to targets.   *)
(*                                                                         *)
(* A number is an integer; one that does not parse is -1.  A name is a     *)
(* record: its trimmed text, "" when nothing is left, and whether it is    *)
(* written that way.  Every refusal ends the process: stage "refused".     *)
(***************************************************************************)
EXTENDS SecurityPolicy, ClientIp

CONSTANT MaxPermits   \* Semaphore::MAX_PERMITS of tokio; a larger semaphore panics

ASSUME PermitsAssumption == MaxPermits \in Nat

VARIABLES
    settings,  \* the environment and the token file
    stage,     \* how far the start is; from "serving" on, see Handlers
    load,      \* what parse_file_targets keeps while it reads
    targets,   \* Bridge::targets
    routes     \* token_routes: from hashes to [target, caps]

startupVars == <<settings, stage, load, targets, routes>>

Trim(name) == name.word

NoLoad == [target |-> 1, tokens |-> <<>>, rrb_ids |-> {}, token_ids |-> {}, token_hashes |-> {}]

Refuse == stage' = "refused" /\ UNCHANGED <<settings, load, targets, routes>>

-----------------------------------------------------------------------------
(* Settings.                                                               *)

\* TrustedProxies::parse skips empty entries.
Proxies == {settings.proxies[k] : k \in {j \in 1 .. Len(settings.proxies) :
                                            ~settings.proxies[j].blank}}

\* state.trusted_proxies
TrustedProxies == IF settings.trust THEN {ParseProxy(p) : p \in Proxies} ELSE {}

LockoutOk ==
    settings.auth_lockout_failures > 0 =>
        /\ settings.auth_lockout_window_seconds # 0
        /\ settings.auth_lockout_seconds # 0
        /\ settings.auth_lockout_max_entries # 0

Numbers == {"max_concurrency", "max_realtime_concurrency", "request_timeout_ms",
            "acquire_timeout_ms", "max_response_bytes", "auth_lockout_failures",
            "auth_lockout_window_seconds", "auth_lockout_seconds", "auth_lockout_max_entries"}

\* Mutant: the two timeouts are not compared.
MutLimitsOk ==
    /\ settings.max_concurrency # 0 /\ settings.max_realtime_concurrency # 0
    /\ settings.request_timeout_ms # 0 /\ settings.acquire_timeout_ms # 0
    /\ settings.max_response_bytes # 0

LimitsOk ==
    /\ settings.max_concurrency # 0 /\ settings.max_realtime_concurrency # 0
    /\ settings.request_timeout_ms # 0 /\ settings.acquire_timeout_ms # 0
    /\ settings.acquire_timeout_ms < settings.request_timeout_ms
    /\ settings.max_response_bytes # 0

IsSeq(s) == s \in Seq({s[k] : k \in DOMAIN s})

\* What the environment and the token file can say: numbers, switches and lists
\* are such, with -1 for a number that does not parse (a file with one does not).
IsSettings(s) ==
    /\ s.parse \in BOOLEAN /\ s.bind \in BOOLEAN /\ s.trust \in BOOLEAN
    /\ \A n \in Numbers : s[n] \in Int
    /\ IsSeq(s.proxies)
    /\ \A k \in 1 .. Len(s.proxies) : LET p == s.proxies[k] IN
          /\ p.blank \in BOOLEAN /\ p.slash \in BOOLEAN /\ p.prefix \in Int
          /\ p.network = NoAddr \/ IsAddr(p.network)
    /\ s.env.operation_limit \in Int /\ s.env.connection_shards \in Int
    /\ s.file.readable \in BOOLEAN /\ IsSeq(s.file.targets)
    /\ \A j \in 1 .. Len(s.file.targets) : LET t == s.file.targets[j] IN
          /\ t.operation_limit \in Nat /\ t.connection_shards \in Nat
          /\ IsSeq(t.tokens)
          /\ \A k \in 1 .. Len(t.tokens) :
                /\ t.tokens[k].enabled \in BOOLEAN
                /\ t.tokens[k].hash.form \in {"lower", "upper", "short", "not hex"}

\* Bridge::from_env up to load_targets, SecurityPolicy::validate apart.  The
\* settings that need only parse (port, limits of body and commands, the switch
\* RRB_TRUST_PROXY_HEADERS) do or do not.
SettingsOk ==
    /\ settings.parse
    /\ \A n \in Numbers : settings[n] \in Nat
    /\ settings.trust => Proxies # {} /\ \A p \in Proxies : EntryOk(p)
    /\ LockoutOk
    /\ LimitsOk

CheckSettings ==
    /\ stage = "settings"
    /\ Start(SettingsOk)
    /\ \/ /\ phase' = "validated"
          /\ stage' = "loading"
          /\ UNCHANGED <<settings, load, targets, routes>>
       \/ phase' = "refused" /\ Refuse

-----------------------------------------------------------------------------
(* Targets.                                                                *)

NoType == {"absent"}   \* no token_type

\* TokenCaps::parse; an empty set of capabilities is refused.
TypeOk(type) ==
    type = NoType \/ (type \subseteq Capabilities \cup {""} /\ type \cap Capabilities # {})
CapsOf(type) == IF type = NoType THEN {"command"} ELSE type \cap Capabilities

\* TokenHash::sha256 and hmac_sha256, without collisions.
Sha256(token) == <<"sha256", token>>
HmacSha256(key, token) == <<"hmac", key, token>>

\* TokenHash::hmac_sha256_parse: 64 hex digits, in either case.
HashOk(text) == text.form \in {"lower", "upper"}

\* load_targets, by RRB_MODE.
UnknownMode ==
    /\ stage = "loading"
    /\ settings.mode \notin {"env", "file"}
    /\ Refuse /\ UNCHANGED policyVars

\* load_env_target
LoadEnvTarget ==
    /\ stage = "loading" /\ settings.mode = "env"
    /\ LET e == settings.env
           ok == /\ Trim(e.token) # "" /\ Trim(e.connection_string) # ""
                 /\ e.operation_limit \in Nat \ {0} /\ e.connection_shards \in Nat \ {0}
                 /\ TypeOk(e.token_type)
       IN  \/ ~ok /\ Refuse
           \/ /\ ok
              /\ targets' = <<[rrb_id |-> "env", connection_string |-> Trim(e.connection_string),
                               operation_limit |-> e.operation_limit,
                               tokens |-> <<[hash |-> Sha256(Trim(e.token)), enabled |-> TRUE,
                                             caps |-> CapsOf(e.token_type)]>>]>>
              /\ stage' = "building"
              /\ UNCHANGED <<settings, load, routes>>
    /\ UNCHANGED policyVars

\* load_file_targets, and parse_file_targets up to its loop.
OpenFile ==
    /\ stage = "loading" /\ settings.mode = "file"
    /\ LET f == settings.file
           ok == /\ f.readable /\ Trim(settings.hash_token) # ""
                 /\ f.version = 1 /\ f.targets # <<>>
       IN  \/ ~ok /\ Refuse
           \/ ok /\ stage' = "target" /\ UNCHANGED <<settings, load, targets, routes>>
    /\ UNCHANGED policyVars

FileTarget == settings.file.targets[load.target]

\* The loop reads the next target,
TakeTarget ==
    /\ stage = "target"
    /\ LET t == FileTarget
           ok == /\ Trim(t.rrb_id) # "" /\ Trim(t.rrb_id) \notin load.rrb_ids
                 /\ Trim(t.connection_string) # ""
                 /\ t.operation_limit # 0 /\ t.connection_shards # 0
                 /\ t.tokens # <<>>
       IN  \/ ~ok /\ Refuse
           \/ /\ ok
              /\ load' = [load EXCEPT !.rrb_ids = @ \cup {Trim(t.rrb_id)}]
              /\ stage' = "token"
              /\ UNCHANGED <<settings, targets, routes>>
    /\ UNCHANGED policyVars

\* Two enabled tokens with one hash are refused; a disabled one is not looked at.
FreshHash(token) == ~token.enabled \/ token.hash.digest \notin load.token_hashes

\* one token of it after the other,
TakeToken ==
    /\ stage = "token"
    /\ Len(load.tokens) < Len(FileTarget.tokens)
    /\ LET t == FileTarget.tokens[Len(load.tokens) + 1]
           ok == /\ Trim(t.id) # "" /\ Trim(t.id) \notin load.token_ids
                 /\ TypeOk(t.token_type) /\ HashOk(t.hash) /\ FreshHash(t)
       IN  \/ ~ok /\ Refuse
           \/ /\ ok
              /\ load' = [load EXCEPT
                    !.token_ids = @ \cup {Trim(t.id)},
                    !.token_hashes = IF t.enabled THEN @ \cup {t.hash.digest} ELSE @,
                    !.tokens = Append(@, [hash |-> t.hash.digest, enabled |-> t.enabled,
                                          caps |-> CapsOf(t.token_type)])]
              /\ UNCHANGED <<settings, stage, targets, routes>>
    /\ UNCHANGED policyVars

\* and keeps the target if one of its tokens is enabled.
CloseTarget ==
    /\ stage = "token"
    /\ Len(load.tokens) = Len(FileTarget.tokens)
    /\ LET ok == \E k \in 1 .. Len(load.tokens) : load.tokens[k].enabled
           last == load.target = Len(settings.file.targets)
       IN  \/ ~ok /\ Refuse
           \/ /\ ok
              /\ targets' = Append(targets,
                    [rrb_id |-> Trim(FileTarget.rrb_id),
                     connection_string |-> Trim(FileTarget.connection_string),
                     operation_limit |-> FileTarget.operation_limit,
                     tokens |-> load.tokens])
              /\ load' = IF last THEN NoLoad
                         ELSE [load EXCEPT !.target = @ + 1, !.tokens = <<>>]
              /\ stage' = IF last THEN "building" ELSE "target"
              /\ UNCHANGED <<settings, routes>>
    /\ UNCHANGED policyVars

-----------------------------------------------------------------------------
(* AppState::new.                                                          *)

\* Mutant: a disabled token is left out of the duplicates and not of the table.
MutEnabledTokens(t) == {t.tokens[k] : k \in 1 .. Len(t.tokens)}

EnabledTokens(t) == {t.tokens[k] : k \in {j \in 1 .. Len(t.tokens) : t.tokens[j].enabled}}

\* One target after the other: its Redis URL, its semaphore, and its enabled tokens,
\* whose hashes are compared once more.  (So are its limits, which no target gets
\* here without.)  A panic ends main like an error.
BuildTarget ==
    /\ stage = "building"
    /\ load.target <= Len(targets)
    /\ LET t == targets[load.target]
           hashes == {token.hash : token \in EnabledTokens(t)}
           ok == /\ t.connection_string # "no url"
                 /\ t.operation_limit <= MaxPermits
                 /\ hashes \cap DOMAIN routes = {}
                 /\ \A i, j \in 1 .. Len(t.tokens) :
                       i < j /\ t.tokens[i].enabled /\ t.tokens[j].enabled =>
                           t.tokens[i].hash # t.tokens[j].hash
           Entry(h) == [target |-> t.rrb_id,
                        caps |-> (CHOOSE token \in EnabledTokens(t) : token.hash = h).caps]
       IN  \/ ~ok /\ Refuse
           \/ /\ ok
              /\ routes' = [h \in DOMAIN routes \cup hashes |->
                               IF h \in hashes THEN Entry(h) ELSE routes[h]]
              /\ load' = [load EXCEPT !.target = @ + 1]
              /\ UNCHANGED <<settings, stage, targets>>
    /\ UNCHANGED policyVars

\* The semaphore of the streams; then main starts the supervisors, makes those of
\* the API routes and listens, if it can have the address.
Listen ==
    /\ stage = "building"
    /\ load.target > Len(targets)
    /\ LET ok == /\ settings.max_realtime_concurrency <= MaxPermits
                 /\ settings.max_concurrency <= MaxPermits
                 /\ settings.bind
       IN  \/ ~ok /\ Refuse
           \/ /\ ok
              /\ load' = NoLoad
              /\ stage' = "serving"
              /\ UNCHANGED <<settings, targets, routes>>
    /\ UNCHANGED policyVars

StartupInit ==
    /\ stage = "settings"
    /\ load = NoLoad
    /\ targets = <<>>
    /\ routes = <<>>

StartupNext ==
    \/ CheckSettings \/ UnknownMode \/ LoadEnvTarget \/ OpenFile \/ TakeTarget
    \/ TakeToken \/ CloseTarget \/ BuildTarget \/ Listen

-----------------------------------------------------------------------------
(* Properties.                                                             *)

\* The places of the tokens in the file: a target and a token of it.
Places ==
    UNION {{<<j, k>> : k \in 1 .. Len(settings.file.targets[j].tokens)} :
              j \in 1 .. Len(settings.file.targets)}
TokenAt(p) == settings.file.targets[p[1]].tokens[p[2]]

\* A token file that names every target and every token once, gives every target
\* what it needs and an enabled token, and no two tokens the same enabled hash.
SoundFile ==
    LET f == settings.file
        T == 1 .. Len(f.targets)
    IN  /\ f.readable /\ f.version = 1 /\ T # {} /\ settings.hash_token.word # ""
        /\ \A j \in T :
              /\ f.targets[j].rrb_id.word # ""
              /\ f.targets[j].connection_string.word \notin {"", "no url"}
              /\ f.targets[j].operation_limit \in 1 .. MaxPermits
              /\ f.targets[j].connection_shards > 0
              /\ \E p \in Places : p[1] = j /\ TokenAt(p).enabled
        /\ \A i, j \in T : i # j => f.targets[i].rrb_id.word # f.targets[j].rrb_id.word
        /\ \A p \in Places :
              /\ TokenAt(p).id.word # "" /\ TokenAt(p).hash.form \notin {"short", "not hex"}
              /\ TokenAt(p).token_type = NoType \/
                    \E c \in (SUBSET Capabilities) \ {{}} : TokenAt(p).token_type \in {c, c \cup {""}}
        /\ \A p, q \in Places : p # q =>
              /\ TokenAt(p).id.word # TokenAt(q).id.word
              /\ TokenAt(p).enabled /\ TokenAt(q).enabled =>
                    TokenAt(p).hash.digest # TokenAt(q).hash.digest

SoundEnv ==
    LET e == settings.env
    IN  /\ e.token.word # "" /\ e.connection_string.word \notin {"", "no url"}
        /\ e.operation_limit \in 1 .. MaxPermits /\ e.connection_shards > 0
        /\ e.token_type = NoType \/
              \E c \in (SUBSET Capabilities) \ {{}} : e.token_type \in {c, c \cup {""}}

\* What the other modules assume of the settings: GateAssumption,
\* LockoutAssumption, RealtimeAssumption, ServerAssumption; no command on the
\* allow list that is hard-denied; when headers are trusted, someone to trust; and
\* no semaphore larger than there can be.
SoundSettings ==
    /\ settings.acquire_timeout_ms \in 1 .. settings.request_timeout_ms - 1
    /\ settings.max_concurrency \in 1 .. MaxPermits
    /\ settings.max_realtime_concurrency \in 1 .. MaxPermits
    /\ settings.max_response_bytes > 0
    /\ settings.auth_lockout_failures >= 0
    /\ \A n \in {"auth_lockout_window_seconds", "auth_lockout_seconds", "auth_lockout_max_entries"} :
          settings[n] > 0 \/ (settings[n] = 0 /\ settings.auth_lockout_failures = 0)
    /\ settings.parse /\ settings.bind
    /\ allowed # {} /\ allowed \cap DeniedCommands = {}
    /\ settings.trust =>
          /\ \E k \in 1 .. Len(settings.proxies) : ~settings.proxies[k].blank
          /\ \A k \in 1 .. Len(settings.proxies) : LET p == settings.proxies[k] IN
                p.blank \/ (/\ p.network.family \in Families
                            /\ p.slash => p.prefix >= 0 /\ p.prefix <= Len(p.network.bits))

Sound ==
    /\ SoundSettings
    /\ \/ settings.mode = "env" /\ SoundEnv
       \/ settings.mode = "file" /\ SoundFile

\* The bridge serves exactly when its configuration is sound: it checks the
\* settings in their order and the file token by token, and what it lets through
\* is what every other module assumes, and it refuses nothing else.
StartsIffSound ==
    stage \in {"serving", "refused"} =>
        (stage = "serving") = Sound
=============================================================================
