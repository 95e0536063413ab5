--------------------------- MODULE SecurityPolicy ---------------------------
(***************************************************************************)
(* The command policy: which commands a token may send to Redis            *)
(* (src/security, src/commands.rs, the policy part of src/config).         *)
(*                                                                         *)
(* A bridge starts from a configuration, or refuses to, and then judges    *)
(* batches of command arrays, each against the capabilities of its token.  *)
(* An argument is a record: its JSON kind; for a string its word, trimmed  *)
(* and in upper case, and whether it is spelled that way; and its length.  *)
(***************************************************************************)
EXTENDS Integers, Sequences, FiniteSets

CONSTANTS
    AllowedConfigs,       \* values of RRB_ALLOWED_COMMANDS that are tried
    BlockedConfigs,       \* values of RRB_BLOCKED_COMMANDS that are tried
    Batches,              \* command lists that requests send
    MaxPipelineCommands,  \* the limits of SecurityPolicy
    MaxCommandArgs,
    MaxArgBytes

\* CommandArg
Arguments == [kind : {"string", "number", "bool", "null"}, word : STRING, plain : BOOLEAN,
              bytes : Nat]

\* The lists of commands are read without their empty items, and a request's
\* command list is an array of arrays.
ASSUME PolicyAssumption ==
    /\ \A config \in AllowedConfigs : "" \notin config
    /\ Batches \subseteq Seq(Seq(Arguments))
    /\ MaxPipelineCommands \in Nat /\ MaxCommandArgs \in Nat /\ MaxArgBytes \in Nat

AllowedCommands == {
    "APPEND", "BITCOUNT", "BITOP", "BITPOS", "DECR", "DECRBY", "DEL",
    "EXISTS", "EXPIRE", "EXPIREAT", "GET", "GETBIT", "GETDEL", "GETEX",
    "GETRANGE", "GETSET", "HDEL", "HEXISTS", "HGET", "HGETALL",
    "HINCRBY", "HINCRBYFLOAT", "HKEYS", "HLEN", "HMGET", "HMSET",
    "HRANDFIELD", "HSCAN", "HSET", "HSETNX", "HSTRLEN", "HVALS", "INCR",
    "INCRBY", "INCRBYFLOAT", "LINDEX", "LLEN", "LMOVE", "LPOP", "LPOS",
    "LPUSH", "LRANGE", "LREM", "LSET", "LTRIM", "MGET", "MSET", "MSETNX",
    "PERSIST", "PEXPIRE", "PEXPIREAT", "PFADD", "PFCOUNT", "PFMERGE",
    "PING", "PSETEX", "PTTL", "RPOP", "RPOPLPUSH", "RPUSH", "SADD",
    "SCAN", "SCARD", "SDIFF", "SDIFFSTORE", "SET", "SETBIT", "SETEX",
    "SETNX", "SETRANGE", "SINTER", "SINTERSTORE", "SISMEMBER",
    "SMEMBERS", "SMISMEMBER", "SMOVE", "SPOP", "SRANDMEMBER", "SREM",
    "SSCAN", "STRLEN", "SUNION", "SUNIONSTORE", "TTL", "TYPE", "UNLINK",
    "XADD", "XDEL", "XLEN", "XRANGE", "XREVRANGE", "XTRIM", "ZADD",
    "ZCARD", "ZCOUNT", "ZDIFF", "ZDIFFSTORE", "ZINCRBY", "ZINTER",
    "ZINTERSTORE", "ZLEXCOUNT", "ZMSCORE", "ZPOPMAX", "ZPOPMIN",
    "ZRANGE", "ZRANGEBYLEX", "ZRANGEBYSCORE", "ZRANK", "ZREM",
    "ZREMRANGEBYLEX", "ZREMRANGEBYRANK", "ZREMRANGEBYSCORE", "ZREVRANGE",
    "ZREVRANGEBYLEX", "ZREVRANGEBYSCORE", "ZREVRANK", "ZSCAN", "ZSCORE",
    "ZUNION", "ZUNIONSTORE"}

DeniedCommands == {
    "EVAL", "EVAL_RO", "EVALSHA", "EVALSHA_RO", "FCALL", "FCALL_RO",
    "FUNCTION", "SCRIPT", "ACL", "CLIENT", "CLUSTER", "COMMAND",
    "CONFIG", "MODULE", "XGROUP", "ASKING", "AUTH", "HELLO", "QUIT",
    "READONLY", "READWRITE", "RESET", "SELECT", "DISCARD", "EXEC",
    "MULTI", "UNWATCH", "WATCH", "BGREWRITEAOF", "BGSAVE", "BLMOVE",
    "BLMPOP", "BLPOP", "BRPOP", "BRPOPLPUSH", "BZPOPMAX", "BZPOPMIN",
    "BZMPOP", "DBSIZE", "DEBUG", "FLUSHALL", "FLUSHDB", "INFO", "KEYS",
    "LASTSAVE", "LATENCY", "MEMORY", "MIGRATE", "MONITOR", "PSUBSCRIBE",
    "PSYNC", "PUNSUBSCRIBE", "PUBLISH", "PUBSUB", "REPLCONF",
    "REPLICAOF", "RESTORE", "ROLE", "SAVE", "SHUTDOWN", "SLAVEOF",
    "SLOWLOG", "SORT", "SORT_RO", "SSUBSCRIBE", "SUNSUBSCRIBE",
    "SUBSCRIBE", "SWAPDB", "SYNC", "UNSUBSCRIBE", "WAIT", "WAITAOF",
    "XREAD", "XREADGROUP"}

RatelimitCommands == {"EVAL", "EVALSHA", "SCRIPT"}
RealtimeCommands == {"EXPIRE", "PUBLISH", "XADD", "XRANGE"}

VARIABLES
    phase,     \* "config", then "refused" or "validated", "judging", "judged"
    allowed,   \* allowed_commands
    extra,     \* RRB_BLOCKED_COMMANDS
    caps,      \* capabilities of the request's token
    batch,     \* the request's command list
    sent       \* the commands handed to Redis, or <<"denied">>

policyVars == <<phase, allowed, extra, caps, batch, sent>>

Capabilities == {"command", "ratelimit", "realtime"}
Denied == <<"denied">>

\* Default blocks, without the commands a capability may unlock, and the
\* configured ones on top (config/mod.rs).
Blocked == (DeniedCommands \ (RatelimitCommands \cup RealtimeCommands)) \cup extra

-----------------------------------------------------------------------------
\* Mutant: the scoped exceptions hold for every token.
MutIsDeniedCommand(name, allowRatelimit, allowRealtime) ==
    name \in DeniedCommands \ (RatelimitCommands \cup RealtimeCommands)

IsDeniedCommand(name, allowRatelimit, allowRealtime) ==
    /\ ~(allowRatelimit /\ name \in RatelimitCommands)
    /\ ~(allowRealtime /\ name \in RealtimeCommands)
    /\ name \in DeniedCommands

\* SecurityPolicy::validate
Validate == /\ allowed # {}
            /\ \A name \in allowed : ~IsDeniedCommand(name, FALSE, FALSE)

\* Mutant: the name is taken as it is spelled.
MutCommandName(arg) == IF arg.kind # "string" THEN ""
                       ELSE IF arg.plain THEN arg.word ELSE "other"

\* as_command_name, trim and to_ascii_uppercase; "" when it is not a string.
CommandName(arg) == IF arg.kind = "string" THEN arg.word ELSE ""

\* validate_subcommand: the safe subcommands of SCRIPT, and their shapes.
ValidateSubcommand(array) ==
    /\ Len(array) >= 2
    /\ LET sub == CommandName(array[2])
       IN  \/ sub = "LOAD" /\ Len(array) = 3
           \/ sub = "EXISTS" /\ Len(array) >= 3
           \/ /\ sub = "FLUSH" /\ Len(array) <= 3
              /\ Len(array) = 3 => CommandName(array[3]) \in {"SYNC", "ASYNC"}

\* to_arg_bytes
ArgBytesOk(arg) == arg.kind # "null" /\ arg.bytes <= MaxArgBytes

\* parse_command_array: the command is accepted.
ParseCommandArray(array) ==
    /\ Len(array) \in 1 .. MaxCommandArgs + 1
    /\ LET name == CommandName(array[1])
           allowRatelimit == "ratelimit" \in caps
           allowRealtime == "realtime" \in caps
       IN  /\ name # ""
           /\ IF name = "SCRIPT" /\ allowRatelimit
                THEN ValidateSubcommand(array)
                ELSE ~IsDeniedCommand(name, allowRatelimit, allowRealtime)
           /\ \/ "command" \in caps /\ name \in allowed
              \/ allowRatelimit /\ name \in RatelimitCommands
              \/ allowRealtime /\ name \in RealtimeCommands
           /\ name \notin Blocked
    /\ \A k \in 2 .. Len(array) : ArgBytesOk(array[k])

\* parse_command_list: all commands or none.
ParseCommandList(list) ==
    IF /\ Len(list) <= MaxPipelineCommands
       /\ \A k \in 1 .. Len(list) : ParseCommandArray(list[k])
      THEN [k \in 1 .. Len(list) |-> CommandName(list[k][1])]
      ELSE Denied

-----------------------------------------------------------------------------
PolicyInit ==
    /\ phase = "config"
    /\ allowed \in AllowedConfigs
    /\ extra \in BlockedConfigs
    /\ caps = {}
    /\ batch = <<>>
    /\ sent = <<>>

\* Bridge::from_env calls validate(); the process ends if that or another part
\* of the configuration is refused.
Start(sound) ==
    /\ phase = "config"
    /\ phase' = IF sound /\ Validate THEN "validated" ELSE "refused"
    /\ UNCHANGED <<allowed, extra, caps, batch, sent>>

\* A request comes with a token (TokenCaps::parse refuses one with no
\* capability) and a command list,
Receive(tokenCaps, list) ==
    /\ phase = "validated"
    /\ caps' = tokenCaps
    /\ batch' = list
    /\ phase' = "judging"
    /\ UNCHANGED <<allowed, extra, sent>>

\* which is judged as a whole before anything is executed.  No request leaves a
\* trace in the policy, so one request for each start is all there is to see.
Judge ==
    /\ phase = "judging"
    /\ sent' = ParseCommandList(batch)
    /\ phase' = "judged"
    /\ UNCHANGED <<allowed, extra, caps, batch>>

PolicyNext ==
    \/ \E sound \in BOOLEAN : Start(sound)
    \/ \E tokenCaps \in (SUBSET Capabilities) \ {{}}, list \in Batches : Receive(tokenCaps, list)
    \/ Judge

PolicySpec == PolicyInit /\ [][PolicyNext]_policyVars

-----------------------------------------------------------------------------
(* Properties.                                                             *)

Words(list) == [k \in 1 .. Len(list) |-> list[k][1].word]

\* The policy as the README words it: a command runs for a token if a
\* capability of the token grants it and the operator has not blocked it, and
\* the general capability never grants a hard-denied command.
Granted(word) ==
    /\ word \notin extra
    /\ \/ "ratelimit" \in caps /\ word \in RatelimitCommands
       \/ "realtime" \in caps /\ word \in RealtimeCommands
       \/ "command" \in caps /\ word \in allowed \ DeniedCommands

\* The array has a name, is within the limits, and SCRIPT is used in one of the
\* three ways the rate limiter needs.
WellFormed(array) ==
    /\ array # <<>>
    /\ array[1].kind = "string"
    /\ Len(array) - 1 <= MaxCommandArgs
    /\ \A k \in 2 .. Len(array) : array[k].kind # "null" /\ array[k].bytes <= MaxArgBytes
    /\ array[1].word = "SCRIPT" =>
          \E form \in {<<"LOAD", 3, 3>>, <<"EXISTS", 3, MaxCommandArgs + 1>>, <<"FLUSH", 2, 3>>} :
              /\ Len(array) \in form[2] .. form[3]
              /\ array[2].kind = "string" /\ array[2].word = form[1]
              /\ form[1] = "FLUSH" /\ Len(array) = 3 =>
                    array[3].kind = "string" /\ array[3].word \in {"SYNC", "ASYNC"}

\* The chain of checks in parse_command_array, with the blocklist that the
\* configuration derives, decides every batch as that policy does: either all of
\* its commands go to Redis under their normalized names, however they were
\* spelled, or none does.
DecidesAsDocumented ==
    phase = "judged" =>
        sent = IF /\ Len(batch) <= MaxPipelineCommands
                  /\ \A k \in 1 .. Len(batch) :
                        WellFormed(batch[k]) /\ Granted(batch[k][1].word)
                 THEN Words(batch) ELSE Denied

\* No configuration hands a hard-denied command to Redis, but for the scoped
\* exceptions: the rate-limit commands and PUBLISH, to tokens made for them.
HardDenyHolds ==
    phase = "judged" /\ sent # Denied =>
        \A k \in 1 .. Len(sent) : sent[k] \in DeniedCommands =>
            \/ sent[k] \in {"EVAL", "EVALSHA", "SCRIPT"} /\ "ratelimit" \in caps
            \/ sent[k] = "PUBLISH" /\ "realtime" \in caps
=============================================================================
