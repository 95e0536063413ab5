------------------------------ MODULE Response ------------------------------
(***************************************************************************)
(* From Redis values to the body of an answer (src/redis/value.rs,         *)
(* src/redis/response.rs, src/app/response.rs).                            *)
(*                                                                         *)
(* A Redis value is a record with its kind; a byte string comes with its   *)
(* text, whether it is UTF-8, and its base64 form.  JSON is a tree: bare   *)
(* words (null, numbers, booleans), strings, arrays, and objects, whose    *)
(* fields are a sequence since nothing keeps a writer from repeating a key.*)
(*                                                                         *)
(* The serializers recurse into the parts of a value.  Here what each does *)
(* with a value is a definition (JsonOf, WritesOf, SizeFrom, EachKeyOnce)  *)
(* in terms of what the recursive call gives for the parts (RedisJson,     *)
(* Writes, SizeOf, NoRepeatedKey), and ResponseAssumption says that on the *)
(* values and texts of the model the two are the same.                     *)
(***************************************************************************)
EXTENDS Integers, Sequences

CONSTANTS
    RedisValues,       \* the values Redis replies with, and their parts
    JsonTexts,         \* the JSON of the replies, and its parts
    RedisJson(_, _),   \* the JSON of a value: serialize_redis
    Writes(_),         \* the sizes of the writes of a JSON text, in order
    SizeOf(_),         \* its number of bytes
    NoRepeatedKey(_)   \* whether no object in it has a key twice

Bare(text)     == [json |-> "bare", text |-> text]
String(text)   == [json |-> "string", text |-> text]
Array(items)   == [json |-> "array", items |-> items]
Object(fields) == [json |-> "object", fields |-> fields]
Tagged(tag, fields) == Object(<<<<"type", String(tag)>>>> \o fields)

-----------------------------------------------------------------------------
(* Values.                                                                 *)

\* serialize_bytes
BytesJson(bytes, base64) ==
    IF base64 THEN String(bytes.base64)
    ELSE IF bytes.utf8 THEN String(bytes.text)
    ELSE Tagged("binary", <<<<"encoding", String("base64")>>, <<"value", String(bytes.base64)>>>>)

\* serialize_string, and object_key for a simple string: a status "OK" stays.
StatusText(bytes, base64) ==
    IF base64 /\ bytes.text # "OK" THEN bytes.base64 ELSE bytes.text

\* serialize_f64
DoubleJson(v) ==
    IF v.finite THEN Bare(v.text) ELSE Tagged("double", <<<<"value", String(v.text)>>>>)

\* object_key: the key of a JSON object, or none (the empty set).
ObjectKey(v, base64) ==
    CASE v.kind = "nil" -> {"null"}
      [] v.kind \in {"int", "bool", "big"} -> {v.text}
      [] v.kind = "simple" -> {StatusText(v.bytes, base64)}
      [] v.kind = "bulk" /\ base64 -> {v.bytes.base64}
      [] v.kind = "bulk" /\ ~base64 /\ v.bytes.utf8 -> {v.bytes.text}
      [] v.kind = "double" /\ v.finite -> {v.text}
      [] OTHER -> {}

\* Mutant: keys need only be printable.
MutObjectKeys(entries, base64) ==
    \A k \in 1 .. Len(entries) : ObjectKey(entries[k][1], base64) # {}

\* object_keys: every entry has a key, and no two have the same.
ObjectKeys(entries, base64) ==
    /\ \A k \in 1 .. Len(entries) : ObjectKey(entries[k][1], base64) # {}
    /\ \A i, j \in 1 .. Len(entries) :
          i < j => ObjectKey(entries[i][1], base64) # ObjectKey(entries[j][1], base64)

KeyOf(v, base64) == CHOOSE key \in ObjectKey(v, base64) : TRUE

\* serialize_array
RedisArray(items, base64) == Array([k \in 1 .. Len(items) |-> RedisJson(items[k], base64)])

\* serialize_map: an object, or else tagged pairs.
RedisMap(entries, base64) ==
    IF ObjectKeys(entries, base64)
      THEN Object([k \in 1 .. Len(entries) |->
                     <<KeyOf(entries[k][1], base64), RedisJson(entries[k][2], base64)>>])
      ELSE Tagged("map", <<<<"value", Array([k \in 1 .. Len(entries) |->
                     RedisArray(entries[k], base64)])>>>>)

\* serialize_redis
JsonOf(v, base64) ==
    CASE v.kind = "nil" -> Bare("null")
      [] v.kind \in {"int", "bool"} -> Bare(v.text)
      [] v.kind = "bulk" -> BytesJson(v.bytes, base64)
      [] v.kind = "simple" -> String(StatusText(v.bytes, base64))
      [] v.kind = "okay" -> String("OK")
      [] v.kind \in {"array", "set"} -> RedisArray(v.items, base64)
      [] v.kind = "map" -> RedisMap(v.entries, base64)
      [] v.kind = "double" -> DoubleJson(v)
      [] v.kind = "big" -> String(v.text)
      [] v.kind = "attribute" ->
            Tagged("attribute", <<<<"data", RedisJson(v.data, base64)>>,
                                  <<"attributes", RedisMap(v.entries, base64)>>>>)
      [] v.kind = "verbatim" ->
            Tagged("verbatim_string", <<<<"format", String(v.format)>>, <<"value", String(v.text)>>>>)
      [] v.kind = "push" ->
            Tagged("push", <<<<"kind", String(v.name)>>, <<"data", RedisArray(v.items, base64)>>>>)
      [] v.kind = "error" -> Tagged("server_error", <<<<"error", String(v.text)>>>>)
      [] OTHER -> Tagged("unsupported_redis_value", <<>>)

\* CommandResponse, and an item of PipelineResponse or TransactionResponse.
ItemJson(item, base64) ==
    IF item.ok THEN Object(<<<<"result", RedisJson(item.value, base64)>>>>)
               ELSE Object(<<<<"error", String(item.message)>>>>)

ResponseJson(form, items, base64) ==
    IF form = "command" THEN ItemJson(items[1], base64)
    ELSE Array([k \in 1 .. Len(items) |-> ItemJson(items[k], base64)])

-----------------------------------------------------------------------------
(* The body and its limit.                                                 *)

\* The parts one after the other, with a comma before each but the first.
Separated(parts) ==
    LET upto[k \in 0 .. Len(parts)] ==
            IF k = 0 THEN <<>> ELSE upto[k - 1] \o (IF k = 1 THEN <<>> ELSE <<1>>) \o parts[k]
    IN  upto[Len(parts)]

\* serde_json::to_writer: the sizes of its writes, in order.
WritesOf(j) ==
    CASE j.json = "bare" -> <<Len(j.text)>>
      [] j.json = "string" -> <<1, Len(j.text), 1>>
      [] j.json = "array" ->
            <<1>> \o Separated([k \in 1 .. Len(j.items) |-> Writes(j.items[k])]) \o <<1>>
      [] j.json = "object" ->
            <<1>> \o Separated([k \in 1 .. Len(j.fields) |->
                       <<1, Len(j.fields[k][1]), 1, 1>> \o Writes(j.fields[k][2])]) \o <<1>>

NewBody == [written |-> 0, exceeded |-> FALSE]

\* Mutant: every write is compared with the whole limit.
MutWrite(body, n, max) ==
    IF body.exceeded \/ n > max THEN [body EXCEPT !.exceeded = TRUE]
    ELSE [body EXCEPT !.written = @ + n]

\* LimitBody::write; to_writer stops at the first error.
Write(body, n, max) ==
    IF body.exceeded \/ n > max - body.written THEN [body EXCEPT !.exceeded = TRUE]
    ELSE [body EXCEPT !.written = @ + n]

\* serialized_response.  A value that is written within the limit is written in
\* full: every key is a string and every number finite, so nothing else fails.
LimitBody(writes, max) ==
    LET after[k \in 0 .. Len(writes)] ==
            IF k = 0 THEN NewBody ELSE Write(after[k - 1], writes[k], max)
    IN  after[Len(writes)]
Exceeds(j, max) == LimitBody(Writes(j), max).exceeded

-----------------------------------------------------------------------------
(* Reference definitions.                                                  *)

Total(sizes) ==
    LET upto[k \in 0 .. Len(sizes)] == IF k = 0 THEN 0 ELSE upto[k - 1] + sizes[k]
    IN  upto[Len(sizes)]

Commas(n) == IF n = 0 THEN 0 ELSE n - 1

\* The number of bytes of a JSON text.
SizeFrom(j) ==
    CASE j.json = "bare" -> Len(j.text)
      [] j.json = "string" -> Len(j.text) + 2
      [] j.json = "array" ->
            2 + Commas(Len(j.items)) + Total([k \in 1 .. Len(j.items) |-> SizeOf(j.items[k])])
      [] j.json = "object" ->
            2 + Commas(Len(j.fields)) +
            Total([k \in 1 .. Len(j.fields) |-> Len(j.fields[k][1]) + 3 + SizeOf(j.fields[k][2])])

\* No object in a JSON text has a key twice.
EachKeyOnce(j) ==
    CASE j.json = "array" -> \A k \in 1 .. Len(j.items) : NoRepeatedKey(j.items[k])
      [] j.json = "object" ->
            /\ \A i, k \in 1 .. Len(j.fields) : i < k => j.fields[i][1] # j.fields[k][1]
            /\ \A k \in 1 .. Len(j.fields) : NoRepeatedKey(j.fields[k][2])
      [] OTHER -> TRUE

-----------------------------------------------------------------------------
(* Values and texts come with their parts.                                 *)

IsValue(v) ==
    /\ v.kind \in {"array", "set", "push"} => v.items \in Seq(RedisValues)
    /\ v.kind \in {"map", "attribute"} => v.entries \in Seq(RedisValues \X RedisValues)
    /\ v.kind = "attribute" => v.data \in RedisValues

IsJson(j) ==
    /\ j.json \in {"bare", "string", "array", "object"}
    /\ j.json \in {"bare", "string"} => Len(j.text) \in Nat
    /\ j.json = "array" => j.items \in Seq(JsonTexts)
    /\ j.json = "object" =>
          /\ j.fields \in Seq(STRING \X JsonTexts)
          /\ \A k \in 1 .. Len(j.fields) : Len(j.fields[k][1]) \in Nat

\* A value has finitely many parts, so the recursion comes to an end: there is a
\* JSON text for every value, and a size for every text.
ASSUME ResponseAssumption ==
    /\ \A v \in RedisValues :
          /\ IsValue(v)
          /\ \A base64 \in BOOLEAN :
                RedisJson(v, base64) = JsonOf(v, base64) /\ RedisJson(v, base64) \in JsonTexts
    /\ \A j \in JsonTexts :
          /\ IsJson(j)
          /\ Writes(j) = WritesOf(j)
          /\ SizeOf(j) = SizeFrom(j) /\ SizeOf(j) \in Nat
          /\ NoRepeatedKey(j) = EachKeyOnce(j)
=============================================================================
