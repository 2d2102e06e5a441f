------------------------------- MODULE Options -------------------------------
(***************************************************************************)
(* The calls of a worker to KV, R2, Workflows, Durable Objects and fetch:  *)
(* options are set one by one on a builder, which becomes the JavaScript   *)
(* object that the runtime reads by name; its answer becomes a Rust value. *)
(* A setter replaces what it set before and keeps what others set.  What a *)
(* runtime does with the options it reads is external.                     *)
(***************************************************************************)
EXTENDS Naturals, Sequences, FiniteSets, Functions

CONSTANTS
  MaxCalls,     \* setters called before the request is made
  MaxSafeRange  \* stands for Number.MAX_SAFE_INTEGER

ASSUME OptionsAssumption == MaxCalls \in Nat /\ MaxSafeRange \in Nat

VARIABLES
  builder,  \* the API, the fields of its builder that are set, the setters called
  meant,    \* history: the options as the runtime names them, as last asked for
  reply     \* what was sent, what the runtime has, and what the worker is told

optVars == <<builder, meant, reply>>

(* What each field of a builder is called in the object that is passed on.  *)
KvGetNames  == [cache_ttl |-> "cacheTtl", value_type |-> "type"]
KvPutNames  == [expiration |-> "expiration", expiration_ttl |-> "expirationTtl", metadata |-> "metadata"]
KvListNames == [limit |-> "limit", cursor |-> "cursor", prefix |-> "prefix"]
R2GetNames  == [only_if |-> "onlyIf", range |-> "range"]
R2PutNames  == [only_if |-> "onlyIf", http_metadata |-> "httpMetadata", custom_metadata |-> "customMetadata"]
R2MultipartNames == [http_metadata |-> "httpMetadata", custom_metadata |-> "customMetadata"]
R2ListNames == [limit |-> "limit", prefix |-> "prefix", start_after |-> "startAfter", cursor |-> "cursor",
                delimiter |-> "delimiter", include |-> "include"]
CreateNames == [id |-> "id", params |-> "params", retention |-> "retention"]
RetentionNames == [success |-> "successRetention", error |-> "errorRetention"]
TerminateNames == [rollback |-> "rollback"]
RestartNames == [name |-> "name", count |-> "count", step_type |-> "type"]
RetryNames  == [limit |-> "limit", delay |-> "delay", backoff |-> "backoff"]
StepNames   == [retries |-> "retries", timeout |-> "timeout", sensitive_output |-> "sensitive"]
DurableListNames == [start |-> "start", end |-> "end", prefix |-> "prefix", reverse |-> "reverse", limit |-> "limit"]
StubNames   == [location_hint |-> "locationHint"]
CacheNames  == [ignore_method |-> "ignoreMethod"]
FetchNames  == [method |-> "method", redirect |-> "redirect", cache |-> "cache", body |-> "body", headers |-> "headers"]

Wire ==
  [kv_get |-> KvGetNames, kv_put |-> KvPutNames, kv_list |-> KvListNames, r2_get |-> R2GetNames, r2_put |-> R2PutNames,
   r2_multipart |-> R2MultipartNames, r2_list |-> R2ListNames, workflow |-> CreateNames, retention |-> RetentionNames,
   terminate |-> TerminateNames, restart |-> RestartNames, retry |-> RetryNames, step |-> StepNames,
   durable_list |-> DurableListNames, stub |-> StubNames, cache_get |-> CacheNames, cache_delete |-> CacheNames,
   fetch |-> FetchNames]

Apis == DOMAIN Wire
Algorithms == {"md5", "sha1", "sha256", "sha384", "sha512"}

(* What is set when the builder is made.                                    *)
Given(api) ==
  CASE api = "retry"   -> [limit |-> 0, delay |-> 0]
    [] api = "restart" -> [name |-> 0]
    [] api = "fetch"   -> [method |-> 0, redirect |-> 0]
    [] api \in {"cache_get", "cache_delete"} -> [ignore_method |-> 0]
    [] OTHER           -> <<>>

(* The class of the binding that the calls are made on, if there is one.    *)
ClassOf(api) ==
  CASE api \in {"kv_get", "kv_put", "kv_list"} -> "KvNamespace"
    [] api \in {"r2_get", "r2_put", "r2_multipart", "r2_list"} -> "R2Bucket"
    [] api \in {"workflow", "retention", "terminate", "restart"} -> "Workflow"
    [] api = "stub" -> "DurableObjectNamespace"
    [] OTHER -> "global"

(* env: a binding that is undefined is an error, and so is one of another   *)
(* class, but for KV and Workflows, which take whatever is there.           *)
GetBinding(api, class) ==
  /\ class # "undefined"
  /\ class = ClassOf(api) \/ ClassOf(api) \in {"KvNamespace", "Workflow"}

Sets(fields, field, value) == [f \in DOMAIN fields \cup {field} |-> IF f = field THEN value ELSE fields[f]]
OnWire(api, fields) == [n \in {Wire[api][f] : f \in DOMAIN fields} |-> fields[CHOOSE f \in DOMAIN fields : Wire[api][f] = n]]

NoReply == [sent |-> <<>>, has |-> "none", told |-> "none"]
OptInit ==
  /\ builder = [api |-> "none", class |-> "none", fields |-> <<>>, checksum |-> <<>>, calls |-> 0]
  /\ meant = <<>> /\ reply = NoReply

Begin(api, class) ==
  /\ builder.api = "none" /\ GetBinding(api, class)
  /\ builder' = [builder EXCEPT !.api = api, !.class = class, !.fields = Given(api)]
  /\ meant' = OnWire(api, Given(api)) /\ UNCHANGED reply

Building == builder.api # "none" /\ reply.sent = <<>> /\ builder.calls < MaxCalls

(* A setter.                                                                *)
Set(field, value) ==
  /\ Building /\ field \in DOMAIN Wire[builder.api] \ {"value_type", "params"}
  /\ builder' = [builder EXCEPT !.fields = Sets(@, field, value), !.calls = @ + 1]
  /\ meant' = Sets(meant, Wire[builder.api][field], value) /\ UNCHANGED reply

\* Mutant of Params: the options are made anew with the identifier alone.
ParamsAnew(value) ==
  /\ Building /\ builder.api = "workflow"
  /\ builder' = [builder EXCEPT !.fields = Sets(Restrict(@, {"id"} \cap DOMAIN @), "params", value), !.calls = @ + 1]
  /\ meant' = Sets(meant, "params", value) /\ UNCHANGED reply

(* params changes the type of the options: they are made anew of the three. *)
Params(value) ==
  /\ Building /\ builder.api = "workflow"
  /\ LET old == builder.fields IN
       builder' = [builder EXCEPT !.fields = Sets(Restrict(old, {"id", "retention"} \cap DOMAIN old), "params", value),
                                  !.calls = @ + 1]
  /\ meant' = Sets(meant, "params", value) /\ UNCHANGED reply

(* checksum_set: one algorithm with its bytes, the last that was set.       *)
ChecksumSet(algorithm, value) ==
  /\ Building /\ builder.api = "r2_put"
  /\ builder' = [builder EXCEPT !.checksum = <<algorithm, value>>, !.calls = @ + 1]
  /\ meant' = Sets(Restrict(meant, DOMAIN meant \ Algorithms), algorithm, value) /\ UNCHANGED reply

(* execute: the object that is passed on; what is undefined is not there.   *)
ObjectOf(b) ==
  LET fields == OnWire(b.api, b.fields) IN
  IF b.checksum = <<>> THEN fields ELSE Sets(fields, b.checksum[1], b.checksum[2])

-----------------------------------------------------------------------------
(* KV: the type asked for goes with the method that reads the answer; what  *)
(* is not of that kind is None, as null is.  A value whose text is null is  *)
(* null too when it is read as JSON.                                        *)
ValueType(method) ==
  CASE method = "text" -> "text" [] method = "json" -> "json" [] method = "bytes" -> "arrayBuffer"
    [] method = "stream" -> "stream"
KvAnswers(type, has) ==
  CASE has = "nothing"                          -> "null"
    [] has = "jsonNull" /\ type = "json"         -> "null"
    [] has = "unparsable" /\ type = "json"       -> "throws"
    [] OTHER                                    -> type
KvTold(method, js) ==
  IF js = "throws" THEN "Err" ELSE IF js = "null" THEN "None"
  ELSE IF method = "json" THEN "Some" ELSE IF js = ValueType(method) THEN "Some" ELSE "None"

(* get_bulk: a value that does not deserialize, or whose metadata do not,   *)
(* fails the whole; the keys that follow it are skipped.                    *)
BulkTold(method, has, next) ==
  LET first == KvTold(method, KvAnswers(ValueType(method), has)) second == KvTold(method, KvAnswers(ValueType(method), next))
  IN  IF "Err" \in {first, second} THEN <<"Err">> ELSE <<first, second>>

(* R2: a key that is not there is null, a failed condition leaves the body  *)
(* out of get's answer and makes put's null; head and list have no bodies.  *)
R2Answers(api, has) ==
  CASE has = "nothing" -> "null"
    [] has = "unmet"   -> IF api = "r2_put" THEN "null" ELSE "object"
    [] OTHER           -> IF api = "r2_get" THEN "bodyUsed" ELSE "object"
R2Told(js) == CASE js = "null" -> "None" [] js = "object" -> "NoBody" [] OTHER -> "Body"

(* An R2 range and the object it becomes, None for what is undefined.       *)
Undefined == MaxSafeRange + 2
RangeToJs(r) ==
  IF \E i \in 2..Len(r) : r[i] > MaxSafeRange THEN "panic"
  ELSE CASE r[1] = "OffsetWithLength" -> <<r[2], r[3], Undefined>> [] r[1] = "OffsetToEnd" -> <<r[2], Undefined, Undefined>>
         [] r[1] = "Prefix" -> <<Undefined, r[2], Undefined>>          [] r[1] = "Suffix" -> <<Undefined, Undefined, r[2]>>
RangeFromJs(js) ==
  LET is == [i \in 1..3 |-> js[i] # Undefined] IN
  CASE is[1] /\ is[2] /\ ~is[3] -> <<"OffsetWithLength", js[1], js[2]>> [] is[1] /\ ~is[2] /\ ~is[3] -> <<"OffsetToEnd", js[1]>>
    [] ~is[1] /\ is[2] /\ ~is[3] -> <<"Prefix", js[2]>>                  [] ~is[1] /\ ~is[2] /\ is[3] -> <<"Suffix", js[3]>>
    [] OTHER -> <<"invalid">>

(* Cache: match answers undefined or a response, delete a Boolean.          *)
CacheTold(op, has) ==
  LET js == IF op = "cache_get" THEN (IF has = "nothing" THEN "undefined" ELSE "response") ELSE has # "nothing" IN
  IF op = "cache_get" THEN (IF js = "undefined" THEN "None" ELSE "Some")
  ELSE IF js THEN "Success" ELSE "ResponseNotFound"

Execute(method, has) ==
  /\ builder.api # "none" /\ reply.sent = <<>>
  /\ LET kv == builder.api = "kv_get"
         b == IF kv THEN [builder EXCEPT !.fields = Sets(@, "value_type", ValueType(method))] ELSE builder
         sent == ObjectOf(b)
     IN  /\ builder' = b
         /\ meant' = IF kv THEN Sets(meant, "type", ValueType(method)) ELSE meant
         /\ reply' = [sent |-> <<sent>>, has |-> has,
                      told |-> CASE kv -> KvTold(method, KvAnswers(sent["type"], has))
                                 [] builder.api \in {"r2_get", "r2_put"} -> R2Told(R2Answers(builder.api, has))
                                 [] builder.api \in {"cache_get", "cache_delete"} -> CacheTold(builder.api, has)
                                 [] OTHER -> "Some"]

OptNext ==
  \/ \E api \in Apis, class \in {ClassOf(a) : a \in Apis} \cup {"undefined"} : Begin(api, class)
  \/ \E f \in UNION {DOMAIN Wire[api] : api \in Apis}, v \in 1..2 : Set(f, v)
  \/ \E v \in 1..2 : Params(v) \/ \E a \in Algorithms : ChecksumSet(a, v)
  \/ \E m \in {"text", "json", "bytes", "stream"}, h \in {"nothing", "unmet", "value", "jsonNull", "unparsable"} : Execute(m, h)

OptSpec == OptInit /\ [][OptNext]_optVars

OptTypeOK == builder.api \in Apis \cup {"none"} /\ builder.calls \in 0..MaxCalls

-----------------------------------------------------------------------------
(* The runtime reads every option that the worker asked for, under the name *)
(* it knows and as last asked, and no other.                                *)
OptionsArrive == reply.sent # <<>> => reply.sent = <<meant>>

(* What a read of KV does not tell from a key that is not there: a null     *)
(* that is read as JSON (kv/builder.rs:15, 227, 403).                       *)
ReadsAsNothing(type, has) == has = "nothing" \/ (has = "jsonNull" /\ type = "json")

(* A worker is told None exactly when nothing is there for it, or a JSON    *)
(* null; and has the body of an object only if its conditions were met.     *)
AnswersAreHonest ==
  reply.sent # <<>> =>
    /\ builder.api = "kv_get" => (reply.told = "None" <=> ReadsAsNothing(reply.sent[1]["type"], reply.has))
    /\ builder.api = "r2_get" => (reply.told = "None" <=> reply.has = "nothing")
                                 /\ (reply.told = "Body" => reply.has \notin {"nothing", "unmet"})
    /\ builder.api = "cache_get" => (reply.told = "None" <=> reply.has = "nothing")
    /\ builder.api = "cache_delete" => (reply.told = "ResponseNotFound" <=> reply.has = "nothing")
    /\ builder.api = "r2_put" => (reply.told = "None" <=> reply.has \in {"nothing", "unmet"})

Ranges ==
  LET n == 0..MaxSafeRange IN
  {<<"OffsetWithLength", a, b>> : a \in n, b \in n} \cup {<<k, a>> : k \in {"OffsetToEnd", "Prefix", "Suffix"}, a \in n}

(* A range is read back as it was, and never as another.                    *)
RangeComesBack(r) == RangeFromJs(RangeToJs(r)) = r

(* get_bulk tells of every key whether something is there that is not a     *)
(* JSON null, or fails.                                                     *)
BulkIsWhole(m, h, n) ==
  LET told == BulkTold(m, h, n) IN
    told = <<"Err">> \/ (Len(told) = 2 /\ (told[1] = "None" <=> ReadsAsNothing(m, h))
                                      /\ (told[2] = "None" <=> ReadsAsNothing(m, n)))

OptionsKeepFaith == OptionsArrive /\ AnswersAreHonest
=============================================================================
