-------------------------------- MODULE Errors --------------------------------
(***************************************************************************)
(* error.rs: how what JavaScript throws becomes an Error and how an Error  *)
(* is thrown again.  A JavaScript value is an Error object, a string or    *)
(* something else; an Error object has a code, perhaps, and a cause, which *)
(* may be itself.  Messages are carried along; wording is left out.        *)
(***************************************************************************)
EXTENDS Naturals, Sequences, FiniteSets, SequencesExt, FiniteSetsExt

Coded == [E_RECIPIENT_SUPPRESSED |-> "EmailRecipientSuppressed",
          RCPT_NOT_ALLOWED |-> "EmailRecipientNotAllowed",
          E_RATE_LIMIT_EXCEEDED |-> "RateLimitExceeded",
          E_DAILY_LIMIT_EXCEEDED |-> "DailyLimitExceeded",
          E_INTERNAL_SERVER_ERROR |-> "InternalError"]

(* An Error object that a program makes has no cause and a fresh identity.  *)
Object(id, name, code, cause) == [kind |-> "error", id |-> id, name |-> name, code |-> code, cause |-> cause]
String(s) == [kind |-> "string", id |-> s, name |-> "none", code |-> "none", cause |-> "none"]
Other(id) == [kind |-> "other", id |-> id, name |-> "none", code |-> "none", cause |-> "none"]

MaxCauseDepth == 16

(* The chain of causes of the value v among heap, cut at the depth that is  *)
(* left: v's own variant first.                                             *)
Variant(v) ==
  IF v.kind = "error" /\ v.code \in DOMAIN Coded THEN Coded[v.code]
  ELSE IF v.kind = "error" THEN "UnknownJsError"
  ELSE IF v.kind = "string" THEN "JsError"
  ELSE "Internal"

\* Mutant of Chain: the depth is not counted down.
ChainUncounted(heap, v) ==
  LET chain[depth \in 0..3 * MaxCauseDepth] ==
        [w \in heap |->
           <<Variant(w)>> \o
             (IF depth = 0 \/ Variant(w) # "UnknownJsError" \/ w.cause = "none" THEN <<>>
              ELSE chain[depth - 1][CHOOSE c \in heap : c.id = w.cause])]
  IN  chain[3 * MaxCauseDepth][v]

Chain(heap, v) ==
  LET chain[depth \in 0..MaxCauseDepth] ==
        [w \in heap |->
           <<Variant(w)>> \o
             (IF depth = 0 \/ Variant(w) # "UnknownJsError" \/ w.cause = "none" THEN <<>>
              ELSE chain[depth - 1][CHOOSE c \in heap : c.id = w.cause])]
  IN  chain[MaxCauseDepth][v]

(* From<JsValue> for Error; the original is kept by the variants that can.  *)
FromJs(heap, v) ==
  LET chain == Chain(heap, v) IN
  [variant |-> chain[1], source |-> Tail(chain), message |-> v.id,
   original |-> IF chain[1] \in {"UnknownJsError", "Internal"} THEN v ELSE "none"]

(* An Error that Rust code makes: a message, or an error with a source.     *)
RustErrors == {"RustError", "BindingError", "BadEncoding", "BodyUsed", "RouteNoDataError", "Infallible", "Json",
               "RouteInsertError", "Io", "Utf8Error", "SerdeJsonError", "Http", "StatusCode", "TimezoneError", "D1", "KvError"}
WithSource == {"RouteInsertError", "Io", "Utf8Error", "SerdeJsonError", "Http", "StatusCode"}

(* Which Error a Rust error becomes.                                        *)
FromRust ==
  [io |-> "Io", utf8 |-> "Utf8Error", json |-> "SerdeJsonError", http |-> "Http", status |-> "StatusCode",
   header |-> "RustError", timezone |-> "RustError", url |-> "RustError", urlencoded |-> "RustError", text |-> "RustError",
   kv |-> "KvError", d1 |-> "D1", route |-> "RouteInsertError", infallible |-> "Infallible"]

RustError(from) ==
  [variant |-> FromRust[from], source |-> IF FromRust[from] \in WithSource THEN <<from>> ELSE <<>>,
   message |-> from, original |-> "none"]

(* KvError::JavaScript and D1Error keep the value that was thrown; as an    *)
(* Error the first is told by the value, the second by its cause.           *)
Wrapped(via, v) == [RustError(via) EXCEPT !.message = <<via, IF via = "d1" THEN v.cause ELSE v.id>>]

(* From<Error> for JsValue and to_js_value: what is thrown.  A new Error    *)
(* object has the message, with that of the sources, or the code again.     *)
ToJs(e) ==
  CASE e.variant \in {"UnknownJsError", "Internal"} -> e.original
    [] e.variant = "JsError"                        -> String(e.message)
    [] \E c \in DOMAIN Coded : Coded[c] = e.variant -> Object(e.message, "Error", CHOOSE c \in DOMAIN Coded : Coded[c] = e.variant, "none")
    [] OTHER                                        -> Object(e.message, "Error", "none", "none")

(* Display, with the sources that a log shows after it.                     *)
Shown(e) == <<e.variant>> \o e.source

-----------------------------------------------------------------------------
(* What a worker catches as an Error of the crate and throws again is what  *)
(* was thrown: the object itself or, of the coded errors, one with the same *)
(* message and code; a chain of causes ends even when it is a cycle.  Not   *)
(* so what KV or D1 wrapped in an error of its own: a new Error is thrown,  *)
(* without its code, and of D1's nothing but the cause is told.             *)
Rethrown(heap) ==
  \A v \in heap :
    LET e == FromJs(heap, v) t == ToJs(e) IN
    /\ t.kind = v.kind /\ t.id = v.id /\ t.code = v.code
    /\ v.code \notin DOMAIN Coded => t = v
    /\ Len(Shown(e)) <= 1 + MaxCauseDepth
    /\ \A via \in {"kv", "d1"} : ToJs(Wrapped(via, v)) = Object(Wrapped(via, v).message, "Error", "none", "none")
=============================================================================
