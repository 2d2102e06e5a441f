------------------------------- MODULE MCRuntime -------------------------------
(***************************************************************************)
(* The parts of the worker crate that a worker's isolate holds and that do *)
(* not share state: one of them is looked at in a behaviour, by subject,   *)
(* the others stay as they are.  The subject "values" has no steps but one *)
(* state for each value that a conversion is asked for.                    *)
(***************************************************************************)
EXTENDS DurableObject, Queue, Workflow, WebSocket, Streams, Http, Databases, Options, Errors

VARIABLES
  subject,  \* the part that is looked at
  probe     \* the value, when it is a conversion

vars == <<subject, probe, doVars, queueVars, wfVars, wsVars, stVars, httpVars, dbVars, optVars>>

-----------------------------------------------------------------------------
(* What JavaScript throws: errors with or without a code whose causes are   *)
(* each other, themselves, strings, other values or nothing.                *)
Ids == {"1", "2", "3"}
Heaps ==
  {{Object(i, "Error", code[i], cause[i]) : i \in Ids} \cup {String("6"), Other("7")} :
     code \in [Ids -> {"none", "E_RATE_LIMIT_EXCEEDED"}], cause \in [Ids -> Ids \cup {"6", "7", "none"}]}

Probes == {<<"thrown", h>> : h \in Heaps}
            \cup {<<"integer", i>> : i \in -4 * (MaxSafe + 1) .. 4 * (MaxSafe + 1)} \cup {<<"range", r>> : r \in Ranges}
            \cup {<<"bulk", m, h, n>> : m \in {"text", "json"}, h, n \in {"nothing", "value", "jsonNull", "unparsable"}}

Subjects == {"durable", "queue", "workflow", "websocket", "streams", "http", "sql", "d1", "options", "values"}

Init ==
  /\ subject \in Subjects
  /\ probe \in IF subject = "values" THEN Probes ELSE {<<"none">>}
  /\ DoInit /\ QueueInit /\ WfInit /\ WsInit /\ StInit /\ HttpInit /\ DbInit /\ OptInit

Only(s) ==
  /\ subject = s /\ UNCHANGED <<subject, probe>>
  /\ s # "durable"      => UNCHANGED doVars
  /\ s # "queue"        => UNCHANGED queueVars
  /\ s # "workflow"     => UNCHANGED wfVars
  /\ s # "websocket"    => UNCHANGED wsVars
  /\ s # "streams"      => UNCHANGED stVars
  /\ s # "http"         => UNCHANGED httpVars
  /\ s \notin {"sql", "d1"} => UNCHANGED dbVars
  /\ s # "options"      => UNCHANGED optVars

Next ==
  \/ subject = "durable"   /\ DoNext    /\ Only("durable")
  \/ subject = "queue"     /\ QueueNext /\ Only("queue")
  \/ subject = "workflow"  /\ WfNext    /\ Only("workflow")
  \/ subject = "websocket" /\ WsNext    /\ Only("websocket")
  \/ subject = "streams"   /\ StNext    /\ Only("streams")
  \/ subject = "http"      /\ HttpNext  /\ Only("http")
  \/ subject = "sql"       /\ SqlNext   /\ Only("sql")
  \/ subject = "d1"        /\ D1Next    /\ Only("d1")
  \/ subject = "options"   /\ OptNext   /\ Only("options")

Spec == Init /\ [][Next]_vars

-----------------------------------------------------------------------------
(* Each component's state is of its type.                                   *)
TypeOK ==
  /\ DoTypeOK /\ QueueTypeOK /\ WfTypeOK /\ WsTypeOK
  /\ StTypeOK /\ HttpTypeOK /\ DbTypeOK /\ OptTypeOK

(* A Durable Object gets no event before the initialisation that its        *)
(* constructor started is over, no alarm early; its transactions are atomic.*)
(* A Workflow's steps end once, and as the worker is told.                  *)
EnginesKeepOrder == EventsWait /\ TransactionsAreAtomic /\ StepsEndOnce

(* What is sent to a queue or over a WebSocket arrives as it was when it    *)
(* was sent, and is handed to the worker once and in order.                 *)
MessagesKeepFaith ==
  /\ subject = "queue" => QueueKeepsFaith
  /\ subject = "websocket" => SocketKeepsFaith

(* Bodies and streams are read once and whole or not as if whole; delays do *)
(* not end early; requests go to the route that they match.                 *)
BodiesKeepFaith ==
  /\ subject = "streams" => StreamsKeepFaith
  /\ subject = "http" => HttpKeepsFaith

(* Options, statements and values mean in JavaScript what they meant in     *)
(* Rust, and the answers in Rust what they meant in JavaScript, a JSON null *)
(* in KV being as good as nothing; what From<JsValue> made an Error of is   *)
(* thrown again as it was, whatever its causes, what KV or D1 wrapped as a  *)
(* new Error.                                                               *)
ArgumentsArrive ==
  /\ subject = "options" => OptionsKeepFaith
  /\ subject \in {"sql", "d1"} => DatabasesKeepFaith
  /\ CASE probe[1] = "thrown"  -> Rethrown(probe[2])
       [] probe[1] = "integer" -> IntegersAreExact(probe[2])
       [] probe[1] = "range"   -> RangeComesBack(probe[2])
       [] probe[1] = "bulk"    -> BulkIsWhole(probe[2], probe[3], probe[4])
       [] OTHER                -> TRUE
=============================================================================
