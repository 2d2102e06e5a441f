------------------------------ MODULE WebSocket ------------------------------
(***************************************************************************)
(* websocket.rs: a worker's end of a WebSocket.  events() registers three  *)
(* listeners that feed a queue, the EventStream is polled from it and      *)
(* removes them when dropped; send hands text or a copy of bytes to the    *)
(* runtime, which sends later.  The peer and the runtime are external.     *)
(***************************************************************************)
EXTENDS Naturals, Sequences, SequencesExt

CONSTANTS MaxEvents   \* that the runtime dispatches

ASSUME EventsAssumption == MaxEvents \in Nat

VARIABLES
  ws,       \* how the socket was got, and whether it was accepted and closed
  stream,   \* the EventStream: its receiver, what it knows, what it has yielded
  hooks,    \* event types with a listener, and those whose closure is freed
  memory,   \* the bytes that the worker sends, which it may overwrite
  wire,     \* what the runtime has yet to send
  was       \* history: events dispatched while the stream was there; sends; misses

wsVars == <<ws, stream, hooks, memory, wire, was>>

Types == {"message", "error", "close"}
NoStream == [up |-> FALSE, rx |-> <<>>, closed |-> FALSE, yields |-> <<>>]

WsInit ==
  /\ ws = [from |-> "none", accepted |-> FALSE, closed |-> FALSE]
  /\ stream = NoStream /\ hooks = [on |-> {}, freed |-> {}]
  /\ memory = 0 /\ wire = <<>>
  /\ was = [events |-> <<>>, count |-> 0, sent |-> <<>>, arrived |-> <<>>, missed |-> 0]

-----------------------------------------------------------------------------
(* connect: the scheme that fetch understands, an upgrade header, the       *)
(* protocols; without a socket in the response it fails.                    *)
FetchScheme(scheme) == CASE scheme = "ws" -> "http" [] scheme = "wss" -> "https" [] OTHER -> scheme

ConnectRequest(scheme, protocols) ==
  [scheme |-> FetchScheme(scheme), method |-> "GET",
   headers |-> {"upgrade"} \cup (IF protocols THEN {"Sec-WebSocket-Protocol"} ELSE {})]

Connect(scheme, protocols) ==
  LET request == ConnectRequest(scheme, protocols)
      upgraded == request.scheme \in {"http", "https"} /\ "upgrade" \in request.headers
  IN  /\ ws.from = "none"
      /\ ws' = IF upgraded THEN [ws EXCEPT !.from = "response"] ELSE [ws EXCEPT !.from = "refused"]
      /\ UNCHANGED <<stream, hooks, memory, wire, was>>

(* WebSocketPair::new: the server's end.                                    *)
NewPair == ws.from = "none" /\ ws' = [ws EXCEPT !.from = "pair"] /\ UNCHANGED <<stream, hooks, memory, wire, was>>

There == ws.from \in {"response", "pair"}

Accept == There /\ ~ws.accepted /\ ws' = [ws EXCEPT !.accepted = TRUE] /\ UNCHANGED <<stream, hooks, memory, wire, was>>

(* events: a listener is added for close, message and error in this order;  *)
(* if one cannot be, the closures that were made are freed, not removed.    *)
Events(added) ==
  LET order == <<"close", "message", "error">> now == {order[i] : i \in 1..added} IN
  /\ There /\ ~stream.up
  /\ IF added = 3
       THEN /\ hooks' = [hooks EXCEPT !.on = now]
            /\ stream' = [NoStream EXCEPT !.up = TRUE]
            /\ was' = [was EXCEPT !.events = <<>>]
       ELSE /\ hooks' = [hooks EXCEPT !.freed = @ \cup now]
            /\ UNCHANGED <<stream, was>>
  /\ UNCHANGED <<ws, memory, wire>>

(* The runtime dispatches an event to the listeners; the last is close.     *)
Dispatch(type) ==
  /\ There /\ ws.accepted /\ ~ws.closed /\ was.count < MaxEvents
  /\ ws' = [ws EXCEPT !.closed = (type = "close")]
  /\ stream' = IF type \in hooks.on /\ stream.up THEN [stream EXCEPT !.rx = Append(@, <<type, was.count>>)] ELSE stream
  /\ was' = [was EXCEPT !.count = @ + 1,
                        !.events = IF stream.up THEN Append(@, <<type, was.count>>) ELSE @,
                        !.missed = IF type \in hooks.on /\ ~stream.up THEN @ + 1 ELSE @]
  /\ UNCHANGED <<hooks, memory, wire>>

\* Mutant of PollNext: a close event does not end the stream.
PollNextOn ==
  /\ stream.up /\ stream.rx # <<>>
  /\ stream' = [stream EXCEPT !.rx = Tail(@), !.yields = Append(@, Head(stream.rx))]
  /\ UNCHANGED <<ws, hooks, memory, wire, was>>

(* poll_next: nothing after the close event; Pending while there is nothing.*)
PollNext ==
  /\ stream.up
  /\ IF stream.closed
       THEN stream' = [stream EXCEPT !.yields = IF Last(@)[1] = "end" THEN @ ELSE Append(@, <<"end", 0>>)]
       ELSE /\ stream.rx # <<>>
            /\ stream' = [stream EXCEPT !.rx = Tail(@), !.yields = Append(@, Head(stream.rx)),
                                        !.closed = Head(stream.rx)[1] = "close"]
  /\ UNCHANGED <<ws, hooks, memory, wire, was>>

(* Drop: the listeners are removed with the closures that they call.        *)
DropStream ==
  /\ stream.up
  /\ stream' = NoStream /\ hooks' = [hooks EXCEPT !.on = {}]
  /\ UNCHANGED <<ws, memory, wire, was>>

-----------------------------------------------------------------------------
(* A message is text that was serialized, or bytes: those are copied to a   *)
(* buffer of their own, for the runtime sends after send has returned.      *)
SendWithStr(ok) ==
  /\ There /\ ws.accepted /\ ~ws.closed /\ Len(was.sent) < 2
  /\ IF ok THEN wire' = Append(wire, <<"text", memory>>) /\ was' = [was EXCEPT !.sent = Append(@, memory)]
           ELSE UNCHANGED <<wire, was>>
  /\ UNCHANGED <<ws, stream, hooks, memory>>

\* Mutant of SendWithBytes: the runtime is given the worker's memory.
SendWithBytesOfMemory ==
  /\ There /\ ws.accepted /\ ~ws.closed /\ Len(was.sent) < 2
  /\ wire' = Append(wire, <<"view", 0>>) /\ was' = [was EXCEPT !.sent = Append(@, memory)]
  /\ UNCHANGED <<ws, stream, hooks, memory>>

SendWithBytes ==
  /\ There /\ ws.accepted /\ ~ws.closed /\ Len(was.sent) < 2
  /\ wire' = Append(wire, <<"copy", memory>>) /\ was' = [was EXCEPT !.sent = Append(@, memory)]
  /\ UNCHANGED <<ws, stream, hooks, memory>>

(* The worker's buffer is freed and used again.                             *)
Overwrite == memory = 0 /\ was.sent # <<>> /\ memory' = 1 /\ UNCHANGED <<ws, stream, hooks, wire, was>>

RuntimeSends ==
  /\ wire # <<>> /\ wire' = Tail(wire)
  /\ was' = [was EXCEPT !.arrived = Append(@, IF Head(wire)[1] = "view" THEN memory ELSE Head(wire)[2])]
  /\ UNCHANGED <<ws, stream, hooks, memory>>

(* close: a reason without a code is not passed.                            *)
CloseArguments(code, reason) == IF code /\ reason THEN 2 ELSE IF code THEN 1 ELSE 0

Close(code, reason) ==
  /\ There /\ ws.accepted /\ ~ws.closed
  /\ wire' = Append(wire, <<"close", CloseArguments(code, reason)>>)
  /\ was' = [was EXCEPT !.sent = Append(@, IF ~code THEN 0 ELSE IF reason THEN 2 ELSE 1)]
  /\ Len(was.sent) < 2
  /\ UNCHANGED <<ws, stream, hooks, memory>>

WsNext ==
  \/ \E s \in {"ws", "wss", "ftp"}, p \in BOOLEAN : Connect(s, p)
  \/ NewPair \/ Accept \/ PollNext \/ DropStream
  \/ \E n \in 0..3 : Events(n)
  \/ \E t \in Types : Dispatch(t)
  \/ \E ok \in BOOLEAN : SendWithStr(ok)
  \/ SendWithBytes \/ Overwrite \/ RuntimeSends
  \/ \E c, r \in BOOLEAN : Close(c, r)

WsSpec == WsInit /\ [][WsNext]_wsVars

WsTypeOK ==
  /\ ws.from \in {"none", "response", "pair", "refused"}
  /\ hooks.on \subseteq Types /\ hooks.freed \subseteq Types
  /\ was.count \in 0..MaxEvents /\ memory \in 0..1

-----------------------------------------------------------------------------
(* A stream yields the events dispatched while it is there, in their order, *)
(* none twice and none left out; after a close event nothing but the end.   *)
CloseIsLast ==
  /\ LET ended == stream.yields # <<>> /\ Last(stream.yields)[1] = "end"
         items == IF ended THEN Front(stream.yields) ELSE stream.yields
     IN  stream.up => items \o stream.rx = was.events
  /\ \A i \in 1..Len(stream.yields) - 1 : stream.yields[i][1] = "close" => stream.yields[i + 1][1] = "end"
  /\ ws.closed /\ stream.up /\ stream.rx = <<>> /\ was.events # <<>> => stream.closed

(* No event is dispatched to the closure of a stream that is dropped; the   *)
(* peer gets each message as it was when it was sent, whatever the worker   *)
(* does with its memory.                                                    *)
SentAsGiven == was.missed = 0 /\ IsPrefix(was.arrived, was.sent)

SocketKeepsFaith == CloseIsLast /\ SentAsGiven
=============================================================================
