-------------------------------- MODULE Queue --------------------------------
(***************************************************************************)
(* queue.rs, from a producer to a consumer.  The producer's builders give  *)
(* each message a content type and a delay; send and send_batch serialize  *)
(* what they send and call the runtime once.  The consumer's batch is read *)
(* with a double-ended iterator that deserializes each message it yields,  *)
(* and messages, or all of them, are acknowledged or retried.  The queue   *)
(* itself is external.                                                     *)
(***************************************************************************)
EXTENDS Naturals, Sequences, FiniteSets, SequencesExt

CONSTANTS
  Message,      \* what may be sent
  Unwritable,   \* messages that do not serialize
  Unreadable,   \* messages that do not deserialize as the consumer's type
  Delays,       \* in seconds
  Unset,        \* an option that is not given
  MaxClock      \* of the clock

ASSUME QueueAssumption == MaxClock \in Nat /\ Delays \subseteq Nat

VARIABLES
  calls,    \* history: the messages that a send reported as sent, with what was asked for them
  queued,   \* the queue: messages with the options the runtime was given
  batch,    \* the batch that the consumer has, its iterator, what that has yielded
  clock

queueVars == <<calls, queued, batch, clock>>

ContentType == {"json", "text", "v8"}
Delay == Delays \cup {Unset}

-----------------------------------------------------------------------------
(* The builders.  A message without a builder is sent as JSON; a raw one    *)
(* has no content type that is not given.                                   *)
Options(type, delay) == [contentType |-> type, delaySeconds |-> delay]

Plain(m) == [message |-> m, options |-> Options("json", Unset)]
Built(m, type, delay) == [message |-> m, options |-> Options(type, delay)]

Builds(m) == {Plain(m)} \cup {Built(m, t, d) : t \in ContentType, d \in Delay}

(* into_raw_send_message: only what serializes is sent.                     *)
Serializes(sends) == \A i \in DOMAIN sends : sends[i].message \notin Unwritable

\* Mutant of BatchRequest: the delay of a message is left out.
BatchRequestUndelayed(send) ==
  [body |-> send.message, contentType |-> send.options.contentType, delaySeconds |-> Unset]

(* send_raw_batch: the object that the runtime gets for one message.        *)
BatchRequest(send) ==
  [body |-> send.message, contentType |-> send.options.contentType, delaySeconds |-> send.options.delaySeconds]

(* The runtime: a message's delay goes before the batch's.                  *)
Enqueued(request, batchDelay) ==
  LET delay == IF request.delaySeconds = Unset THEN batchDelay ELSE request.delaySeconds
  IN  [body |-> request.body, type |-> request.contentType, retries |-> 0,
       due |-> clock + (IF delay = Unset THEN 0 ELSE delay)]

Asked(send, batchDelay) ==
  LET own == send.options.delaySeconds
  IN  [body |-> send.message, type |-> send.options.contentType,
       from |-> clock + (IF own # Unset THEN own ELSE IF batchDelay # Unset THEN batchDelay ELSE 0)]

-----------------------------------------------------------------------------
(* BatchSendMessage: the messages and, when there is one, a delay for all.  *)
Batch(sends, delay) == [body |-> sends, delaySeconds |-> delay]

NoBatch == [open |-> FALSE, messages |-> <<>>, lo |-> 0, hi |-> 0, yields |-> <<>>,
            acked |-> {}, retried |-> {}, all |-> Unset, due |-> 0]

QueueInit == calls = {} /\ queued = {} /\ batch = NoBatch /\ clock = 0

(* Queue::send, and send_batch of several messages: one call of the runtime *)
(* or, when a message does not serialize, none.                             *)
Send(send) ==
  /\ Serializes(<<send>>)
  /\ queued' = queued \cup {Enqueued(BatchRequest(send), Unset)}
  /\ calls' = calls \cup {Asked(send, Unset)}
  /\ UNCHANGED <<batch, clock>>

SendBatch(all) ==
  /\ IF Serializes(all.body)
       THEN /\ queued' = queued \cup {Enqueued(BatchRequest(s), all.delaySeconds) : s \in Range(all.body)}
            /\ calls' = calls \cup {Asked(s, all.delaySeconds) : s \in Range(all.body)}
       ELSE UNCHANGED <<queued, calls>>
  /\ UNCHANGED <<batch, clock>>

(* The runtime delivers messages whose delay is over.                       *)
DeliverBatch(ms) ==
  /\ ~batch.open /\ ms # {}
  /\ \A m \in ms : m.due <= clock
  /\ batch' = [NoBatch EXCEPT !.open = TRUE, !.messages = SetToSeq(ms), !.hi = Cardinality(ms)]
  /\ queued' = queued \ ms
  /\ UNCHANGED <<calls, clock>>

(* Message::try_from: a message that does not deserialize is an error.      *)
Yield(index) ==
  [index |-> index, ok |-> batch.messages[index + 1].body \notin Unreadable]

(* The iterators: a range of indices of the array.                          *)
Next_ ==
  /\ batch.open /\ batch.lo < batch.hi
  /\ batch' = [batch EXCEPT !.lo = @ + 1, !.yields = Append(@, Yield(batch.lo))]
  /\ UNCHANGED <<calls, queued, clock>>

\* Mutant of NextBack: the index is that of the range's end.
NextBackStale ==
  /\ batch.open /\ batch.lo < batch.hi
  /\ batch' = [batch EXCEPT !.hi = @ - 1,
                            !.yields = Append(@, Yield(IF batch.hi < Len(batch.messages) THEN batch.hi ELSE batch.hi - 1))]
  /\ UNCHANGED <<calls, queued, clock>>

NextBack ==
  /\ batch.open /\ batch.lo < batch.hi
  /\ batch' = [batch EXCEPT !.hi = @ - 1, !.yields = Append(@, Yield(batch.hi - 1))]
  /\ UNCHANGED <<calls, queued, clock>>

\* Mutant of RawNext: the end of the range is taken for a message.
RawNextPastEnd ==
  /\ batch.open /\ batch.lo <= batch.hi
  /\ batch' = [batch EXCEPT !.lo = @ + 1, !.yields = Append(@, [index |-> batch.lo, ok |-> TRUE])]
  /\ UNCHANGED <<calls, queued, clock>>

(* raw_iter yields every message as it is.                                  *)
RawNext ==
  /\ batch.open /\ batch.lo < batch.hi
  /\ batch' = [batch EXCEPT !.lo = @ + 1, !.yields = Append(@, [index |-> batch.lo, ok |-> TRUE])]
  /\ UNCHANGED <<calls, queued, clock>>

SizeHint == batch.hi - batch.lo

(* QueueRetryOptions: after a delay, or as the queue has it.                *)
RetryAt(delay) == clock + (IF delay = Unset THEN 0 ELSE delay)

(* ack and retry of a message that was yielded; the runtime keeps the first *)
(* decision.                                                                *)
Decide(index, decision, delay) ==
  /\ batch.open /\ \E i \in DOMAIN batch.yields : batch.yields[i].index = index /\ batch.yields[i].ok
  /\ index \notin batch.acked \cup batch.retried
  /\ batch' = IF decision = "ack" THEN [batch EXCEPT !.acked = @ \cup {index}]
                                  ELSE [batch EXCEPT !.retried = @ \cup {index}, !.due = RetryAt(delay)]
  /\ UNCHANGED <<calls, queued, clock>>

DecideAll(decision, delay) ==
  /\ batch.open /\ batch.all = Unset
  /\ batch' = [batch EXCEPT !.all = decision, !.due = RetryAt(delay)]
  /\ UNCHANGED <<calls, queued, clock>>

(* A handler that fails, for instance with the error that messages() makes  *)
(* of one message, has every message retried that is not acknowledged.      *)
HandlerReturns(ok) ==
  /\ batch.open
  /\ LET again == {i \in 0..Len(batch.messages) - 1 :
                     \/ i \in batch.retried
                     \/ i \notin batch.acked /\ (batch.all = "retry" \/ (batch.all = Unset /\ ~ok))}
     IN  queued' = queued \cup {[batch.messages[i + 1] EXCEPT !.retries = 1, !.due = batch.due] : i \in again}
  /\ batch' = NoBatch
  /\ UNCHANGED <<calls, clock>>

QueueTick == clock < MaxClock /\ clock' = clock + 1 /\ UNCHANGED <<calls, queued, batch>>

Sends == UNION {Builds(m) : m \in Message}

QueueNext ==
  \/ \E s \in Sends : calls = {} /\ Send(s)
  \/ \E s, t \in Sends, d \in Delay : calls = {} /\ s.message # t.message /\ SendBatch(Batch(<<s, t>>, d))
  \/ \E ms \in SUBSET queued : DeliverBatch(ms)
  \/ Next_ \/ NextBack \/ RawNext \/ QueueTick
  \/ \E i \in 0..1, d \in {"ack", "retry"} : Decide(i, d, Unset)
  \/ \E i \in 0..1, t \in Delays : Decide(i, "retry", t)
  \/ \E d \in {"ack", "retry"} : DecideAll(d, Unset)
  \/ \E ok \in BOOLEAN : HandlerReturns(ok)

QueueSpec == QueueInit /\ [][QueueNext]_queueVars

QueueTypeOK ==
  /\ \A m \in queued : m.type \in ContentType /\ m.retries \in 0..1
  /\ batch.lo \in 0..batch.hi /\ batch.hi \in 0..Len(batch.messages)
  /\ clock \in 0..MaxClock

-----------------------------------------------------------------------------
(* Whatever ends it is read from, the iterator yields each message of a     *)
(* batch once, those that do not deserialize too, and knows how many are    *)
(* left.                                                                    *)
EachOnce ==
  batch.open =>
    LET seen == {batch.yields[i].index : i \in DOMAIN batch.yields} IN
    /\ Cardinality(seen) = Len(batch.yields)
    /\ SizeHint + Len(batch.yields) = Len(batch.messages)
    /\ seen \cup (batch.lo..batch.hi - 1) = 0..Len(batch.messages) - 1

(* What a consumer gets was sent, by a call that said so, as the content    *)
(* type and no earlier than its builder, or that of its batch, asked for.   *)
ArrivesAsAsked ==
  batch.open =>
    \A i \in DOMAIN batch.messages :
      \E c \in calls : /\ c.body = batch.messages[i].body /\ c.type = batch.messages[i].type
                       /\ c.from <= clock

QueueKeepsFaith == EachOnce /\ ArrivesAsAsked
=============================================================================
