------------------------------- MODULE Streams -------------------------------
(***************************************************************************)
(* Bodies and timers: streams.rs and http/body.rs read and make streams of *)
(* bytes, delay.rs waits on setTimeout, abort.rs cancels.  A source gives  *)
(* chunks of one byte or two, an error, or ends; errors are told apart by  *)
(* what the code tells apart.  Promises and timers are external.           *)
(***************************************************************************)
EXTENDS Integers, Sequences, FiniteSets, SequencesExt

CONSTANTS
  MaxLength,  \* of a FixedLengthStream
  MaxTime_,   \* of the clock, in milliseconds
  MaxI32      \* stands for i32::MAX, 2^31 - 1

ASSUME StreamsAssumption == MaxLength \in Nat /\ MaxTime_ \in Nat /\ MaxI32 \in Nat

VARIABLES
  reader,   \* the stream that is read: of which kind, what it counts, what it has given
  source,   \* the JavaScript or Rust stream under it: what it has given
  delay,    \* the Delay, its closure and its timer
  signal,   \* an AbortSignal, and a fetch that was given it
  time

stVars == <<reader, source, delay, signal, time>>

Kinds == {"ByteStream", "FixedLengthStream", "Body", "BodyStream"}
NoReader == [kind |-> "none", length |-> 0, read |-> 0, out |-> <<>>]
NoDelay == [at |-> "none", ms |-> 0, since |-> 0, closure |-> "none", timer |-> "none", awoken |-> FALSE, waker |-> "none", calls |-> "none"]

StInit ==
  /\ reader = NoReader /\ source = <<>>
  /\ delay = NoDelay
  /\ signal = [aborted |-> FALSE, reason |-> "none", controller |-> "held", fetch |-> "none", got |-> "none"]
  /\ time = 0

-----------------------------------------------------------------------------
Bytes(item) == CASE item = "one" -> 1 [] item = "two" -> 2 [] OTHER -> 0

Open(kind, length) ==
  /\ reader = NoReader
  /\ reader' = [NoReader EXCEPT !.kind = kind, !.length = length]
  /\ UNCHANGED <<source, delay, signal, time>>

(* ByteStream: a stream that is aborted is one that has ended.              *)
ByteItem(item) == IF item = "aborted" THEN "None" ELSE IF item \in {"error", "trailers"} THEN "Err" ELSE item

\* Mutant of FixedItem: a stream that ends early is not told from a whole one.
FixedItemUnchecked(item, read, length) ==
  CASE item \in {"error", "aborted", "trailers"}  -> "Err"
    [] item = "None"                              -> "None"
    [] OTHER                                      -> IF read + Bytes(item) > length THEN "Err" ELSE item

(* FixedLengthStream: what is given is counted; one chunk too many, or an   *)
(* end too early, is an error.                                              *)
FixedItem(item, read, length) ==
  CASE item \in {"error", "aborted", "trailers"}  -> "Err"
    [] item = "None"                              -> IF read # length THEN "Err" ELSE "None"
    [] OTHER                                      -> IF read + Bytes(item) > length THEN "Err" ELSE item

(* Body and BodyStream: an error is told, but not which; what is not data,  *)
(* trailers, ends the stream.                                               *)
BodyItem(item) == CASE item \in {"error", "aborted"} -> "Err" [] item = "trailers" -> "None" [] OTHER -> item

(* poll_next of the stream with what the source gives.                      *)
Polled(r, item) ==
  CASE r.kind = "ByteStream"        -> ByteItem(item)
    [] r.kind = "FixedLengthStream" -> FixedItem(item, r.read, r.length)
    [] OTHER                        -> BodyItem(item)

Total(items) ==
  Cardinality({i \in DOMAIN items : items[i] = "one"}) + 2 * Cardinality({i \in DOMAIN items : items[i] = "two"})

PollStream(item) ==
  /\ reader # NoReader /\ Len(source) < 4
  /\ ~\E i \in DOMAIN source : source[i] \in {"None", "aborted", "error"}
  /\ source' = Append(source, item)
  /\ reader' = [reader EXCEPT !.read = @ + Bytes(item), !.out = Append(@, Polled(reader, item))]
  /\ UNCHANGED <<delay, signal, time>>

-----------------------------------------------------------------------------
(* Delay: any Duration; the time that it asks for is in milliseconds.       *)
NewDelay(ms) ==
  /\ delay.at = "none"
  /\ delay' = [NoDelay EXCEPT !.at = "held", !.ms = ms]
  /\ UNCHANGED <<reader, source, signal, time>>

(* as_millis() as i32 keeps the lower 32 bits.                              *)
AsI32(ms) ==
  LET low == ms % (2 * (MaxI32 + 1)) IN IF low <= MaxI32 THEN low ELSE low - 2 * (MaxI32 + 1)

(* setTimeout does not wait for a negative time.                            *)
Timeout(ms) == IF AsI32(ms) < 0 THEN 0 ELSE AsI32(ms)

(* The first poll makes the closure, which has that poll's waker, and       *)
(* starts the timer; the closure wakes the task and is then remembered.     *)
PollDelay(task) ==
  /\ delay.at = "held"
  /\ delay' = IF delay.awoken THEN [delay EXCEPT !.at = "ready"]
              ELSE IF delay.closure = "none"
                THEN [delay EXCEPT !.closure = "live", !.timer = "armed", !.waker = task, !.since = time]
                ELSE delay
  /\ UNCHANGED <<reader, source, signal, time>>

TimerFires ==
  /\ delay.timer = "armed" /\ time >= delay.since + Timeout(delay.ms)
  /\ delay' = [delay EXCEPT !.timer = "fired", !.awoken = TRUE,
                            !.calls = IF @ = "freed" THEN @ ELSE delay.closure]
  /\ UNCHANGED <<reader, source, signal, time>>

\* Mutant of DropDelay: the timer is not cleared.
DropDelayArmed ==
  /\ delay.at \in {"held", "ready"}
  /\ delay' = [delay EXCEPT !.at = "dropped", !.closure = IF @ = "live" THEN "freed" ELSE @]
  /\ UNCHANGED <<reader, source, signal, time>>

(* Drop: the timer that has not fired is cleared, the closure is freed.     *)
DropDelay ==
  /\ delay.at \in {"held", "ready"}
  /\ delay' = [delay EXCEPT !.at = "dropped", !.closure = IF @ = "live" THEN "freed" ELSE @,
                            !.timer = IF ~delay.awoken /\ @ = "armed" THEN "cleared" ELSE @]
  /\ UNCHANGED <<reader, source, signal, time>>

Elapse == time < MaxTime_ /\ time' = time + 1 /\ UNCHANGED <<reader, source, delay, signal>>

-----------------------------------------------------------------------------
(* AbortController: abort takes the controller, with a reason or without;   *)
(* AbortSignal::abort makes a signal that is aborted from the beginning.    *)
Abort(reason) ==
  /\ signal.controller = "held"
  /\ signal' = [signal EXCEPT !.controller = "used", !.aborted = TRUE, !.reason = reason]
  /\ UNCHANGED <<reader, source, delay, time>>

Reason == IF signal.aborted THEN signal.reason ELSE "None"

(* A fetch with the signal: the runtime answers or, when it is aborted      *)
(* before that, rejects with the reason.                                    *)
FetchWithSignal ==
  /\ signal.fetch = "none" /\ signal' = [signal EXCEPT !.fetch = "pending"]
  /\ UNCHANGED <<reader, source, delay, time>>

FetchSettles ==
  /\ signal.fetch = "pending"
  /\ signal' = [signal EXCEPT !.fetch = "done", !.got = IF Reason = "None" THEN "response" ELSE Reason]
  /\ UNCHANGED <<reader, source, delay, time>>

(* On both sides of where an i32 ends, and a time that comes round to one.  *)
Times == {0, MaxI32, MaxI32 + 1, 2 * (MaxI32 + 1) + 1}

StNext ==
  \/ \E k \in Kinds, n \in 0..MaxLength : (k # "FixedLengthStream" => n = 0) /\ Open(k, n)
  \/ \E item \in {"one", "two", "None", "error", "aborted"} : PollStream(item)
  \/ reader.kind \in {"Body", "BodyStream"} /\ PollStream("trailers")
  \/ \E ms \in Times : NewDelay(ms)
  \/ \E t \in {"t1", "t2"} : PollDelay(t)
  \/ TimerFires \/ DropDelay \/ Elapse
  \/ \E r \in {"AbortError", "given"} : Abort(r)
  \/ FetchWithSignal \/ FetchSettles

StSpec == StInit /\ [][StNext]_stVars

StTypeOK ==
  /\ reader.kind \in Kinds \cup {"none"} /\ reader.read \in 0..8
  /\ delay.at \in {"none", "held", "ready", "dropped"} /\ time \in 0..MaxTime_

-----------------------------------------------------------------------------
(* A reader that is told the end without an error has had every byte: of a  *)
(* stream of fixed length as many as it says, of a body those before its    *)
(* end or its trailers, of a ByteStream those before its end or its abort,  *)
(* which it does not tell apart (streams.rs:43).                            *)
EndIsWhole ==
  LET out == reader.out errs == \E i \in DOMAIN out : out[i] = "Err" IN
  out # <<>> /\ Last(out) = "None" /\ ~errs =>
    /\ Total(out) = Total(source)
    /\ reader.kind = "FixedLengthStream" => Total(out) = reader.length /\ Last(source) = "None"
    /\ reader.kind = "ByteStream" => Last(source) \in {"None", "aborted"}
    /\ reader.kind \in {"Body", "BodyStream"} => Last(source) \in {"None", "trailers"}

(* A timer never calls the closure of a delay that is dropped, and a delay  *)
(* that is over has lasted as long as it was asked to, counted from its     *)
(* first poll, if that fits in an i32.  One that does not fit is shorter    *)
(* than asked (delay.rs:57): it ends after what its lower 32 bits say, and  *)
(* at once where those say a negative number.                               *)
DelaysAreKept ==
  /\ delay.calls # "freed"
  /\ delay.at = "ready" =>
       /\ delay.timer = "fired" /\ delay.waker # "none"
       /\ delay.ms <= MaxI32 => time >= delay.since + delay.ms
       /\ delay.ms > MaxI32 => time >= delay.since + Timeout(delay.ms)

StreamsKeepFaith == EndIsWhole /\ DelaysAreKept
=============================================================================
