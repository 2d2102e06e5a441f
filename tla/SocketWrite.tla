----------------------------- MODULE SocketWrite -----------------------------
(***************************************************************************)
(* The writing half of worker::Socket: poll_write, poll_flush and          *)
(* poll_shutdown turn the promises of a JavaScript WritableStream into     *)
(* tokio's AsyncWrite.  A write holds the stream's writer lock until its   *)
(* promise has settled and has been polled; the length it was begun with   *)
(* is what it reports, because the caller may poll it with a longer buffer *)
(* by then.  Bytes are counted: the caller's next buffer begins after the  *)
(* bytes that poll_write has reported to it.                               *)
(*                                                                         *)
(* The stream is external: it is modelled from the calls socket.rs makes   *)
(* on it.  A JsFuture is never ready in the poll that made it.             *)
(***************************************************************************)
EXTENDS Naturals

CONSTANTS
  Limit,   \* bound on the bytes that are written
  Buf      \* the sizes of the caller's buffers

ASSUME LimitAssumption == Limit \in Nat
ASSUME BufAssumption == Buf \subseteq Nat

VARIABLES
  writing,     \* self.write: is a write under way?
  len,         \* the length in Writing::Pending
  promise,     \* the promise of the write under way
  locked,      \* does a writer hold the stream's lock?
  closing,     \* self.close: is a close under way?
  closed,      \* the promise of that close
  stream,      \* state of the WritableStream
  sunk,        \* number of bytes the stream has written out
  reported,    \* number of bytes poll_write has reported written
  mishaps,     \* history: what came of calls that the caller abandoned
  call,        \* the call the caller is waiting in
  waker,       \* the promise that will wake it, "woken" once it has
  answer,      \* what the last completed call returned
  patient      \* does the caller poll a call until it is answered?

write == <<writing, len, promise, locked>>
close == <<closing, closed>>
external == <<stream, sunk>>
caller == <<call, waker, answer>>
vars == <<write, close, external, reported, mishaps, caller, patient>>

TypeOK ==
  /\ writing \in {"none", "pending"}
  /\ len \in 0..Limit
  /\ promise \in {"none", "unsettled", "ok", "err"}
  /\ locked \in BOOLEAN
  /\ closing \in {"none", "pending"}
  /\ closed \in {"none", "accepted", "refused", "ok", "err"}
  /\ stream \in {"writable", "closing", "closed", "errored"}
  /\ sunk \in 0..Limit
  /\ reported \in 0..Limit
  /\ mishaps \subseteq {"unreported", "overrun"}
  /\ call \in {"none", "write", "flush", "shutdown"}
  /\ waker \in {"none", "write", "close", "woken"}
  /\ answer \in {"nothing", "written", "flushed", "shut", "error"}
  /\ patient \in BOOLEAN

Init ==
  /\ writing = "none" /\ len = 0 /\ promise = "none" /\ locked = FALSE
  /\ closing = "none" /\ closed = "none"
  /\ stream = "writable" /\ sunk = 0
  /\ reported = 0 /\ mishaps = {}
  /\ call = "none" /\ waker = "none" /\ answer = "nothing"
  /\ patient \in BOOLEAN

-----------------------------------------------------------------------------
(* The stream: it writes a chunk out or fails, and rejects writes and       *)
(* closes that come too late; the connection may be reset or closed.        *)
Wake(w) == waker' = IF waker = w THEN "woken" ELSE waker

SettleWrite ==
  /\ promise = "unsettled"
  /\ \/ /\ stream = "writable"
        /\ promise' = "ok" /\ sunk' = sunk + len /\ UNCHANGED stream
     \/ /\ promise' = "err"
        /\ stream' = IF stream = "writable" THEN "errored" ELSE stream
        /\ UNCHANGED sunk
  /\ Wake("write")
  /\ UNCHANGED <<writing, len, locked, close, reported, mishaps, call, answer>>

SettleClose ==
  /\ closed \in {"accepted", "refused"}
  /\ \/ /\ closed = "accepted" /\ stream = "closing"
        /\ closed' = "ok" /\ stream' = "closed"
     \/ /\ closed = "refused" \/ stream # "closing"
        /\ closed' = "err" /\ UNCHANGED stream
  /\ Wake("close")
  /\ UNCHANGED <<write, closing, sunk, reported, mishaps, call, answer>>

Disconnect ==
  /\ stream \in {"writable", "closing"}
  /\ stream' = "errored"
  /\ UNCHANGED <<write, close, sunk, reported, mishaps, caller>>

-----------------------------------------------------------------------------
Pending(c, w) == call' = c /\ waker' = w /\ UNCHANGED answer

Ready(a) == call' = "none" /\ waker' = "none" /\ answer' = a

(* handle_write_future on a settled promise: unlock the stream.             *)
EndWrite ==
  /\ promise' = "none" /\ locked' = FALSE
  /\ writing' = "none" /\ len' = 0

(* poll_write of the k bytes after those reported so far.  get_writer fails *)
(* on a locked stream.                                                      *)
StartWrite(k) ==
  /\ writing = "none" /\ sunk + k <= Limit
  /\ IF locked
       THEN Ready("error") /\ UNCHANGED write
       ELSE /\ writing' = "pending" /\ len' = k
            /\ promise' = "unsettled" /\ locked' = TRUE
            /\ Pending("write", "write")
  /\ UNCHANGED <<close, reported, mishaps>>

\* Mutant of ContinueWrite: the length of the present buffer is reported.
ContinueWriteOfBuffer(k) ==
  /\ writing = "pending"
  /\ \/ /\ promise = "unsettled"
        /\ Pending("write", "write")
        /\ UNCHANGED <<write, reported, mishaps>>
     \/ /\ promise = "ok" /\ reported + k <= Limit
        /\ EndWrite /\ Ready("written")
        /\ reported' = reported + k
        /\ UNCHANGED mishaps
     \/ /\ promise = "err"
        /\ EndWrite /\ Ready("error")
        /\ UNCHANGED <<reported, mishaps>>
  /\ UNCHANGED close

\* Mutant of ContinueWrite: a write that is not done in time is given up.
ContinueWriteImpatient(k) ==
  /\ writing = "pending"
  /\ \/ /\ promise = "unsettled"
        /\ Ready("error")
        /\ UNCHANGED <<write, reported, mishaps>>
     \/ /\ promise = "ok"
        /\ EndWrite /\ Ready("written")
        /\ reported' = reported + len
        /\ mishaps' = mishaps \cup (IF len > k THEN {"overrun"} ELSE {})
     \/ /\ promise = "err"
        /\ EndWrite /\ Ready("error")
        /\ UNCHANGED <<reported, mishaps>>
  /\ UNCHANGED close

\* Mutant of ContinueWrite: a reported write stays under way.
ContinueWriteTwice(k) ==
  /\ writing = "pending"
  /\ \/ /\ promise = "unsettled"
        /\ Pending("write", "write")
        /\ UNCHANGED <<write, reported, mishaps>>
     \/ /\ promise = "ok"
        /\ Ready("written")
        /\ reported' = reported + len
        /\ UNCHANGED <<write, mishaps>>
     \/ /\ promise = "err"
        /\ EndWrite /\ Ready("error")
        /\ UNCHANGED <<reported, mishaps>>
  /\ UNCHANGED close

(* A write under way is finished, whatever buffer is passed now.  History:  *)
(* more bytes than that buffer has are reported written: an overrun.        *)
ContinueWrite(k) ==
  /\ writing = "pending"
  /\ \/ /\ promise = "unsettled"
        /\ Pending("write", "write")
        /\ UNCHANGED <<write, reported, mishaps>>
     \/ /\ promise = "ok"
        /\ EndWrite /\ Ready("written")
        /\ reported' = reported + len
        /\ mishaps' = mishaps \cup (IF len > k THEN {"overrun"} ELSE {})
     \/ /\ promise = "err"
        /\ EndWrite /\ Ready("error")
        /\ UNCHANGED <<reported, mishaps>>
  /\ UNCHANGED close

PollWrite(k) == (StartWrite(k) \/ ContinueWrite(k)) /\ UNCHANGED external

(* poll_flush: finish the write under way, if there is one.  History: its   *)
(* length is dropped, so the bytes go unreported.                           *)
FlushPending(c) ==
  /\ writing = "pending" /\ promise = "unsettled"
  /\ Pending(c, "write")
  /\ UNCHANGED <<write, mishaps>>

\* Mutant of FlushError: a write that failed does not give the lock back.
FlushErrorLocked ==
  /\ writing = "pending" /\ promise = "err"
  /\ promise' = "none" /\ writing' = "none" /\ len' = 0 /\ UNCHANGED locked
  /\ Ready("error")
  /\ UNCHANGED mishaps

FlushError ==
  /\ writing = "pending" /\ promise = "err"
  /\ EndWrite /\ Ready("error")
  /\ UNCHANGED mishaps

\* Mutant of Flushed: a write under way does not hold up the shutdown.
FlushedRegardless == UNCHANGED <<write, mishaps>>

Flushed ==
  \/ writing = "pending" /\ promise = "ok" /\ EndWrite /\ mishaps' = mishaps \cup {"unreported"}
  \/ writing = "none" /\ UNCHANGED <<write, mishaps>>

PollFlush ==
  /\ FlushPending("flush") \/ FlushError \/ (Flushed /\ Ready("flushed"))
  /\ UNCHANGED <<close, external, reported>>

\* Mutant of StartClose: the promise of the close is not polled once.
StartCloseUnpolled ==
  /\ closing = "none" /\ closing' = "pending"
  /\ IF stream = "writable" /\ ~locked'
       THEN closed' = "accepted" /\ stream' = "closing"
       ELSE closed' = "refused" /\ UNCHANGED stream
  /\ Pending("shutdown", "none")

(* Ask the stream to close: it refuses when it is locked or was closed.     *)
StartClose ==
  /\ closing = "none" /\ closing' = "pending"
  /\ IF stream = "writable" /\ ~locked'
       THEN closed' = "accepted" /\ stream' = "closing"
       ELSE closed' = "refused" /\ UNCHANGED stream
  /\ Pending("shutdown", "close")

\* Mutant of ContinueClose: a shutdown is over when the close was accepted.
ContinueCloseAccepted ==
  /\ closing = "pending"
  /\ closing' = "none" /\ closed' = "none"
  /\ Ready(IF closed \in {"accepted", "ok"} THEN "shut" ELSE "error")
  /\ UNCHANGED stream

ContinueClose ==
  /\ closing = "pending"
  /\ UNCHANGED stream
  /\ \/ /\ closed \in {"accepted", "refused"}
        /\ Pending("shutdown", "close") /\ UNCHANGED close
     \/ /\ closed \in {"ok", "err"}
        /\ closing' = "none" /\ closed' = "none"
        /\ Ready(IF closed = "ok" THEN "shut" ELSE "error")

(* poll_shutdown: flush first, and close in the same poll if that is done.  *)
PollShutdown ==
  /\ \/ (FlushPending("shutdown") \/ FlushError) /\ UNCHANGED <<close, stream>>
     \/ Flushed /\ (StartClose \/ ContinueClose)
  /\ UNCHANGED <<sunk, reported>>

Poll(c) ==
  \/ c = "write" /\ \E k \in Buf : PollWrite(k)
  \/ c = "flush" /\ PollFlush
  \/ c = "shutdown" /\ PollShutdown

Stream == SettleWrite \/ SettleClose \/ Disconnect

(* A patient caller abandons no call: while one is waiting it is polled     *)
(* again, a poll_write with a buffer that still begins with the bytes of    *)
(* the first.                                                               *)
PatientPoll(c) ==
  \/ call = "none" /\ Poll(c)
  \/ call = c /\ c # "write" /\ Poll(c)
  \/ call = c /\ c = "write" /\ \E k \in Buf : k >= len /\ PollWrite(k)

Call(c) ==
  \/ patient /\ PatientPoll(c)
  \/ ~patient /\ Poll(c)

Next ==
  /\ Stream \/ \E c \in {"write", "flush", "shutdown"} : Call(c)
  /\ UNCHANGED patient

Spec == Init /\ [][Next]_vars

(* Promises settle, and the executor polls a woken call.                    *)
LiveSpec ==
  /\ Spec
  /\ WF_vars(SettleWrite /\ UNCHANGED patient)
  /\ WF_vars(SettleClose /\ UNCHANGED patient)
  /\ WF_vars(waker = "woken" /\ Call(call) /\ UNCHANGED patient)

-----------------------------------------------------------------------------
(* As long as no flush has swallowed the length of an abandoned write, the  *)
(* stream has written out exactly the bytes that poll_write has reported,   *)
(* plus those of a write that has settled and is yet to be reported: none   *)
(* is lost or written twice, through abandoned calls, growing buffers and   *)
(* failed writes.                                                           *)
Exact ==
  "unreported" \notin mishaps => sunk = reported + (IF promise = "ok" THEN len ELSE 0)

(* A caller that abandons no call never has a written chunk go unreported   *)
(* and is never told of more bytes than its buffer has.                     *)
PatienceIsRewarded == patient => mishaps = {}

(* A write that fails gives the lock back, whichever call notices it, so    *)
(* later calls get the stream's own error and never a lock error.           *)
WriterFree == writing = "none" => ~locked

(* Shutting down is never refused on account of a write under way: the      *)
(* stream is only asked to close once that has settled.                     *)
CloseWaitsForWrite ==
  [][closed # "refused" /\ closed' = "refused" => stream # "writable"]_vars

(* A shutdown that succeeds has flushed and closed the stream.              *)
ShutMeansClosed ==
  answer = "shut" /\ call = "none" => stream = "closed" /\ promise = "none"

(* The pipe from the stream to the caller, who gets word of the bytes.      *)
Pipe ==
  INSTANCE BytePipe WITH
    put  <- sunk,
    got  <- reported,
    end  <- IF stream = "closed" THEN "closed" ELSE IF stream = "errored" THEN "broken" ELSE "open",
    told <- IF answer = "written" THEN "bytes" ELSE IF answer = "shut" THEN "end"
            ELSE IF answer = "flushed" THEN "empty" ELSE answer

(* To a caller that abandons no call the writing half is a pipe that brings *)
(* word of the bytes that the stream has written: a flush, a shutdown or an *)
(* error is answered when there is word of all of them, no byte is written  *)
(* after a shutdown, and no call fails while the stream is well.            *)
PatienceMakesAPipe == (patient => Pipe!Init) /\ [][patient => [Pipe!Next]_Pipe!vars]_vars

(* Every call that waits is woken and answered, unless it is abandoned: a   *)
(* shutdown too, whose two phases wait for different promises.              *)
CallEnds == \A c \in {"write", "flush", "shutdown"} : call = c ~> call # c
=============================================================================
