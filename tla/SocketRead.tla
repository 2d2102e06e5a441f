------------------------------ MODULE SocketRead ------------------------------
(***************************************************************************)
(* The reading half of worker::Socket: poll_read turns the promises of a   *)
(* JavaScript ReadableStream into tokio's AsyncRead.  Each read() takes the *)
(* stream's reader lock, its promise settles between two polls (a JsFuture *)
(* is never ready in the poll that made it), and what does not fit the     *)
(* caller's buffer is kept for the next poll.  Bytes are their positions   *)
(* in the stream, a run of bytes is [lo, hi).                              *)
(*                                                                         *)
(* The stream and the peer behind it are external: they are modelled from  *)
(* the calls socket.rs makes on them.                                      *)
(***************************************************************************)
EXTENDS Naturals

CONSTANTS
  Limit,   \* bound on the bytes that arrive
  Chunk,   \* the sizes of the chunks that arrive
  Buf      \* the sizes of the caller's buffers

ASSUME LimitAssumption == Limit \in Nat
ASSUME SizeAssumption == Chunk \subseteq Nat /\ Buf \subseteq Nat

VARIABLES
  reading,   \* self.read: a Reading, without its payload
  held,      \* the bytes read from the stream that the caller has not got
  promise,   \* the promise of the last read()
  locked,    \* does a reader hold the stream's lock?
  stream,    \* state of the ReadableStream
  given,     \* number of bytes the stream has given out
  got,       \* number of bytes the caller has got
  answer,    \* what the last poll_read returned
  task       \* the polling task: not waiting, waiting for its waker, or woken

external == <<stream, given>>
vars == <<reading, held, promise, locked, stream, given, got, answer, task>>

TypeOK ==
  /\ reading \in {"none", "pending", "ready"}
  /\ held \in [lo : 0..Limit, hi : 0..Limit]
  /\ promise \in {"none", "unsettled", "chunk", "done", "err"}
  /\ locked \in BOOLEAN
  /\ stream \in {"open", "ended", "errored"}
  /\ given \in 0..Limit
  /\ got \in 0..Limit
  /\ answer \in {"nothing", "bytes", "end", "error", "thrown"}
  /\ task \in {"idle", "parked", "woken"}

Init ==
  /\ reading = "none"
  /\ held = [lo |-> 0, hi |-> 0]
  /\ promise = "none"
  /\ locked = FALSE
  /\ stream = "open"
  /\ given = 0
  /\ got = 0
  /\ answer = "nothing"
  /\ task = "idle"

-----------------------------------------------------------------------------
(* The stream.  A read() of an open stream settles when a chunk arrives,    *)
(* that of an ended or errored one settles at once.                         *)
Arrive(n) ==
  /\ stream = "open" /\ promise = "unsettled" /\ given + n <= Limit
  /\ promise' = "chunk"
  /\ held' = [lo |-> given, hi |-> given + n]
  /\ given' = given + n
  /\ task' = IF task = "parked" THEN "woken" ELSE task
  /\ UNCHANGED <<reading, locked, stream, got, answer>>

Settle ==
  /\ stream # "open" /\ promise = "unsettled"
  /\ promise' = IF stream = "ended" THEN "done" ELSE "err"
  /\ task' = IF task = "parked" THEN "woken" ELSE task
  /\ UNCHANGED <<reading, held, locked, stream, given, got, answer>>

(* The peer ends or resets the connection, or Socket::close is called.      *)
Disconnect ==
  /\ stream = "open"
  /\ stream' \in {"ended", "errored"}
  /\ UNCHANGED <<reading, held, promise, locked, given, got, answer, task>>

-----------------------------------------------------------------------------
\* Mutant of HandleData: the caller's buffer is taken to be large enough.
HandleDataUnclamped(k) ==
  /\ held' = [held EXCEPT !.lo = @ + k]
  /\ reading' = IF held.lo + k = held.hi THEN "none" ELSE "ready"
  /\ got' = got + k
  /\ answer' = "bytes"
  /\ task' = "idle"

\* Mutant of HandleData: what does not fit the caller's buffer is dropped.
HandleDataDropped(k) ==
  LET n == IF k < held.hi - held.lo THEN k ELSE held.hi - held.lo
  IN  /\ held' = [held EXCEPT !.lo = held.hi]
      /\ reading' = "none"
      /\ got' = got + n
      /\ answer' = IF n > 0 \/ k = 0 THEN "bytes" ELSE "end"
      /\ task' = "idle"

(* handle_data: fill the caller's buffer and keep the rest.  No byte in a   *)
(* buffer that had room for one is how AsyncRead says end of file.          *)
HandleData(k) ==
  LET n == IF k < held.hi - held.lo THEN k ELSE held.hi - held.lo
  IN  /\ held' = [held EXCEPT !.lo = @ + n]
      /\ reading' = IF held.lo + n = held.hi THEN "none" ELSE "ready"
      /\ got' = got + n
      /\ answer' = IF n > 0 \/ k = 0 THEN "bytes" ELSE "end"
      /\ task' = "idle"

(* No read under way: lock the stream and start one.  get_reader throws on  *)
(* a locked stream, and nothing on the way out catches that.                *)
StartRead ==
  /\ reading = "none"
  /\ \/ /\ ~locked
        /\ locked' = TRUE /\ promise' = "unsettled" /\ reading' = "pending"
        /\ task' = "parked"
        /\ UNCHANGED answer
     \/ /\ locked
        /\ answer' = "thrown" /\ task' = "idle"
        /\ UNCHANGED <<reading, promise, locked>>
  /\ UNCHANGED <<held, got>>

StillPending ==
  /\ promise = "unsettled"
  /\ task' = "parked"
  /\ UNCHANGED <<reading, held, promise, locked, got, answer>>

ReadChunk(k) ==
  /\ promise = "chunk" /\ promise' = "none"
  /\ locked' = FALSE
  /\ HandleData(k)

\* Mutant of ReadDone: the lock is only released with a chunk.
ReadDoneLocked ==
  /\ promise = "done" /\ promise' = "none"
  /\ reading' = "none" /\ answer' = "end" /\ task' = "idle"
  /\ UNCHANGED <<held, locked, got>>

ReadDone ==
  /\ promise = "done" /\ promise' = "none"
  /\ locked' = FALSE
  /\ reading' = "none" /\ answer' = "end" /\ task' = "idle"
  /\ UNCHANGED <<held, got>>

\* Mutant of ReadError: a failed stream is taken for one that has ended.
ReadErrorAsEnd ==
  /\ promise = "err" /\ promise' = "none"
  /\ reading' = "none" /\ answer' = "end" /\ task' = "idle"
  /\ UNCHANGED <<held, locked, got>>

\* Mutant of ReadError: a failed read is tried again.
ReadErrorRetried ==
  /\ promise = "err" /\ promise' = "unsettled"
  /\ task' = "parked"
  /\ UNCHANGED <<reading, held, locked, got, answer>>

(* A rejected read() is reported; the reader is dropped but not released.   *)
ReadError ==
  /\ promise = "err" /\ promise' = "none"
  /\ reading' = "none" /\ answer' = "error" /\ task' = "idle"
  /\ UNCHANGED <<held, locked, got>>

(* poll_read with room for k bytes, by a task that may have dropped the     *)
(* read it was waiting for and begun another.                               *)
PollRead(k) ==
  /\ answer # "thrown"
  /\ \/ StartRead
     \/ reading = "pending" /\ (StillPending \/ ReadChunk(k) \/ ReadDone \/ ReadError)
     \/ reading = "ready" /\ HandleData(k) /\ UNCHANGED <<promise, locked>>
  /\ UNCHANGED external

Next ==
  \/ \E n \in Chunk : Arrive(n)
  \/ Settle
  \/ Disconnect
  \/ \E k \in Buf : PollRead(k)

Spec == Init /\ [][Next]_vars

(* The event loop settles promises and the executor polls woken tasks; the  *)
(* peer need not send anything.                                             *)
LiveSpec ==
  /\ Spec
  /\ WF_vars(Settle)
  /\ WF_vars(task = "woken" /\ \E k \in Buf : PollRead(k))

-----------------------------------------------------------------------------
(* Whatever the sizes of chunks and buffers, and whichever reads the caller *)
(* abandons, the caller has got exactly the bytes given out before those    *)
(* that are held for it, so none is lost, repeated or reordered.            *)
InOrder == got = held.lo /\ held.hi = given

(* End of file is only reported when the stream has ended and every byte of *)
(* it has been got, provided that no chunk is empty.                        *)
EndIsReal == 0 \notin Chunk /\ answer = "end" => stream = "ended" /\ got = given

(* poll_read takes a lock that is free: it throws only when it is polled    *)
(* again after the stream failed.                                           *)
ThrowsOnlyAfterError == answer = "thrown" => stream = "errored"

(* The pipe from the peer to the caller.                                    *)
Pipe ==
  INSTANCE BytePipe WITH
    put  <- given,
    end  <- IF stream = "ended" THEN "closed" ELSE IF stream = "errored" THEN "broken" ELSE "open",
    told <- IF answer = "thrown" THEN "error" ELSE answer

(* To its caller the reading half is a pipe that the peer puts bytes in:    *)
(* neither the end nor an error overtakes bytes that have arrived, nothing  *)
(* comes after the end, and an error is only told of a stream that is gone. *)
ReadsAPipe == Pipe!Spec

(* Once the connection is gone, a task waiting in poll_read is woken and    *)
(* gets an answer.                                                          *)
ReaderLearns == task = "parked" /\ stream # "open" ~> task = "idle"
=============================================================================
