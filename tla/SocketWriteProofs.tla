-------------------------- MODULE SocketWriteProofs --------------------------
(* Proofs about SocketWrite, for writes and buffers of any size.            *)
EXTENDS SocketWrite, TLAPS

(* The strengthening of the safety properties.  A write under way has a     *)
(* promise and the lock, and only such a write has either.                  *)
UnderWay ==
  /\ writing = "pending" <=> promise # "none"
  /\ locked <=> writing = "pending"

(* What is still to be written fits the bound, and what has been written    *)
(* includes all that is reported or about to be.                            *)
Counts ==
  /\ writing = "none" => len = 0
  /\ promise = "unsettled" => sunk + len <= Limit
  /\ reported + (IF promise = "ok" THEN len ELSE 0) <= sunk

(* A close under way has a promise, which tells the state of the stream; a  *)
(* refused close found the stream no longer writable, and it stays so.      *)
Closing ==
  /\ closing = "pending" <=> closed # "none"
  /\ closed = "accepted" => stream \in {"closing", "errored"}
  /\ closed = "ok" => stream = "closed"

IInv == TypeOK /\ UnderWay /\ Counts /\ Closing /\ Exact /\ ShutMeansClosed

LEMMA InitIInv == Init => IInv
<1> SUFFICES ASSUME Init PROVE IInv
  OBVIOUS
<1>1. 0 \in 0..Limit
  BY LimitAssumption
<1>2. TypeOK
  BY <1>1 DEF Init, TypeOK
<1>3. UnderWay /\ Closing /\ ShutMeansClosed
  BY DEF Init, UnderWay, Closing, ShutMeansClosed
<1>4. Counts /\ Exact
  BY DEF Init, Counts, Exact
<1>. QED
  BY <1>2, <1>3, <1>4 DEF IInv

(* A step that leaves the stream, the counters and the close alone, and     *)
(* answers nothing, except that it may begin or keep a write.               *)
LEMMA StreamStep == IInv /\ Stream /\ UNCHANGED patient => IInv'
<1> SUFFICES ASSUME IInv, Stream, UNCHANGED patient PROVE IInv'
  OBVIOUS
<1> USE LimitAssumption DEF IInv, Wake, write, close, caller
<1>1. CASE SettleWrite
  <2>1. sunk' \in 0..Limit /\ UNCHANGED <<len, reported>>
    BY <1>1 DEF SettleWrite, TypeOK, Counts
  <2>2. TypeOK'
    BY <1>1, <2>1 DEF SettleWrite, TypeOK
  <2>3. UnderWay' /\ Closing' /\ ShutMeansClosed'
    BY <1>1 DEF SettleWrite, TypeOK, UnderWay, Closing, ShutMeansClosed
  <2>4. Counts'
    BY <1>1 DEF SettleWrite, TypeOK, UnderWay, Counts
  <2>5. Exact'
    BY <1>1 DEF SettleWrite, TypeOK, Exact
  <2>. QED
    BY <2>2, <2>3, <2>4, <2>5
<1>2. CASE SettleClose
  <2>1. TypeOK'
    BY <1>2 DEF SettleClose, TypeOK
  <2>2. UnderWay' /\ Closing' /\ ShutMeansClosed'
    BY <1>2 DEF SettleClose, TypeOK, UnderWay, Closing, ShutMeansClosed
  <2>3. Counts' /\ Exact'
    BY <1>2 DEF SettleClose, Counts, Exact
  <2>. QED
    BY <2>1, <2>2, <2>3
<1>3. CASE Disconnect
  <2>1. TypeOK'
    BY <1>3 DEF Disconnect, TypeOK
  <2>2. UnderWay' /\ Closing' /\ ShutMeansClosed'
    BY <1>3 DEF Disconnect, UnderWay, Closing, ShutMeansClosed
  <2>3. Counts' /\ Exact'
    BY <1>3 DEF Disconnect, Counts, Exact
  <2>. QED
    BY <2>1, <2>2, <2>3
<1>. QED
  BY <1>1, <1>2, <1>3 DEF Stream

LEMMA PollWriteStep == ASSUME NEW k \in Buf, IInv, PollWrite(k), UNCHANGED patient PROVE IInv'
<1> USE LimitAssumption, BufAssumption
     DEF IInv, PollWrite, Pending, Ready, EndWrite, write, close, external
<1>1. CASE StartWrite(k)
  <2>1. ~locked /\ UNCHANGED <<sunk, stream, reported, mishaps, closing, closed, answer>>
    BY <1>1 DEF StartWrite, UnderWay, TypeOK
  <2>2. len' = k /\ k \in 0..Limit /\ promise' = "unsettled" /\ sunk + k <= Limit
    BY <1>1, <2>1 DEF StartWrite, TypeOK
  <2>3. TypeOK'
    BY <1>1, <2>1, <2>2 DEF StartWrite, TypeOK
  <2>4. UnderWay' /\ Closing' /\ ShutMeansClosed'
    BY <1>1, <2>1 DEF StartWrite, UnderWay, Closing, ShutMeansClosed
  <2>5. Counts'
    BY <1>1, <2>1, <2>2 DEF StartWrite, Counts, UnderWay, TypeOK
  <2>6. Exact'
    BY <1>1, <2>1, <2>2 DEF Exact, UnderWay, StartWrite, TypeOK
  <2>. QED
    BY <2>3, <2>4, <2>5, <2>6
<1>2. CASE ContinueWrite(k)
  <2>1. reported' \in 0..Limit /\ UNCHANGED <<sunk, stream, closing, closed>>
    BY <1>2 DEF ContinueWrite, TypeOK, Counts
  <2>2. TypeOK'
    BY <1>2, <2>1, 0 \in 0..Limit DEF ContinueWrite, TypeOK
  <2>3. UnderWay' /\ Closing'
    BY <1>2, <2>1 DEF ContinueWrite, UnderWay, Closing
  <2>4. ShutMeansClosed'
    BY <1>2, <2>1 DEF ContinueWrite, ShutMeansClosed
  <2>5. CASE promise = "unsettled"
    <3>1. UNCHANGED <<write, reported, mishaps>>
      BY <1>2, <2>5 DEF ContinueWrite
    <3>. QED
      BY <2>1, <2>2, <2>3, <2>4, <3>1 DEF Counts, Exact
  <2>6. CASE promise = "ok"
    <3>1. promise' = "none" /\ len' = 0 /\ reported' = reported + len /\ mishaps \subseteq mishaps'
      BY <1>2, <2>6 DEF ContinueWrite
    <3>2. Counts'
      BY <2>1, <2>6, <3>1 DEF Counts, TypeOK
    <3>3. Exact'
      BY <2>1, <2>6, <3>1 DEF Exact, TypeOK
    <3>. QED
      BY <2>2, <2>3, <2>4, <3>2, <3>3
  <2>7. CASE promise = "err"
    <3>1. promise' = "none" /\ len' = 0 /\ UNCHANGED <<reported, mishaps>>
      BY <1>2, <2>7 DEF ContinueWrite
    <3>2. Counts'
      BY <2>1, <2>7, <3>1 DEF Counts, TypeOK
    <3>3. Exact'
      BY <2>1, <2>7, <3>1 DEF Exact, TypeOK
    <3>. QED
      BY <2>2, <2>3, <2>4, <3>2, <3>3
  <2>. QED
    BY <1>2, <2>5, <2>6, <2>7 DEF ContinueWrite
<1>. QED
  BY <1>1, <1>2

(* What poll_flush does to the write under way.                             *)
LEMMA FlushStep ==
  ASSUME IInv, UNCHANGED <<sunk, reported>>,
         \/ \E c : FlushPending(c)
         \/ FlushError
         \/ Flushed
  PROVE  /\ len' \in 0..Limit /\ writing' \in {"none", "pending"}
         /\ promise' \in {"none", "unsettled"} /\ locked' \in BOOLEAN
         /\ mishaps' \subseteq {"unreported", "overrun"}
         /\ UnderWay' /\ Counts' /\ Exact'
<1> USE LimitAssumption DEF IInv, EndWrite, write
<1>1. CASE \E c : FlushPending(c)
  BY <1>1 DEF FlushPending, TypeOK, UnderWay, Counts, Exact
<1>2. ASSUME EndWrite, promise \in {"ok", "err"},
             mishaps' = mishaps \cup (IF promise = "ok" THEN {"unreported"} ELSE {})
      PROVE  /\ UnderWay' /\ Counts' /\ Exact' /\ mishaps' \subseteq {"unreported", "overrun"}
             /\ len' \in 0..Limit
  <2>1. UnderWay'
    BY <1>2 DEF UnderWay
  <2>2. Counts'
    BY <1>2 DEF Counts, TypeOK
  <2>3. Exact'
    BY <1>2 DEF Exact, TypeOK
  <2>4. mishaps' \subseteq {"unreported", "overrun"} /\ len' \in 0..Limit
    BY <1>2 DEF TypeOK
  <2>. QED
    BY <2>1, <2>2, <2>3, <2>4
<1>3. CASE FlushError
  BY <1>2, <1>3 DEF FlushError
<1>4. CASE Flushed
  <2>1. CASE writing = "pending"
    BY <1>2, <1>4, <2>1 DEF Flushed
  <2>2. CASE writing = "none"
    <3>1. UNCHANGED <<writing, len, promise, locked, mishaps>> /\ promise = "none"
      BY <1>4, <2>2 DEF Flushed, TypeOK, UnderWay
    <3>2. UnderWay' /\ Counts' /\ Exact'
      BY <3>1 DEF UnderWay, Counts, Exact
    <3>. QED
      BY <3>1, <3>2 DEF TypeOK
  <2>. QED
    BY <2>1, <2>2 DEF TypeOK
<1>. QED
  BY <1>1, <1>3, <1>4

LEMMA PollFlushStep == IInv /\ PollFlush /\ UNCHANGED patient => IInv'
<1> SUFFICES ASSUME IInv, PollFlush, UNCHANGED patient PROVE IInv'
  OBVIOUS
<1> USE DEF IInv, Pending, Ready, close, external
<1>1. UNCHANGED <<closing, closed, stream, sunk, reported>>
  BY DEF PollFlush
<1>2. /\ len' \in 0..Limit /\ writing' \in {"none", "pending"}
      /\ promise' \in {"none", "unsettled"} /\ locked' \in BOOLEAN
      /\ mishaps' \subseteq {"unreported", "overrun"}
      /\ UnderWay' /\ Counts' /\ Exact'
  BY <1>1, FlushStep DEF PollFlush
<1>3. \/ call' = "flush" /\ waker' = "write" /\ UNCHANGED answer
      \/ call' = "none" /\ waker' = "none" /\ answer' \in {"flushed", "error"}
  BY DEF PollFlush, FlushPending, FlushError
<1>4. TypeOK'
  BY <1>1, <1>2, <1>3 DEF TypeOK
<1>5. Closing' /\ ShutMeansClosed'
  BY <1>1, <1>3 DEF Closing, ShutMeansClosed
<1>. QED
  BY <1>2, <1>4, <1>5

LEMMA PollShutdownStep == IInv /\ PollShutdown /\ UNCHANGED patient => IInv'
<1> SUFFICES ASSUME IInv, PollShutdown, UNCHANGED patient PROVE IInv'
  OBVIOUS
<1> USE DEF IInv, Pending, Ready, close
<1>1. UNCHANGED <<sunk, reported>>
  BY DEF PollShutdown
<1>2. /\ len' \in 0..Limit /\ writing' \in {"none", "pending"}
      /\ promise' \in {"none", "unsettled"} /\ locked' \in BOOLEAN
      /\ mishaps' \subseteq {"unreported", "overrun"}
      /\ UnderWay' /\ Counts' /\ Exact'
  BY <1>1, FlushStep DEF PollShutdown
<1>3. CASE (FlushPending("shutdown") \/ FlushError) /\ UNCHANGED <<close, stream>>
  <2>1. \/ call' = "shutdown" /\ waker' = "write" /\ UNCHANGED answer
        \/ call' = "none" /\ waker' = "none" /\ answer' = "error"
    BY <1>3 DEF FlushPending, FlushError
  <2>2. TypeOK'
    BY <1>1, <1>2, <1>3, <2>1 DEF TypeOK
  <2>3. Closing' /\ ShutMeansClosed'
    BY <1>3, <2>1 DEF Closing, ShutMeansClosed
  <2>. QED
    BY <1>2, <2>2, <2>3
<1>4. CASE Flushed /\ StartClose
  <2>1. /\ stream' \in {"writable", "closing", "closed", "errored"}
        /\ closing' = "pending" /\ closed' \in {"accepted", "refused"}
        /\ closed' = "accepted" => stream' = "closing"
        /\ call' = "shutdown" /\ waker' = "close" /\ UNCHANGED answer
    BY <1>4 DEF StartClose, TypeOK
  <2>2. TypeOK'
    BY <1>1, <1>2, <2>1 DEF TypeOK
  <2>3. Closing' /\ ShutMeansClosed'
    BY <2>1 DEF Closing, ShutMeansClosed
  <2>. QED
    BY <1>2, <2>2, <2>3
<1>5. CASE Flushed /\ ContinueClose
  <2>1. promise' = "none" /\ UNCHANGED stream
    BY <1>4, <1>5 DEF Flushed, ContinueClose, EndWrite, write, UnderWay, TypeOK
  <2>2. CASE closed \in {"accepted", "refused"}
    <3>1. call' = "shutdown" /\ waker' = "close" /\ UNCHANGED <<answer, closing, closed>>
      BY <1>5, <2>2 DEF ContinueClose
    <3>2. TypeOK'
      BY <1>1, <1>2, <2>1, <3>1 DEF TypeOK
    <3>. QED
      BY <1>2, <2>1, <3>1, <3>2 DEF Closing, ShutMeansClosed
  <2>3. CASE closed \in {"ok", "err"}
    <3>1. /\ call' = "none" /\ waker' = "none" /\ closing' = "none" /\ closed' = "none"
          /\ answer' \in {"shut", "error"} /\ (answer' = "shut" => stream = "closed")
      BY <1>5, <2>3 DEF ContinueClose, Closing
    <3>2. TypeOK'
      BY <1>1, <1>2, <2>1, <3>1 DEF TypeOK
    <3>. QED
      BY <1>2, <2>1, <3>1, <3>2 DEF Closing, ShutMeansClosed
  <2>. QED
    BY <1>5, <2>2, <2>3 DEF ContinueClose
<1>. QED
  BY <1>3, <1>4, <1>5 DEF PollShutdown

LEMMA StepIInv == IInv /\ [Next]_vars => IInv'
<1>1. IInv /\ Next => IInv'
  BY StreamStep, PollWriteStep, PollFlushStep, PollShutdownStep DEF Next, Call, PatientPoll, Poll
<1>2. IInv /\ UNCHANGED vars => IInv'
  BY DEF IInv, TypeOK, UnderWay, Counts, Closing, Exact, ShutMeansClosed, vars, write,
     close, external, caller
<1>. QED
  BY <1>1, <1>2

THEOREM WriteInvariant == Spec => []IInv
BY InitIInv, StepIInv, PTL DEF Spec

(* Every variable of the writing half keeps its type, the byte counters     *)
(* within the bound that limits the model.                                  *)
THEOREM WriteTypeCorrect == Spec => []TypeOK
<1>1. IInv => TypeOK
  BY DEF IInv
<1>. QED
  BY <1>1, WriteInvariant, PTL

(* Until a flush swallows the length of an abandoned write, the stream has  *)
(* written out exactly what poll_write reported and will report.            *)
THEOREM WritesAreExact == Spec => []Exact
<1>1. IInv => Exact
  BY DEF IInv
<1>. QED
  BY <1>1, WriteInvariant, PTL

(* A failed or finished write always gives the writer lock back.            *)
THEOREM WriterIsFreed == Spec => []WriterFree
<1>1. IInv => WriterFree
  BY DEF IInv, UnderWay, WriterFree, TypeOK
<1>. QED
  BY <1>1, WriteInvariant, PTL

(* A shutdown that reports success has closed the stream.                   *)
THEOREM ShutdownCloses == Spec => []ShutMeansClosed
<1>1. IInv => ShutMeansClosed
  BY DEF IInv
<1>. QED
  BY <1>1, WriteInvariant, PTL

(* The stream is never asked to close while a write holds its lock, so a    *)
(* refused close means that the stream was no longer writable.              *)
THEOREM ShutdownWaitsForWrite == Spec => CloseWaitsForWrite
<1>1. IInv /\ [Next]_vars => [closed # "refused" /\ closed' = "refused" => stream # "writable"]_vars
  <2> SUFFICES ASSUME IInv, Next, closed # "refused", closed' = "refused"
               PROVE  stream # "writable"
    OBVIOUS
  <2>1. PollShutdown
    BY DEF Next, Call, PatientPoll, Stream, SettleWrite, SettleClose, Disconnect, Poll, PollWrite, StartWrite,
       ContinueWrite, PollFlush, write, close
  <2>2. Flushed /\ StartClose
    BY <2>1 DEF PollShutdown, ContinueClose, close
  <2>3. ~locked'
    BY <2>2 DEF Flushed, EndWrite, write, IInv, UnderWay, TypeOK
  <2>. QED
    BY <2>2, <2>3 DEF StartClose
<1>. QED
  BY <1>1, WriteInvariant, PTL DEF Spec, CloseWaitsForWrite

-----------------------------------------------------------------------------
(* Patience, by the invariant that the write under way is the one waited in. *)
WaitedIn == patient => mishaps = {} /\ (writing = "pending" => call = "write")

LEMMA PatientStep == IInv /\ WaitedIn /\ [Next]_vars => WaitedIn'
<1> SUFFICES ASSUME IInv, WaitedIn, [Next]_vars, patient PROVE WaitedIn'
  BY DEF WaitedIn, Next, vars
<1> USE DEF WaitedIn
<1>1. CASE Stream
  BY <1>1 DEF Stream, SettleWrite, SettleClose, Disconnect, write, caller
<1>2. ASSUME NEW k \in Buf, PollWrite(k), writing = "pending" => k >= len PROVE WaitedIn'
  <2>1. CASE StartWrite(k)
    BY <2>1 DEF StartWrite, Pending, Ready, write
  <2>2. CASE ContinueWrite(k)
    <3>1. ~(len > k)
      BY <1>2, <2>2, BufAssumption DEF ContinueWrite, IInv, TypeOK
    <3>. QED
      BY <2>2, <3>1 DEF ContinueWrite, EndWrite, Pending
  <2>. QED
    BY <1>2, <2>1, <2>2 DEF PollWrite
<1>3. ASSUME PollFlush \/ PollShutdown, writing = "none" PROVE WaitedIn'
  BY <1>3 DEF PollFlush, PollShutdown, FlushPending, FlushError, Flushed, write
<1>4. ASSUME NEW c \in {"write", "flush", "shutdown"}, PatientPoll(c) PROVE WaitedIn'
  <2>1. CASE c = "write"
    BY <1>2, <1>4, <2>1 DEF PatientPoll, Poll
  <2>2. CASE c # "write"
    BY <1>3, <1>4, <2>2 DEF PatientPoll, Poll, IInv, TypeOK
  <2>. QED
    BY <2>1, <2>2
<1>5. CASE UNCHANGED vars
  BY <1>5 DEF vars, write, caller
<1>. QED
  BY <1>1, <1>4, <1>5 DEF Next, Call

(* A caller that abandons no call never loses track of a written chunk and  *)
(* is never told of more bytes than its buffer has.                         *)
THEOREM PatienceSuffices == Spec => []PatienceIsRewarded
<1>1. Init => WaitedIn
  BY DEF Init, WaitedIn
<1>2. WaitedIn => PatienceIsRewarded
  BY DEF WaitedIn, PatienceIsRewarded
<1>. QED
  BY <1>1, <1>2, InitIInv, StepIInv, PatientStep, PTL DEF Spec

-----------------------------------------------------------------------------
(* To a patient caller the writing half implements a pipe.  That no call    *)
(* fails while the stream is well takes what a refusal or a failure tells   *)
(* of it: a stream that is closing does so for the close under way, so one  *)
(* that is refused, or that failed, or a write that failed, found a stream  *)
(* that was closed or errored and stays so.                                 *)
Gone == stream \in {"closed", "errored"}

Refusals ==
  /\ stream = "closing" => closed = "accepted"
  /\ closed \in {"refused", "err"} => Gone

Failures ==
  patient =>
    /\ stream = "closing" => call = "shutdown"
    /\ promise = "err" => Gone

PatientInv == IInv /\ WaitedIn /\ Refusals /\ Failures

LEMMA InitPatientInv == Init => PatientInv
<1>1. Init => WaitedIn /\ Refusals /\ Failures
  BY DEF Init, WaitedIn, Refusals, Failures
<1>. QED
  BY <1>1, InitIInv DEF PatientInv

(* Flushed leaves the lock free for a close, and no write under way.        *)
LEMMA FlushedIsUnlocked ==
  ASSUME IInv, Flushed
  PROVE  ~locked' /\ promise' = "none" /\ writing' = "none"
BY DEF Flushed, EndWrite, write, IInv, UnderWay, TypeOK

LEMMA RefusalsStep == PatientInv /\ [Next]_vars => Refusals'
<1> SUFFICES ASSUME PatientInv, [Next]_vars PROVE Refusals'
  OBVIOUS
<1> USE DEF PatientInv, Refusals, Gone
<1>1. CASE SettleWrite
  BY <1>1 DEF SettleWrite, close
<1>2. CASE SettleClose
  BY <1>2 DEF SettleClose, IInv, Closing
<1>3. CASE Disconnect
  BY <1>3 DEF Disconnect, close
<1>4. CASE UNCHANGED vars
  BY <1>4 DEF vars, close, external
<1>5. ASSUME NEW c \in {"write", "flush", "shutdown"}, Poll(c) PROVE Refusals'
  <2>1. CASE UNCHANGED <<close, stream>>
    BY <2>1 DEF close
  <2>2. CASE Flushed /\ StartClose
    <3>1. ~locked' /\ closed = "none" /\ stream # "closing"
      BY <2>2, FlushedIsUnlocked DEF StartClose, IInv, Closing
    <3>2. stream \in {"writable", "closing", "closed", "errored"}
      BY DEF IInv, TypeOK
    <3>. QED
      BY <2>2, <3>1, <3>2 DEF StartClose
  <2>3. CASE Flushed /\ ContinueClose
    BY <2>3 DEF ContinueClose, close, IInv, Closing
  <2>. QED
    BY <1>5, <2>1, <2>2, <2>3 DEF Poll, PollWrite, StartWrite, ContinueWrite, PollFlush, PollShutdown, external, close
<1>. QED
  BY <1>1, <1>2, <1>3, <1>4, <1>5 DEF Next, Stream, Call, PatientPoll, Poll

(* A patient caller flushes and shuts down when no write is under way.      *)
LEMMA PatientPollsApart ==
  ASSUME PatientInv, patient, NEW c \in {"flush", "shutdown"}, PatientPoll(c)
  PROVE  /\ writing = "none" /\ promise = "none" /\ ~locked
         /\ Poll(c) /\ (call = "none" \/ call = c)
<1>1. call # "write" /\ Poll(c) /\ (call = "none" \/ call = c)
  BY DEF PatientPoll
<1>2. writing = "none"
  BY <1>1 DEF PatientInv, WaitedIn, IInv, TypeOK
<1>. QED
  BY <1>1, <1>2 DEF PatientInv, IInv, UnderWay, TypeOK

LEMMA FailuresStep == PatientInv /\ [Next]_vars => Failures'
<1> SUFFICES ASSUME PatientInv, [Next]_vars, patient PROVE Failures'
  BY DEF Failures, Next, vars
<1> USE DEF Failures, Gone
<1>1. CASE SettleWrite
  <2>1. stream # "closing"
    BY <1>1 DEF SettleWrite, PatientInv, WaitedIn, IInv, UnderWay
  <2>2. stream \in {"writable", "closing", "closed", "errored"}
    BY DEF PatientInv, IInv, TypeOK
  <2>. QED
    BY <1>1, <2>1, <2>2 DEF SettleWrite
<1>2. CASE SettleClose
  BY <1>2 DEF SettleClose, write, PatientInv
<1>3. CASE Disconnect
  BY <1>3 DEF Disconnect, write, caller, PatientInv
<1>4. CASE UNCHANGED vars
  BY <1>4 DEF vars, write, external, caller, PatientInv
<1>5. ASSUME NEW k \in Buf, PollWrite(k), call = "none" \/ call = "write" PROVE Failures'
  <2>1. stream # "closing" /\ UNCHANGED stream
    BY <1>5 DEF PatientInv, PollWrite, external
  <2>2. promise' = "err" => promise = "err"
    BY <1>5 DEF PollWrite, StartWrite, ContinueWrite, EndWrite, write
  <2>. QED
    BY <2>1, <2>2 DEF PatientInv
<1>6. ASSUME NEW c \in {"flush", "shutdown"}, PatientPoll(c) PROVE Failures'
  <2>1. writing = "none" /\ promise = "none" /\ Poll(c) /\ (call = "none" \/ call = c)
    BY <1>6, PatientPollsApart
  <2>2. promise' = "none"
    BY <2>1 DEF Poll, PollFlush, PollShutdown, FlushPending, FlushError, Flushed, EndWrite, write
  <2>3. CASE c = "flush"
    <3>1. UNCHANGED stream /\ stream # "closing"
      BY <2>1, <2>3 DEF Poll, PollFlush, external, PatientInv
    <3>. QED
      BY <2>2, <3>1
  <2>4. CASE c = "shutdown"
    <3>1. Flushed /\ (StartClose \/ ContinueClose)
      BY <2>1, <2>4 DEF Poll, PollShutdown, FlushPending, FlushError
    <3>2. CASE StartClose
      BY <2>2, <3>2 DEF StartClose, Pending
    <3>3. CASE ContinueClose /\ closed \in {"accepted", "refused"}
      BY <2>2, <3>3 DEF ContinueClose, Pending, close
    <3>4. CASE ContinueClose /\ closed \notin {"accepted", "refused"}
      BY <2>2, <3>4 DEF ContinueClose, PatientInv, Refusals
    <3>. QED
      BY <3>1, <3>2, <3>3, <3>4
  <2>. QED
    BY <2>3, <2>4
<1>. QED
  BY <1>1, <1>2, <1>3, <1>4, <1>5, <1>6 DEF Next, Stream, Call, PatientPoll, Poll
LEMMA PatientInvariant == Spec => []PatientInv
<1>1. PatientInv /\ [Next]_vars => PatientInv'
  BY StepIInv, PatientStep, RefusalsStep, FailuresStep DEF PatientInv
<1>. QED
  BY <1>1, InitPatientInv, PTL DEF Spec

(* There is word of every byte when no write has settled unnoticed.         *)
LEMMA NewsIsLast ==
  ASSUME PatientInv, patient, promise # "ok"
  PROVE  reported = sunk
BY DEF PatientInv, WaitedIn, IInv, Exact, TypeOK

LEMMA WritesAreOfThePipe ==
  ASSUME NEW k \in Buf, PatientInv, patient, PollWrite(k)
  PROVE  [Pipe!Next]_Pipe!vars
<1>1. UNCHANGED <<stream, sunk>>
  BY DEF PollWrite, external
<1>2. CASE StartWrite(k)
  <2>1. ~locked /\ UNCHANGED <<reported, answer>>
    BY <1>2 DEF StartWrite, Pending, PatientInv, IInv, UnderWay, TypeOK
  <2>. QED
    BY <1>1, <2>1 DEF Pipe!vars
<1>3. CASE ContinueWrite(k) /\ promise = "unsettled"
  <2>1. UNCHANGED <<reported, answer>>
    BY <1>3 DEF ContinueWrite, Pending
  <2>. QED
    BY <1>1, <2>1 DEF Pipe!vars
<1>4. CASE ContinueWrite(k) /\ promise = "ok"
  <2>1. answer' = "written" /\ reported' = reported + len
    BY <1>4 DEF ContinueWrite, Ready
  <2>2. sunk = reported + len /\ len \in Nat /\ reported \in Nat
    BY <1>4 DEF PatientInv, WaitedIn, IInv, Exact, TypeOK
  <2>3. reported' \in reported..sunk
    BY <2>1, <2>2
  <2>4. Pipe!Take
    BY <1>1, <2>1, <2>3 DEF Pipe!Take
  <2>. QED
    BY <2>4 DEF Pipe!Next
<1>5. CASE ContinueWrite(k) /\ promise = "err"
  <2>1. answer' = "error" /\ UNCHANGED reported
    BY <1>5 DEF ContinueWrite, Ready
  <2>2. reported = sunk
    BY <1>5, NewsIsLast
  <2>3. stream \in {"closed", "errored"}
    BY <1>5 DEF PatientInv, Failures, Gone
  <2>4. Pipe!Tell("error")
    BY <1>1, <2>1, <2>2, <2>3 DEF Pipe!Tell
  <2>. QED
    BY <2>4 DEF Pipe!Next
<1>. QED
  BY <1>2, <1>3, <1>4, <1>5 DEF PollWrite, ContinueWrite

LEMMA ShutdownsAreOfThePipe ==
  ASSUME PatientInv, patient, PatientPoll("shutdown")
  PROVE  [Pipe!Next]_Pipe!vars
<1>1. writing = "none" /\ promise = "none" /\ PollShutdown
  BY PatientPollsApart DEF Poll
<1>2. Flushed /\ (StartClose \/ ContinueClose) /\ UNCHANGED <<sunk, reported>>
  BY <1>1 DEF PollShutdown, FlushPending, FlushError
<1>3. CASE StartClose
  <2>1. UNCHANGED answer /\ (stream' = stream \/ (stream = "writable" /\ stream' = "closing"))
    BY <1>3 DEF StartClose, Pending
  <2>. QED
    BY <1>2, <2>1 DEF Pipe!vars
<1>4. CASE ContinueClose /\ closed \in {"accepted", "refused"}
  <2>1. UNCHANGED <<answer, stream>>
    BY <1>4 DEF ContinueClose, Pending
  <2>. QED
    BY <1>2, <2>1 DEF Pipe!vars
<1>5. CASE ContinueClose /\ closed = "ok"
  <2>1. answer' = "shut" /\ UNCHANGED stream /\ stream = "closed"
    BY <1>5 DEF ContinueClose, Ready, PatientInv, IInv, Closing
  <2>2. reported = sunk
    BY <1>1, NewsIsLast
  <2>3. Pipe!Tell("end")
    BY <1>2, <2>1, <2>2 DEF Pipe!Tell
  <2>. QED
    BY <2>3 DEF Pipe!Next
<1>6. CASE ContinueClose /\ closed = "err"
  <2>1. answer' = "error" /\ UNCHANGED stream /\ stream \in {"closed", "errored"}
    BY <1>6 DEF ContinueClose, Ready, PatientInv, Refusals, Gone
  <2>2. reported = sunk
    BY <1>1, NewsIsLast
  <2>3. Pipe!Tell("error")
    BY <1>2, <2>1, <2>2 DEF Pipe!Tell
  <2>. QED
    BY <2>3 DEF Pipe!Next
<1>. QED
  BY <1>2, <1>3, <1>4, <1>5, <1>6 DEF ContinueClose

LEMMA FlushesAreOfThePipe ==
  ASSUME PatientInv, patient, PatientPoll("flush")
  PROVE  [Pipe!Next]_Pipe!vars
<1>1. writing = "none" /\ promise = "none" /\ PollFlush
  BY PatientPollsApart DEF Poll
<1>2. answer' = "flushed" /\ UNCHANGED <<stream, sunk, reported>>
  BY <1>1 DEF PollFlush, FlushPending, FlushError, Ready, external
<1>3. reported = sunk
  BY <1>1, NewsIsLast
<1>4. Pipe!Tell("empty")
  BY <1>2, <1>3 DEF Pipe!Tell
<1>. QED
  BY <1>4 DEF Pipe!Next

LEMMA StreamIsOfThePipe ==
  ASSUME PatientInv, patient, Stream
  PROVE  [Pipe!Next]_Pipe!vars
<1>1. CASE SettleWrite /\ promise' = "ok"
  <2>1. stream = "writable" /\ sunk' = sunk + len /\ UNCHANGED <<stream, reported, answer>>
    BY <1>1 DEF SettleWrite
  <2>2. sunk' \in Nat /\ sunk' >= sunk
    BY <2>1, LimitAssumption DEF PatientInv, IInv, TypeOK
  <2>3. Pipe!Put
    BY <2>1, <2>2 DEF Pipe!Put
  <2>. QED
    BY <2>3 DEF Pipe!Next
<1>2. CASE SettleWrite /\ promise' # "ok"
  <2>1. UNCHANGED <<sunk, reported, answer>> /\ (stream' = stream \/ (stream = "writable" /\ stream' = "errored"))
    BY <1>2 DEF SettleWrite
  <2>2. CASE stream' = stream
    BY <2>1, <2>2 DEF Pipe!vars
  <2>3. CASE stream = "writable" /\ stream' = "errored"
    <3>1. Pipe!Stop
      BY <2>1, <2>3 DEF Pipe!Stop
    <3>. QED
      BY <3>1 DEF Pipe!Next
  <2>. QED
    BY <2>1, <2>2, <2>3
<1>3. CASE SettleClose
  <2>1. UNCHANGED <<sunk, reported, answer>> /\ (stream' = stream \/ (stream = "closing" /\ stream' = "closed"))
    BY <1>3 DEF SettleClose
  <2>2. CASE stream' = stream
    BY <2>1, <2>2 DEF Pipe!vars
  <2>3. CASE stream = "closing" /\ stream' = "closed"
    <3>1. Pipe!Stop
      BY <2>1, <2>3 DEF Pipe!Stop
    <3>. QED
      BY <3>1 DEF Pipe!Next
  <2>. QED
    BY <2>1, <2>2, <2>3
<1>4. CASE Disconnect
  <2>1. Pipe!Stop
    BY <1>4 DEF Disconnect, caller, Pipe!Stop
  <2>. QED
    BY <2>1 DEF Pipe!Next
<1>. QED
  BY <1>1, <1>2, <1>3, <1>4 DEF Stream

(* To a caller that abandons no call the writing half is a pipe.            *)
THEOREM PatientWriterIsAPipe == Spec => PatienceMakesAPipe
<1>1. Init => (patient => Pipe!Init)
  BY DEF Init, Pipe!Init
<1>2. PatientInv /\ [Next]_vars => [patient => [Pipe!Next]_Pipe!vars]_vars
  <2> SUFFICES ASSUME PatientInv, Next, patient PROVE [Pipe!Next]_Pipe!vars
    OBVIOUS
  <2>1. CASE Stream
    BY <2>1, StreamIsOfThePipe
  <2>2. ASSUME NEW k \in Buf, PollWrite(k) PROVE [Pipe!Next]_Pipe!vars
    BY <2>2, WritesAreOfThePipe
  <2>3. ASSUME NEW c \in {"write", "flush", "shutdown"}, PatientPoll(c) PROVE [Pipe!Next]_Pipe!vars
    <3>1. CASE c = "write"
      BY <2>2, <2>3, <3>1 DEF PatientPoll, Poll
    <3>2. CASE c = "flush"
      BY <2>3, <3>2, FlushesAreOfThePipe
    <3>3. CASE c = "shutdown"
      BY <2>3, <3>3, ShutdownsAreOfThePipe
    <3>. QED
      BY <3>1, <3>2, <3>3
  <2>. QED
    BY <2>1, <2>3 DEF Next, Call
<1>. QED
  BY <1>1, <1>2, PatientInvariant, PTL DEF Spec, PatienceMakesAPipe
=============================================================================
