--------------------------- MODULE SocketReadProofs ---------------------------
(* Proofs about SocketRead, for streams, chunks and buffers of any size.    *)
EXTENDS SocketRead, TLAPS

(* The strengthening of the safety properties.  Bytes are held only by a    *)
(* chunk that has arrived, empty only if chunks may be, or by Reading::Ready. *)
Held ==
  /\ held.lo <= held.hi
  /\ reading = "ready" <=> promise # "chunk" /\ held.lo < held.hi
  /\ promise = "chunk" /\ 0 \notin Chunk => held.lo < held.hi

(* A read under way has a promise and the lock, a settled promise tells the *)
(* state of the stream, and the lock outlives a read only in a failed one.  *)
UnderWay ==
  /\ reading = "pending" <=> promise # "none"
  /\ reading = "pending" => locked
  /\ promise = "done" => stream = "ended"
  /\ promise = "err" => stream = "errored"
  /\ locked /\ reading # "pending" => stream = "errored"

IInv == TypeOK /\ InOrder /\ Held /\ UnderWay /\ ThrowsOnlyAfterError /\ EndIsReal

LEMMA InitIInv == Init => IInv
<1> SUFFICES ASSUME Init PROVE IInv
  OBVIOUS
<1>1. TypeOK
  <2>1. held \in [lo : 0..Limit, hi : 0..Limit]
    BY LimitAssumption DEF Init
  <2>2. given \in 0..Limit /\ got \in 0..Limit
    BY LimitAssumption DEF Init
  <2>. QED
    BY <2>1, <2>2 DEF Init, TypeOK
<1>2. InOrder
  BY DEF Init, InOrder
<1>3. Held
  BY DEF Init, Held
<1>4. UnderWay /\ ThrowsOnlyAfterError /\ EndIsReal
  BY DEF Init, UnderWay, ThrowsOnlyAfterError, EndIsReal
<1>. QED
  BY <1>1, <1>2, <1>3, <1>4 DEF IInv

LEMMA StepIInv == IInv /\ [Next]_vars => IInv'
<1> SUFFICES ASSUME IInv, [Next]_vars PROVE IInv'
  OBVIOUS
<1> USE LimitAssumption, SizeAssumption
     DEF IInv, TypeOK, InOrder, Held, UnderWay, ThrowsOnlyAfterError, EndIsReal
<1>1. ASSUME NEW n \in Chunk, Arrive(n) PROVE IInv'
  BY <1>1 DEF Arrive
<1>2. CASE Settle
  BY <1>2 DEF Settle
<1>3. CASE Disconnect
  BY <1>3 DEF Disconnect
<1>4. ASSUME NEW k \in Buf, PollRead(k) PROVE IInv'
  <2>1. CASE StartRead
    BY <1>4, <2>1 DEF PollRead, StartRead, external
  <2>2. CASE reading = "pending" /\ StillPending
    BY <1>4, <2>2 DEF PollRead, StillPending, external
  <2>3. CASE reading = "pending" /\ ReadChunk(k)
    <3>1. UNCHANGED <<stream, given>> /\ HandleData(k)
      BY <1>4, <2>3 DEF PollRead, ReadChunk, external
    <3>2. InOrder'
      BY <2>3, <3>1 DEF ReadChunk, HandleData
    <3>3. Held'
      BY <2>3, <3>1 DEF ReadChunk, HandleData
    <3>4. TypeOK'
      <4>1. held' \in [lo : 0..Limit, hi : 0..Limit] /\ got' \in 0..Limit
        BY <2>3, <3>1 DEF ReadChunk, HandleData
      <4>. QED
        BY <2>3, <3>1, <4>1 DEF ReadChunk, HandleData
    <3>5. UnderWay' /\ ThrowsOnlyAfterError'
      BY <2>3, <3>1 DEF ReadChunk, HandleData
    <3>6. EndIsReal'
      BY <2>3, <3>1 DEF ReadChunk, HandleData
    <3>. QED
      BY <3>2, <3>3, <3>4, <3>5, <3>6
  <2>4. CASE reading = "pending" /\ ReadDone
    <3>1. held.lo = held.hi /\ UNCHANGED <<held, got, stream, given>>
      BY <1>4, <2>4 DEF PollRead, ReadDone, external
    <3>2. TypeOK' /\ InOrder'
      BY <2>4, <3>1 DEF ReadDone
    <3>3. (Held /\ UnderWay)'
      BY <2>4, <3>1 DEF ReadDone
    <3>. QED
      BY <2>4, <3>1, <3>2, <3>3 DEF ReadDone
  <2>5. CASE reading = "pending" /\ ReadError
    BY <1>4, <2>5 DEF PollRead, ReadError, external
  <2>6. CASE reading = "ready" /\ HandleData(k) /\ UNCHANGED <<promise, locked>>
    BY <1>4, <2>6 DEF PollRead, HandleData, external
  <2>. QED
    BY <1>4, <2>1, <2>2, <2>3, <2>4, <2>5, <2>6 DEF PollRead
<1>5. CASE UNCHANGED vars
  BY <1>5 DEF vars
<1>. QED
  BY <1>1, <1>2, <1>3, <1>4, <1>5 DEF Next

THEOREM ReadInvariant == Spec => []IInv
BY InitIInv, StepIInv, PTL DEF Spec

(* Every variable of the reading half keeps its type, the byte counters     *)
(* within what has arrived.                                                 *)
THEOREM ReadTypeCorrect == Spec => []TypeOK
<1>1. IInv => TypeOK
  BY DEF IInv
<1>. QED
  BY <1>1, ReadInvariant, PTL

(* The caller gets every byte of the stream once and in order, whatever the *)
(* sizes of chunks and buffers and whatever reads it abandons.              *)
THEOREM ReadsInOrder == Spec => []InOrder
<1>1. IInv => InOrder
  BY DEF IInv
<1>. QED
  BY <1>1, ReadInvariant, PTL

(* With no empty chunk, end of file is reported only at the end.            *)
THEOREM ReadEndIsReal == Spec => []EndIsReal
<1>1. IInv => EndIsReal
  BY DEF IInv
<1>. QED
  BY <1>1, ReadInvariant, PTL

(* poll_read throws only when it is polled again after the stream failed.   *)
THEOREM ReadThrowsOnlyAfterError == Spec => []ThrowsOnlyAfterError
<1>1. IInv => ThrowsOnlyAfterError
  BY DEF IInv
<1>. QED
  BY <1>1, ReadInvariant, PTL

-----------------------------------------------------------------------------
(* The reading half implements a pipe: a chunk that arrives is put in, what *)
(* the caller gets is taken out, and the other answers are news, for which  *)
(* everything that has arrived must be out: no bytes are held when no read  *)
(* is under way, nor when one has found the end or failed.                  *)
LEMMA ReadsInit == Init => Pipe!Init
BY DEF Init, Pipe!Init

LEMMA NewsIsLast ==
  ASSUME IInv, promise # "chunk", reading # "ready"
  PROVE  got = given
BY DEF IInv, TypeOK, InOrder, Held

LEMMA TakesAreTakes ==
  ASSUME NEW k \in Buf, IInv, 0 \notin Chunk, HandleData(k), UNCHANGED external,
         \/ reading = "pending" /\ promise = "chunk"
         \/ reading = "ready"
  PROVE  Pipe!Take
<1> USE SizeAssumption DEF IInv, TypeOK, InOrder, Held, UnderWay, external
<1>1. held.lo < held.hi
  OBVIOUS
<1>2. got' \in got..given
  BY <1>1 DEF HandleData
<1>3. answer' = "bytes"
  BY <1>1 DEF HandleData
<1>. QED
  BY <1>2, <1>3 DEF Pipe!Take

LEMMA PollsAreOfThePipe ==
  ASSUME NEW k \in Buf, IInv, 0 \notin Chunk, PollRead(k)
  PROVE  [Pipe!Next]_Pipe!vars
<1>1. UNCHANGED <<stream, given>>
  BY DEF PollRead, external
<1>2. CASE StartRead /\ ~locked
  <2>1. UNCHANGED <<got, answer>>
    BY <1>2 DEF StartRead
  <2>. QED
    BY <1>1, <2>1 DEF Pipe!vars
<1>3. CASE StartRead /\ locked
  <2>1. got = given /\ answer' = "thrown" /\ UNCHANGED got
    BY <1>3, NewsIsLast DEF StartRead, IInv, UnderWay, TypeOK
  <2>2. stream = "errored"
    BY <1>3 DEF StartRead, IInv, UnderWay
  <2>3. Pipe!Tell("error")
    BY <1>1, <2>1, <2>2 DEF Pipe!Tell
  <2>. QED
    BY <2>3 DEF Pipe!Next
<1>4. CASE reading = "pending" /\ StillPending
  BY <1>1, <1>4 DEF StillPending, Pipe!vars
<1>5. CASE reading = "pending" /\ ReadChunk(k)
  BY <1>1, <1>5, TakesAreTakes DEF ReadChunk, external, Pipe!Next
<1>6. CASE reading = "pending" /\ ReadDone
  <2>1. got = given /\ answer' = "end" /\ UNCHANGED got
    BY <1>6, NewsIsLast DEF ReadDone
  <2>2. stream = "ended"
    BY <1>6 DEF ReadDone, IInv, UnderWay
  <2>3. Pipe!Tell("end")
    BY <1>1, <2>1, <2>2 DEF Pipe!Tell
  <2>. QED
    BY <2>3 DEF Pipe!Next
<1>7. CASE reading = "pending" /\ ReadError
  <2>1. got = given /\ answer' = "error" /\ UNCHANGED got
    BY <1>7, NewsIsLast DEF ReadError
  <2>2. stream = "errored"
    BY <1>7 DEF ReadError, IInv, UnderWay
  <2>3. Pipe!Tell("error")
    BY <1>1, <2>1, <2>2 DEF Pipe!Tell
  <2>. QED
    BY <2>3 DEF Pipe!Next
<1>8. CASE reading = "ready" /\ HandleData(k)
  BY <1>1, <1>8, TakesAreTakes DEF external, Pipe!Next
<1>. QED
  BY <1>2, <1>3, <1>4, <1>5, <1>6, <1>7, <1>8 DEF PollRead, StartRead

LEMMA StepsAreOfThePipe ==
  ASSUME IInv, 0 \notin Chunk, [Next]_vars
  PROVE  [Pipe!Next]_Pipe!vars
<1>1. ASSUME NEW n \in Chunk, Arrive(n) PROVE Pipe!Put
  <2>1. stream = "open" /\ given' = given + n /\ UNCHANGED <<stream, got, answer>>
    BY <1>1 DEF Arrive
  <2>2. given' \in Nat /\ given' >= given
    BY <2>1, SizeAssumption, LimitAssumption DEF IInv, TypeOK
  <2>. QED
    BY <2>1, <2>2 DEF Pipe!Put
<1>2. CASE Settle
  BY <1>2 DEF Settle, Pipe!vars
<1>3. CASE Disconnect
  <2>1. Pipe!Stop
    BY <1>3 DEF Disconnect, Pipe!Stop
  <2>. QED
    BY <2>1 DEF Pipe!Next
<1>4. ASSUME NEW k \in Buf, PollRead(k) PROVE [Pipe!Next]_Pipe!vars
  BY <1>4, PollsAreOfThePipe
<1>5. CASE UNCHANGED vars
  BY <1>5 DEF vars, Pipe!vars
<1>. QED
  BY <1>1, <1>2, <1>3, <1>4, <1>5 DEF Next, Pipe!Next

(* To its caller the reading half is a pipe, if the stream has no empty     *)
(* chunks, which poll_read would take for the end.                          *)
THEOREM ReaderIsAPipe ==
  ASSUME 0 \notin Chunk
  PROVE  Spec => ReadsAPipe
<1>1. Init => Pipe!Init
  BY ReadsInit
<1>2. IInv /\ [Next]_vars => [Pipe!Next]_Pipe!vars
  BY StepsAreOfThePipe
<1>. QED
  BY <1>1, <1>2, ReadInvariant, PTL DEF Spec, ReadsAPipe, Pipe!Spec
=============================================================================
