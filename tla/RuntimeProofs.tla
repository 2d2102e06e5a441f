----------------------------- MODULE RuntimeProofs -----------------------------
(***************************************************************************)
(* Proofs about the parts of the worker crate that MCRuntime puts side by  *)
(* side.  For each part: what its constants must be, the inductive         *)
(* invariant, that the invariant says what the part promises, and that     *)
(* every step preserves it.  At the end: a behaviour of the whole is one   *)
(* of every part, and so the whole keeps every promise.                    *)
(***************************************************************************)
EXTENDS MCRuntime, DurableProofs, FiniteSetTheorems, SequenceTheorems, WellFoundedInduction

-----------------------------------------------------------------------------
(* Queue: what is in the queue or in a batch was sent, and a batch is      *)
(* handed out from both ends without gap or repetition.                    *)

(* Delays and the clock are numbers.                                        *)
QueueSensible == MaxClock \in Nat /\ Delays \subseteq Nat

(* What is in the queue or in a batch was sent, by a call that said so, and *)
(* not before it asked for.                                                 *)
QueueMsg == [body : Message, type : ContentType, retries : 0..1, due : Nat]
WasSent(m, cs, t) ==
  m \in QueueMsg /\ \E c \in cs : c.body = m.body /\ c.type = m.type /\ c.from \in Nat /\ (c.from <= t \/ c.from <= m.due)

InQueue == IsFiniteSet(queued) /\ \A m \in queued : WasSent(m, calls, clock)

InBatch ==
  /\ batch.messages \in Seq(QueueMsg)
  /\ \A i \in DOMAIN batch.messages :
       \E c \in calls : c.body = batch.messages[i].body /\ c.type = batch.messages[i].type /\ c.from \in Nat /\ c.from <= clock

(* The iterator has yielded what is outside its range.                      *)
Batches == [open : BOOLEAN, messages : Seq(QueueMsg), lo : Nat, hi : Nat, yields : Seq([index : Nat, ok : BOOLEAN]),
            acked : SUBSET Nat, retried : SUBSET Nat, all : {Unset, "ack", "retry"}, due : Nat]
Outside(lo, hi, n) == (0..(lo - 1)) \cup (hi..(n - 1))
Iterated ==
  /\ batch.lo <= batch.hi /\ batch.hi <= Len(batch.messages)
  /\ Len(batch.yields) = batch.lo + Len(batch.messages) - batch.hi
  /\ {batch.yields[i].index : i \in DOMAIN batch.yields} = Outside(batch.lo, batch.hi, Len(batch.messages))

QueueInv == clock \in 0..MaxClock /\ InQueue /\ batch \in Batches /\ InBatch /\ Iterated

LEMMA OutsideIsCounted ==
  ASSUME NEW lo \in Nat, NEW hi \in Nat, NEW n \in Nat, lo <= hi, hi <= n
  PROVE  Cardinality(Outside(lo, hi, n)) = lo + n - hi
<1>1. IsFiniteSet(0..(lo - 1)) /\ Cardinality(0..(lo - 1)) = lo
  <2>1. lo - 1 \in Int /\ 0 \in Int
    OBVIOUS
  <2>2. IsFiniteSet(0..(lo - 1)) /\ Cardinality(0..(lo - 1)) = IF 0 > lo - 1 THEN 0 ELSE (lo - 1) - 0 + 1
    BY <2>1, FS_Interval
  <2> QED
    BY <2>2
<1>2. IsFiniteSet(hi..(n - 1)) /\ Cardinality(hi..(n - 1)) = n - hi
  <2>1. n - 1 \in Int /\ hi \in Int
    OBVIOUS
  <2>2. IsFiniteSet(hi..(n - 1)) /\ Cardinality(hi..(n - 1)) = IF hi > n - 1 THEN 0 ELSE (n - 1) - hi + 1
    BY <2>1, FS_Interval
  <2> QED
    BY <2>2
<1>3. (0..(lo - 1)) \cap (hi..(n - 1)) = {}
  OBVIOUS
<1>4. Cardinality((0..(lo - 1)) \cup (hi..(n - 1)))
        = Cardinality(0..(lo - 1)) + Cardinality(hi..(n - 1)) - Cardinality((0..(lo - 1)) \cap (hi..(n - 1)))
  BY <1>1, <1>2, FS_Union
<1>5. Cardinality((0..(lo - 1)) \cap (hi..(n - 1))) = 0
  BY <1>3, FS_EmptySet
<1> QED
  BY <1>1, <1>2, <1>4, <1>5 DEF Outside

LEMMA OutsideGrows ==
  ASSUME NEW lo \in Nat, NEW hi \in Nat, NEW n \in Nat, lo < hi, hi <= n
  PROVE  /\ Outside(lo + 1, hi, n) = Outside(lo, hi, n) \cup {lo}
         /\ Outside(lo, hi - 1, n) = Outside(lo, hi, n) \cup {hi - 1}
<1>1. 0..((lo + 1) - 1) = (0..(lo - 1)) \cup {lo}
  OBVIOUS
<1>2. (hi - 1)..(n - 1) = (hi..(n - 1)) \cup {hi - 1}
  OBVIOUS
<1> QED
  BY <1>1, <1>2 DEF Outside

LEMMA QueueInvGives == QueueInv => QueueTypeOK /\ QueueKeepsFaith
<1> SUFFICES ASSUME QueueInv PROVE QueueTypeOK /\ QueueKeepsFaith
  OBVIOUS
<1>1. QueueTypeOK
  BY DEF QueueInv, QueueTypeOK, InQueue, WasSent, QueueMsg, Batches, Iterated
<1>2. EachOnce
  <2>1. /\ batch.lo \in Nat /\ batch.hi \in Nat /\ Len(batch.messages) \in Nat /\ Len(batch.yields) \in Nat
        /\ DOMAIN batch.yields = 1..Len(batch.yields)
    BY DEF QueueInv, Batches
  <2>2. Cardinality(Outside(batch.lo, batch.hi, Len(batch.messages))) = batch.lo + Len(batch.messages) - batch.hi
    BY <2>1, OutsideIsCounted DEF QueueInv, Iterated
  <2>3. Outside(batch.lo, batch.hi, Len(batch.messages)) \cup (batch.lo..(batch.hi - 1)) = 0..(Len(batch.messages) - 1)
    BY <2>1 DEF Outside, QueueInv, Iterated
  <2>4. SizeHint + Len(batch.yields) = Len(batch.messages)
    BY <2>1 DEF SizeHint, QueueInv, Iterated
  <2> DEFINE seen == {batch.yields[i].index : i \in DOMAIN batch.yields}
  <2>5. seen = Outside(batch.lo, batch.hi, Len(batch.messages)) /\ Len(batch.yields) = batch.lo + Len(batch.messages) - batch.hi
    BY DEF QueueInv, Iterated
  <2> HIDE DEF seen
  <2>6. Cardinality(seen) = Len(batch.yields) /\ seen \cup (batch.lo..(batch.hi - 1)) = 0..(Len(batch.messages) - 1)
    BY <2>2, <2>3, <2>5
  <2> QED
    BY <2>4, <2>6 DEF EachOnce, seen
<1>3. ArrivesAsAsked
  BY DEF QueueInv, InBatch, ArrivesAsAsked
<1> QED
  BY <1>1, <1>2, <1>3 DEF QueueKeepsFaith

LEMMA QueueInitially == QueueSensible /\ QueueInit => QueueInv
<1> SUFFICES ASSUME QueueSensible, QueueInit PROVE QueueInv
  OBVIOUS
<1>1. batch = NoBatch /\ queued = {} /\ clock = 0
  BY DEF QueueInit
<1>2. InQueue
  BY <1>1, FS_EmptySet DEF InQueue
<1>3. NoBatch \in Batches
  BY DEF NoBatch, Batches
<1>4. InBatch
  BY <1>1 DEF InBatch, NoBatch
<1>5. Iterated
  BY <1>1 DEF Iterated, NoBatch, Outside
<1> QED
  BY <1>1, <1>2, <1>3, <1>4, <1>5 DEF QueueInv, QueueSensible

LEMMA FiniteSetHasSeq ==
  ASSUME NEW S, IsFiniteSet(S)
  PROVE  SetToSeq(S) \in Seq(S) /\ Len(SetToSeq(S)) = Cardinality(S)
<1>1. Cardinality(S) \in Nat /\ ExistsBijection(1..Cardinality(S), S)
  BY FS_CardinalityType
<1>2. \E f \in [1..Cardinality(S) -> S] : IsInjective(f)
  BY <1>1 DEF ExistsBijection, Bijection, Injection
<1>3. SetToSeq(S) \in [1..Cardinality(S) -> S]
  BY <1>2 DEF SetToSeq
<1> QED
  BY <1>1, <1>3

LEMMA FiniteImage ==
  ASSUME NEW S, IsFiniteSet(S), NEW f, DOMAIN f = S
  PROVE  IsFiniteSet({f[x] : x \in S})
<1> DEFINE T == {f[x] : x \in S}
           g == [x \in S |-> f[x]]
<1>1. g \in Surjection(S, T)
  BY DEF Surjection
<1> QED
  BY <1>1, FS_Surjection

LEMMA SentStill ==
  ASSUME NEW m, NEW cs, NEW ds, NEW t \in Nat, NEW u \in Nat, cs \subseteq ds, t <= u, WasSent(m, cs, t)
  PROVE  WasSent(m, ds, u)
BY DEF WasSent

LEMMA SendsAre ==
  ASSUME NEW s \in Sends
  PROVE  /\ s.message \in Message /\ s.options.contentType \in ContentType /\ s.options.delaySeconds \in Delay
BY DEF Sends, Builds, Plain, Built, Options, ContentType, Delay

LEMMA EnqueuedWasSent ==
  ASSUME QueueSensible, clock \in Nat, NEW s \in Sends, NEW d \in Delay
  PROVE  WasSent(Enqueued(BatchRequest(s), d), {Asked(s, d)}, clock)
<1> DEFINE own == s.options.delaySeconds
           m == Enqueued(BatchRequest(s), d)
           c == Asked(s, d)
<1>1. s.message \in Message /\ s.options.contentType \in ContentType /\ own \in Delay
  BY SendsAre
<1>2. c.from \in Nat /\ c.from = m.due
  <2> DEFINE wait == IF own # Unset THEN own ELSE IF d # Unset THEN d ELSE 0
  <2>1. wait \in Nat
    BY <1>1 DEF Delay, QueueSensible
  <2>2. m.due = clock + wait
    BY DEF Enqueued, BatchRequest
  <2>3. c.from = clock + wait
    BY DEF Asked
  <2> QED
    BY <2>1, <2>2, <2>3
<1>3. m \in QueueMsg /\ c.body = m.body /\ c.type = m.type
  BY <1>1, <1>2 DEF Asked, Enqueued, BatchRequest, QueueMsg
<1> QED
  BY <1>2, <1>3 DEF WasSent

LEMMA BatchKept ==
  ASSUME QueueInv, calls \subseteq calls', batch' = batch, clock' \in 0..MaxClock, clock <= clock', QueueSensible
  PROVE  clock' \in 0..MaxClock /\ batch' \in Batches /\ InBatch' /\ Iterated'
<1>1. clock \in Nat /\ clock' \in Nat
  BY DEF QueueInv, QueueSensible
<1>2. InBatch'
  BY <1>1 DEF QueueInv, InBatch
<1> QED
  BY <1>2 DEF QueueInv, Iterated

LEMMA SendMoves == ASSUME QueueSensible, QueueInv, NEW s \in Sends, Send(s) PROVE QueueInv'
<1> DEFINE m == Enqueued(BatchRequest(s), Unset)
           c == Asked(s, Unset)
<1>1. clock' = clock /\ batch' = batch /\ queued' = queued \cup {m} /\ calls' = calls \cup {c} /\ clock \in Nat
  BY DEF Send, QueueInv, QueueSensible
<1>2. WasSent(m, {c}, clock)
  BY <1>1, EnqueuedWasSent DEF Delay
<1> HIDE DEF m, c
<1>3. InQueue'
  <2>1. IsFiniteSet(queued')
    BY <1>1, FS_AddElement DEF QueueInv, InQueue
  <2>2. \A x \in queued' : WasSent(x, calls', clock')
    BY <1>1, <1>2, SentStill DEF QueueInv, InQueue
  <2> QED
    BY <2>1, <2>2 DEF InQueue
<1> QED
  BY <1>1, <1>3, BatchKept DEF QueueInv

LEMMA SendBatchMoves ==
  ASSUME QueueSensible, QueueInv, NEW s \in Sends, NEW t \in Sends, NEW d \in Delay, SendBatch(Batch(<<s, t>>, d))
  PROVE  QueueInv'
<1> DEFINE m == Enqueued(BatchRequest(s), d)
           n == Enqueued(BatchRequest(t), d)
           b == Asked(s, d)
           c == Asked(t, d)
           all == Batch(<<s, t>>, d)
<1>1. clock' = clock /\ batch' = batch /\ clock \in Nat
  BY DEF SendBatch, QueueInv, QueueSensible
<1>2. \/ queued' = queued /\ calls' = calls
      \/ queued' = queued \cup {m, n} /\ calls' = calls \cup {b, c}
  <2>1. all.body = <<s, t>> /\ all.delaySeconds = d /\ Range(<<s, t>>) = {s, t}
    BY DEF Batch, Range
  <2>2. {Enqueued(BatchRequest(x), d) : x \in {s, t}} = {m, n} /\ {Asked(x, d) : x \in {s, t}} = {b, c}
    OBVIOUS
  <2> QED
    BY <2>1, <2>2 DEF SendBatch
<1>3. WasSent(m, {b}, clock) /\ WasSent(n, {c}, clock)
  BY <1>1, EnqueuedWasSent
<1> HIDE DEF m, n, b, c
<1>4. InQueue'
  <2>1. IsFiniteSet(queued')
    <3>1. queued \cup {m, n} = (queued \cup {m}) \cup {n}
      OBVIOUS
    <3>2. IsFiniteSet(queued \cup {m})
      BY FS_AddElement DEF QueueInv, InQueue
    <3>3. IsFiniteSet((queued \cup {m}) \cup {n})
      BY <3>2, FS_AddElement
    <3> QED
      BY <1>2, <3>1, <3>3 DEF QueueInv, InQueue
  <2>2. calls \subseteq calls'
    BY <1>2
  <2>3. \A x \in queued : WasSent(x, calls', clock')
    BY <1>1, <2>2, SentStill DEF QueueInv, InQueue
  <2>4. ASSUME queued' = queued \cup {m, n}, calls' = calls \cup {b, c}
        PROVE  WasSent(m, calls', clock') /\ WasSent(n, calls', clock')
    <3>1. {b} \subseteq calls' /\ {c} \subseteq calls' /\ clock <= clock
      BY <1>1, <2>4
    <3> QED
      BY <1>1, <1>3, <3>1, SentStill
  <2> QED
    BY <1>2, <2>1, <2>3, <2>4 DEF InQueue
<1> QED
  BY <1>1, <1>2, <1>4, BatchKept DEF QueueInv

LEMMA DeliverMoves == ASSUME QueueSensible, QueueInv, NEW ms \in SUBSET queued, DeliverBatch(ms) PROVE QueueInv'
<1>1. /\ clock' = clock /\ calls' = calls /\ queued' = queued \ ms /\ \A m \in ms : m.due <= clock
      /\ batch' = [NoBatch EXCEPT !.open = TRUE, !.messages = SetToSeq(ms), !.hi = Cardinality(ms)]
  BY DEF DeliverBatch
<1>2. IsFiniteSet(ms) /\ IsFiniteSet(queued \ ms)
  BY FS_Subset DEF QueueInv, InQueue
<1>3. SetToSeq(ms) \in Seq(ms) /\ Len(SetToSeq(ms)) = Cardinality(ms) /\ Cardinality(ms) \in Nat
  BY <1>2, FiniteSetHasSeq, FS_CardinalityType
<1> DEFINE q == SetToSeq(ms)
<1> HIDE DEF q
<1>4. /\ batch'.open = TRUE /\ batch'.messages = q /\ batch'.lo = 0 /\ batch'.hi = Len(q) /\ batch'.yields = <<>>
      /\ batch' = [open |-> TRUE, messages |-> q, lo |-> 0, hi |-> Len(q), yields |-> <<>>, acked |-> {}, retried |-> {},
                   all |-> Unset, due |-> 0]
  BY <1>1, <1>3 DEF NoBatch, q
<1>5. ms \subseteq QueueMsg
  BY DEF QueueInv, InQueue, WasSent
<1>6. q \in Seq(ms) /\ q \in Seq(QueueMsg)
  BY <1>3, <1>5, SeqMonotonic DEF q
<1>7. \A i \in DOMAIN q : \E c \in calls : c.body = q[i].body /\ c.type = q[i].type /\ c.from \in Nat /\ c.from <= clock
  <2> SUFFICES ASSUME NEW i \in DOMAIN q
               PROVE  \E c \in calls : c.body = q[i].body /\ c.type = q[i].type /\ c.from \in Nat /\ c.from <= clock
    OBVIOUS
  <2>1. q[i] \in ms
    BY <1>6
  <2>2. WasSent(q[i], calls, clock) /\ q[i].due <= clock
    BY <1>1, <2>1 DEF QueueInv, InQueue
  <2>3. clock \in Nat /\ q[i].due \in Nat
    BY <2>2 DEF QueueInv, QueueSensible, WasSent, QueueMsg
  <2> QED
    BY <2>2, <2>3 DEF WasSent
<1>8. InBatch'
  BY <1>1, <1>4, <1>6, <1>7 DEF InBatch
<1>9. batch' \in Batches
  BY <1>4, <1>6 DEF Batches
<1>10. Iterated'
  <2>1. Len(q) \in Nat
    BY <1>6
  <2> QED
    BY <1>4, <2>1 DEF Iterated, Outside
<1>11. InQueue'
  BY <1>1, <1>2 DEF InQueue, QueueInv
<1> QED
  BY <1>1, <1>8, <1>9, <1>10, <1>11 DEF QueueInv

(* The iterators.                                                           *)
LEMMA YieldMoves ==
  ASSUME QueueSensible, QueueInv, batch.open, batch.lo < batch.hi, NEW n \in Nat, NEW ok \in BOOLEAN,
         calls' = calls, queued' = queued, clock' = clock,
         \/ n = batch.lo /\ batch' = [batch EXCEPT !.lo = @ + 1, !.yields = Append(@, [index |-> n, ok |-> ok])]
         \/ n = batch.hi - 1 /\ batch' = [batch EXCEPT !.hi = @ - 1, !.yields = Append(@, [index |-> n, ok |-> ok])]
  PROVE  QueueInv'
<1> DEFINE ys == batch.yields
           y == [index |-> n, ok |-> ok]
           Y == [index : Nat, ok : BOOLEAN]
           zs == Append(ys, y)
<1>1. batch \in Batches /\ Iterated /\ ys \in Seq(Y) /\ y \in Y /\ batch.lo \in Nat /\ batch.hi \in Nat /\ batch.messages \in Seq(QueueMsg)
  BY DEF QueueInv, Batches
<1>2. zs \in Seq(Y) /\ Len(zs) = Len(ys) + 1 /\ (\A i \in 1..Len(ys) : zs[i] = ys[i]) /\ zs[Len(ys) + 1] = y /\ Len(ys) \in Nat
  BY <1>1, AppendProperties
<1>3. {zs[i].index : i \in DOMAIN zs} = {ys[i].index : i \in DOMAIN ys} \cup {n}
  <2>1. DOMAIN zs = 1..(Len(ys) + 1) /\ DOMAIN ys = 1..Len(ys) /\ y.index = n
    BY <1>1, <1>2
  <2>2. DOMAIN zs = DOMAIN ys \cup {Len(ys) + 1}
    BY <1>2, <2>1
  <2> HIDE DEF zs, y, ys
  <2> QED
    BY <1>2, <2>1, <2>2
<1>4. batch'.messages = batch.messages /\ batch'.yields = zs
  BY <1>1 DEF Batches
<1> HIDE DEF zs, y, ys
<1>5. /\ batch'.lo \in Nat /\ batch'.hi \in Nat /\ batch'.lo <= batch'.hi /\ batch'.hi <= Len(batch.messages)
      /\ Outside(batch'.lo, batch'.hi, Len(batch.messages)) = Outside(batch.lo, batch.hi, Len(batch.messages)) \cup {n}
      /\ batch'.lo + Len(batch.messages) - batch'.hi = batch.lo + Len(batch.messages) - batch.hi + 1
  <2>0. Len(batch.messages) \in Nat /\ batch.hi <= Len(batch.messages)
    BY <1>1 DEF Iterated
  <2>1. CASE n = batch.lo /\ batch'.lo = batch.lo + 1 /\ batch'.hi = batch.hi
    <3>1. Outside(batch.lo + 1, batch.hi, Len(batch.messages)) = Outside(batch.lo, batch.hi, Len(batch.messages)) \cup {batch.lo}
      BY <1>1, <2>0, OutsideGrows
    <3> QED
      BY <1>1, <2>0, <2>1, <3>1
  <2>2. CASE n = batch.hi - 1 /\ batch'.lo = batch.lo /\ batch'.hi = batch.hi - 1
    <3>1. Outside(batch.lo, batch.hi - 1, Len(batch.messages)) = Outside(batch.lo, batch.hi, Len(batch.messages)) \cup {batch.hi - 1}
      BY <1>1, <2>0, OutsideGrows
    <3>2. batch'.lo \in Nat /\ batch'.hi \in Nat /\ batch'.lo <= batch'.hi /\ batch'.hi <= Len(batch.messages)
      BY <1>1, <2>0, <2>2
    <3>3. Outside(batch'.lo, batch'.hi, Len(batch.messages)) = Outside(batch.lo, batch.hi, Len(batch.messages)) \cup {n}
      BY <2>2, <3>1
    <3>4. batch'.lo + Len(batch.messages) - batch'.hi = batch.lo + Len(batch.messages) - batch.hi + 1
      BY <1>1, <2>0, <2>2
    <3> QED
      BY <3>2, <3>3, <3>4
  <2>3. \/ n = batch.lo /\ batch'.lo = batch.lo + 1 /\ batch'.hi = batch.hi
        \/ n = batch.hi - 1 /\ batch'.lo = batch.lo /\ batch'.hi = batch.hi - 1
    BY <1>1 DEF Batches
  <2> QED
    BY <2>1, <2>2, <2>3
<1>6. Iterated'
  <2>1. Len(zs) = batch'.lo + Len(batch.messages) - batch'.hi
    BY <1>1, <1>2, <1>5 DEF Iterated, ys
  <2>2. {zs[i].index : i \in DOMAIN zs} = Outside(batch'.lo, batch'.hi, Len(batch.messages))
    BY <1>1, <1>3, <1>5 DEF Iterated, ys
  <2> QED
    BY <1>4, <1>5, <2>1, <2>2 DEF Iterated
<1>7. batch' \in Batches
  BY <1>1, <1>2, <1>5 DEF Batches, zs, y, ys
<1>8. InBatch' /\ InQueue'
  BY <1>4 DEF QueueInv, InBatch, InQueue
<1> QED
  BY <1>6, <1>7, <1>8 DEF QueueInv

LEMMA DecisionMoves ==
  ASSUME QueueSensible, QueueInv,
         calls' = calls, queued' = queued, clock' = clock,
         NEW acked \in SUBSET Nat, NEW retried \in SUBSET Nat, NEW all \in {Unset, "ack", "retry"}, NEW due \in Nat,
         batch' = [batch EXCEPT !.acked = acked, !.retried = retried, !.all = all, !.due = due]
  PROVE  QueueInv'
<1>1. /\ batch' \in Batches /\ batch'.messages = batch.messages /\ batch'.lo = batch.lo /\ batch'.hi = batch.hi
      /\ batch'.yields = batch.yields
  BY DEF QueueInv, Batches
<1>2. Iterated' /\ InBatch' /\ InQueue'
  BY <1>1 DEF QueueInv, Iterated, InBatch, InQueue
<1> QED
  BY <1>1, <1>2 DEF QueueInv

LEMMA DecideMoves ==
  ASSUME QueueSensible, QueueInv, NEW index \in Nat, NEW decision \in {"ack", "retry"}, NEW wait \in Delay,
         Decide(index, decision, wait) \/ DecideAll(decision, wait)
  PROVE  QueueInv'
<1>1. batch \in Batches /\ calls' = calls /\ queued' = queued /\ clock' = clock
  BY DEF QueueInv, Decide, DecideAll
<1>2. RetryAt(wait) \in Nat
  BY DEF RetryAt, Delay, QueueSensible, QueueInv
<1>3. CASE batch' = [batch EXCEPT !.acked = @ \cup {index}]
  <2>1. batch' = [batch EXCEPT !.acked = batch.acked \cup {index}, !.retried = batch.retried, !.all = batch.all, !.due = batch.due]
    BY <1>1, <1>3 DEF Batches
  <2>2. batch.acked \cup {index} \in SUBSET Nat /\ batch.retried \in SUBSET Nat /\ batch.all \in {Unset, "ack", "retry"} /\ batch.due \in Nat
    BY <1>1 DEF Batches
  <2> QED
    BY <1>1, <2>1, <2>2, DecisionMoves
<1>4. CASE batch' = [batch EXCEPT !.retried = @ \cup {index}, !.due = RetryAt(wait)]
  <2>1. batch' = [batch EXCEPT !.acked = batch.acked, !.retried = batch.retried \cup {index}, !.all = batch.all, !.due = RetryAt(wait)]
    BY <1>1, <1>4 DEF Batches
  <2>2. batch.acked \in SUBSET Nat /\ batch.retried \cup {index} \in SUBSET Nat /\ batch.all \in {Unset, "ack", "retry"}
    BY <1>1 DEF Batches
  <2> QED
    BY <1>1, <1>2, <2>1, <2>2, DecisionMoves
<1>5. CASE batch' = [batch EXCEPT !.all = decision, !.due = RetryAt(wait)]
  <2>1. batch' = [batch EXCEPT !.acked = batch.acked, !.retried = batch.retried, !.all = decision, !.due = RetryAt(wait)]
    BY <1>1, <1>5 DEF Batches
  <2> QED
    BY <1>1, <1>2, <2>1, DecisionMoves DEF Batches
<1> QED
  BY <1>3, <1>4, <1>5 DEF Decide, DecideAll

LEMMA RetriedIn ==
  ASSUME NEW m \in QueueMsg, NEW at \in Nat
  PROVE  [m EXCEPT !.retries = 1, !.due = at] \in QueueMsg
<1>1. /\ m.body \in Message /\ m.type \in ContentType /\ DOMAIN m = {"body", "type", "retries", "due"}
      /\ 1 \in 0..1
  BY DEF QueueMsg
<1> QED
  BY <1>1 DEF QueueMsg

LEMMA RetriedFields ==
  ASSUME NEW m \in QueueMsg, NEW at \in Nat
  PROVE  [m EXCEPT !.retries = 1, !.due = at].body = m.body /\ [m EXCEPT !.retries = 1, !.due = at].type = m.type
BY DEF QueueMsg

LEMMA ReturnMoves == ASSUME QueueSensible, QueueInv, NEW ok \in BOOLEAN, HandlerReturns(ok) PROVE QueueInv'
<1> DEFINE n == Len(batch.messages)
           again == {i \in 0..n - 1 : \/ i \in batch.retried
                                      \/ i \notin batch.acked /\ (batch.all = "retry" \/ (batch.all = Unset /\ ~ok))}
           f == [i \in again |-> [batch.messages[i + 1] EXCEPT !.retries = 1, !.due = batch.due]]
<1>1. /\ clock' = clock /\ calls' = calls /\ batch' = NoBatch
      /\ queued' = queued \cup {f[i] : i \in again}
  BY DEF HandlerReturns
<1>2. n \in Nat /\ batch.messages \in Seq(QueueMsg) /\ batch.due \in Nat /\ clock \in Nat
  BY DEF QueueInv, Batches, QueueSensible
<1>3. IsFiniteSet(queued')
  <2>1. n - 1 \in Int /\ 0 \in Int /\ again \in SUBSET (0..n - 1)
    BY <1>2
  <2>2. IsFiniteSet(0..n - 1)
    BY <2>1, FS_Interval
  <2>3. IsFiniteSet(again)
    BY <2>1, <2>2, FS_Subset
  <2>4. DOMAIN f = again
    OBVIOUS
  <2> HIDE DEF f, again
  <2>5. IsFiniteSet({f[i] : i \in again})
    BY <2>3, <2>4, FiniteImage
  <2> QED
    BY <1>1, <2>5, FS_Union DEF QueueInv, InQueue
<1>4. ASSUME NEW i \in again PROVE WasSent(f[i], calls', clock')
  <2>1. i + 1 \in DOMAIN batch.messages /\ batch.messages[i + 1] \in QueueMsg
    BY <1>2
  <2>2. /\ f[i] \in QueueMsg /\ f[i].body = batch.messages[i + 1].body /\ f[i].type = batch.messages[i + 1].type
    <3> DEFINE m == batch.messages[i + 1]
    <3>1. f[i] = [m EXCEPT !.retries = 1, !.due = batch.due]
      OBVIOUS
    <3>2. m \in QueueMsg
      BY <2>1
    <3> HIDE DEF f, again, m
    <3>3. f[i] \in QueueMsg /\ f[i].body = m.body /\ f[i].type = m.type
      BY <1>2, <3>1, <3>2, RetriedIn, RetriedFields
    <3> QED
      BY <3>3 DEF m
  <2> HIDE DEF f, again
  <2>3. \E c \in calls : c.body = f[i].body /\ c.type = f[i].type /\ c.from \in Nat /\ c.from <= clock
    BY <2>1, <2>2 DEF QueueInv, InBatch
  <2> QED
    BY <1>1, <2>2, <2>3 DEF WasSent
<1>5. InQueue'
  BY <1>1, <1>3, <1>4 DEF InQueue, QueueInv
<1> HIDE DEF n, f, again
<1>6. NoBatch \in Batches
  BY DEF NoBatch, Batches
<1>7. InBatch' /\ Iterated'
  <2>1. /\ NoBatch.messages = <<>> /\ NoBatch.yields = <<>> /\ NoBatch.lo = 0 /\ NoBatch.hi = 0
        /\ Len(<<>>) = 0 /\ DOMAIN <<>> = {}
    BY DEF NoBatch
  <2> QED
    <3>1. InBatch'
      BY <1>1, <2>1 DEF InBatch
    <3>2. 0..(0 - 1) = {} /\ {NoBatch.yields[i].index : i \in {}} = {}
      OBVIOUS
    <3>3. Iterated'
      BY <1>1, <2>1, <3>2 DEF Iterated, Outside
    <3> QED
      BY <3>1, <3>3
<1> QED
  BY <1>1, <1>5, <1>6, <1>7 DEF QueueInv

LEMMA TickMoves == ASSUME QueueSensible, QueueInv, QueueTick PROVE QueueInv'
<1>1. clock' = clock + 1 /\ clock' \in 0..MaxClock /\ calls' = calls /\ queued' = queued /\ batch' = batch /\ clock \in Nat
  BY DEF QueueTick, QueueInv, QueueSensible
<1>2. InQueue'
  <2>1. ASSUME NEW m \in queued PROVE WasSent(m, calls, clock')
    <3>1. clock' \in Nat /\ clock <= clock' /\ WasSent(m, calls, clock) /\ calls \subseteq calls
      BY <1>1 DEF QueueInv, InQueue
    <3> QED
      BY <1>1, <3>1, SentStill
  <2> QED
    BY <1>1, <2>1 DEF QueueInv, InQueue
<1>3. calls \subseteq calls' /\ clock <= clock'
  BY <1>1
<1> QED
  BY <1>1, <1>2, <1>3, BatchKept DEF QueueInv

LEMMA QueueStep == QueueSensible /\ QueueInv /\ [QueueNext]_queueVars => QueueInv'
<1> SUFFICES ASSUME QueueSensible, QueueInv, [QueueNext]_queueVars PROVE QueueInv'
  OBVIOUS
<1>1. CASE UNCHANGED queueVars
  BY <1>1 DEF queueVars, QueueInv, InQueue, InBatch, Iterated
<1>2. ASSUME NEW s \in Sends, Send(s) PROVE QueueInv'
  BY <1>2, SendMoves
<1>3. ASSUME NEW s \in Sends, NEW t \in Sends, NEW d \in Delay, SendBatch(Batch(<<s, t>>, d)) PROVE QueueInv'
  BY <1>3, SendBatchMoves
<1>4. ASSUME NEW ms \in SUBSET queued, DeliverBatch(ms) PROVE QueueInv'
  BY <1>4, DeliverMoves
<1>5. CASE Next_ \/ RawNext \/ NextBack
  <2>1. batch.lo \in Nat /\ batch.hi \in Nat /\ batch.lo < batch.hi /\ batch.open /\ batch.hi - 1 \in Nat
    BY <1>5 DEF Next_, RawNext, NextBack, QueueInv, Batches
  <2>2. calls' = calls /\ queued' = queued /\ clock' = clock
    BY <1>5 DEF Next_, RawNext, NextBack
  <2>3. ASSUME NEW i \in Nat PROVE \E ok \in BOOLEAN : Yield(i) = [index |-> i, ok |-> ok]
    BY DEF Yield
  <2>4. \/ \E ok \in BOOLEAN : batch' = [batch EXCEPT !.lo = @ + 1, !.yields = Append(@, [index |-> batch.lo, ok |-> ok])]
        \/ \E ok \in BOOLEAN : batch' = [batch EXCEPT !.hi = @ - 1, !.yields = Append(@, [index |-> batch.hi - 1, ok |-> ok])]
    BY <1>5, <2>1, <2>3 DEF Next_, RawNext, NextBack
  <2> QED
    BY <2>1, <2>2, <2>4, YieldMoves
<1>6. CASE QueueTick
  BY <1>6, TickMoves
<1>7. ASSUME NEW i \in 0..1, NEW d \in {"ack", "retry"}, NEW t \in Delay, Decide(i, d, t) \/ DecideAll(d, t) PROVE QueueInv'
  BY <1>7, DecideMoves
<1>8. ASSUME NEW ok \in BOOLEAN, HandlerReturns(ok) PROVE QueueInv'
  BY <1>8, ReturnMoves
<1>9. QueueNext \/ UNCHANGED queueVars
  OBVIOUS
<1>10. CASE QueueNext
  <2>1. Unset \in Delay /\ Delays \subseteq Delay /\ 0 \in 0..1
    BY DEF Delay
  <2> QED
    BY <1>2, <1>3, <1>4, <1>5, <1>6, <1>7, <1>8, <1>10, <2>1 DEF QueueNext
<1> QED
  BY <1>1, <1>9, <1>10

LEMMA QueueInductive == ASSUME QueueSensible PROVE QueueSpec => []QueueInv
<1>1. QueueInit => QueueInv
  BY QueueInitially
<1>2. QueueInv /\ [QueueNext]_queueVars => QueueInv'
  BY QueueStep
<1> QED
  BY <1>1, <1>2, PTL DEF QueueSpec

-----------------------------------------------------------------------------
(* WebSocket: the receiver holds, in order, what was dispatched since.     *)

WsSensible == MaxEvents \in Nat

Event == Types \X Nat
EndItem == <<"end", 0>>
WireItem == {"text", "copy", "close"} \X Nat

WsTypes ==
  /\ ws \in [from : {"none", "response", "pair", "refused"}, accepted : BOOLEAN, closed : BOOLEAN]
  /\ hooks \in [on : SUBSET Types, freed : SUBSET Types]
  /\ stream \in [up : BOOLEAN, rx : Seq(Event), closed : BOOLEAN, yields : Seq(Event \cup {EndItem})]
  /\ was \in [events : Seq(Event), count : 0..MaxEvents, sent : Seq(Nat), arrived : Seq(Nat), missed : Nat]
  /\ memory \in 0..1
  /\ wire \in Seq(WireItem)

(* All three listeners are there while the stream is, and none without it.  *)
Hooked == hooks.on = (IF stream.up THEN Types ELSE {}) /\ was.missed = 0

(* The events that the stream had from its receiver; then those that are in *)
(* it.                                                                      *)
Had == Len(was.events) - Len(stream.rx)
Received ==
  /\ stream.up =>
       /\ Had \in Nat
       /\ \A i \in 1..Had : stream.yields[i] = was.events[i]
       /\ \A i \in 1..Len(stream.rx) : stream.rx[i] = was.events[Had + i]
       /\ \/ Len(stream.yields) = Had
          \/ Len(stream.yields) = Had + 1 /\ stream.yields[Had + 1] = EndItem /\ stream.closed
  /\ ~stream.up => stream = NoStream

(* Only the last event is close, and the socket is closed after it; the     *)
(* stream is once it has had that.                                          *)
ClosedByClose ==
  stream.up =>
    /\ \A i \in 1..Len(was.events) : was.events[i][1] = "close" => i = Len(was.events)
    /\ was.events # <<>> => (ws.closed <=> was.events[Len(was.events)][1] = "close")
    /\ stream.closed <=> Had > 0 /\ was.events[Had][1] = "close"

(* What the peer got and what is on the way is what was sent.               *)
OnTheWay ==
  /\ Len(was.sent) = Len(was.arrived) + Len(wire)
  /\ \A i \in 1..Len(was.arrived) : was.arrived[i] = was.sent[i]
  /\ \A i \in 1..Len(wire) : wire[i][2] = was.sent[Len(was.arrived) + i]

WsInv == WsTypes /\ Hooked /\ Received /\ ClosedByClose /\ OnTheWay

LEMMA WsInvGives == WsInv => WsTypeOK /\ SocketKeepsFaith
<1> SUFFICES ASSUME WsInv PROVE WsTypeOK /\ SocketKeepsFaith
  OBVIOUS
<1>0. /\ stream.yields \in Seq(Event \cup {EndItem}) /\ stream.rx \in Seq(Event) /\ was.events \in Seq(Event)
      /\ was.sent \in Seq(Nat) /\ was.arrived \in Seq(Nat) /\ wire \in Seq(WireItem)
  BY DEF WsInv, WsTypes
<1>1. WsTypeOK
  BY DEF WsInv, WsTypes, WsTypeOK
<1>2. ASSUME stream.up
      PROVE  LET ended == stream.yields # <<>> /\ Last(stream.yields)[1] = "end"
                 items == IF ended THEN Front(stream.yields) ELSE stream.yields
             IN  items \o stream.rx = was.events
  <2> DEFINE ended == stream.yields # <<>> /\ Last(stream.yields)[1] = "end"
             items == IF ended THEN Front(stream.yields) ELSE stream.yields
  <2>1. Len(stream.rx) \in Nat /\ Len(was.events) \in Nat /\ Len(stream.yields) \in Nat /\ Had \in Nat
    BY <1>0, <1>2 DEF WsInv, Received
  <2>2. \A i \in 1..Had : was.events[i] \in Event
    <3>1. \A i \in 1..Had : i \in 1..Len(was.events)
      BY <2>1 DEF Had
    <3> QED
      BY <1>0, <3>1, ElementOfSeq
  <2> DEFINE Items == Event \cup {EndItem}
  <2>0. stream.yields \in Seq(Items) /\ stream.rx \in Seq(Items) /\ was.events \in Seq(Items) /\ Event \subseteq Items
    BY <1>0, SeqMonotonic
  <2> HIDE DEF Items
  <2>3. items \in Seq(Items) /\ Len(items) = Had /\ \A i \in 1..Had : items[i] = was.events[i]
    <3>1. CASE Len(stream.yields) = Had
      <4>1. ~ended
        <5> SUFFICES ASSUME stream.yields # <<>> PROVE Last(stream.yields)[1] # "end"
          OBVIOUS
        <5>1. Had \in 1..Had
          BY <1>0, <2>1, <3>1, EmptySeq
        <5>2. Last(stream.yields) \in Event
          BY <1>2, <2>2, <3>1, <5>1 DEF Last, WsInv, Received
        <5> QED
          BY <5>2 DEF Event, Types
      <4>2. items = stream.yields
        BY <4>1
      <4>3. \A i \in 1..Had : stream.yields[i] = was.events[i]
        BY <1>2 DEF WsInv, Received
      <4> HIDE DEF items
      <4> QED
        BY <2>0, <3>1, <4>2, <4>3
    <3>2. CASE Len(stream.yields) = Had + 1 /\ stream.yields[Had + 1] = EndItem
      <4>1. ended
        BY <1>0, <2>1, <3>2, EmptySeq DEF Last, EndItem
      <4>2. items = SubSeq(stream.yields, 1, Had)
        BY <2>1, <3>2, <4>1 DEF Front
      <4>3. \A i \in 1..Had : stream.yields[i] = was.events[i]
        BY <1>2 DEF WsInv, Received
      <4> HIDE DEF items, ended
      <4>4. items \in Seq(Items) /\ Len(items) = Had /\ \A i \in 1..Had : items[i] = stream.yields[i]
        BY <2>0, <2>1, <2>2, <4>2, <4>3, SubSeqProperties
      <4> QED
        BY <4>3, <4>4
    <3> QED
      BY <1>2, <3>1, <3>2 DEF WsInv, Received
  <2> HIDE DEF items, ended
  <2>4. /\ items \o stream.rx \in Seq(Items) /\ Len(items \o stream.rx) = Had + Len(stream.rx)
        /\ \A i \in 1..Had + Len(stream.rx) :
             (items \o stream.rx)[i] = IF i <= Had THEN items[i] ELSE stream.rx[i - Had]
    BY <2>0, <2>3, ConcatProperties
  <2>5. Had + Len(stream.rx) = Len(was.events)
    BY <2>1 DEF Had
  <2>6. \A i \in 1..Had + Len(stream.rx) : (items \o stream.rx)[i] = was.events[i]
    <3> SUFFICES ASSUME NEW i \in 1..Had + Len(stream.rx) PROVE (items \o stream.rx)[i] = was.events[i]
      OBVIOUS
    <3>1. CASE i <= Had
      BY <2>1, <2>3, <2>4, <3>1
    <3>2. CASE i > Had
      <4>1. i - Had \in 1..Len(stream.rx) /\ Had + (i - Had) = i
        BY <2>1, <3>2
      <4>2. stream.rx[i - Had] = was.events[Had + (i - Had)]
        BY <1>2, <4>1 DEF WsInv, Received
      <4> QED
        BY <2>1, <2>4, <3>2, <4>1, <4>2
    <3>3. i <= Had \/ i > Had
      BY <2>1
    <3> QED
      BY <3>1, <3>2, <3>3
  <2>7. items \o stream.rx = was.events
    BY <2>0, <2>4, <2>5, <2>6, SeqEqual
  <2> QED
    BY <2>7 DEF items, ended
<1>3. \A i \in 1..Len(stream.yields) - 1 : stream.yields[i][1] = "close" => stream.yields[i + 1][1] = "end"
  <2> SUFFICES ASSUME NEW i \in 1..Len(stream.yields) - 1, stream.yields[i][1] = "close" PROVE stream.yields[i + 1][1] = "end"
    OBVIOUS
  <2>1. stream.up
    BY EmptySeq DEF WsInv, Received, NoStream
  <2>2. Len(stream.rx) \in Nat /\ Len(was.events) \in Nat /\ Len(stream.yields) \in Nat /\ Had \in Nat
    BY <1>0, <2>1 DEF WsInv, Received
  <2>7. Len(stream.yields) <= Had + 1 /\ Had <= Len(was.events)
    <3>1. Len(stream.yields) <= Had + 1
      BY <2>1, <2>2 DEF WsInv, Received
    <3>2. Had <= Len(was.events)
      <4>1. \A a, b \in Nat : a - b <= a
        OBVIOUS
      <4> QED
        BY <2>2, <4>1 DEF Had
    <3> QED
      BY <3>1, <3>2
  <2>8. i \in 1..Had /\ i \in 1..Len(was.events)
    BY <2>2, <2>7
  <2>3. i \in 1..Had /\ stream.yields[i] = was.events[i] /\ i \in 1..Len(was.events)
    BY <2>1, <2>8 DEF WsInv, Received
  <2>4. i = Len(was.events)
    BY <2>1, <2>3 DEF WsInv, ClosedByClose
  <2>5. Had = i /\ i < Len(stream.yields)
    BY <2>2, <2>3, <2>4, <2>7
  <2>6. stream.yields[Had + 1] = EndItem
    BY <2>1, <2>2, <2>5 DEF WsInv, Received
  <2> QED
    BY <2>5, <2>6 DEF EndItem
<1>4. ws.closed /\ stream.up /\ stream.rx = <<>> /\ was.events # <<>> => stream.closed
  <2> SUFFICES ASSUME ws.closed, stream.up, stream.rx = <<>>, was.events # <<>> PROVE stream.closed
    OBVIOUS
  <2>1. Had = Len(was.events) /\ Len(was.events) \in Nat \ {0}
    <3>1. Len(stream.rx) = 0 /\ Len(was.events) \in Nat \ {0}
      BY <1>0, EmptySeq
    <3> QED
      BY <3>1 DEF Had
  <2> QED
    BY <2>1 DEF WsInv, ClosedByClose
<1>5. SentAsGiven
  <2>1. was.missed = 0
    BY DEF WsInv, Hooked
  <2>2. Len(was.arrived) \in Nat /\ Len(was.sent) \in Nat /\ Len(wire) \in Nat /\ Len(was.arrived) <= Len(was.sent)
    BY <1>0 DEF WsInv, OnTheWay
  <2>3. SubSeq(was.arrived, 1, Len(was.arrived)) = SubSeq(was.sent, 1, Len(was.arrived))
    <3>1. \A i \in 1..Len(was.arrived) : was.arrived[i] \in Nat /\ was.sent[i] \in Nat
      <4> SUFFICES ASSUME NEW i \in 1..Len(was.arrived) PROVE was.arrived[i] \in Nat /\ was.sent[i] \in Nat
        OBVIOUS
      <4>1. i \in 1..Len(was.sent)
        BY <2>2
      <4> QED
        BY <1>0, <4>1, ElementOfSeq
    <3> DEFINE n == Len(was.arrived)
               a == SubSeq(was.arrived, 1, n)
               b == SubSeq(was.sent, 1, n)
    <3>2. a \in Seq(Nat) /\ Len(a) = n /\ \A i \in 1..n : a[i] = was.arrived[i]
      BY <2>2, <3>1, SubSeqProperties
    <3>3. b \in Seq(Nat) /\ Len(b) = n /\ \A i \in 1..n : b[i] = was.sent[i]
      BY <2>2, <3>1, SubSeqProperties
    <3>4. \A i \in 1..n : was.arrived[i] = was.sent[i]
      BY DEF WsInv, OnTheWay
    <3> HIDE DEF a, b, n
    <3>5. a = b
      BY <3>2, <3>3, <3>4, SeqEqual
    <3> QED
      BY <3>5 DEF a, b, n
  <2> QED
    BY <2>1, <2>2, <2>3 DEF SentAsGiven, IsPrefix
<1>6. CloseIsLast
  BY <1>2, <1>3, <1>4 DEF CloseIsLast
<1> QED
  BY <1>1, <1>5, <1>6 DEF SocketKeepsFaith

LEMMA WsInitially == WsSensible /\ WsInit => WsInv
<1> SUFFICES ASSUME WsSensible, WsInit PROVE WsInv
  OBVIOUS
<1>1. WsTypes
  BY DEF WsSensible, WsInit, WsTypes, NoStream
<1>2. Hooked /\ Received /\ ClosedByClose
  BY DEF WsInit, Hooked, Received, ClosedByClose, NoStream
<1>3. OnTheWay
  BY DEF WsInit, OnTheWay
<1> QED
  BY <1>1, <1>2, <1>3 DEF WsInv

(* A step that leaves the stream, its events and what is sent alone.        *)
LEMMA SocketMoves ==
  ASSUME WsSensible, WsInv, stream' = stream, wire' = wire, was' = was, hooks'.on = hooks.on,
         ws'.closed = ws.closed, WsTypes'
  PROVE  WsInv'
<1>1. Hooked' /\ OnTheWay'
  BY DEF WsInv, Hooked, OnTheWay
<1>2. Had' = Had
  BY DEF Had
<1>3. Received' /\ ClosedByClose'
  BY <1>2 DEF WsInv, Received, ClosedByClose
<1> QED
  BY <1>1, <1>3 DEF WsInv

LEMMA OpeningMoves ==
  ASSUME WsSensible, WsInv,
         (\E s, p : Connect(s, p)) \/ NewPair \/ Accept \/ Overwrite
  PROVE  WsInv'
<1>1. stream' = stream /\ wire' = wire /\ was' = was /\ hooks' = hooks /\ ws'.closed = ws.closed
  BY DEF WsInv, WsTypes, Connect, NewPair, Accept, Overwrite
<1>2. ws' \in [from : {"none", "response", "pair", "refused"}, accepted : BOOLEAN, closed : BOOLEAN]
  <2>1. \/ ws' = ws
        \/ \E f \in {"response", "pair", "refused"} : ws' = [ws EXCEPT !.from = f]
        \/ ws' = [ws EXCEPT !.accepted = TRUE]
    BY DEF Connect, NewPair, Accept, Overwrite
  <2> QED
    BY <2>1 DEF WsInv, WsTypes
<1>4. memory' \in 0..1
  BY DEF WsInv, WsTypes, Connect, NewPair, Accept, Overwrite
<1>3. WsTypes'
  BY <1>1, <1>2, <1>4 DEF WsInv, WsTypes
<1> QED
  BY <1>1, <1>3, SocketMoves

(* A message that is sent is on the way after all others.                   *)
LEMMA WireGrows ==
  ASSUME WsSensible, WsInv, NEW item \in WireItem,
         wire' = Append(wire, item), was' = [was EXCEPT !.sent = Append(@, item[2])],
         UNCHANGED <<ws, stream, hooks, memory>>
  PROVE  WsInv'
<1>1. /\ was \in [events : Seq(Event), count : 0..MaxEvents, sent : Seq(Nat), arrived : Seq(Nat), missed : Nat]
      /\ was.sent \in Seq(Nat) /\ was.arrived \in Seq(Nat) /\ wire \in Seq(WireItem) /\ item[2] \in Nat
  BY DEF WsInv, WsTypes, WireItem
<1>2. /\ was'.sent = Append(was.sent, item[2]) /\ was'.arrived = was.arrived /\ was'.events = was.events
      /\ was'.missed = was.missed
  BY <1>1
<1>3. WsTypes'
  <2>1. Append(was.sent, item[2]) \in Seq(Nat) /\ Append(wire, item) \in Seq(WireItem)
    BY <1>1, AppendProperties
  <2> QED
    BY <2>1 DEF WsInv, WsTypes
<1>4. Had' = Had
  BY <1>2 DEF Had
<1>5. Hooked' /\ Received' /\ ClosedByClose'
  BY <1>2, <1>4 DEF WsInv, Hooked, Received, ClosedByClose
<1>6. OnTheWay'
  <2> DEFINE n == Len(was.arrived)
             w == Len(wire)
             m == Len(was.sent)
  <2>1. n \in Nat /\ w \in Nat /\ m = n + w /\ \A i \in 1..w : wire[i][2] = was.sent[n + i]
    BY <1>1 DEF WsInv, OnTheWay
  <2>2. /\ Len(was'.sent) = m + 1 /\ was'.sent[m + 1] = item[2]
        /\ \A i \in 1..m : was'.sent[i] = was.sent[i]
    BY <1>1, <1>2, AppendProperties
  <2>3. /\ Len(wire') = w + 1 /\ wire'[w + 1] = item
        /\ \A i \in 1..w : wire'[i] = wire[i]
    BY <1>1, AppendProperties
  <2>4. \A i \in 1..n : was'.arrived[i] = was'.sent[i]
    BY <1>2, <2>1, <2>2 DEF WsInv, OnTheWay
  <2>5. Len(was'.arrived) = n
    BY <1>2
  <2> HIDE DEF n, w, m
  <2>6. \A i \in 1..w + 1 : wire'[i][2] = was'.sent[n + i]
    <3> SUFFICES ASSUME NEW i \in 1..w + 1 PROVE wire'[i][2] = was'.sent[n + i]
      OBVIOUS
    <3>1. CASE i = w + 1
      BY <2>1, <2>2, <2>3, <3>1
    <3>2. CASE i \in 1..w
      <4>1. n + i \in 1..m
        BY <2>1, <3>2
      <4> QED
        BY <2>1, <2>2, <2>3, <3>2, <4>1
    <3>3. i = w + 1 \/ i \in 1..w
      BY <2>1
    <3> QED
      BY <3>1, <3>2, <3>3
  <2>7. Len(was'.sent) = Len(was'.arrived) + Len(wire')
    BY <2>1, <2>2, <2>3, <2>5
  <2> QED
    BY <2>3, <2>4, <2>5, <2>6, <2>7 DEF OnTheWay, n
<1> QED
  BY <1>3, <1>5, <1>6 DEF WsInv

LEMMA SendMoves_ ==
  ASSUME WsSensible, WsInv,
         (\E ok \in BOOLEAN : SendWithStr(ok)) \/ SendWithBytes \/ (\E c, r \in BOOLEAN : Close(c, r))
  PROVE  WsInv'
<1>1. CASE UNCHANGED <<wire, was>> /\ UNCHANGED <<ws, stream, hooks, memory>>
  BY <1>1, SocketMoves DEF WsInv, WsTypes
<1>2. CASE SendWithStr(TRUE) \/ SendWithBytes
  <2>1. memory \in Nat
    BY DEF WsInv, WsTypes
  <2>2. <<"text", memory>> \in WireItem /\ <<"copy", memory>> \in WireItem
    BY <2>1 DEF WireItem
  <2>3. PICK item \in WireItem : wire' = Append(wire, item) /\ was' = [was EXCEPT !.sent = Append(@, item[2])]
    BY <1>2, <2>2 DEF SendWithStr, SendWithBytes
  <2> QED
    BY <1>2, <2>3, WireGrows DEF SendWithStr, SendWithBytes
<1>3. ASSUME NEW c \in BOOLEAN, NEW r \in BOOLEAN, Close(c, r) PROVE WsInv'
  <2> DEFINE n == CloseArguments(c, r)
  <2>1. n \in Nat /\ n = IF ~c THEN 0 ELSE IF r THEN 2 ELSE 1
    BY DEF CloseArguments
  <2>2. wire' = Append(wire, <<"close", n>>) /\ was' = [was EXCEPT !.sent = Append(@, n)] /\ UNCHANGED <<ws, stream, hooks, memory>>
    BY <1>3, <2>1 DEF Close
  <2> HIDE DEF n
  <2>3. <<"close", n>> \in WireItem /\ <<"close", n>>[2] = n
    BY <2>1 DEF WireItem
  <2> QED
    BY <2>2, <2>3, WireGrows
<1>4. ASSUME NEW ok \in BOOLEAN, SendWithStr(ok)
      PROVE  SendWithStr(TRUE) \/ (UNCHANGED <<wire, was>> /\ UNCHANGED <<ws, stream, hooks, memory>>)
  BY <1>4 DEF SendWithStr
<1> QED
  BY <1>1, <1>2, <1>3, <1>4

LEMMA RuntimeSendsMoves == ASSUME WsSensible, WsInv, RuntimeSends PROVE WsInv'
<1> DEFINE item == Head(wire)
           x == item[2]
           n == Len(was.arrived)
<1>1. /\ was \in [events : Seq(Event), count : 0..MaxEvents, sent : Seq(Nat), arrived : Seq(Nat), missed : Nat]
      /\ was.sent \in Seq(Nat) /\ was.arrived \in Seq(Nat) /\ wire \in Seq(WireItem) /\ wire # <<>>
  BY DEF WsInv, WsTypes, RuntimeSends
<1>2. item \in WireItem /\ item = wire[1] /\ Len(wire) \in Nat \ {0}
  BY <1>1, EmptySeq, HeadTailProperties
<1>3. x \in Nat /\ item[1] # "view"
  BY <1>2 DEF WireItem
<1>4. wire' = Tail(wire) /\ was' = [was EXCEPT !.arrived = Append(@, x)] /\ UNCHANGED <<ws, stream, hooks, memory>>
  BY <1>3 DEF RuntimeSends
<1> HIDE DEF item, x
<1>5. /\ Tail(wire) \in Seq(WireItem) /\ Len(wire') = Len(wire) - 1
      /\ \A i \in 1..Len(wire') : wire'[i] = wire[i + 1]
  BY <1>1, <1>4, HeadTailProperties
<1>6. /\ Append(was.arrived, x) \in Seq(Nat) /\ Len(Append(was.arrived, x)) = n + 1
      /\ Append(was.arrived, x)[n + 1] = x
      /\ \A i \in 1..n : Append(was.arrived, x)[i] = was.arrived[i]
  BY <1>1, <1>3, AppendProperties
<1>7. /\ was'.sent = was.sent /\ was'.arrived = Append(was.arrived, x) /\ was'.events = was.events
      /\ was'.missed = was.missed
  BY <1>1, <1>4
<1>8. WsTypes'
  BY <1>4, <1>5, <1>6 DEF WsInv, WsTypes
<1>9. Had' = Had
  BY <1>4, <1>7 DEF Had
<1>10. Hooked' /\ Received' /\ ClosedByClose'
  BY <1>4, <1>7, <1>9 DEF WsInv, Hooked, Received, ClosedByClose
<1>11. OnTheWay'
  <2>1. n \in Nat /\ Len(was.sent) = n + Len(wire) /\ x = was.sent[n + 1]
    BY <1>1, <1>2 DEF WsInv, OnTheWay, x
  <2>2. \A i \in 1..n + 1 : was'.arrived[i] = was'.sent[i]
    BY <1>6, <1>7, <2>1 DEF WsInv, OnTheWay
  <2>3. \A i \in 1..Len(wire') : wire'[i][2] = was'.sent[(n + 1) + i]
    <3> SUFFICES ASSUME NEW i \in 1..Len(wire') PROVE wire'[i][2] = was'.sent[(n + 1) + i]
      OBVIOUS
    <3>3. i + 1 \in 1..Len(wire)
      <4>1. \A a \in Nat \ {0} : \A j \in 1..a - 1 : j + 1 \in 1..a
        OBVIOUS
      <4> QED
        BY <1>2, <1>5, <4>1
    <3>4. i \in Int /\ n \in Int
      BY <2>1
    <3>5. \A a, b \in Int : a + (b + 1) = (a + 1) + b
      OBVIOUS
    <3>1. i + 1 \in 1..Len(wire) /\ n + (i + 1) = (n + 1) + i
      BY <3>3, <3>4, <3>5
    <3>2. wire[i + 1][2] = was.sent[n + (i + 1)]
      BY <3>1 DEF WsInv, OnTheWay
    <3> QED
      BY <1>5, <1>7, <3>1, <3>2
  <2>4. Len(was'.arrived) = n + 1
    BY <1>6, <1>7
  <2>5. Len(was'.sent) = (n + 1) + Len(wire')
    BY <1>2, <1>5, <1>7, <2>1
  <2> HIDE DEF n
  <2> QED
    BY <2>2, <2>3, <2>4, <2>5 DEF OnTheWay
<1> QED
  BY <1>8, <1>10, <1>11 DEF WsInv

LEMMA NoStreamIsOne ==
  NoStream \in [up : BOOLEAN, rx : Seq(Event), closed : BOOLEAN, yields : Seq(Event \cup {EndItem})]
BY DEF NoStream

LEMMA EventsMove == ASSUME WsSensible, WsInv, NEW n \in 0..3, Events(n) PROVE WsInv'
<1> DEFINE order == <<"close", "message", "error">>
           heard == {order[i] : i \in 1..n}
<1>1. heard \subseteq Types /\ (n = 3 => heard = Types)
  <2>1. \A i \in 1..3 : order[i] \in Types
    BY DEF Types
  <2>2. 1..n \subseteq 1..3 /\ (n = 3 => {1, 2, 3} \subseteq 1..n)
    OBVIOUS
  <2>3. order[1] = "close" /\ order[2] = "message" /\ order[3] = "error"
    OBVIOUS
  <2> HIDE DEF order
  <2>4. heard \subseteq Types
    BY <2>1, <2>2
  <2>5. n = 3 => Types \subseteq heard
    BY <2>2, <2>3 DEF Types
  <2> QED
    BY <2>4, <2>5
<1>2. CASE n # 3
  <2>1. hooks' = [hooks EXCEPT !.freed = @ \cup heard] /\ UNCHANGED <<stream, was, ws, memory, wire>>
    BY <1>2 DEF Events
  <2> HIDE DEF heard
  <2>2. hooks'.on = hooks.on /\ hooks' \in [on : SUBSET Types, freed : SUBSET Types]
    BY <1>1, <2>1 DEF WsInv, WsTypes
  <2>3. WsTypes'
    BY <2>1, <2>2 DEF WsInv, WsTypes
  <2> QED
    BY <2>1, <2>2, <2>3, SocketMoves
<1>3. CASE n = 3
  <2>1. /\ hooks' = [hooks EXCEPT !.on = heard] /\ stream' = [NoStream EXCEPT !.up = TRUE] /\ was' = [was EXCEPT !.events = <<>>]
        /\ UNCHANGED <<ws, memory, wire>>
    BY <1>3 DEF Events
  <2> HIDE DEF heard
  <2>2. /\ hooks'.on = Types /\ stream'.up /\ stream'.rx = <<>> /\ ~stream'.closed /\ stream'.yields = <<>>
        /\ was'.events = <<>> /\ was'.missed = was.missed /\ was'.sent = was.sent /\ was'.arrived = was.arrived
    BY <1>1, <1>3, <2>1 DEF WsInv, WsTypes, NoStream
  <2>3. WsTypes'
    <3>1. [NoStream EXCEPT !.up = TRUE] \in [up : BOOLEAN, rx : Seq(Event), closed : BOOLEAN, yields : Seq(Event \cup {EndItem})]
      BY NoStreamIsOne
    <3>2. hooks' \in [on : SUBSET Types, freed : SUBSET Types]
      BY <1>1, <2>1 DEF WsInv, WsTypes
    <3>3. was' \in [events : Seq(Event), count : 0..MaxEvents, sent : Seq(Nat), arrived : Seq(Nat), missed : Nat]
      <4>1. was \in [events : Seq(Event), count : 0..MaxEvents, sent : Seq(Nat), arrived : Seq(Nat), missed : Nat]
            /\ <<>> \in Seq(Event)
        BY DEF WsInv, WsTypes
      <4> QED
        BY <2>1, <4>1
    <3> QED
      BY <2>1, <3>1, <3>2, <3>3 DEF WsInv, WsTypes
  <2>4. Had' = 0
    BY <2>2 DEF Had
  <2>5. Hooked' /\ Received' /\ ClosedByClose' /\ OnTheWay'
    BY <2>1, <2>2, <2>4 DEF WsInv, Hooked, Received, ClosedByClose, OnTheWay
  <2> QED
    BY <2>3, <2>5 DEF WsInv
<1> QED
  BY <1>2, <1>3

LEMMA DropMoves == ASSUME WsSensible, WsInv, DropStream PROVE WsInv'
<1>1. stream' = NoStream /\ ~NoStream.up /\ hooks'.on = {} /\ UNCHANGED <<ws, memory, wire, was>>
  BY DEF DropStream, NoStream, WsInv, WsTypes
<1>2. WsTypes'
  <2>1. NoStream \in [up : BOOLEAN, rx : Seq(Event), closed : BOOLEAN, yields : Seq(Event \cup {EndItem})]
    BY NoStreamIsOne
  <2>2. hooks' \in [on : SUBSET Types, freed : SUBSET Types]
    BY DEF DropStream, WsInv, WsTypes
  <2> QED
    BY <1>1, <2>1, <2>2 DEF WsInv, WsTypes
<1>3. Hooked' /\ Received' /\ ClosedByClose' /\ OnTheWay'
  BY <1>1 DEF WsInv, Hooked, Received, ClosedByClose, OnTheWay
<1> QED
  BY <1>2, <1>3 DEF WsInv

LEMMA DispatchMoves == ASSUME WsSensible, WsInv, NEW type \in Types, Dispatch(type) PROVE WsInv'
<1> DEFINE e == <<type, was.count>>
<1>1. /\ was \in [events : Seq(Event), count : 0..MaxEvents, sent : Seq(Nat), arrived : Seq(Nat), missed : Nat]
      /\ stream \in [up : BOOLEAN, rx : Seq(Event), closed : BOOLEAN, yields : Seq(Event \cup {EndItem})]
      /\ ws \in [from : {"none", "response", "pair", "refused"}, accepted : BOOLEAN, closed : BOOLEAN]
      /\ was.events \in Seq(Event) /\ stream.rx \in Seq(Event) /\ was.count \in Nat /\ was.count + 1 \in 0..MaxEvents
      /\ e \in Event
  BY DEF WsInv, WsTypes, Dispatch, Event, WsSensible
<1>2. ~(type \in hooks.on /\ ~stream.up) /\ (stream.up => type \in hooks.on)
  BY DEF WsInv, Hooked
<1>3. /\ ws' = [ws EXCEPT !.closed = (type = "close")] /\ ~ws.closed
      /\ stream' = IF stream.up THEN [stream EXCEPT !.rx = Append(@, e)] ELSE stream
      /\ was' = [was EXCEPT !.count = @ + 1, !.events = IF stream.up THEN Append(@, e) ELSE @]
      /\ UNCHANGED <<hooks, memory, wire>>
  BY <1>1, <1>2 DEF Dispatch
<1>4. /\ ws'.closed = (type = "close") /\ was'.sent = was.sent /\ was'.arrived = was.arrived /\ was'.missed = was.missed
      /\ stream'.up = stream.up /\ stream'.yields = stream.yields /\ stream'.closed = stream.closed
  BY <1>1, <1>3
<1>5. /\ Append(was.events, e) \in Seq(Event) /\ Len(Append(was.events, e)) = Len(was.events) + 1
      /\ Append(was.events, e)[Len(was.events) + 1] = e
      /\ \A i \in 1..Len(was.events) : Append(was.events, e)[i] = was.events[i]
  BY <1>1, AppendProperties
<1>6. /\ Append(stream.rx, e) \in Seq(Event) /\ Len(Append(stream.rx, e)) = Len(stream.rx) + 1
      /\ Append(stream.rx, e)[Len(stream.rx) + 1] = e
      /\ \A i \in 1..Len(stream.rx) : Append(stream.rx, e)[i] = stream.rx[i]
  BY <1>1, AppendProperties
<1>7. WsTypes'
  <2>1. ws' \in [from : {"none", "response", "pair", "refused"}, accepted : BOOLEAN, closed : BOOLEAN]
    BY <1>1, <1>3
  <2>2. stream' \in [up : BOOLEAN, rx : Seq(Event), closed : BOOLEAN, yields : Seq(Event \cup {EndItem})]
    BY <1>1, <1>3, <1>6
  <2>3. was' \in [events : Seq(Event), count : 0..MaxEvents, sent : Seq(Nat), arrived : Seq(Nat), missed : Nat]
    <3> DEFINE es == IF stream.up THEN Append(was.events, e) ELSE was.events
    <3>1. es \in Seq(Event) /\ was' = [was EXCEPT !.count = was.count + 1, !.events = es]
      BY <1>1, <1>3, <1>5
    <3> HIDE DEF es
    <3> QED
      BY <1>1, <3>1
  <2> QED
    BY <1>3, <2>1, <2>2, <2>3 DEF WsInv, WsTypes
<1>8. Hooked' /\ OnTheWay'
  BY <1>3, <1>4 DEF WsInv, Hooked, OnTheWay
<1>9. CASE ~stream.up
  <2>1. stream' = stream
    BY <1>3, <1>9
  <2> QED
    BY <1>7, <1>8, <1>9, <2>1 DEF WsInv, Received, ClosedByClose
<1>10. CASE stream.up
  <2> DEFINE n == Len(was.events)
             r == Len(stream.rx)
             h == Had
  <2>1. was'.events = Append(was.events, e) /\ stream'.rx = Append(stream.rx, e) /\ n \in Nat /\ r \in Nat
    BY <1>1, <1>3, <1>10
  <2>2. Had' = Had
    <3>1. Had' = (n + 1) - (r + 1) /\ Had = n - r
      BY <1>5, <1>6, <2>1 DEF Had
    <3> QED
      BY <2>1, <3>1
  <2>3. Had \in Nat /\ n = Had + r
    <3>1. Had = n - r /\ Had \in Nat
      BY <1>10 DEF Had, WsInv, Received
    <3> QED
      BY <2>1, <3>1
  <2> HIDE DEF e
  <2>4. \A i \in 1..Had : was'.events[i] = was.events[i]
    <3>1. \A i \in 1..Had : i \in 1..n
      BY <2>1, <2>3
    <3> QED
      BY <1>5, <2>1, <3>1
  <2>5. \A i \in 1..r + 1 : stream'.rx[i] = was'.events[Had + i]
    <3> SUFFICES ASSUME NEW i \in 1..r + 1 PROVE stream'.rx[i] = was'.events[Had + i]
      OBVIOUS
    <3>1. CASE i = r + 1
      <4>1. Had + i = n + 1
        BY <2>1, <2>3, <3>1
      <4> QED
        BY <1>5, <1>6, <2>1, <3>1, <4>1
    <3>2. CASE i \in 1..r
      <4>1. Had + i \in 1..n
        BY <2>1, <2>3, <3>2
      <4>2. stream.rx[i] = was.events[Had + i]
        BY <1>10, <3>2 DEF WsInv, Received
      <4> QED
        BY <1>5, <1>6, <2>1, <3>2, <4>1, <4>2
    <3>3. i = r + 1 \/ i \in 1..r
      BY <2>1
    <3> QED
      BY <3>1, <3>2, <3>3
  <2>6. Received'
    <3>1. Len(stream'.rx) = r + 1
      BY <1>6, <2>1
    <3>2. \A i \in 1..Had : stream'.yields[i] = was'.events[i]
      BY <1>4, <1>10, <2>4 DEF WsInv, Received
    <3>3. \/ Len(stream'.yields) = Had
          \/ Len(stream'.yields) = Had + 1 /\ stream'.yields[Had + 1] = EndItem /\ stream'.closed
      BY <1>4, <1>10 DEF WsInv, Received
    <3> HIDE DEF r
    <3> QED
      BY <1>4, <1>10, <2>2, <2>3, <2>5, <3>1, <3>2, <3>3 DEF Received
  <2>7. ClosedByClose'
    <3>1. \A i \in 1..n : was.events[i][1] # "close"
      <4> SUFFICES ASSUME NEW i \in 1..n, was.events[i][1] = "close" PROVE FALSE
        OBVIOUS
      <4>1. i = n /\ was.events # <<>>
        BY <1>1, <1>10 DEF WsInv, ClosedByClose
      <4> QED
        BY <1>3, <1>10, <4>1 DEF WsInv, ClosedByClose
    <3>2. Len(was'.events) = n + 1 /\ was'.events[n + 1] = e /\ \A i \in 1..n : was'.events[i] = was.events[i]
      BY <1>5, <2>1
    <3>3. \A i \in 1..n + 1 : was'.events[i][1] = "close" => i = n + 1
      <4>1. \A i \in 1..n + 1 : i = n + 1 \/ i \in 1..n
        BY <2>1
      <4> QED
        BY <3>1, <3>2, <4>1
    <3>4. ws'.closed <=> was'.events[n + 1][1] = "close"
      <4>1. was'.events[n + 1][1] = type
        BY <3>2 DEF e
      <4>2. ws'.closed = (type = "close")
        BY <1>4
      <4> HIDE DEF n
      <4> QED
        BY <4>1, <4>2
    <3>5. ~stream.closed
      BY <1>10, <2>1, <2>3, <3>1 DEF WsInv, ClosedByClose
    <3>6. ~(Had > 0 /\ was'.events[Had][1] = "close")
      <4> SUFFICES ASSUME Had > 0 PROVE was'.events[Had][1] # "close"
        OBVIOUS
      <4>1. Had \in 1..Had /\ Had \in 1..n
        BY <2>1, <2>3
      <4> QED
        BY <2>4, <3>1, <4>1
    <3> HIDE DEF n
    <3> QED
      BY <1>4, <2>2, <3>2, <3>3, <3>4, <3>5, <3>6 DEF ClosedByClose
  <2> QED
    BY <1>7, <1>8, <2>6, <2>7 DEF WsInv
<1> QED
  BY <1>1, <1>9, <1>10

LEMMA PollMoves == ASSUME WsSensible, WsInv, PollNext PROVE WsInv'
<1>1. /\ stream \in [up : BOOLEAN, rx : Seq(Event), closed : BOOLEAN, yields : Seq(Event \cup {EndItem})]
      /\ stream.rx \in Seq(Event) /\ stream.yields \in Seq(Event \cup {EndItem}) /\ was.events \in Seq(Event)
      /\ stream.up /\ UNCHANGED <<ws, hooks, memory, wire, was>>
  BY DEF WsInv, WsTypes, PollNext
<1>2. Had \in Nat /\ Len(stream.yields) \in Nat /\ Len(stream.rx) \in Nat /\ Len(was.events) = Had + Len(stream.rx)
  <2>1. Had = Len(was.events) - Len(stream.rx) /\ Len(stream.rx) \in Nat /\ Len(was.events) \in Nat
    BY <1>1 DEF Had
  <2>2. Had \in Nat /\ Len(stream.yields) \in Nat
    BY <1>1 DEF WsInv, Received
  <2> HIDE DEF Had
  <2> QED
    BY <2>1, <2>2
<1>4. CASE stream' = stream
  BY <1>1, <1>4, SocketMoves DEF WsInv, WsTypes
<1>5. CASE stream.closed /\ stream' # stream
  <2>1. stream' = [stream EXCEPT !.yields = Append(@, EndItem)] /\ Last(stream.yields)[1] # "end"
    BY <1>1, <1>5 DEF PollNext, EndItem
  <2>2. Len(stream.yields) = Had
    <3> SUFFICES ASSUME Len(stream.yields) = Had + 1, stream.yields[Had + 1] = EndItem PROVE FALSE
      BY <1>1 DEF WsInv, Received
    <3> QED
      BY <2>1 DEF Last, EndItem
  <2>3. /\ Append(stream.yields, EndItem) \in Seq(Event \cup {EndItem}) /\ Len(Append(stream.yields, EndItem)) = Had + 1
        /\ Append(stream.yields, EndItem)[Had + 1] = EndItem
        /\ \A i \in 1..Had : Append(stream.yields, EndItem)[i] = stream.yields[i]
    BY <1>1, <2>2, AppendProperties
  <2>4. /\ stream'.up /\ stream'.rx = stream.rx /\ stream'.closed = stream.closed /\ stream'.yields = Append(stream.yields, EndItem)
    BY <1>1, <2>1
  <2>5. WsTypes'
    BY <1>1, <2>1, <2>3 DEF WsInv, WsTypes
  <2>6. Had' = Had
    BY <1>1, <2>4 DEF Had
  <2>7. Received'
    <3>1. \A i \in 1..Had : stream'.yields[i] = was.events[i]
      BY <1>1, <2>3, <2>4 DEF WsInv, Received
    <3> QED
      BY <1>1, <1>2, <1>5, <2>3, <2>4, <2>6, <3>1 DEF WsInv, Received
  <2>8. ClosedByClose' /\ Hooked' /\ OnTheWay'
    BY <1>1, <2>4, <2>6 DEF WsInv, ClosedByClose, Hooked, OnTheWay
  <2> QED
    BY <2>5, <2>7, <2>8 DEF WsInv
<1>6. CASE ~stream.closed
  <2> DEFINE e == Head(stream.rx)
  <2>1. stream.rx # <<>> /\ stream' = [stream EXCEPT !.rx = Tail(@), !.yields = Append(@, e), !.closed = e[1] = "close"]
    BY <1>6 DEF PollNext
  <2>2. /\ e \in Event /\ e = stream.rx[1] /\ Len(stream.rx) \in Nat \ {0}
        /\ Tail(stream.rx) \in Seq(Event) /\ Len(Tail(stream.rx)) = Len(stream.rx) - 1
        /\ \A i \in 1..Len(Tail(stream.rx)) : Tail(stream.rx)[i] = stream.rx[i + 1]
    BY <1>1, <2>1, EmptySeq, HeadTailProperties
  <2> HIDE DEF e
  <2>3. Len(stream.yields) = Had
    BY <1>1, <1>6 DEF WsInv, Received
  <2>4. /\ Append(stream.yields, e) \in Seq(Event \cup {EndItem}) /\ Len(Append(stream.yields, e)) = Had + 1
        /\ Append(stream.yields, e)[Had + 1] = e
        /\ \A i \in 1..Had : Append(stream.yields, e)[i] = stream.yields[i]
    BY <1>1, <2>2, <2>3, AppendProperties
  <2>5. /\ stream'.up /\ stream'.rx = Tail(stream.rx) /\ stream'.closed = (e[1] = "close")
        /\ stream'.yields = Append(stream.yields, e)
    BY <1>1, <2>1
  <2>6. WsTypes'
    BY <1>1, <2>1, <2>2, <2>4 DEF WsInv, WsTypes
  <2>7. Had' = Had + 1
    <3>1. Had' = Len(was.events) - (Len(stream.rx) - 1)
      BY <1>1, <2>2, <2>5 DEF Had
    <3>2. \A h, r \in Nat : (h + r) - (r - 1) = h + 1
      OBVIOUS
    <3> QED
      BY <1>2, <3>1, <3>2
  <2>8. e = was.events[Had + 1]
    <3>1. 1 \in 1..Len(stream.rx)
      BY <2>2
    <3> QED
      BY <1>1, <2>2, <3>1 DEF WsInv, Received
  <2>9. Received'
    <3>1. \A i \in 1..Had + 1 : stream'.yields[i] = was.events[i]
      <4>1. \A i \in 1..Had + 1 : i = Had + 1 \/ i \in 1..Had
        BY <1>2
      <4>2. \A i \in 1..Had : stream.yields[i] = was.events[i]
        BY <1>1 DEF WsInv, Received
      <4> QED
        BY <2>4, <2>5, <2>8, <4>1, <4>2
    <3>2. \A i \in 1..Len(stream'.rx) : stream'.rx[i] = was.events[(Had + 1) + i]
      <4> SUFFICES ASSUME NEW i \in 1..Len(stream'.rx) PROVE stream'.rx[i] = was.events[(Had + 1) + i]
        OBVIOUS
      <4>1. \A a \in Nat \ {0} : \A j \in 1..a - 1 : j + 1 \in 1..a
        OBVIOUS
      <4>2. i + 1 \in 1..Len(stream.rx) /\ i \in Int
        BY <2>2, <2>5, <4>1
      <4>3. stream.rx[i + 1] = was.events[Had + (i + 1)]
        BY <1>1, <4>2 DEF WsInv, Received
      <4>4. Had + (i + 1) = (Had + 1) + i
        BY <1>2, <4>2
      <4> QED
        BY <2>2, <2>5, <4>3, <4>4
    <3>3. Len(stream'.yields) = Had + 1 /\ Had + 1 \in Nat
      BY <1>2, <2>4, <2>5
    <3> QED
      BY <1>1, <2>5, <2>7, <3>1, <3>2, <3>3 DEF Received
  <2>10. ClosedByClose'
    <3>1. Had' > 0 /\ was'.events[Had'] = e
      BY <1>1, <1>2, <2>7, <2>8
    <3>2. stream'.closed <=> Had' > 0 /\ was'.events[Had'][1] = "close"
      BY <2>5, <3>1
    <3> QED
      BY <1>1, <2>5, <3>2 DEF WsInv, ClosedByClose
  <2>11. Hooked' /\ OnTheWay'
    BY <1>1, <2>5 DEF WsInv, Hooked, OnTheWay
  <2> QED
    BY <2>6, <2>9, <2>10, <2>11 DEF WsInv
<1> QED
  BY <1>1, <1>4, <1>5, <1>6

LEMMA WsStep == WsSensible /\ WsInv /\ [WsNext]_wsVars => WsInv'
<1> SUFFICES ASSUME WsSensible, WsInv, [WsNext]_wsVars PROVE WsInv'
  OBVIOUS
<1>1. CASE UNCHANGED wsVars
  BY <1>1, SocketMoves DEF wsVars, WsInv, WsTypes
<1>2. CASE WsNext
  BY <1>2, OpeningMoves, SendMoves_, RuntimeSendsMoves, EventsMove, DropMoves, DispatchMoves, PollMoves DEF WsNext
<1> QED
  BY <1>1, <1>2

LEMMA WsInductive == ASSUME WsSensible PROVE WsSpec => []WsInv
<1>1. WsInit => WsInv
  BY WsInitially
<1>2. WsInv /\ [WsNext]_wsVars => WsInv'
  BY WsStep
<1> QED
  BY <1>1, <1>2, PTL DEF WsSpec

-----------------------------------------------------------------------------
(* Streams: what a reader was told is what its source gave, up to the      *)
(* first end; a timer that has fired has waited as long as it was set to.  *)

StSensible == MaxLength \in Nat /\ MaxTime_ \in Nat /\ MaxI32 \in Nat

Given_ == {"one", "two", "None", "error", "aborted", "trailers"}
Told_ == {"one", "two", "None", "Err"}
Readers == [kind : Kinds \cup {"none"}, length : Nat, read : Nat, out : Seq(Told_)]
DelayStates == [at : {"none", "held", "ready", "dropped"}, ms : Nat, since : Nat, closure : {"none", "live", "freed"},
                timer : {"none", "armed", "fired", "cleared"}, awoken : BOOLEAN, waker : {"none", "t1", "t2"},
                calls : {"none", "live", "freed"}]

StTypes ==
  /\ reader \in Readers /\ source \in Seq(Given_)
  /\ delay \in DelayStates
  /\ time \in 0..MaxTime_

(* What was read is counted; each item of the source is answered by one.    *)
Counted ==
  /\ Len(reader.out) = Len(source) /\ Len(source) <= 4
  /\ reader.read = Total(source) /\ reader.read <= 2 * Len(source)
  /\ (\A i \in DOMAIN reader.out : reader.out[i] # "Err") => Total(reader.out) = Total(source)

(* None is the answer to the end, after as much as was said.                *)
EndsRightly ==
  reader.out # <<>> /\ Last(reader.out) = "None" =>
    /\ reader.kind = "FixedLengthStream" => reader.read = reader.length /\ Last(source) = "None"
    /\ reader.kind = "ByteStream" => Last(source) \in {"None", "aborted"}
    /\ reader.kind \in {"Body", "BodyStream"} => Last(source) \in {"None", "trailers"}

(* A timer runs for a delay that is held and whose closure is there.        *)
TimerIsOwned ==
  /\ delay.timer = "armed" => delay.closure = "live" /\ delay.at = "held"
  /\ delay.awoken <=> delay.timer = "fired"
  /\ delay.awoken => time >= delay.since + Timeout(delay.ms)
  /\ delay.at = "ready" => delay.awoken
  /\ delay.closure = "none" => delay.timer = "none"
  /\ delay.timer # "none" => delay.waker # "none"
  /\ delay.calls # "freed"

StInv == StTypes /\ Counted /\ EndsRightly /\ TimerIsOwned

(* A time that fits in an i32 is waited for as it is; any other for some    *)
(* time that fits, or for none.                                             *)
LEMMA TimeoutIs ==
  ASSUME StSensible, NEW ms \in Nat
  PROVE  Timeout(ms) \in Nat /\ (ms <= MaxI32 => Timeout(ms) = ms)
<1> DEFINE m == 2 * (MaxI32 + 1)
           low == ms % m
<1>1. m \in Nat /\ m > 0 /\ MaxI32 \in Nat /\ MaxI32 < m
  BY DEF StSensible
<1>2. low \in Nat /\ (ms <= MaxI32 => low = ms)
  <2> HIDE DEF m
  <2> QED
    BY <1>1
<1>3. AsI32(ms) = IF low <= MaxI32 THEN low ELSE low - m
  BY DEF AsI32
<1> HIDE DEF low, m
<1>4. AsI32(ms) \in Int /\ (ms <= MaxI32 => AsI32(ms) = ms)
  BY <1>1, <1>2, <1>3
<1> HIDE DEF AsI32
<1> QED
  BY <1>4 DEF Timeout

LEMMA StInvGives == StSensible /\ StInv => StTypeOK /\ StreamsKeepFaith
<1> SUFFICES ASSUME StSensible, StInv PROVE StTypeOK /\ StreamsKeepFaith
  OBVIOUS
<1>1. StTypeOK
  BY DEF StInv, StTypes, Readers, DelayStates, Counted, StTypeOK
<1>2. DelaysAreKept
  <2>1. delay.ms \in Nat /\ delay.since \in Nat
    BY DEF StInv, StTypes, DelayStates
  <2>2. delay.ms <= MaxI32 => Timeout(delay.ms) = delay.ms
    BY <2>1, TimeoutIs
  <2> QED
    BY <2>1, <2>2 DEF StInv, TimerIsOwned, DelaysAreKept
<1>3. EndIsWhole
  BY DEF StInv, Counted, EndsRightly, EndIsWhole
<1> QED
  BY <1>1, <1>2, <1>3 DEF StreamsKeepFaith

LEMMA StInitially == StSensible /\ StInit => StInv
<1> SUFFICES ASSUME StSensible, StInit PROVE StInv
  OBVIOUS
<1>1. reader = NoReader /\ source = <<>> /\ delay = NoDelay /\ time = 0 /\ reader.out = <<>> /\ reader.read = 0
  BY DEF StInit, NoReader
<1>2. NoReader \in Readers /\ NoDelay \in DelayStates
  BY DEF NoReader, Readers, NoDelay, DelayStates
<1>3. Total(<<>>) = 0
  <2>1. {i \in DOMAIN <<>> : <<>>[i] = "one"} = {} /\ {i \in DOMAIN <<>> : <<>>[i] = "two"} = {}
    OBVIOUS
  <2> QED
    BY <2>1, FS_EmptySet DEF Total
<1>4. StTypes
  BY <1>1, <1>2 DEF StTypes, StSensible
<1>5. Counted /\ EndsRightly
  BY <1>1, <1>3 DEF Counted, EndsRightly
<1>6. TimerIsOwned
  BY <1>1 DEF TimerIsOwned, NoDelay
<1> QED
  BY <1>4, <1>5, <1>6 DEF StInv

(* One more item is one more to count.                                      *)
Count(s, b) == Cardinality({i \in DOMAIN s : s[i] = b})
OneItem(x, b) == IF x = b THEN 1 ELSE 0

LEMMA CountIsNat == ASSUME NEW S, NEW s \in Seq(S), NEW b PROVE IsFiniteSet({i \in DOMAIN s : s[i] = b}) /\ Count(s, b) \in Nat
<1>1. IsFiniteSet(1..Len(s)) /\ DOMAIN s = 1..Len(s)
  BY FS_Interval, LenProperties
<1>2. IsFiniteSet({i \in DOMAIN s : s[i] = b})
  BY <1>1, FS_Subset
<1> QED
  BY <1>2, FS_CardinalityType DEF Count

LEMMA CountGrows ==
  ASSUME NEW S, NEW s \in Seq(S), NEW x \in S, NEW b
  PROVE  Count(Append(s, x), b) = Count(s, b) + OneItem(x, b)
<1> DEFINE t == Append(s, x)
           A == {i \in DOMAIN s : s[i] = b}
           B == {i \in DOMAIN t : t[i] = b}
           m == Len(s)
<1>1. /\ m \in Nat /\ DOMAIN s = 1..m /\ DOMAIN t = 1..m + 1 /\ t[m + 1] = x
      /\ \A i \in 1..m : t[i] = s[i]
  BY AppendProperties, LenProperties
<1>2. \A i \in 1..m + 1 : i = m + 1 \/ i \in 1..m
  BY <1>1
<1>3. IsFiniteSet(A) /\ Cardinality(A) \in Nat
  BY CountIsNat DEF Count
<1>4. m + 1 \notin A
  BY <1>1
<1>5. CASE x = b
  <2>1. B = A \cup {m + 1}
    BY <1>1, <1>2, <1>5
  <2> HIDE DEF A, B
  <2>2. Cardinality(B) = Cardinality(A) + 1
    BY <1>3, <1>4, <2>1, FS_AddElement
  <2> QED
    BY <1>5, <2>2 DEF A, B, Count, OneItem
<1>6. CASE x # b
  <2>1. B = A
    BY <1>1, <1>2, <1>6
  <2> HIDE DEF A, B
  <2>2. Cardinality(B) = Cardinality(A) + 0
    BY <1>3, <2>1
  <2> QED
    BY <1>6, <2>2 DEF A, B, Count, OneItem
<1> QED
  BY <1>5, <1>6

LEMMA TotalGrows ==
  ASSUME NEW S, NEW s \in Seq(S), NEW x \in S
  PROVE  Total(s) \in Nat /\ Total(Append(s, x)) = Total(s) + Bytes(x)
<1>1. \A q : Total(q) = Count(q, "one") + 2 * Count(q, "two")
  BY DEF Total, Count
<1>2. Count(s, "one") \in Nat /\ Count(s, "two") \in Nat
  BY CountIsNat
<1>3. Count(Append(s, x), "one") = Count(s, "one") + OneItem(x, "one")
  BY CountGrows
<1>4. Count(Append(s, x), "two") = Count(s, "two") + OneItem(x, "two")
  BY CountGrows
<1>5. /\ OneItem(x, "one") \in Nat /\ OneItem(x, "two") \in Nat
      /\ Bytes(x) = OneItem(x, "one") + 2 * OneItem(x, "two")
  <2>1. CASE x = "one"
    <3>1. Bytes(x) = 1
      BY <2>1 DEF Bytes
    <3>2. OneItem(x, "one") = 1 /\ OneItem(x, "two") = 0
      BY <2>1 DEF OneItem
    <3> QED
      BY <3>1, <3>2
  <2>2. CASE x = "two"
    <3>1. Bytes(x) = 2
      BY <2>2 DEF Bytes
    <3>2. OneItem(x, "one") = 0 /\ OneItem(x, "two") = 1
      BY <2>2 DEF OneItem
    <3> QED
      BY <3>1, <3>2
  <2>3. CASE x # "one" /\ x # "two"
    <3>1. Bytes(x) = 0
      BY <2>3 DEF Bytes
    <3>2. OneItem(x, "one") = 0 /\ OneItem(x, "two") = 0
      BY <2>3 DEF OneItem
    <3> QED
      BY <3>1, <3>2
  <2> QED
    BY <2>1, <2>2, <2>3
<1>6. \A a, b, c, d \in Nat : (a + c) + 2 * (b + d) = (a + 2 * b) + (c + 2 * d)
  OBVIOUS
<1>7. Total(Append(s, x)) = (Count(s, "one") + OneItem(x, "one")) + 2 * (Count(s, "two") + OneItem(x, "two"))
  BY <1>1, <1>3, <1>4
<1>8. Total(s) = Count(s, "one") + 2 * Count(s, "two")
  BY <1>1
<1>9. Total(Append(s, x)) = Total(s) + Bytes(x)
  BY <1>2, <1>5, <1>6, <1>7, <1>8
<1> QED
  BY <1>2, <1>8, <1>9

(* What is polled of an item that is no error is as many bytes; None is     *)
(* polled of what ends the stream, if that has its length.                  *)
LEMMA PolledIs ==
  ASSUME NEW r \in Readers, NEW item \in Given_
  PROVE  /\ Polled(r, item) \in Told_
         /\ Polled(r, item) # "Err" => Bytes(Polled(r, item)) = Bytes(item)
         /\ Bytes(item) \in 0..2
         /\ Polled(r, item) = "None" =>
              /\ r.kind = "FixedLengthStream" => r.read = r.length /\ Bytes(item) = 0 /\ item = "None"
              /\ r.kind = "ByteStream" => item \in {"None", "aborted"}
              /\ r.kind \in {"Body", "BodyStream"} => item \in {"None", "trailers"}
<1>1. Polled(r, item) \in Told_
  BY DEF Polled, ByteItem, FixedItem, BodyItem, Given_, Told_, Readers, Kinds
<1>2. Polled(r, item) # "Err" => Bytes(Polled(r, item)) = Bytes(item)
  BY DEF Polled, ByteItem, FixedItem, BodyItem, Given_, Bytes
<1>3. Bytes(item) \in 0..2
  BY DEF Bytes
<1>4. Polled(r, item) = "None" =>
        /\ r.kind = "FixedLengthStream" => r.read = r.length /\ Bytes(item) = 0 /\ item = "None"
        /\ r.kind = "ByteStream" => item \in {"None", "aborted"}
        /\ r.kind \in {"Body", "BodyStream"} => item \in {"None", "trailers"}
  BY DEF Polled, ByteItem, FixedItem, BodyItem, Given_, Bytes
<1> QED
  BY <1>1, <1>2, <1>3, <1>4

LEMMA PollStreamMoves == ASSUME StSensible, StInv, NEW item \in Given_, PollStream(item) PROVE StInv'
<1> DEFINE p == Polled(reader, item)
           n == Len(source)
           b == Bytes(item)
<1>1. /\ reader \in Readers /\ source \in Seq(Given_) /\ reader.out \in Seq(Told_) /\ reader.read \in Nat
      /\ n \in Nat /\ n < 4 /\ Len(reader.out) = n /\ reader.read = Total(source) /\ reader.read <= 2 * n
      /\ UNCHANGED <<delay, signal, time>>
  BY DEF StInv, StTypes, Counted, Readers, PollStream
<1>2. /\ p \in Told_ /\ (p # "Err" => Bytes(p) = b) /\ b \in 0..2
      /\ p = "None" => /\ reader.kind = "FixedLengthStream" => reader.read = reader.length /\ b = 0 /\ item = "None"
                       /\ reader.kind = "ByteStream" => item \in {"None", "aborted"}
                       /\ reader.kind \in {"Body", "BodyStream"} => item \in {"None", "trailers"}
  BY <1>1, PolledIs
<1>3. source' = Append(source, item) /\ reader' = [reader EXCEPT !.read = @ + b, !.out = Append(@, p)]
  BY DEF PollStream
<1> HIDE DEF p, b
<1>4. /\ Append(source, item) \in Seq(Given_) /\ Len(Append(source, item)) = n + 1 /\ Append(source, item)[n + 1] = item
  BY <1>1, AppendProperties
<1>5. /\ Append(reader.out, p) \in Seq(Told_) /\ Len(Append(reader.out, p)) = n + 1 /\ Append(reader.out, p)[n + 1] = p
      /\ \A i \in 1..n : Append(reader.out, p)[i] = reader.out[i]
  BY <1>1, <1>2, AppendProperties
<1>6. Total(source) \in Nat /\ Total(source') = Total(source) + b
  BY <1>1, <1>3, TotalGrows DEF b
<1>7. Total(reader.out) \in Nat /\ Total(Append(reader.out, p)) = Total(reader.out) + Bytes(p)
  BY <1>1, <1>2, TotalGrows
<1>8. /\ reader'.out = Append(reader.out, p) /\ reader'.read = reader.read + b /\ reader'.kind = reader.kind
      /\ reader'.length = reader.length
  BY <1>1, <1>3 DEF Readers
<1>9. StTypes'
  <2>1. reader' \in Readers
    <3> DEFINE out == Append(reader.out, p)
               read == reader.read + b
    <3>1. out \in Seq(Told_) /\ read \in Nat /\ reader' = [reader EXCEPT !.read = read, !.out = out]
      BY <1>1, <1>2, <1>3, <1>5 DEF Readers
    <3> HIDE DEF out, read
    <3> QED
      BY <1>1, <3>1 DEF Readers
  <2> QED
    BY <1>1, <1>3, <1>4, <2>1 DEF StInv, StTypes
<1>10. Counted'
  <2>1. Len(reader'.out) = Len(source') /\ Len(source') <= 4
    BY <1>1, <1>3, <1>4, <1>5, <1>8
  <2>2. reader'.read = Total(source')
    BY <1>1, <1>6, <1>8
  <2>3. reader'.read <= 2 * Len(source')
    <3>1. \A r, m \in Nat, c \in 0..2 : r <= 2 * m => r + c <= 2 * (m + 1)
      OBVIOUS
    <3> QED
      BY <1>1, <1>2, <1>3, <1>4, <1>8, <3>1
  <2>4. (\A i \in DOMAIN reader'.out : reader'.out[i] # "Err") => Total(reader'.out) = Total(source')
    <3> SUFFICES ASSUME \A i \in DOMAIN reader'.out : reader'.out[i] # "Err" PROVE Total(reader'.out) = Total(source')
      OBVIOUS
    <3>1. DOMAIN reader'.out = 1..n + 1 /\ DOMAIN reader.out = 1..n
      BY <1>1, <1>5, <1>8
    <3>2. p # "Err"
      BY <1>1, <1>5, <1>8, <3>1
    <3>3. \A i \in DOMAIN reader.out : reader.out[i] # "Err"
      BY <1>1, <1>5, <1>8, <3>1
    <3>4. Total(reader.out) = Total(source)
      BY <3>3 DEF StInv, Counted
    <3> QED
      BY <1>2, <1>6, <1>7, <1>8, <3>2, <3>4
  <2> QED
    BY <2>1, <2>2, <2>3, <2>4 DEF Counted
<1>11. EndsRightly'
  <2>1. Last(reader'.out) = p /\ Last(source') = item
    BY <1>3, <1>4, <1>5, <1>8 DEF Last
  <2> QED
    BY <1>1, <1>2, <1>8, <2>1 DEF EndsRightly
<1>12. TimerIsOwned'
  BY <1>1 DEF StInv, TimerIsOwned
<1> QED
  BY <1>9, <1>10, <1>11, <1>12 DEF StInv

(* A step that leaves the reader and its source alone.                      *)
LEMMA DelayMoves ==
  ASSUME StSensible, StInv, UNCHANGED <<reader, source>>, delay' \in DelayStates, time' \in 0..MaxTime_, TimerIsOwned'
  PROVE  StInv'
BY DEF StInv, StTypes, Counted, EndsRightly

LEMMA StStep == StSensible /\ StInv /\ [StNext]_stVars => StInv'
<1> SUFFICES ASSUME StSensible, StInv, [StNext]_stVars PROVE StInv'
  OBVIOUS
<1>0. delay \in DelayStates /\ time \in 0..MaxTime_ /\ time \in Nat /\ TimerIsOwned
  BY DEF StInv, StTypes, StSensible
<1>1. CASE UNCHANGED <<reader, source, delay, time>>
  BY <1>0, <1>1, DelayMoves DEF TimerIsOwned
<1>2. ASSUME NEW k \in Kinds, NEW n \in 0..MaxLength, Open(k, n) PROVE StInv'
  <2>0. NoReader \in Readers /\ NoReader.out = <<>> /\ reader = NoReader /\ n \in Nat /\ k \in Kinds \cup {"none"}
    BY <1>2 DEF Open, NoReader, Readers, StSensible
  <2>1. reader' \in Readers /\ reader'.out = reader.out /\ reader'.read = reader.read /\ reader.out = <<>>
    <3>1. reader' = [NoReader EXCEPT !.kind = k, !.length = n]
      BY <1>2 DEF Open
    <3> QED
      BY <2>0, <3>1 DEF Readers
  <2>2. UNCHANGED <<source, delay, time>>
    BY <1>2 DEF Open
  <2>3. Counted' /\ EndsRightly' /\ TimerIsOwned'
    BY <2>1, <2>2 DEF StInv, Counted, EndsRightly, TimerIsOwned
  <2> QED
    BY <2>1, <2>2, <2>3 DEF StInv, StTypes
<1>3. ASSUME NEW ms \in Times, NewDelay(ms) PROVE StInv'
  <2>1. delay' \in DelayStates /\ UNCHANGED <<reader, source, time>>
    <3>1. NoDelay \in DelayStates /\ ms \in Nat /\ "held" \in {"none", "held", "ready", "dropped"}
      BY DEF NoDelay, DelayStates, Times, StSensible
    <3>2. delay' = [NoDelay EXCEPT !.at = "held", !.ms = ms]
      BY <1>3 DEF NewDelay
    <3>3. delay' \in DelayStates
      BY <3>1, <3>2 DEF DelayStates
    <3> QED
      BY <1>3, <3>3 DEF NewDelay
  <2>2. TimerIsOwned'
    BY <1>3 DEF NewDelay, NoDelay, TimerIsOwned
  <2> QED
    BY <1>0, <2>1, <2>2, DelayMoves
<1>4. ASSUME NEW t \in {"t1", "t2"}, PollDelay(t) PROVE StInv'
  <2>1. delay' \in DelayStates
    BY <1>0, <1>4 DEF PollDelay, DelayStates
  <2>2. TimerIsOwned'
    BY <1>0, <1>4 DEF PollDelay, TimerIsOwned, DelayStates
  <2> QED
    BY <1>0, <1>4, <2>1, <2>2, DelayMoves DEF PollDelay
<1>5. CASE TimerFires
  <2>1. delay' \in DelayStates
    BY <1>0, <1>5 DEF TimerFires, DelayStates
  <2>2. TimerIsOwned'
    BY <1>0, <1>5 DEF TimerFires, TimerIsOwned, DelayStates
  <2> QED
    BY <1>0, <1>5, <2>1, <2>2, DelayMoves DEF TimerFires
<1>6. CASE DropDelay
  <2>1. delay' \in DelayStates
    BY <1>0, <1>6 DEF DropDelay, DelayStates
  <2>2. TimerIsOwned'
    BY <1>0, <1>6 DEF DropDelay, TimerIsOwned, DelayStates
  <2> QED
    BY <1>0, <1>6, <2>1, <2>2, DelayMoves DEF DropDelay
<1>7. CASE Elapse
  <2>1. time' = time + 1 /\ time' \in 0..MaxTime_ /\ UNCHANGED <<reader, source, delay>>
    BY <1>0, <1>7 DEF Elapse, StSensible
  <2>2. delay.since + Timeout(delay.ms) \in Nat
    <3>1. delay.ms \in Nat /\ delay.since \in Nat
      BY <1>0 DEF DelayStates
    <3> QED
      BY <3>1, TimeoutIs
  <2> DEFINE due == delay.since + Timeout(delay.ms)
  <2>3. due \in Nat /\ delay'.since + Timeout(delay'.ms) = due
    BY <2>1, <2>2
  <2> HIDE DEF due
  <2>4. delay.awoken => time >= due
    BY <1>0 DEF TimerIsOwned, due
  <2>5. delay'.awoken => time' >= due
    BY <1>0, <2>1, <2>3, <2>4
  <2>6. delay'.awoken => time' >= delay'.since + Timeout(delay'.ms)
    BY <2>3, <2>5
  <2>7. TimerIsOwned'
    BY <1>0, <2>1, <2>6 DEF TimerIsOwned
  <2> QED
    BY <1>0, <2>1, <2>7, DelayMoves
<1>8. ASSUME NEW item \in Given_, PollStream(item) PROVE StInv'
  BY <1>8, PollStreamMoves
<1>9. CASE (\E r : Abort(r)) \/ FetchWithSignal \/ FetchSettles
  <2>1. (\E r : Abort(r)) => UNCHANGED <<reader, source, delay, time>>
    BY DEF Abort
  <2>2. FetchWithSignal \/ FetchSettles => UNCHANGED <<reader, source, delay, time>>
    BY DEF FetchWithSignal, FetchSettles
  <2> QED
    BY <1>1, <1>9, <2>1, <2>2
<1>10. CASE StNext
  BY <1>2, <1>3, <1>4, <1>5, <1>6, <1>7, <1>8, <1>9, <1>10 DEF StNext, Given_
<1>11. CASE UNCHANGED stVars
  BY <1>1, <1>11 DEF stVars
<1> QED
  BY <1>10, <1>11

LEMMA StInductive == ASSUME StSensible PROVE StSpec => []StInv
<1>1. StInit => StInv
  BY StInitially
<1>2. StInv /\ [StNext]_stVars => StInv'
  BY StStep
<1> QED
  BY <1>1, <1>2, PTL DEF StSpec

-----------------------------------------------------------------------------
(* Http: a request is routed by the pattern that was first registered for  *)
(* what it matches; a body is read once.                                   *)

RequestFields == {"method", "path", "asked", "to", "immutable", "bodyUsed", "body", "headers", "wirePath"}

(* A body that was read is known as used.                                   *)
IsRequest(r) ==
  /\ DOMAIN r = RequestFields /\ r.immutable \in BOOLEAN
  /\ DOMAIN r.body = {"content", "state"}
  /\ r.body.state = "read" => r.bodyUsed

ResponseFields == {"status", "headers", "websocket", "encode", "cf", "body", "content", "state"}

(* Only a stream can have been read.                                        *)
IsResponse(r) == DOMAIN r = ResponseFields /\ r.status \in 0..599 /\ (r.state # "unread" => r.body = Stream)

(* What a router that ran decided on.                                       *)
Decided ==
  outcome = "run" =>
    /\ request.wirePath \in {"/a", "/b"} /\ request.method = MethodFrom(request.asked)
    /\ request.to = Route(request.method, request.wirePath)

HttpInv ==
  /\ routes \subseteq [method : Methods \cup {"any"}, pattern : Patterns]
  /\ outcome \in {"none", "run", "made", "built", "answered", "panic"}
  /\ IsRequest(request) /\ IsRequest(copy) /\ IsResponse(response)
  /\ Decided
  /\ outcome \in {"none", "run", "made"} => sent = {}
  /\ BodiesAreKept

LEMMA AtIsThere ==
  ASSUME NEW ps \in SUBSET Patterns, NEW path \in {"/a", "/b"}
  PROVE  /\ At(ps, path) # "none" => At(ps, path) \in ps /\ Matching(At(ps, path), path)
         /\ At(ps, path) = "none" => \A p \in ps : ~Matching(p, path)
BY DEF At, Matching, Patterns

LEMMA PatternsAre ==
  ASSUME routes \subseteq [method : Methods \cup {"any"}, pattern : Patterns], NEW m
  PROVE  /\ PatternsOf(m) \in SUBSET Patterns
         /\ \A p \in PatternsOf(m) : [method |-> m, pattern |-> p] \in routes
         /\ \A r \in routes : r.method = m => r.pattern \in PatternsOf(m)
<1>1. PatternsOf(m) \in SUBSET Patterns
  BY DEF PatternsOf
<1>2. ASSUME NEW p \in PatternsOf(m) PROVE [method |-> m, pattern |-> p] \in routes
  <2>1. PICK r \in routes : r.method = m /\ r.pattern = p
    BY <1>2 DEF PatternsOf
  <2>2. r = [method |-> m, pattern |-> p]
    BY <2>1
  <2> QED
    BY <2>2
<1>3. \A r \in routes : r.method = m => r.pattern \in PatternsOf(m)
  BY DEF PatternsOf
<1> QED
  BY <1>1, <1>2, <1>3

Known(path) == {r.method : r \in {r \in routes : r.pattern = "/{x}" \/ r.pattern = path}}
Uncounted == {"HEAD", "OPTIONS", "TRACE"}
RightTo(to, method, known) ==
  /\ to.method # "error" => to \in routes /\ to.method \in {method, "any"}
  /\ to.method = "any" => known \subseteq Uncounted \cup {"any"} /\ method \notin known
  /\ to.pattern = "404" => known \subseteq Uncounted
  /\ to.pattern = "405" => known \ (Uncounted \cup {"any"}) # {} /\ method \notin known

LEMMA RouteIsRight ==
  ASSUME routes \subseteq [method : Methods \cup {"any"}, pattern : Patterns],
         NEW method \in Methods, NEW path \in {"/a", "/b"}
  PROVE  RightTo(Route(method, path), method, Known(path))
<1> DEFINE to == Route(method, path)
           known == Known(path)
           own == At(PatternsOf(method), path)
           any == At(PatternsOf("any"), path)
           other == \E m \in OtherMethods : At(PatternsOf(m), path) # "none"
<1>1. \A m : PatternsOf(m) \in SUBSET Patterns
  BY PatternsAre
<1>2. ASSUME NEW m, At(PatternsOf(m), path) # "none"
      PROVE  [method |-> m, pattern |-> At(PatternsOf(m), path)] \in routes /\ At(PatternsOf(m), path) \in Patterns /\ m \in known
  <2> DEFINE p == At(PatternsOf(m), path)
  <2>1. p \in PatternsOf(m) /\ Matching(p, path)
    BY <1>1, <1>2, AtIsThere
  <2>2. [method |-> m, pattern |-> p] \in routes
    BY <2>1, PatternsAre
  <2>3. p \in Patterns
    BY <1>1, <2>1
  <2> HIDE DEF p
  <2>4. m \in known
    BY <2>1, <2>2 DEF Matching, Known
  <2> QED
    BY <2>2, <2>3, <2>4 DEF p
<1>3. ASSUME NEW m, m \in known PROVE At(PatternsOf(m), path) # "none"
  <2>1. PICK r \in routes : (r.pattern = "/{x}" \/ r.pattern = path) /\ r.method = m
    BY <1>3 DEF Known
  <2>2. r.pattern \in PatternsOf(m) /\ Matching(r.pattern, path)
    BY <2>1, PatternsAre DEF Matching
  <2> QED
    BY <1>1, <2>2, AtIsThere
<1>4. known \subseteq Methods \cup {"any"}
  BY DEF Known
<1> HIDE DEF known, to
<1>5. ASSUME own # "none" PROVE RightTo(to, method, known)
  <2>1. to = [method |-> method, pattern |-> own] /\ own \in Patterns /\ to \in routes
    BY <1>2, <1>5 DEF Route, to
  <2>2. to.pattern # "404" /\ to.pattern # "405" /\ to.method # "any" /\ to.method = method
    BY <2>1 DEF Patterns, Methods
  <2> QED
    BY <2>1, <2>2 DEF RightTo
<1>6. ASSUME own = "none" /\ other PROVE RightTo(to, method, known)
  <2>1. to = [method |-> "error", pattern |-> "405"]
    BY <1>6 DEF Route, to
  <2>2. method \notin known
    BY <1>3, <1>6
  <2>3. known \ (Uncounted \cup {"any"}) # {}
    <3>1. PICK m \in OtherMethods : At(PatternsOf(m), path) # "none"
      BY <1>6
    <3>2. m \in known /\ m \notin Uncounted \cup {"any"}
      BY <1>2, <3>1 DEF OtherMethods, Methods, Uncounted
    <3> QED
      BY <3>2
  <2> QED
    BY <2>1, <2>2, <2>3 DEF RightTo
<1>7. ASSUME own = "none" /\ ~other /\ any # "none" PROVE RightTo(to, method, known)
  <2>1. to = [method |-> "any", pattern |-> any] /\ any \in Patterns /\ to \in routes
    BY <1>2, <1>7 DEF Route, to
  <2>2. to.pattern # "404" /\ to.pattern # "405"
    BY <2>1 DEF Patterns
  <2>3. known \subseteq Uncounted \cup {"any"} /\ method \notin known
    BY <1>3, <1>4, <1>7 DEF OtherMethods, Uncounted
  <2> QED
    BY <2>1, <2>2, <2>3 DEF RightTo
<1>8. ASSUME own = "none" /\ ~other /\ any = "none" PROVE RightTo(to, method, known)
  <2>1. to = [method |-> "error", pattern |-> "404"]
    BY <1>8 DEF Route, to
  <2>2. known \subseteq Uncounted
    BY <1>3, <1>4, <1>8 DEF OtherMethods, Uncounted
  <2> QED
    BY <2>1, <2>2 DEF RightTo
<1>9. RightTo(to, method, known)
  <2>1. own # "none" \/ (own = "none" /\ other) \/ (own = "none" /\ ~other /\ any # "none") \/ (own = "none" /\ ~other /\ any = "none")
    OBVIOUS
  <2> HIDE DEF own, any, other
  <2> QED
    BY <1>5, <1>6, <1>7, <1>8, <2>1
<1> QED
  BY <1>9 DEF to, known

LEMMA HttpInvGives == HttpInv => HttpTypeOK /\ HttpKeepsFaith
<1> SUFFICES ASSUME HttpInv PROVE HttpTypeOK /\ HttpKeepsFaith
  OBVIOUS
<1>1. HttpTypeOK
  BY DEF HttpInv, HttpTypeOK, IsRequest, IsResponse
<1>2. RoutedRightly
  <2> SUFFICES ASSUME outcome = "run" PROVE RoutedRightly
    BY DEF RoutedRightly
  <2> DEFINE method == request.method
             path == request.wirePath
  <2>1. /\ path \in {"/a", "/b"} /\ request.to = Route(method, path) /\ method = MethodFrom(request.asked)
        /\ routes \subseteq [method : Methods \cup {"any"}, pattern : Patterns]
    BY DEF HttpInv, Decided
  <2>2. method \in Methods
    BY <2>1 DEF MethodFrom, Methods
  <2>3. RightTo(Route(method, path), method, Known(path))
    BY <2>1, <2>2, RouteIsRight
  <2>4. RightTo(request.to, method, Known(path))
    BY <2>1, <2>3
  <2>5. RightTo(request.to, MethodFrom(request.asked), Known(path))
    BY <2>1, <2>4
  <2> QED
    BY <2>4, <2>5 DEF RoutedRightly, RightTo, Known, Uncounted
<1> QED
  BY <1>1, <1>2 DEF HttpInv, HttpKeepsFaith

LEMMA HttpInitially == HttpInit => HttpInv
<1> SUFFICES ASSUME HttpInit PROVE HttpInv
  OBVIOUS
<1>1. IsRequest(NoRequest) /\ IsResponse(NoResponse)
  BY DEF IsRequest, IsResponse, NoRequest, NoResponse, NoBody, RequestFields, ResponseFields
<1> QED
  BY <1>1 DEF HttpInit, HttpInv, Decided, BodiesAreKept

(* A step that leaves what the router decided and what was sent alone.      *)
LEMMA RequestMoves ==
  ASSUME HttpInv, outcome # "run", UNCHANGED <<routes, outcome, response, sent>>,
         IsRequest(request'), IsRequest(copy'), <<"request", "twice">> \notin told'
  PROVE  HttpInv'
BY DEF HttpInv, Decided, BodiesAreKept

(* Reading of a body that is not known as used never reads it twice.        *)
LEMMA ReadIsFirst ==
  ASSUME NEW r, IsRequest(r), ~r.bodyUsed, NEW ok \in BOOLEAN
  PROVE  ReadResult(r, ok) # "twice"
BY DEF IsRequest, ReadResult

LEMMA ReadingMarks ==
  ASSUME NEW r, IsRequest(r), NEW s
  PROVE  IsRequest([r EXCEPT !.bodyUsed = TRUE, !.body.state = s])
<1> DEFINE q == [r EXCEPT !.bodyUsed = TRUE, !.body.state = s]
<1>1. DOMAIN q = RequestFields /\ q.immutable = r.immutable /\ q.bodyUsed = TRUE /\ q.body = [r.body EXCEPT !.state = s]
  BY DEF IsRequest, RequestFields
<1> HIDE DEF q
<1>2. IsRequest(q)
  BY <1>1 DEF IsRequest
<1> QED
  BY <1>2 DEF q

LEMMA RequestStepMoves ==
  ASSUME HttpInv,
         \/ \E ok \in BOOLEAN : ReadRequest(ok)
         \/ \E mut \in BOOLEAN : CloneRequest(mut)
         \/ HeadersMut \/ PathMut
  PROVE  HttpInv'
<1>1. outcome # "run" /\ UNCHANGED <<routes, outcome, response, sent>>
  BY DEF ReadRequest, CloneRequest, HeadersMut, PathMut, Handling
<1>2. IsRequest(request) /\ IsRequest(copy) /\ <<"request", "twice">> \notin told
  BY DEF HttpInv, BodiesAreKept
<1>3. ASSUME NEW ok \in BOOLEAN, ReadRequest(ok) PROVE HttpInv'
  <2>1. CASE request.bodyUsed
    <3>1. told' = told \cup {<<"request", "BodyUsed">>} /\ request' = request /\ copy' = copy
      BY <1>3, <2>1 DEF ReadRequest
    <3>2. <<"request", "twice">> \notin told'
      BY <1>2, <3>1
    <3> QED
      BY <1>1, <1>2, <3>1, <3>2, RequestMoves
  <2>2. CASE ~request.bodyUsed
    <3> DEFINE s == IF request.body.state = "moved" THEN request.body.state ELSE "read"
               t == ReadResult(request, ok)
    <3>1. /\ request' = [request EXCEPT !.bodyUsed = TRUE, !.body.state = s]
          /\ told' = told \cup {<<"request", t>>} /\ copy' = copy
      BY <1>2, <1>3, <2>2 DEF ReadRequest, IsRequest, RequestFields
    <3>2. t # "twice"
      BY <1>2, <2>2, ReadIsFirst
    <3> HIDE DEF s, t
    <3>3. IsRequest(request')
      BY <1>2, <3>1, ReadingMarks
    <3>4. <<"request", "twice">> \notin told'
      BY <1>2, <3>1, <3>2
    <3> QED
      BY <1>1, <1>2, <3>1, <3>3, <3>4, RequestMoves
  <2> QED
    BY <2>1, <2>2
<1>4. ASSUME NEW mut \in BOOLEAN, CloneRequest(mut) PROVE HttpInv'
  <2>1. /\ copy' = [request EXCEPT !.immutable = ~mut, !.bodyUsed = FALSE] /\ told' = told
        /\ request' = IF mut THEN [request EXCEPT !.body.state = "moved"] ELSE request
        /\ request.body.state = "unread"
    BY <1>4 DEF CloneRequest
  <2>2. IsRequest(copy')
    BY <1>2, <2>1 DEF IsRequest, RequestFields
  <2>3. IsRequest(request')
    BY <1>2, <2>1 DEF IsRequest, RequestFields
  <2> QED
    BY <1>1, <1>2, <2>1, <2>2, <2>3, RequestMoves
<1>5. CASE HeadersMut \/ PathMut
  <2>1. copy' = copy /\ told' = told
    BY <1>5 DEF HeadersMut, PathMut
  <2>2. IsRequest(request')
    BY <1>2, <1>5 DEF HeadersMut, PathMut, IsRequest, RequestFields
  <2> QED
    BY <1>1, <1>2, <2>1, <2>2, RequestMoves
<1> QED
  BY <1>3, <1>4, <1>5

LEMMA ReadCopyMoves == ASSUME HttpInv, ReadCopy PROVE HttpInv'
<1>1. IsRequest(request) /\ IsRequest(copy) /\ <<"request", "twice">> \notin told /\ ~copy.bodyUsed
  BY DEF HttpInv, BodiesAreKept, ReadCopy
<1> DEFINE t == ReadResult(copy, TRUE)
<1>2. /\ copy' = [copy EXCEPT !.bodyUsed = TRUE, !.body.state = "read"] /\ told' = told \cup {<<"request", t>>}
      /\ UNCHANGED <<routes, outcome, request, response, sent>>
  BY DEF ReadCopy
<1>3. t # "twice"
  BY <1>1, ReadIsFirst
<1>4. IsRequest(copy')
  BY <1>1, <1>2, ReadingMarks
<1> HIDE DEF t
<1>5. <<"request", "twice">> \notin told'
  BY <1>1, <1>2, <1>3
<1>6. \A m, p : Route(m, p)' = Route(m, p)
  BY <1>2 DEF Route, At, PatternsOf
<1>7. Decided'
  BY <1>2, <1>6 DEF HttpInv, Decided
<1> QED
  BY <1>1, <1>2, <1>4, <1>5, <1>7 DEF HttpInv, BodiesAreKept

LEMMA RouterMoves ==
  ASSUME HttpInv,
         \/ \E c \in Calls, p \in Patterns : AddHandler(c, p)
         \/ \E s, p : p \in {"/a", "/b"} /\ Run(s, p)
         \/ \E m, p : NewRequest(m, p)
  PROVE  HttpInv'
<1>1. /\ outcome = "none" /\ sent = {} /\ sent' = sent /\ told' = told /\ copy' = copy
      /\ IsRequest(copy) /\ IsResponse(response) /\ IsRequest(request)
      /\ routes \subseteq [method : Methods \cup {"any"}, pattern : Patterns]
      /\ <<"request", "twice">> \notin told
  BY DEF AddHandler, Run, NewRequest, HttpInv, BodiesAreKept
<1>2. ASSUME NEW c \in Calls, NEW p \in Patterns, AddHandler(c, p) PROVE HttpInv'
  <2>1. MethodsOf(c) \subseteq Methods \cup {"any"}
    BY DEF MethodsOf, Calls, Methods
  <2>2. routes' \subseteq [method : Methods \cup {"any"}, pattern : Patterns]
    BY <1>1, <1>2, <2>1 DEF AddHandler
  <2>3. UNCHANGED <<request, response>> /\ outcome' \in {"none", "panic"}
    BY <1>1, <1>2 DEF AddHandler
  <2> QED
    BY <1>1, <2>2, <2>3 DEF HttpInv, Decided, BodiesAreKept
<1>3. ASSUME NEW s, NEW p \in {"/a", "/b"}, Run(s, p) PROVE HttpInv'
  <2> DEFINE method == MethodFrom(s)
             to == Route(method, p)
  <2>1. /\ routes' = routes /\ outcome' = "run"
        /\ request' = [method |-> method, path |-> p, asked |-> s, to |-> to, immutable |-> TRUE, bodyUsed |-> FALSE,
                       body |-> NoBody, headers |-> {}, wirePath |-> p]
    BY <1>3 DEF Run
  <2>2. \A m, q : Route(m, q)' = Route(m, q)
    <3>1. routes' = routes
      BY <2>1
    <3> QED
      BY <3>1 DEF Route, At, PatternsOf
  <2>3. response' = response \/ response' = [Builder EXCEPT !.status = 405, !.body = Fixed, !.content = "message"]
                             \/ response' = [Builder EXCEPT !.status = 404, !.body = Fixed, !.content = "message"]
    BY <1>3 DEF Run
  <2>4. IsResponse(response')
    <3>1. IsResponse([Builder EXCEPT !.status = 404, !.body = Fixed, !.content = "message"])
      BY DEF IsResponse, ResponseFields, Builder, NoResponse
    <3>2. IsResponse([Builder EXCEPT !.status = 405, !.body = Fixed, !.content = "message"])
      BY DEF IsResponse, ResponseFields, Builder, NoResponse
    <3> QED
      BY <1>1, <2>3, <3>1, <3>2
  <2> HIDE DEF method, to
  <2>5. IsRequest(request')
    BY <2>1 DEF IsRequest, RequestFields, NoBody
  <2>6. Decided'
    BY <2>1, <2>2 DEF Decided, method, to
  <2> QED
    BY <1>1, <2>1, <2>4, <2>5, <2>6 DEF HttpInv, BodiesAreKept
<1>4. ASSUME NEW m, NEW p, NewRequest(m, p) PROVE HttpInv'
  <2>1. IsRequest(request') /\ UNCHANGED <<routes, response>> /\ outcome' = "made"
    BY <1>4 DEF NewRequest, IsRequest, RequestFields, NoRequest, NoBody
  <2> QED
    BY <1>1, <2>1 DEF HttpInv, Decided, BodiesAreKept
<1> QED
  BY <1>2, <1>3, <1>4

LEMMA ResponseMoves ==
  ASSUME HttpInv,
         \/ \E f, s : s \in 0..599 /\ Build(f, s)
         \/ \E w \in {"status", "no_content", "cors", "encode", "cf", "headers"} : With(w)
         \/ ReadResponse \/ Cloned \/ Respond
  PROVE  HttpInv'
<1>1. /\ UNCHANGED <<routes, request, copy>> /\ outcome' \in {"built", "answered", "panic"} /\ IsResponse(response) /\ BodiesAreKept
      /\ IsRequest(request) /\ IsRequest(copy) /\ routes \subseteq [method : Methods \cup {"any"}, pattern : Patterns]
  BY DEF Build, With, ReadResponse, Cloned, Respond, Unwrap, HttpInv
<1> SUFFICES IsResponse(response') /\ BodiesAreKept'
  BY <1>1 DEF HttpInv, Decided
<1>2. ASSUME NEW f, NEW s \in 0..599, Build(f, s) PROVE IsResponse(response') /\ BodiesAreKept'
  <2>1. sent' = {} /\ told' = told
    BY <1>2 DEF Build, HttpInv
  <2>2. IsResponse(response')
    BY <1>2 DEF Build, IsResponse, ResponseFields, Builder, NoResponse
  <2> QED
    BY <1>1, <2>1, <2>2 DEF BodiesAreKept
<1>3. ASSUME NEW w \in {"status", "no_content", "cors", "encode", "cf", "headers"}, With(w) PROVE IsResponse(response') /\ BodiesAreKept'
  <2>1. sent' = {} /\ told' = told
    BY <1>3 DEF With
  <2>2. IsResponse(response')
    BY <1>1, <1>3 DEF With, IsResponse, ResponseFields
  <2> QED
    BY <1>1, <2>1, <2>2 DEF BodiesAreKept
<1>4. CASE ReadResponse
  <2> DEFINE t == IF response.body = Stream /\ response.state = "read" THEN "none" ELSE response.content
  <2>1. told' = told \cup {<<"response", t>>} /\ sent' = sent
    BY <1>4 DEF ReadResponse
  <2> HIDE DEF t
  <2>2. <<"request", "twice">> \notin told'
    BY <1>1, <2>1 DEF BodiesAreKept
  <2>3. /\ IsResponse(response') /\ response'.status = response.status /\ response'.encode = response.encode
        /\ response'.content = response.content
    BY <1>1, <1>4 DEF ReadResponse, IsResponse, ResponseFields
  <2> QED
    BY <1>1, <2>1, <2>2, <2>3 DEF BodiesAreKept
<1>5. CASE (Cloned \/ Respond) /\ JsRefuses(response)
  <2>1. UNCHANGED <<response, sent, told>>
    BY <1>5 DEF Cloned, Respond, Unwrap
  <2> QED
    BY <1>1, <2>1 DEF BodiesAreKept
<1>6. ASSUME Cloned, ~JsRefuses(response) PROVE IsResponse(response') /\ BodiesAreKept'
  <2> DEFINE r == IntoSys([FromSys(IntoSys(response)) EXCEPT !.encode = response.encode])
  <2>1. /\ sent' = sent \cup {r} /\ told' = told
        /\ response' = [response EXCEPT !.body = IF IntoSys(response).stream THEN Stream ELSE Empty]
    BY <1>6 DEF Cloned
  <2>2. r.content = response.content /\ r.encode = response.encode /\ r.status = response.status /\ r.state = response.state
    BY DEF IntoSys, FromSys
  <2> HIDE DEF r
  <2>3. /\ IsResponse(response') /\ response'.status = response.status /\ response'.encode = response.encode
        /\ response'.content = response.content
    BY <1>1, <1>6, <2>1 DEF IsResponse, ResponseFields, JsRefuses
  <2>4. r.state = "unread"
    BY <1>1, <1>6, <2>2 DEF JsRefuses, IsResponse
  <2> QED
    BY <1>1, <2>1, <2>2, <2>3, <2>4 DEF BodiesAreKept
<1>7. ASSUME Respond, ~JsRefuses(response) PROVE IsResponse(response') /\ BodiesAreKept'
  <2> DEFINE r == IntoSys(response)
  <2>1. sent' = sent \cup {r} /\ told' = told /\ response' = response
    BY <1>7 DEF Respond
  <2>2. r.content = response.content /\ r.encode = response.encode /\ r.status = response.status /\ r.state = response.state
    BY DEF IntoSys
  <2>3. r.state = "unread"
    BY <1>1, <1>7, <2>2 DEF JsRefuses, IsResponse
  <2> HIDE DEF r
  <2> QED
    BY <1>1, <2>1, <2>2, <2>3 DEF BodiesAreKept
<1> QED
  BY <1>2, <1>3, <1>4, <1>5, <1>6, <1>7

LEMMA HttpStep == HttpInv /\ [HttpNext]_httpVars => HttpInv'
<1> SUFFICES ASSUME HttpInv, [HttpNext]_httpVars PROVE HttpInv'
  OBVIOUS
<1>1. CASE UNCHANGED httpVars
  <2>1. \A m, q : Route(m, q)' = Route(m, q)
    BY <1>1 DEF Route, At, PatternsOf, httpVars
  <2> QED
    BY <1>1, <2>1 DEF httpVars, HttpInv, Decided, BodiesAreKept
<1>2. ASSUME NEW s \in {200, 400, 600}, Build("error", s) PROVE HttpInv'
  <2>1. s \in 400..599
    BY <1>2 DEF Build, ErrorStatusOk
  <2>2. s \in 0..599
    BY <2>1
  <2> QED
    BY <1>2, <2>2, ResponseMoves
<1>3. ASSUME NEW s \in {200, 301, 101}, NEW f, Build(f, s) PROVE HttpInv'
  <2>1. s \in 0..599
    OBVIOUS
  <2> QED
    BY <1>3, <2>1, ResponseMoves
<1>5. ASSUME NEW s, NEW p \in {"/a", "/b"}, Run(s, p) PROVE HttpInv'
  BY <1>5, RouterMoves
<1>6. ASSUME NEW c \in Calls, NEW p \in Patterns, AddHandler(c, p) PROVE HttpInv'
  BY <1>6, RouterMoves
<1>7. ASSUME NEW m, NEW p, NewRequest(m, p) PROVE HttpInv'
  BY <1>7, RouterMoves
<1>8. ASSUME NEW w \in {"status", "no_content", "cors", "encode", "cf", "headers"}, With(w) PROVE HttpInv'
  BY <1>8, ResponseMoves
<1>9. CASE ReadResponse \/ Cloned \/ Respond
  BY <1>9, ResponseMoves
<1>4. CASE HttpNext
  <2>1. CASE \E c \in Calls, p \in Patterns : Cardinality(routes) < 3 /\ AddHandler(c, p)
    BY <2>1, <1>6
  <2>2. CASE \E s \in {"HEAD", "GET", "POST", "PROPFIND"}, p \in {"/a", "/b"} : Run(s, p)
    BY <2>2, <1>5
  <2>3. CASE \E p \in {"", "/a"} : NewRequest("POST", p)
    BY <2>3, <1>7
  <2>4. CASE \/ \E ok \in BOOLEAN : ReadRequest(ok)
             \/ \E mut \in BOOLEAN : CloneRequest(mut)
             \/ HeadersMut \/ PathMut
    BY <2>4, RequestStepMoves
  <2>5. CASE ReadCopy
    BY <2>5, ReadCopyMoves
  <2>6. CASE \/ \E f \in {"json", "stream", "empty"} : Build(f, 200)
             \/ \E s \in {200, 400, 600} : Build("error", s)
             \/ \E s \in {200, 301} : Build("redirect", s)
             \/ Build("websocket", 101)
    BY <2>6, <1>2, <1>3
  <2>7. CASE \E w \in {"status", "no_content", "cors", "encode", "cf", "headers"} : With(w)
    BY <2>7, <1>8
  <2> QED
    BY <1>4, <1>9, <2>1, <2>2, <2>3, <2>4, <2>5, <2>6, <2>7 DEF HttpNext
<1> QED
  BY <1>1, <1>4

LEMMA HttpInductive == HttpSpec => []HttpInv
<1>1. HttpInit => HttpInv
  BY HttpInitially
<1>2. HttpInv /\ [HttpNext]_httpVars => HttpInv'
  BY HttpStep
<1> QED
  BY <1>1, <1>2, PTL DEF HttpSpec

-----------------------------------------------------------------------------
(* Databases: the rows before the cursor were answered, the others not; a  *)
(* statement has the arguments that it was meant to have.                  *)

DbSensible == MaxRows \in Nat /\ MaxPrepared \in Nat /\ MaxSafe \in Nat \ {0}

Cursors == [open : BOOLEAN, rows : Seq(RowKinds), at : Nat]
Answers_ == {"row", "error", "none"} \X Nat
Args == Seq({"number", "string", "null", "undefined"})
Statements == [args : Args, meant : Args, gone : BOOLEAN]

(* The rows before the cursor's position are the ones that were answered;   *)
(* None was answered after the last.                                        *)
TakenInOrder ==
  /\ cursor.at <= Len(cursor.rows) /\ Len(cursor.rows) <= MaxRows
  /\ \A k \in 1..cursor.at : taken[k] \in {<<"row", k>>, <<"error", k>>}
  /\ \/ Len(taken) = cursor.at
     \/ Len(taken) = cursor.at + 1 /\ taken[cursor.at + 1] = <<"none", 0>> /\ cursor.at = Len(cursor.rows)
  /\ ~cursor.open => cursor = NoCursor /\ taken = <<>>

(* A statement has the arguments that it was meant to have.                 *)
BoundAsMeant == Len(prepared) <= MaxPrepared /\ \A i \in 1..Len(prepared) : prepared[i].args = prepared[i].meant

DbInv ==
  /\ cursor \in Cursors /\ taken \in Seq(Answers_) /\ prepared \in Seq(Statements)
  /\ TakenInOrder /\ BoundAsMeant /\ StatementsStayApart

LEMMA DbInvGives == DbInv => DbTypeOK /\ DatabasesKeepFaith
<1> SUFFICES ASSUME DbInv PROVE DbTypeOK /\ DatabasesKeepFaith
  OBVIOUS
<1>0. /\ cursor.at \in Nat /\ Len(cursor.rows) \in Nat /\ taken \in Seq(Answers_) /\ Len(taken) \in Nat
      /\ Len(prepared) \in Nat
  BY DEF DbInv, Cursors
<1>1. DbTypeOK
  BY <1>0 DEF DbInv, TakenInOrder, BoundAsMeant, DbTypeOK
<1>2. RowsInOrder
  <2>1. \A k \in 1..cursor.at : taken[k] \in {<<"row", k>>, <<"error", k>>}
    BY DEF DbInv, TakenInOrder
  <2>2. CASE Len(taken) = cursor.at
    <3>1. ~AtEnd
      <4> SUFFICES ASSUME taken # <<>>, taken[Len(taken)][1] = "none" PROVE FALSE
        BY DEF AtEnd, Last
      <4>1. cursor.at \in 1..cursor.at
        BY <1>0, <2>2, EmptySeq
      <4>2. taken[cursor.at] \in {<<"row", cursor.at>>, <<"error", cursor.at>>}
        BY <2>1, <4>1
      <4> QED
        BY <2>2, <4>2
    <3> QED
      BY <2>1, <2>2, <3>1 DEF RowsInOrder
  <2>3. CASE Len(taken) = cursor.at + 1 /\ taken[cursor.at + 1] = <<"none", 0>> /\ cursor.at = Len(cursor.rows)
    <3>1. AtEnd
      BY <1>0, <2>3, EmptySeq DEF AtEnd, Last
    <3>2. \A i \in 1..cursor.at : taken[i] \in Answers_
      <4>1. \A i \in 1..cursor.at : i \in 1..Len(taken)
        BY <1>0, <2>3
      <4> QED
        BY <1>0, <4>1, ElementOfSeq
    <3>3. Front(taken) = SubSeq(taken, 1, cursor.at)
      BY <1>0, <2>3 DEF Front
    <3>4. Len(Front(taken)) = cursor.at /\ \A i \in 1..cursor.at : Front(taken)[i] = taken[i]
      BY <1>0, <3>2, <3>3, SubSeqProperties
    <3> QED
      BY <2>1, <2>3, <3>1, <3>4 DEF RowsInOrder
  <2> QED
    BY <2>2, <2>3 DEF DbInv, TakenInOrder
<1> QED
  BY <1>1, <1>2 DEF DbInv, DatabasesKeepFaith

LEMMA DbInitially == DbSensible /\ DbInit => DbInv
<1> SUFFICES ASSUME DbSensible, DbInit PROVE DbInv
  OBVIOUS
<1>1. NoCursor \in Cursors /\ NoCursor.rows = <<>> /\ NoCursor.at = 0
  BY DEF NoCursor, Cursors
<1>2. TakenInOrder
  BY <1>1 DEF DbInit, DbSensible, TakenInOrder
<1>3. BoundAsMeant /\ StatementsStayApart
  BY DEF DbInit, DbSensible, BoundAsMeant, StatementsStayApart
<1> QED
  BY <1>1, <1>2, <1>3 DEF DbInit, DbInv

LEMMA RestIs ==
  ASSUME DbInv
  PROVE  /\ Rest \in Seq(Nat) /\ Len(Rest) = Len(cursor.rows) - cursor.at
         /\ \A i \in 1..Len(Rest) : Rest[i] = cursor.at + i
<1>1. cursor.at \in Nat /\ Len(cursor.rows) \in Nat /\ cursor.at <= Len(cursor.rows)
  BY DEF DbInv, Cursors, TakenInOrder
<1>2. Len(cursor.rows) - cursor.at \in Nat
  BY <1>1
<1> QED
  BY <1>1, <1>2 DEF Rest

(* The rows that are taken are the next ones, before None was said.         *)
LEMMA TakeMoves ==
  ASSUME DbSensible, DbInv, cursor.open, NEW rows \in Seq(Nat), NEW answer \in {"row", "error"}, Take(rows, answer),
         rows # <<>>, Len(rows) <= Len(Rest), \A i \in 1..Len(rows) : rows[i] = Rest[i]
  PROVE  DbInv'
<1> DEFINE n == Len(rows)
           at == cursor.at
           more == [i \in 1..n |-> <<answer, rows[i]>>]
<1>1. /\ at \in Nat /\ Len(cursor.rows) \in Nat /\ n \in Nat \ {0} /\ at + n <= Len(cursor.rows)
      /\ \A i \in 1..n : rows[i] = at + i
  <2>1. at \in Nat /\ Len(cursor.rows) \in Nat /\ n \in Nat \ {0}
    BY EmptySeq DEF DbInv, Cursors
  <2>2. n <= Len(cursor.rows) - at /\ \A i \in 1..n : i \in 1..Len(Rest) /\ rows[i] = at + i
    <3>1. Len(Rest) = Len(cursor.rows) - at /\ n <= Len(Rest) /\ \A i \in 1..Len(Rest) : Rest[i] = at + i
      BY RestIs
    <3>2. Len(Rest) \in Int
      BY <2>1, <3>1
    <3>3. \A i \in 1..n : i \in 1..Len(Rest)
      BY <2>1, <3>1, <3>2
    <3> QED
      BY <3>1, <3>3
  <2>3. at + n <= Len(cursor.rows)
    BY <2>1, <2>2
  <2> QED
    BY <2>1, <2>2, <2>3
<1>2. Len(taken) = at /\ taken \in Seq(Answers_) /\ cursor \in Cursors
  BY <1>1 DEF DbInv, TakenInOrder
<1>3. more \in Seq(Answers_) /\ Len(more) = n /\ \A i \in 1..n : more[i] = <<answer, at + i>>
  <2>1. \A i \in 1..n : more[i] = <<answer, at + i>> /\ more[i] \in Answers_
    BY <1>1 DEF Answers_
  <2>2. more \in [1..n -> Answers_]
    BY <2>1
  <2> QED
    BY <1>1, <2>1, <2>2
<1>4. /\ cursor' = [cursor EXCEPT !.at = at + n] /\ taken' = taken \o more /\ UNCHANGED <<prepared, answers>>
  BY DEF Take
<1> HIDE DEF more, n
<1>5. /\ taken' \in Seq(Answers_) /\ Len(taken') = at + n
      /\ \A i \in 1..at + n : taken'[i] = IF i <= at THEN taken[i] ELSE more[i - at]
  <2>0. taken \in Seq(Answers_) /\ more \in Seq(Answers_)
    BY <1>2, <1>3
  <2>1. /\ taken \o more \in Seq(Answers_) /\ Len(taken \o more) = Len(taken) + Len(more)
        /\ \A i \in 1..Len(taken) + Len(more) : (taken \o more)[i] = IF i <= Len(taken) THEN taken[i] ELSE more[i - Len(taken)]
    BY ONLY <2>0, ConcatProperties
  <2>2. Len(taken) = at /\ Len(more) = n
    BY <1>2, <1>3
  <2> HIDE DEF at
  <2> QED
    BY <1>4, <2>1, <2>2
<1>6. cursor' \in Cursors /\ cursor'.at = at + n /\ cursor'.rows = cursor.rows /\ cursor'.open
  <2>1. at + n \in Nat /\ cursor.open
    BY <1>1
  <2> HIDE DEF at
  <2> QED
    BY <1>2, <1>4, <2>1 DEF Cursors
<1>7. ASSUME NEW k \in 1..at + n PROVE taken'[k] \in {<<"row", k>>, <<"error", k>>}
  <2>1. CASE k <= at
    <3>1. k \in 1..at /\ taken'[k] = taken[k]
      BY <1>1, <1>5, <2>1
    <3> QED
      BY <3>1 DEF DbInv, TakenInOrder
  <2>2. CASE k > at
    <3>1. k - at \in 1..n /\ at + (k - at) = k
      BY <1>1, <2>2
    <3>2. taken'[k] = more[k - at]
      BY <1>1, <1>5, <2>2
    <3> QED
      BY <1>3, <3>1, <3>2
  <2>3. k <= at \/ k > at
    BY <1>1
  <2> QED
    BY <2>1, <2>2, <2>3
<1>8. TakenInOrder'
  BY <1>1, <1>5, <1>6, <1>7 DEF DbInv, TakenInOrder
<1> QED
  BY <1>4, <1>5, <1>6, <1>8 DEF DbInv, BoundAsMeant, StatementsStayApart

LEMMA TakeFirstMoves ==
  ASSUME DbSensible, DbInv, cursor.open, Rest # <<>>, NEW answer \in {"row", "error"}, Take(<<Head(Rest)>>, answer)
  PROVE  DbInv'
<1>1. Rest \in Seq(Nat) /\ Len(Rest) \in Nat \ {0} /\ Head(Rest) = Rest[1] /\ Head(Rest) \in Nat
  BY RestIs, EmptySeq, HeadTailProperties
<1> DEFINE rows == <<Head(Rest)>>
<1>2. rows \in Seq(Nat) /\ rows # <<>> /\ Len(rows) = 1 /\ rows[1] = Rest[1]
  BY <1>1
<1> HIDE DEF rows
<1>3. Len(rows) <= Len(Rest) /\ \A i \in 1..Len(rows) : rows[i] = Rest[i]
  BY <1>1, <1>2
<1>4. Take(rows, answer)
  BY DEF rows
<1> QED
  BY <1>2, <1>3, <1>4, TakeMoves

LEMMA EndMoves == ASSUME DbSensible, DbInv, cursor.open, Rest = <<>>, End PROVE DbInv'
<1>1. cursor.at \in Nat /\ Len(cursor.rows) \in Nat /\ taken \in Seq(Answers_) /\ <<"none", 0>> \in Answers_
  BY DEF DbInv, Cursors, Answers_
<1>2. cursor.at = Len(cursor.rows)
  <2>1. Len(Rest) = 0
    BY EmptySeq
  <2> QED
    BY <1>1, <2>1, RestIs
<1>3. taken' = Append(taken, <<"none", 0>>) /\ UNCHANGED <<cursor, prepared, answers>> /\ ~AtEnd
  BY DEF End
<1>4. Len(taken) = cursor.at
  <2> SUFFICES ASSUME Len(taken) = cursor.at + 1, taken[cursor.at + 1] = <<"none", 0>> PROVE FALSE
    BY DEF DbInv, TakenInOrder
  <2>1. taken # <<>>
    BY <1>1, EmptySeq
  <2> QED
    BY <1>3, <2>1 DEF AtEnd, Last
<1>5. /\ taken' \in Seq(Answers_) /\ Len(taken') = cursor.at + 1 /\ taken'[cursor.at + 1] = <<"none", 0>>
      /\ \A i \in 1..cursor.at : taken'[i] = taken[i]
  BY <1>1, <1>3, <1>4, AppendProperties
<1>6. TakenInOrder'
  BY <1>2, <1>3, <1>5 DEF DbInv, TakenInOrder
<1> QED
  BY <1>3, <1>5, <1>6 DEF DbInv, BoundAsMeant, StatementsStayApart

LEMMA CursorMoves ==
  ASSUME DbSensible, DbInv, UNCHANGED <<prepared, answers>>,
         \/ cursor' = NoCursor /\ taken' = <<>>
         \/ cursor' = cursor /\ taken' = taken
  PROVE  DbInv'
<1>1. NoCursor \in Cursors /\ NoCursor.rows = <<>> /\ NoCursor.at = 0 /\ <<>> \in Seq(Answers_)
  BY DEF NoCursor, Cursors
<1>2. CASE cursor' = NoCursor /\ taken' = <<>>
  <2>1. TakenInOrder'
    BY <1>1, <1>2 DEF DbSensible, TakenInOrder
  <2> QED
    BY <1>1, <1>2, <2>1 DEF DbInv, BoundAsMeant, StatementsStayApart
<1>3. CASE cursor' = cursor /\ taken' = taken
  BY <1>3 DEF DbInv, TakenInOrder, BoundAsMeant, StatementsStayApart
<1> QED
  BY <1>2, <1>3

(* A query that fails may end there: the rows that were taken are its rows. *)
LEMMA ThrowMoves == ASSUME DbSensible, DbInv, NEW raw \in BOOLEAN, NextThrows(raw) PROVE DbInv'
<1> DEFINE at == cursor.at
           cut == SubSeq(cursor.rows, 1, at)
<1>1. at \in Nat /\ cursor \in Cursors /\ cursor.rows \in Seq(RowKinds) /\ Len(cursor.rows) \in Nat
      /\ UNCHANGED <<prepared, answers>> /\ cursor.open
  BY DEF DbInv, Cursors, NextThrows
<1>2. CASE ~raw \/ (raw /\ cursor' = cursor)
  <2>1. CASE ~raw
    <3>1. cursor' = NoCursor /\ taken' = <<>>
      BY <2>1 DEF NextThrows
    <3> QED
      BY <1>1, <3>1, CursorMoves
  <2>2. CASE raw /\ cursor' = cursor
    <3>1. cursor' = cursor /\ taken' = taken
      BY <2>2 DEF NextThrows
    <3> QED
      BY <1>1, <3>1, CursorMoves
  <2> QED
    BY <1>2, <2>1, <2>2
<1>3. CASE raw /\ cursor' = [cursor EXCEPT !.rows = cut]
  <2>1. at < Len(cursor.rows)
    <3>1. Len(Rest) # 0
      BY RestIs, EmptySeq DEF NextThrows
    <3> QED
      BY <1>1, <3>1, RestIs DEF DbInv, TakenInOrder
  <2>2. cut \in Seq(RowKinds) /\ Len(cut) = at
    BY <1>1, <2>1, SubSeqProperties
  <2> HIDE DEF cut
  <2>3. cursor' \in Cursors /\ cursor'.rows = cut /\ cursor'.at = at /\ cursor'.open
    BY <1>1, <1>3, <2>2 DEF Cursors
  <2>4. taken' = taken /\ Len(taken) = at
    BY <1>1, <1>3, <2>1 DEF NextThrows, DbInv, TakenInOrder
  <2>5. at <= MaxRows /\ \A k \in 1..at : taken[k] \in {<<"row", k>>, <<"error", k>>}
    BY <1>1, <2>1 DEF DbSensible, DbInv, TakenInOrder
  <2> HIDE DEF at
  <2>6. TakenInOrder'
    BY <1>1, <2>2, <2>3, <2>4, <2>5 DEF TakenInOrder
  <2> QED
    BY <1>1, <2>3, <2>4, <2>6 DEF DbInv, BoundAsMeant, StatementsStayApart
<1> QED
  BY <1>2, <1>3 DEF NextThrows

LEMMA SqlStep == ASSUME DbSensible, DbInv, SqlNext PROVE DbInv'
<1>1. ASSUME NEW n \in 0..MaxRows, NEW rows \in [1..n -> RowKinds], NEW ok \in BOOLEAN, Exec(rows, ok) PROVE DbInv'
  <2>0. n \in Nat /\ n <= MaxRows
    BY DEF DbSensible
  <2>1. rows \in Seq(RowKinds) /\ Len(rows) = n
    BY <2>0
  <2>2. CASE ok
    <3>1. cursor' = [open |-> TRUE, rows |-> rows, at |-> 0] /\ taken' = <<>> /\ UNCHANGED <<prepared, answers>>
      BY <1>1, <2>2 DEF Exec
    <3>2. cursor' \in Cursors /\ cursor'.rows = rows /\ cursor'.at = 0 /\ cursor'.open
      BY <2>1, <3>1 DEF Cursors
    <3>3. TakenInOrder'
      BY <2>0, <2>1, <3>1, <3>2 DEF TakenInOrder
    <3> QED
      BY <3>1, <3>2, <3>3 DEF DbInv, BoundAsMeant, StatementsStayApart
  <2>3. CASE ~ok
    BY <1>1, <2>3, CursorMoves DEF Exec
  <2> QED
    BY <2>2, <2>3
<1>2. ASSUME NEW unfit, NextRow(unfit) PROVE DbInv'
  <2> DEFINE answer == IF cursor.rows[Head(Rest)] \in unfit THEN "error" ELSE "row"
  <2>1. cursor.open /\ answer \in {"row", "error"} /\ (IF Rest = <<>> THEN End ELSE Take(<<Head(Rest)>>, answer))
    BY <1>2 DEF NextRow
  <2> HIDE DEF answer
  <2> QED
    BY <2>1, EndMoves, TakeFirstMoves
<1>3. CASE ToArray
  <2> DEFINE answer == IF \E i \in ToSet(Rest) : cursor.rows[i] = "untyped" THEN "error" ELSE "row"
  <2>1. cursor.open /\ Rest # <<>> /\ answer \in {"row", "error"} /\ Take(Rest, answer)
    BY <1>3 DEF ToArray
  <2> HIDE DEF answer
  <2>2. Rest \in Seq(Nat) /\ Len(Rest) <= Len(Rest)
    BY RestIs
  <2> QED
    BY <2>1, <2>2, TakeMoves
<1>4. CASE One
  <2>1. CASE Len(Rest) = 1
    <3> DEFINE answer == IF cursor.rows[Head(Rest)] = "untyped" THEN "error" ELSE "row"
    <3>1. cursor.open /\ answer \in {"row", "error"} /\ Take(Rest, answer)
      BY <1>4, <2>1 DEF One
    <3> HIDE DEF answer
    <3>2. Rest \in Seq(Nat) /\ Len(Rest) <= Len(Rest) /\ Rest # <<>>
      <4>1. Rest \in Seq(Nat) /\ Len(Rest) <= Len(Rest)
        BY <2>1, RestIs
      <4>2. Rest # <<>>
        BY <2>1, EmptySeq
      <4> QED
        BY <4>1, <4>2
    <3> QED
      BY <3>1, <3>2, TakeMoves
  <2>2. CASE Len(Rest) # 1
    BY <1>4, <2>2, CursorMoves DEF One
  <2> QED
    BY <2>1, <2>2
<1>5. CASE DropCursor
  BY <1>5, CursorMoves DEF DropCursor
<1>6. ASSUME NEW raw \in BOOLEAN, NextThrows(raw) PROVE DbInv'
  BY <1>6, ThrowMoves
<1> QED
  BY <1>1, <1>2, <1>3, <1>4, <1>5, <1>6 DEF SqlNext

(* Statements that are new and have what they were meant to have.           *)
LEMMA StatementsGrow ==
  ASSUME DbSensible, DbInv, NEW ss \in Seq(Statements), \A k \in 1..Len(ss) : ss[k].args = ss[k].meant,
         NEW old \in Seq(Statements), Len(old) = Len(prepared), \A i \in 1..Len(old) : old[i].args = old[i].meant,
         Len(prepared) + Len(ss) <= MaxPrepared,
         prepared' = old \o ss, UNCHANGED <<cursor, taken, answers>>
  PROVE  DbInv'
<1> DEFINE m == Len(old)
           n == Len(ss)
<1>1. /\ prepared' \in Seq(Statements) /\ Len(prepared') = m + n /\ m \in Nat /\ n \in Nat
      /\ \A i \in 1..m + n : prepared'[i] = IF i <= m THEN old[i] ELSE ss[i - m]
  <2>1. /\ old \o ss \in Seq(Statements) /\ Len(old \o ss) = Len(old) + Len(ss)
        /\ \A i \in 1..Len(old) + Len(ss) : (old \o ss)[i] = IF i <= Len(old) THEN old[i] ELSE ss[i - Len(old)]
    <3>1. old \in Seq(Statements) /\ ss \in Seq(Statements)
      OBVIOUS
    <3> QED
      BY ONLY <3>1, ConcatProperties
  <2>2. prepared' = old \o ss /\ Len(old) \in Nat /\ Len(ss) \in Nat
    OBVIOUS
  <2> QED
    BY ONLY <2>1, <2>2
<1>2. ASSUME NEW i \in 1..m + n PROVE prepared'[i].args = prepared'[i].meant
  <2>1. CASE i <= m
    <3>1. i \in 1..m
      BY <1>1, <2>1
    <3> QED
      BY <1>1, <2>1, <3>1
  <2>2. CASE i > m
    <3>1. i - m \in 1..n /\ prepared'[i] = ss[i - m]
      BY <1>1, <2>2
    <3> QED
      BY <3>1
  <2>3. i <= m \/ i > m
    BY <1>1
  <2> QED
    BY <2>1, <2>2, <2>3
<1>3. BoundAsMeant'
  BY <1>1, <1>2 DEF BoundAsMeant
<1> QED
  BY <1>1, <1>3 DEF DbInv, TakenInOrder, StatementsStayApart

LEMMA StatementIs == ASSUME NEW args \in Args PROVE Statement(args) \in Statements /\ Statement(args).args = Statement(args).meant
BY DEF Statement, Statements

LEMMA OneMore ==
  ASSUME NEW args \in Args
  PROVE  /\ <<Statement(args)>> \in Seq(Statements) /\ Len(<<Statement(args)>>) = 1
         /\ \A k \in 1..Len(<<Statement(args)>>) : <<Statement(args)>>[k].args = <<Statement(args)>>[k].meant
<1>1. Statement(args) \in Statements /\ Statement(args).args = Statement(args).meant
  BY StatementIs
<1> QED
  BY <1>1

LEMMA PrepareMoves == ASSUME DbSensible, DbInv, Prepare PROVE DbInv'
<1> DEFINE ss == <<Statement(<<>>)>>
<1>1. prepared \in Seq(Statements) /\ Len(prepared) \in Nat /\ \A i \in 1..Len(prepared) : prepared[i].args = prepared[i].meant
  BY DEF DbInv, BoundAsMeant
<1>2. <<>> \in Args
  BY DEF Args
<1>3. ss \in Seq(Statements) /\ Len(ss) = 1 /\ \A k \in 1..Len(ss) : ss[k].args = ss[k].meant
  BY <1>2, OneMore
<1>4. prepared' = prepared \o ss /\ UNCHANGED <<cursor, taken, answers>> /\ Len(prepared) < MaxPrepared
  BY <1>1, <1>2, StatementIs, AppendIsConcat DEF Prepare
<1> HIDE DEF ss
<1>5. Len(prepared) + Len(ss) <= MaxPrepared
  BY <1>1, <1>3, <1>4 DEF DbSensible
<1> QED
  BY <1>1, <1>3, <1>4, <1>5, StatementsGrow

LEMMA BindMoves == ASSUME DbSensible, DbInv, NEW i \in Nat, NEW args \in Args, Bind(i, args) PROVE DbInv'
<1> DEFINE rest == [prepared EXCEPT ![i].gone = TRUE]
           ss == <<Statement(args)>>
<1>1. prepared \in Seq(Statements) /\ Len(prepared) \in Nat /\ \A k \in 1..Len(prepared) : prepared[k].args = prepared[k].meant
  BY DEF DbInv, BoundAsMeant
<1>2. i \in 1..Len(prepared) /\ Len(prepared) < MaxPrepared /\ UNCHANGED <<cursor, taken, answers>>
  BY DEF Bind, Held
<1>3. rest \in Seq(Statements) /\ Len(rest) = Len(prepared) /\ \A k \in 1..Len(rest) : rest[k].args = rest[k].meant
  <2> DEFINE p == [prepared[i] EXCEPT !.gone = TRUE]
  <2>0. prepared[i] \in Statements /\ prepared[i].args = prepared[i].meant
    BY <1>1, <1>2
  <2>1. p \in Statements /\ p.args = p.meant
    BY ONLY <2>0 DEF Statements
  <2>2. rest = [prepared EXCEPT ![i] = p]
    OBVIOUS
  <2> HIDE DEF p, rest
  <2>3. /\ rest \in Seq(Statements) /\ Len(rest) = Len(prepared)
        /\ \A k \in 1..Len(prepared) : rest[k] = IF k = i THEN p ELSE prepared[k]
    BY <1>1, <1>2, <2>1, <2>2, ExceptSeq
  <2> QED
    BY <1>1, <2>1, <2>3
<1>4. ss \in Seq(Statements) /\ Len(ss) = 1 /\ \A k \in 1..Len(ss) : ss[k].args = ss[k].meant
  BY OneMore
<1>5. prepared' = rest \o ss \/ prepared' = rest \o <<>>
  <2>1. prepared' = Append(rest, Statement(args)) \/ prepared' = rest
    BY DEF Bind
  <2> HIDE DEF rest
  <2> QED
    BY <1>3, <2>1, StatementIs, AppendIsConcat, ConcatEmptySeq
<1>6. <<>> \in Seq(Statements) /\ Len(<<>>) = 0 /\ \A k \in 1..Len(<<>>) : <<>>[k].args = <<>>[k].meant
  OBVIOUS
<1> HIDE DEF rest, ss
<1>7. Len(prepared) + Len(ss) <= MaxPrepared /\ Len(prepared) + Len(<<>>) <= MaxPrepared
  BY <1>1, <1>2, <1>4, <1>6 DEF DbSensible
<1>8. CASE prepared' = rest \o ss
  BY <1>2, <1>3, <1>4, <1>7, <1>8, StatementsGrow
<1>9. CASE prepared' = rest \o <<>>
  BY <1>2, <1>3, <1>6, <1>7, <1>9, StatementsGrow
<1> QED
  BY <1>5, <1>8, <1>9

LEMMA BindRefsMoves == ASSUME DbSensible, DbInv, NEW i \in Nat, NEW lists \in Seq(Args), BindRefs(i, lists) PROVE DbInv'
<1> DEFINE n == Len(lists)
           ss == [k \in 1..n |-> Statement(lists[k])]
<1>1. prepared \in Seq(Statements) /\ Len(prepared) \in Nat /\ \A k \in 1..Len(prepared) : prepared[k].args = prepared[k].meant
  BY DEF DbInv, BoundAsMeant
<1>2. ss \in Seq(Statements) /\ Len(ss) = n /\ \A k \in 1..Len(ss) : ss[k].args = ss[k].meant
  <2>1. n \in Nat /\ \A k \in 1..n : lists[k] \in Args
    OBVIOUS
  <2>2. \A k \in 1..n : ss[k] \in Statements /\ ss[k].args = ss[k].meant
    BY <2>1, StatementIs
  <2>3. ss \in [1..n -> Statements]
    BY <2>2
  <2>4. ss \in Seq(Statements) /\ Len(ss) = n
    BY <2>1, <2>3
  <2> HIDE DEF ss, n
  <2> QED
    BY <2>2, <2>4
<1>3. Len(prepared) + Len(ss) <= MaxPrepared /\ UNCHANGED <<cursor, taken, answers>>
  BY <1>2 DEF BindRefs
<1>4. prepared' = prepared \o ss \/ prepared' = prepared
  BY DEF BindRefs
<1> HIDE DEF ss
<1>5. CASE prepared' = prepared \o ss
  BY <1>1, <1>2, <1>3, <1>5, StatementsGrow
<1>6. CASE prepared' = prepared
  BY <1>3, <1>6 DEF DbInv, TakenInOrder, BoundAsMeant, StatementsStayApart
<1> QED
  BY <1>4, <1>5, <1>6

LEMMA RunBatchMoves ==
  ASSUME DbSensible, DbInv, NEW statements \in Seq(Nat), NEW ok \in BOOLEAN, RunBatch(statements, ok) PROVE DbInv'
<1> DEFINE mark == [i \in 1..Len(prepared) |-> [prepared[i] EXCEPT !.gone = @ \/ i \in ToSet(statements)]]
<1>1. prepared \in Seq(Statements) /\ Len(prepared) \in Nat /\ \A k \in 1..Len(prepared) : prepared[k].args = prepared[k].meant
  BY DEF DbInv, BoundAsMeant
<1>2. prepared' = mark /\ UNCHANGED <<cursor, taken>>
  BY DEF RunBatch
<1>3. prepared' \in Seq(Statements) /\ Len(prepared') = Len(prepared) /\ \A k \in 1..Len(prepared) : prepared'[k].args = prepared'[k].meant
  <2>1. \A k \in 1..Len(prepared) : mark[k] \in Statements /\ mark[k].args = mark[k].meant
    <3> SUFFICES ASSUME NEW k \in 1..Len(prepared) PROVE mark[k] \in Statements /\ mark[k].args = mark[k].meant
      OBVIOUS
    <3> DEFINE g == prepared[k].gone \/ k \in ToSet(statements)
    <3>1. prepared[k] \in Statements /\ prepared[k].args = prepared[k].meant /\ g \in BOOLEAN
      BY <1>1
    <3>2. mark[k] = [prepared[k] EXCEPT !.gone = g]
      BY DEF Statements
    <3> HIDE DEF g, mark
    <3> QED
      BY <3>1, <3>2 DEF Statements
  <2>2. mark \in [1..Len(prepared) -> Statements]
    BY <2>1
  <2>3. mark \in Seq(Statements) /\ Len(mark) = Len(prepared)
    BY <1>1, <2>2
  <2> HIDE DEF mark
  <2> QED
    BY <1>2, <2>1, <2>3
<1>4. StatementsStayApart'
  <2>1. CASE ok
    <3>1. \A k \in 1..Len(statements) : statements[k] \in 1..Len(prepared)
      BY DEF RunBatch, ToSet, Held
    <3>2. [k \in 1..Len(statements) |-> prepared[statements[k]].meant] = [k \in 1..Len(statements) |-> prepared[statements[k]].args]
      BY <1>1, <3>1
    <3>3. answers' = [of |-> [k \in 1..Len(statements) |-> prepared[statements[k]].meant], got |-> Ran(statements)]
      BY <2>1 DEF RunBatch
    <3> QED
      BY <3>2, <3>3 DEF Ran, StatementsStayApart
  <2>2. CASE ~ok
    BY <2>2 DEF RunBatch, StatementError, CastToD1Error, StatementsStayApart
  <2> QED
    BY <2>1, <2>2
<1>5. TakenInOrder'
  BY <1>2 DEF DbInv, TakenInOrder
<1>6. BoundAsMeant'
  BY <1>3 DEF DbInv, BoundAsMeant
<1> QED
  BY <1>2, <1>3, <1>4, <1>5, <1>6 DEF DbInv

LEMMA RunMoves_ ==
  ASSUME DbSensible, DbInv, NEW i \in Nat, NEW method \in {"run", "all", "first", "raw"}, NEW error \in {"none", "D1", "other"},
         Run_(i, method, error)
  PROVE  DbInv'
<1>1. UNCHANGED <<cursor, taken, prepared>> /\ i \in 1..Len(prepared)
  BY DEF Run_, Held
<1>2. prepared[i].args = prepared[i].meant
  BY <1>1 DEF DbInv, BoundAsMeant
<1>3. StatementsStayApart'
  <2>1. CASE error = "none"
    <3>1. Ran(<<i>>) = <<prepared[i].args>>
      BY DEF Ran
    <3> QED
      BY <1>2, <2>1, <3>1 DEF Run_, StatementsStayApart
  <2>2. CASE error # "none"
    BY <2>2 DEF Run_, StatementError, CastToD1Error, StatementsStayApart
  <2> QED
    BY <2>1, <2>2
<1> QED
  BY <1>1, <1>3 DEF DbInv, TakenInOrder, BoundAsMeant

LEMMA D1Step == ASSUME DbSensible, DbInv, D1Next PROVE DbInv'
<1>1. Arguments \subseteq Args
  BY DEF Arguments, Args, D1ToJs, MacroToJs
<1>2. ASSUME NEW i \in 1..MaxPrepared, NEW a \in Arguments, Bind(i, a) \/ BindRefs(i, <<a>>) \/ \E b \in Arguments : BindRefs(i, <<a, b>>)
      PROVE  DbInv'
  <2>1. i \in Nat /\ a \in Args /\ <<a>> \in Seq(Args) /\ \A b \in Arguments : <<a, b>> \in Seq(Args)
    BY <1>1
  <2> QED
    BY <1>2, <2>1, BindMoves, BindRefsMoves
<1>3. ASSUME NEW i \in 1..MaxPrepared, NEW m \in {"run", "all", "first", "raw"}, NEW e \in {"none", "D1", "other"}, Run_(i, m, e)
      PROVE  DbInv'
  BY <1>3, RunMoves_
<1>4. ASSUME NEW i \in 1..MaxPrepared, NEW j \in 1..MaxPrepared, NEW ok \in BOOLEAN, RunBatch(IF i = j THEN <<i>> ELSE <<i, j>>, ok)
      PROVE  DbInv'
  <2> DEFINE ss == IF i = j THEN <<i>> ELSE <<i, j>>
  <2>1. i \in Nat /\ j \in Nat
    OBVIOUS
  <2>2. <<i>> \in Seq(Nat) /\ <<i, j>> \in Seq(Nat)
    BY <2>1
  <2>3. ss \in Seq(Nat)
    BY <2>2
  <2> HIDE DEF ss
  <2>4. RunBatch(ss, ok)
    BY <1>4 DEF ss
  <2> QED
    BY <2>3, <2>4, RunBatchMoves
<1> QED
  BY <1>2, <1>3, <1>4, PrepareMoves DEF D1Next

LEMMA DbStep == DbSensible /\ DbInv /\ [DbNext]_dbVars => DbInv'
<1> SUFFICES ASSUME DbSensible, DbInv, [DbNext]_dbVars PROVE DbInv'
  OBVIOUS
<1>1. CASE UNCHANGED dbVars
  BY <1>1, CursorMoves DEF dbVars
<1>2. CASE DbNext
  BY <1>2, SqlStep, D1Step DEF DbNext
<1> QED
  BY <1>1, <1>2

LEMMA DbInductive == ASSUME DbSensible PROVE DbSpec => []DbInv
<1>1. DbInit => DbInv
  BY DbInitially
<1>2. DbInv /\ [DbNext]_dbVars => DbInv'
  BY DbStep
<1> QED
  BY <1>1, <1>2, PTL DEF DbSpec

(* What is rounded to a multiple of m loses less than m.                    *)
LEMMA RoundedIsNear ==
  ASSUME NEW n \in Nat, NEW m \in {2, 4}
  PROVE  RoundTo(n, m) \in Nat /\ RoundTo(n, m) >= n - m + 1
<1>1. CASE m = 2
  BY <1>1 DEF RoundTo
<1>2. CASE m = 4
  BY <1>2 DEF RoundTo
<1> QED
  BY <1>1, <1>2

LEMMA ExactOrFar ==
  ASSUME DbSensible, NEW i \in Int
  PROVE  /\ AsF64(i) \in Int
         /\ i \in -MaxSafe..MaxSafe => AsF64(i) = i
         /\ AsF64(i) \in -MaxSafe..MaxSafe => AsF64(i) = i
<1> DEFINE n == IF i < 0 THEN -i ELSE i
           r == IF n <= MaxSafe + 1 THEN n ELSE IF n <= 2 * (MaxSafe + 1) THEN RoundTo(n, 2) ELSE RoundTo(n, 4)
<1>1. n \in Nat /\ (i < 0 => i = -n) /\ (~(i < 0) => i = n) /\ MaxSafe \in Nat /\ MaxSafe > 0
  BY DEF DbSensible
<1>2. AsF64(i) = IF i < 0 THEN -r ELSE r
  BY DEF AsF64
<1> HIDE DEF n
<1>3. r \in Nat /\ (n <= MaxSafe + 1 => r = n) /\ (n > MaxSafe + 1 => r > MaxSafe)
  <2>1. RoundTo(n, 2) \in Nat /\ RoundTo(n, 2) >= n - 2 + 1 /\ RoundTo(n, 4) \in Nat /\ RoundTo(n, 4) >= n - 4 + 1
    BY <1>1, RoundedIsNear
  <2> QED
    BY <1>1, <2>1
<1> HIDE DEF r
<1>4. CASE i < 0
  BY <1>1, <1>2, <1>3, <1>4
<1>5. CASE ~(i < 0)
  BY <1>1, <1>2, <1>3, <1>5
<1> QED
  BY <1>4, <1>5

LEMMA IntegersStayExact == ASSUME DbSensible, NEW i \in Int PROVE IntegersAreExact(i)
<1> DEFINE f == AsF64(i)
<1>1. f \in Int /\ (i \in -MaxSafe..MaxSafe => f = i) /\ (f \in -MaxSafe..MaxSafe => f = i)
  BY ExactOrFar
<1>2. SqlToJs(<<"Integer", i>>) = <<"number", f>>
  BY DEF SqlToJs
<1>3. SqlFromJs(<<"number", f>>) = IF f \in -MaxSafe..MaxSafe THEN <<"Integer", f>> ELSE <<"Float", f>>
  BY DEF SqlFromJs
<1> HIDE DEF f
<1>4. SqlFromJs(SqlToJs(<<"Integer", i>>)) \in {<<"Integer", i>>, <<"Float", f>>}
  BY <1>1, <1>2, <1>3
<1>5. TryFromI64(i)[1] = "Integer" => i \in -MaxSafe..MaxSafe /\ TryFromI64(i) = <<"Integer", i>>
  BY DEF TryFromI64
<1>6. i \in -MaxSafe..MaxSafe => SqlFromJs(SqlToJs(<<"Integer", i>>)) = <<"Integer", i>>
  BY <1>1, <1>2, <1>3
<1> QED
  BY <1>4, <1>5, <1>6 DEF IntegersAreExact, f

-----------------------------------------------------------------------------
(* Errors: a chain of causes is cut where it goes round, and what is       *)
(* thrown again is what was caught. Induction, which the library states    *)
(* for operators, is stated here for sets.                                 *)

(* Induction, for a set: what zero is in, and with a number the next, has   *)
(* every number in it.                                                      *)
LEMMA SetInduction ==
  ASSUME NEW S, 0 \in S, \A n \in S \cap Nat : n + 1 \in S
  PROVE  Nat \subseteq S
<1> DEFINE T == Nat \ S
<1> SUFFICES ASSUME T # {} PROVE FALSE
  OBVIOUS
<1> DEFINE R == OpToRel(<, Nat)
<1>1. IsWellFoundedOn(R, Nat)
  BY NatLessThanWellFounded
<1>2. \A x, y \in Nat : y < x => <<y, x>> \in R
  BY DEF OpToRel
<1> HIDE DEF R
<1>3. PICK x \in T : \A y \in T : <<y, x>> \notin R
  <2>1. T \subseteq Nat
    OBVIOUS
  <2> HIDE DEF T
  <2> QED
    BY <1>1, <2>1, WFMin
<1>4. x \in Nat \ {0}
  BY <1>3
<1>5. x - 1 \in Nat /\ x - 1 < x /\ (x - 1) + 1 = x
  BY <1>4
<1>6. x - 1 \notin T
  BY <1>2, <1>3, <1>4, <1>5
<1>7. x - 1 \in S
  BY <1>5, <1>6
<1>8. x \in S
  BY <1>5, <1>7
<1> QED
  BY <1>3, <1>8

-----------------------------------------------------------------------------
(* Every cause that an Error object has is on the heap.                     *)
Closed(heap) == \A w \in heap : Variant(w) = "UnknownJsError" /\ w.cause # "none" => \E c \in heap : c.id = w.cause

Cause(heap, w) == CHOOSE c \in heap : c.id = w.cause
Ends(w, depth) == depth = 0 \/ Variant(w) # "UnknownJsError" \/ w.cause = "none"

(* The chains of the values on the heap, up to depth n.                     *)
Links(heap, f, n) ==
  [depth \in 0..n |-> [w \in heap |-> <<Variant(w)>> \o (IF Ends(w, depth) THEN <<>> ELSE f[depth - 1][Cause(heap, w)])]]

LEMMA LinksThereAre == ASSUME NEW heap PROVE \A n \in Nat : \E f : f = Links(heap, f, n)
<1> DEFINE S == {n \in Nat : \E f : f = Links(heap, f, n)}
<1>1. 0 \in S
  <2> DEFINE f == [depth \in 0..0 |-> [w \in heap |-> <<Variant(w)>> \o <<>>]]
  <2>1. \A depth \in 0..0, w \in heap : Ends(w, depth)
    BY DEF Ends
  <2>2. Links(heap, f, 0) = f
    BY <2>1 DEF Links
  <2> HIDE DEF f
  <2> QED
    BY <2>2
<1>2. ASSUME NEW n \in S PROVE n + 1 \in S
  <2>1. PICK f : f = Links(heap, f, n)
    OBVIOUS
  <2> DEFINE Link(depth, h) == [w \in heap |-> <<Variant(w)>> \o (IF Ends(w, depth) THEN <<>> ELSE h[depth - 1][Cause(heap, w)])]
             g == [depth \in 0..(n + 1) |-> IF depth \in 0..n THEN f[depth] ELSE Link(depth, f)]
  <2>2. \A depth \in 0..n : f[depth] = Link(depth, f)
    BY <2>1 DEF Links
  <2>3. \A depth \in 0..(n + 1) : g[depth] = Link(depth, f)
    BY <2>2
  <2>4. \A depth \in 0..(n + 1) : depth = 0 \/ (depth - 1 \in 0..n /\ g[depth - 1] = f[depth - 1])
    OBVIOUS
  <2>5. \A depth \in 0..(n + 1) : Link(depth, g) = Link(depth, f)
    <3> SUFFICES ASSUME NEW depth \in 0..(n + 1) PROVE Link(depth, g) = Link(depth, f)
      OBVIOUS
    <3> HIDE DEF g
    <3>1. CASE depth = 0
      BY <3>1 DEF Ends
    <3>2. CASE depth # 0
      BY <2>4, <3>2
    <3> QED
      BY <3>1, <3>2
  <2>6. g = [depth \in 0..(n + 1) |-> Link(depth, g)]
    <3>1. g = [depth \in 0..(n + 1) |-> g[depth]]
      OBVIOUS
    <3> HIDE DEF g, Link
    <3> QED
      BY <2>3, <2>5, <3>1
  <2>7. g = Links(heap, g, n + 1)
    BY <2>6 DEF Links
  <2> HIDE DEF g
  <2> QED
    BY <2>7
<1> HIDE DEF S
<1>3. Nat \subseteq S
  BY <1>1, <1>2, SetInduction
<1> QED
  BY <1>3 DEF S

LEMMA ChainIsLinked ==
  ASSUME NEW heap, NEW v
  PROVE  \E f : f = Links(heap, f, MaxCauseDepth) /\ Chain(heap, v) = f[MaxCauseDepth][v]
<1> DEFINE f == CHOOSE f : f = Links(heap, f, MaxCauseDepth)
<1>1. f = Links(heap, f, MaxCauseDepth)
  BY LinksThereAre DEF MaxCauseDepth
<1>2. Chain(heap, v) = f[MaxCauseDepth][v]
  BY DEF Chain, Links, Ends, Cause
<1> QED
  BY <1>1, <1>2

Linked(heap, f, n) == f = Links(heap, f, n)

LEMMA LinkAt ==
  ASSUME NEW heap, NEW f, NEW n \in Nat, NEW depth \in 0..n, NEW w \in heap, Linked(heap, f, n)
  PROVE  f[depth][w] = <<Variant(w)>> \o (IF Ends(w, depth) THEN <<>> ELSE f[depth - 1][Cause(heap, w)])
<1> DEFINE g == Links(heap, f, n)
<1>1. g[depth][w] = <<Variant(w)>> \o (IF Ends(w, depth) THEN <<>> ELSE f[depth - 1][Cause(heap, w)])
  BY DEF Links
<1>2. f = g
  BY DEF Linked
<1> HIDE DEF g
<1> QED
  BY <1>1, <1>2

VariantsOf(heap) == {Variant(u) : u \in heap}

LEMMA ChainsAreShort ==
  ASSUME NEW heap, Closed(heap), NEW n \in Nat, NEW f, Linked(heap, f, n)
  PROVE  \A depth \in 0..n, w \in heap :
           f[depth][w] \in Seq(VariantsOf(heap)) /\ Len(f[depth][w]) \in 1..(depth + 1) /\ f[depth][w][1] = Variant(w)
<1> DEFINE Vs == VariantsOf(heap)
           Short(depth) == \A w \in heap : f[depth][w] \in Seq(Vs) /\ Len(f[depth][w]) \in 1..(depth + 1) /\ f[depth][w][1] = Variant(w)
           S == {depth \in Nat : depth \in 0..n => Short(depth)}
<1>1. \A depth \in 0..n, w \in heap :
        f[depth][w] = <<Variant(w)>> \o (IF Ends(w, depth) THEN <<>> ELSE f[depth - 1][Cause(heap, w)])
  BY LinkAt
<1>2. \A w \in heap, depth \in Nat : ~Ends(w, depth) => Cause(heap, w) \in heap /\ depth # 0
  BY DEF Closed, Cause, Ends
<1>3. ASSUME NEW v \in Vs, NEW s \in Seq(Vs) PROVE <<v>> \o s \in Seq(Vs) /\ Len(<<v>> \o s) = 1 + Len(s) /\ (<<v>> \o s)[1] = v
  OBVIOUS
<1>4. \A w \in heap : Variant(w) \in Vs
  BY DEF VariantsOf
<1> HIDE DEF Vs
<1>5. ASSUME NEW depth \in 0..n, NEW w \in heap, Ends(w, depth)
      PROVE  f[depth][w] \in Seq(Vs) /\ Len(f[depth][w]) \in 1..(depth + 1) /\ f[depth][w][1] = Variant(w)
  <2>1. f[depth][w] = <<Variant(w)>> \o <<>>
    BY <1>1, <1>5
  <2>2. <<>> \in Seq(Vs) /\ Len(<<>>) = 0
    OBVIOUS
  <2>3. f[depth][w] \in Seq(Vs) /\ Len(f[depth][w]) = 1 + Len(<<>>) /\ f[depth][w][1] = Variant(w)
    BY <1>3, <1>4, <2>1, <2>2
  <2> QED
    BY <2>2, <2>3
<1>6. 0 \in S
  <2>1. \A w \in heap : Ends(w, 0)
    BY DEF Ends
  <2>2. 0 \in 0..n => Short(0)
    BY <1>5, <2>1
  <2> QED
    BY <2>2
<1>7. ASSUME NEW depth \in Nat, depth \in 0..n => Short(depth), depth + 1 \in 0..n, NEW w \in heap
      PROVE  f[depth + 1][w] \in Seq(Vs) /\ Len(f[depth + 1][w]) \in 1..((depth + 1) + 1) /\ f[depth + 1][w][1] = Variant(w)
  <2>1. CASE Ends(w, depth + 1)
    BY <1>5, <1>7, <2>1
  <2>2. CASE ~Ends(w, depth + 1)
    <3> DEFINE c == Cause(heap, w)
    <3>1. c \in heap /\ depth \in 0..n /\ (depth + 1) - 1 = depth
      BY <1>2, <1>7, <2>2
    <3>2. f[depth][c] \in Seq(Vs) /\ Len(f[depth][c]) \in 1..(depth + 1)
      BY <1>7, <3>1
    <3>3. f[depth + 1][w] = <<Variant(w)>> \o f[depth][c]
      BY <1>1, <1>7, <2>2, <3>1
    <3>4. f[depth + 1][w] \in Seq(Vs) /\ Len(f[depth + 1][w]) = 1 + Len(f[depth][c]) /\ f[depth + 1][w][1] = Variant(w)
      BY <1>3, <1>4, <3>2, <3>3
    <3> HIDE DEF c
    <3> QED
      BY <3>2, <3>4
  <2> QED
    BY <2>1, <2>2
<1>8. \A depth \in S \cap Nat : depth + 1 \in S
  BY <1>7
<1> HIDE DEF S
<1>9. Nat \subseteq S
  BY <1>6, <1>8, SetInduction
<1>10. \A depth \in 0..n : Short(depth)
  <2>1. \A depth \in 0..n : depth \in Nat
    OBVIOUS
  <2> HIDE DEF Short
  <2> QED
    BY <1>9, <2>1 DEF S
<1> QED
  BY <1>10 DEF Vs

(* What JavaScript may throw.                                               *)
Throwable(v) ==
  \/ \E id, name, code, cause : v = Object(id, name, code, cause)
  \/ \E id : v = String(id) \/ v = Other(id)

LEMMA VariantsAre ==
  ASSUME NEW v, Throwable(v)
  PROVE  /\ v.kind \in {"error", "string", "other"}
         /\ v.kind = "error" /\ v.code \in DOMAIN Coded => Variant(v) = Coded[v.code]
         /\ v.kind = "error" /\ v.code \notin DOMAIN Coded => Variant(v) = "UnknownJsError"
         /\ v.kind = "string" => Variant(v) = "JsError" /\ v = String(v.id) /\ v.code \notin DOMAIN Coded
         /\ v.kind = "other" => Variant(v) = "Internal" /\ v.code \notin DOMAIN Coded
BY DEF Throwable, Object, String, Other, Variant, Coded

LEMMA CodesAreTold ==
  /\ \A c, d \in DOMAIN Coded : Coded[c] = Coded[d] => c = d
  /\ \A c \in DOMAIN Coded : Coded[c] \notin {"UnknownJsError", "Internal", "JsError"}
BY DEF Coded

(* Whatever is on a heap, caught and thrown again it is the same, unless KV *)
(* or D1 wrapped it.                                                        *)
LEMMA ErrorsComeBack ==
  ASSUME NEW heap, Closed(heap), \A v \in heap : Throwable(v)
  PROVE  Rethrown(heap)
<1> SUFFICES ASSUME NEW v \in heap
             PROVE  LET e == FromJs(heap, v) t == ToJs(e) IN
                      /\ t.kind = v.kind /\ t.id = v.id /\ t.code = v.code
                      /\ v.code \notin DOMAIN Coded => t = v
                      /\ Len(Shown(e)) <= 1 + MaxCauseDepth
                      /\ \A via \in {"kv", "d1"} :
                           ToJs(Wrapped(via, v)) = Object(Wrapped(via, v).message, "Error", "none", "none")
  BY DEF Rethrown
<1> DEFINE chain == Chain(heap, v)
           e == FromJs(heap, v)
           t == ToJs(e)
           Vs == VariantsOf(heap)
<1>1. chain \in Seq(Vs) /\ Len(chain) \in 1..(MaxCauseDepth + 1) /\ chain[1] = Variant(v)
  <2>1. PICK f : f = Links(heap, f, MaxCauseDepth) /\ chain = f[MaxCauseDepth][v]
    BY ChainIsLinked
  <2>2. Linked(heap, f, MaxCauseDepth)
    BY <2>1 DEF Linked
  <2>3. MaxCauseDepth \in Nat /\ MaxCauseDepth \in 0..MaxCauseDepth
    BY DEF MaxCauseDepth
  <2>4. \A depth \in 0..MaxCauseDepth, w \in heap :
          f[depth][w] \in Seq(Vs) /\ Len(f[depth][w]) \in 1..(depth + 1) /\ f[depth][w][1] = Variant(w)
    BY <2>2, <2>3, ChainsAreShort
  <2> HIDE DEF chain, Vs
  <2> QED
    BY <2>1, <2>3, <2>4
<1>2. e = [variant |-> chain[1], source |-> Tail(chain), message |-> v.id,
           original |-> IF chain[1] \in {"UnknownJsError", "Internal"} THEN v ELSE "none"]
  BY DEF FromJs
<1> HIDE DEF chain, e
<1>3. e.variant = Variant(v) /\ e.message = v.id /\ e.source = Tail(chain)
      /\ (Variant(v) \in {"UnknownJsError", "Internal"} => e.original = v)
  BY <1>1, <1>2
<1>4. t.kind = v.kind /\ t.id = v.id /\ t.code = v.code /\ (v.code \notin DOMAIN Coded => t = v)
  <2>1. CASE Variant(v) \in {"UnknownJsError", "Internal"}
    <3>1. t = v
      BY <1>3, <2>1, CodesAreTold DEF ToJs
    <3> QED
      BY <3>1
  <2>2. CASE v.kind = "string"
    <3>1. t = String(v.id)
      BY <1>3, <2>2, VariantsAre, CodesAreTold DEF ToJs
    <3> QED
      BY <2>2, <3>1, VariantsAre
  <2>3. CASE v.kind = "error" /\ v.code \in DOMAIN Coded
    <3>1. e.variant = Coded[v.code] /\ (CHOOSE c \in DOMAIN Coded : Coded[c] = e.variant) = v.code
      BY <1>3, <2>3, VariantsAre, CodesAreTold
    <3>2. t = Object(v.id, "Error", v.code, "none")
      BY <1>3, <2>3, <3>1, CodesAreTold DEF ToJs
    <3> QED
      BY <2>3, <3>2 DEF Object
  <2> QED
    BY <2>1, <2>2, <2>3, VariantsAre
<1>5. Len(Shown(e)) <= 1 + MaxCauseDepth
  <2>1. Tail(chain) \in Seq(Vs) /\ Len(Tail(chain)) = Len(chain) - 1 /\ chain[1] \in Vs
    BY <1>1
  <2>2. Shown(e) = <<chain[1]>> \o Tail(chain)
    BY <1>1, <1>3 DEF Shown
  <2>3. <<chain[1]>> \in Seq(Vs) /\ Len(<<chain[1]>>) = 1
    BY <2>1
  <2> HIDE DEF Vs
  <2>4. Len(Shown(e)) = 1 + Len(Tail(chain))
    BY <2>1, <2>2, <2>3
  <2> QED
    BY <1>1, <2>1, <2>4 DEF MaxCauseDepth
<1>6. ASSUME NEW via \in {"kv", "d1"} PROVE ToJs(Wrapped(via, v)) = Object(Wrapped(via, v).message, "Error", "none", "none")
  <2> DEFINE w == Wrapped(via, v)
  <2>1. w.variant \in {"KvError", "D1"}
    BY DEF Wrapped, RustError, FromRust
  <2>2. \A c \in DOMAIN Coded : Coded[c] # w.variant
    BY <2>1 DEF Coded
  <2> HIDE DEF w
  <2>3. ToJs(w) = Object(w.message, "Error", "none", "none")
    BY <2>1, <2>2 DEF ToJs
  <2> QED
    BY <2>3 DEF w
<1> QED
  BY <1>4, <1>5, <1>6 DEF e

-----------------------------------------------------------------------------
(* Options: what would be sent now is what was asked for so far.           *)

OptSensible == MaxCalls \in Nat

(* The names of an API's options, and the algorithms that are options of    *)
(* their own, are different names.                                          *)
Apart(names) ==
  /\ \A f, g \in DOMAIN names : names[f] = names[g] => f = g
  /\ \A f \in DOMAIN names : names[f] \notin Algorithms

(* Before the request is made, the object that it would be made with is     *)
(* what was asked for; after it, that object is what was sent.              *)
OptInv ==
  /\ builder.api \in Apis \cup {"none"} /\ builder.calls \in 0..MaxCalls
  /\ builder = [api |-> builder.api, class |-> builder.class, fields |-> builder.fields, checksum |-> builder.checksum,
                calls |-> builder.calls]
  /\ builder.api = "none" => reply = NoReply /\ builder.checksum = <<>>
  /\ builder.api # "none" => DOMAIN builder.fields \subseteq DOMAIN Wire[builder.api]
  /\ builder.api # "none" /\ reply.sent = <<>> => meant = ObjectOf(builder)
  /\ builder.checksum = <<>> \/ builder.checksum \in Algorithms \X Nat
  /\ OptionsKeepFaith

LEMMA OptInvGives == OptInv => OptTypeOK /\ OptionsKeepFaith
BY DEF OptInv, OptTypeOK

LEMMA NamesOf ==
  /\ Wire["kv_get"] = KvGetNames /\ Wire["kv_put"] = KvPutNames /\ Wire["kv_list"] = KvListNames
  /\ Wire["r2_get"] = R2GetNames /\ Wire["r2_put"] = R2PutNames /\ Wire["r2_multipart"] = R2MultipartNames
  /\ Wire["r2_list"] = R2ListNames /\ Wire["workflow"] = CreateNames /\ Wire["retention"] = RetentionNames
  /\ Wire["terminate"] = TerminateNames /\ Wire["restart"] = RestartNames /\ Wire["retry"] = RetryNames
  /\ Wire["step"] = StepNames /\ Wire["durable_list"] = DurableListNames /\ Wire["stub"] = StubNames
  /\ Wire["cache_get"] = CacheNames /\ Wire["cache_delete"] = CacheNames /\ Wire["fetch"] = FetchNames
BY DEF Wire

LEMMA ApisAre ==
  Apis = {"kv_get", "kv_put", "kv_list", "r2_get", "r2_put", "r2_multipart", "r2_list", "workflow", "retention", "terminate",
          "restart", "retry", "step", "durable_list", "stub", "cache_get", "cache_delete", "fetch"}
BY DEF Apis, Wire

LEMMA NamesApart == ASSUME NEW api \in Apis PROVE Apart(Wire[api])
<1>1. Apart(KvGetNames)
  BY DEF Apart, Algorithms, KvGetNames
<1>2. Apart(KvPutNames)
  BY DEF Apart, Algorithms, KvPutNames
<1>3. Apart(KvListNames)
  BY DEF Apart, Algorithms, KvListNames
<1>4. Apart(R2GetNames)
  BY DEF Apart, Algorithms, R2GetNames
<1>5. Apart(R2PutNames)
  BY DEF Apart, Algorithms, R2PutNames
<1>6. Apart(R2MultipartNames)
  BY DEF Apart, Algorithms, R2MultipartNames
<1>7. Apart(R2ListNames)
  BY DEF Apart, Algorithms, R2ListNames
<1>8. Apart(CreateNames)
  BY DEF Apart, Algorithms, CreateNames
<1>9. Apart(RetentionNames)
  BY DEF Apart, Algorithms, RetentionNames
<1>10. Apart(TerminateNames)
  BY DEF Apart, Algorithms, TerminateNames
<1>11. Apart(RestartNames)
  BY DEF Apart, Algorithms, RestartNames
<1>12. Apart(RetryNames)
  BY DEF Apart, Algorithms, RetryNames
<1>13. Apart(StepNames)
  BY DEF Apart, Algorithms, StepNames
<1>14. Apart(DurableListNames)
  BY DEF Apart, Algorithms, DurableListNames
<1>15. Apart(StubNames)
  BY DEF Apart, Algorithms, StubNames
<1>16. Apart(CacheNames)
  BY DEF Apart, Algorithms, CacheNames
<1>17. Apart(FetchNames)
  BY DEF Apart, Algorithms, FetchNames
<1> QED
  BY <1>1, <1>2, <1>3, <1>4, <1>5, <1>6, <1>7, <1>8, <1>9, <1>10, <1>11, <1>12, <1>13, <1>14, <1>15, <1>16, <1>17,
     ApisAre, NamesOf

(* A setter sets on the wire the option that it sets on the builder.        *)
LEMMA SetOnWire ==
  ASSUME NEW api \in Apis, NEW fields, DOMAIN fields \subseteq DOMAIN Wire[api], NEW field \in DOMAIN Wire[api], NEW value
  PROVE  OnWire(api, Sets(fields, field, value)) = Sets(OnWire(api, fields), Wire[api][field], value)
<1> DEFINE names == Wire[api]
           D == DOMAIN fields \cup {field}
           new == [f \in D |-> IF f = field THEN value ELSE fields[f]]
           old == OnWire(api, fields)
<1>1. Apart(names)
  BY NamesApart
<1> HIDE DEF names
<1>2. \A f, g \in D : names[f] = names[g] => f = g
  BY <1>1 DEF Apart, names
<1>3. \A f \in D : (CHOOSE g \in D : names[g] = names[f]) = f
  BY ONLY <1>2
<1>4. \A f \in DOMAIN fields : (CHOOSE g \in DOMAIN fields : names[g] = names[f]) = f
  BY ONLY <1>2
<1>5. DOMAIN old = {names[f] : f \in DOMAIN fields} /\ \A f \in DOMAIN fields : old[names[f]] = fields[f]
  BY <1>4 DEF OnWire, names
<1>6. OnWire(api, new) = [n \in {names[f] : f \in D} |-> new[CHOOSE f \in D : names[f] = n]]
  BY DEF OnWire, names
<1> HIDE DEF old
<1>7. {names[f] : f \in D} = DOMAIN old \cup {names[field]}
  BY <1>5
<1>8. \A n \in {names[f] : f \in D} :
        new[CHOOSE f \in D : names[f] = n] = IF n = names[field] THEN value ELSE old[n]
  <2> SUFFICES ASSUME NEW f \in D PROVE new[f] = IF names[f] = names[field] THEN value ELSE old[names[f]]
    BY <1>3
  <2> QED
    BY <1>2, <1>5
<1> HIDE DEF new, D
<1>9. OnWire(api, new) = [n \in DOMAIN old \cup {names[field]} |-> IF n = names[field] THEN value ELSE old[n]]
  BY <1>6, <1>7, <1>8
<1> QED
  BY <1>9 DEF Sets, names, old, new, D

LEMMA SetsCommute ==
  ASSUME NEW fields, NEW f, NEW g, f # g, NEW v, NEW w
  PROVE  Sets(Sets(fields, f, v), g, w) = Sets(Sets(fields, g, w), f, v)
<1>1. (DOMAIN fields \cup {f}) \cup {g} = (DOMAIN fields \cup {g}) \cup {f}
  OBVIOUS
<1> QED
  BY <1>1 DEF Sets

LEMMA SetsOption ==
  ASSUME OptInv, builder.api # "none", reply.sent = <<>>, NEW field \in DOMAIN Wire[builder.api], NEW value,
         NEW b, b.api = builder.api, b.checksum = builder.checksum, b.fields = Sets(builder.fields, field, value)
  PROVE  /\ ObjectOf(b) = Sets(meant, Wire[builder.api][field], value)
         /\ DOMAIN b.fields \subseteq DOMAIN Wire[builder.api]
<1> DEFINE api == builder.api
           name == Wire[api][field]
           fields == OnWire(api, builder.fields)
           sum == builder.checksum
<1>1. api \in Apis /\ DOMAIN builder.fields \subseteq DOMAIN Wire[api] /\ meant = ObjectOf(builder)
  BY DEF OptInv
<1>2. DOMAIN b.fields \subseteq DOMAIN Wire[api]
  BY <1>1 DEF Sets
<1>3. OnWire(b.api, b.fields) = Sets(fields, name, value)
  BY <1>1, SetOnWire
<1>4. ObjectOf(b) = IF sum = <<>> THEN Sets(fields, name, value) ELSE Sets(Sets(fields, name, value), sum[1], sum[2])
  BY <1>3 DEF ObjectOf
<1>5. meant = IF sum = <<>> THEN fields ELSE Sets(fields, sum[1], sum[2])
  BY <1>1 DEF ObjectOf
<1>6. sum = <<>> \/ sum[1] # name
  <2>1. name \notin Algorithms
    BY <1>1, NamesApart DEF Apart
  <2>2. sum = <<>> \/ sum[1] \in Algorithms
    BY DEF OptInv
  <2> QED
    BY <2>1, <2>2
<1> HIDE DEF fields, sum, name
<1>7. Sets(Sets(fields, sum[1], sum[2]), name, value) = Sets(Sets(fields, name, value), sum[1], sum[2]) \/ sum = <<>>
  BY <1>6, SetsCommute
<1>8. ObjectOf(b) = Sets(meant, name, value)
  BY <1>4, <1>5, <1>7
<1> QED
  BY <1>2, <1>8 DEF name

LEMMA OptInitially == OptSensible /\ OptInit => OptInv
BY DEF OptSensible, OptInit, OptInv, NoReply, OptionsKeepFaith, OptionsArrive, AnswersAreHonest

LEMMA Unanswered == ASSUME reply.sent = <<>> PROVE OptionsKeepFaith
BY DEF OptionsKeepFaith, OptionsArrive, AnswersAreHonest

(* A setter of one of the API's fields.                                     *)
LEMMA SetterMoves ==
  ASSUME OptSensible, OptInv, Building, NEW field \in DOMAIN Wire[builder.api], NEW value,
         builder' = [builder EXCEPT !.fields = Sets(@, field, value), !.calls = @ + 1],
         meant' = Sets(meant, Wire[builder.api][field], value), UNCHANGED reply
  PROVE  OptInv'
<1> DEFINE fields == Sets(builder.fields, field, value)
<1>1. builder.api \in Apis /\ builder.api # "none" /\ reply.sent = <<>> /\ builder.calls + 1 \in 0..MaxCalls
  BY DEF OptInv, Building, OptSensible
<1>2. builder' = [api |-> builder.api, class |-> builder.class, fields |-> fields, checksum |-> builder.checksum,
                  calls |-> builder.calls + 1]
  BY DEF OptInv
<1> HIDE DEF fields
<1>3. builder'.api = builder.api /\ builder'.checksum = builder.checksum /\ builder'.fields = fields
  BY ONLY <1>2
<1>4. ObjectOf(builder') = meant' /\ DOMAIN builder'.fields \subseteq DOMAIN Wire[builder.api]
  BY <1>1, <1>3, SetsOption DEF fields
<1>5. ObjectOf(builder)' = ObjectOf(builder')
  BY DEF ObjectOf
<1>6. OptionsKeepFaith'
  BY <1>1 DEF OptionsKeepFaith, OptionsArrive, AnswersAreHonest
<1> QED
  BY <1>1, <1>2, <1>3, <1>4, <1>5, <1>6 DEF OptInv

LEMMA SetMoves == ASSUME OptSensible, OptInv, NEW field, NEW value, Set(field, value) PROVE OptInv'
BY SetterMoves DEF Set

LEMMA ParamsMoves == ASSUME OptSensible, OptInv, NEW value, Params(value) PROVE OptInv'
<1> DEFINE old == builder.fields
           kept == Restrict(old, {"id", "retention"} \cap DOMAIN old)
<1>1. builder.api = "workflow" /\ Building /\ meant' = Sets(meant, "params", value) /\ UNCHANGED reply
  BY DEF Params
<1>2. "params" \in DOMAIN Wire[builder.api] /\ Wire[builder.api]["params"] = "params"
      /\ DOMAIN Wire[builder.api] = {"id", "params", "retention"}
  BY <1>1, NamesOf DEF CreateNames
<1>3. DOMAIN old \subseteq {"id", "params", "retention"}
  BY <1>1, <1>2 DEF OptInv
<1>4. Sets(kept, "params", value) = Sets(old, "params", value)
  <2>1. DOMAIN kept \cup {"params"} = DOMAIN old \cup {"params"}
    BY <1>3 DEF Restrict
  <2>2. \A f \in DOMAIN kept : kept[f] = old[f]
    BY DEF Restrict
  <2> HIDE DEF kept, old
  <2> QED
    BY <2>1, <2>2 DEF Sets
<1>5. builder' = [builder EXCEPT !.fields = Sets(kept, "params", value), !.calls = @ + 1]
  BY DEF Params
<1>6. builder' = [builder EXCEPT !.fields = Sets(builder.fields, "params", value), !.calls = @ + 1]
  BY <1>4, <1>5
<1> QED
  BY <1>1, <1>2, <1>6, SetterMoves

LEMMA ChecksumMoves ==
  ASSUME OptSensible, OptInv, NEW algorithm \in Algorithms, NEW value \in Nat, ChecksumSet(algorithm, value) PROVE OptInv'
<1> DEFINE fields == OnWire(builder.api, builder.fields)
           sum == builder.checksum
<1>1. builder.api \in Apis /\ builder.api # "none" /\ reply.sent = <<>> /\ builder.calls + 1 \in 0..MaxCalls /\ UNCHANGED reply
  BY DEF OptInv, Building, OptSensible, ChecksumSet
<1>2. builder' = [api |-> builder.api, class |-> builder.class, fields |-> builder.fields,
                  checksum |-> <<algorithm, value>>, calls |-> builder.calls + 1]
  BY DEF OptInv, ChecksumSet
<1>3. meant = IF sum = <<>> THEN fields ELSE Sets(fields, sum[1], sum[2])
  BY <1>1 DEF OptInv, ObjectOf
<1>4. sum = <<>> \/ sum[1] \in Algorithms
  BY DEF OptInv
<1>5. DOMAIN fields \cap Algorithms = {}
  <2>1. \A f \in DOMAIN builder.fields : Wire[builder.api][f] \notin Algorithms
    BY <1>1, NamesApart DEF Apart, OptInv
  <2> QED
    BY <2>1 DEF OnWire
<1> HIDE DEF fields, sum
<1>6. Sets(Restrict(meant, DOMAIN meant \ Algorithms), algorithm, value) = Sets(fields, algorithm, value)
  <2>1. DOMAIN meant \ Algorithms = DOMAIN fields /\ \A n \in DOMAIN fields : meant[n] = fields[n]
    BY <1>3, <1>4, <1>5 DEF Sets
  <2> QED
    BY <2>1 DEF Sets, Restrict
<1>7. ObjectOf(builder)' = Sets(fields, algorithm, value)
  BY <1>2 DEF ObjectOf, fields
<1>8. meant' = ObjectOf(builder)'
  BY <1>6, <1>7 DEF ChecksumSet
<1>9. OptionsKeepFaith'
  BY <1>1 DEF OptionsKeepFaith, OptionsArrive, AnswersAreHonest
<1> QED
  BY <1>1, <1>2, <1>8, <1>9 DEF OptInv

LEMMA BeginMoves == ASSUME OptSensible, OptInv, NEW api \in Apis, NEW class, Begin(api, class) PROVE OptInv'
<1>1. builder.api = "none" /\ reply = NoReply /\ builder.checksum = <<>> /\ UNCHANGED reply /\ reply.sent = <<>>
  BY DEF OptInv, Begin, NoReply
<1>2. builder' = [api |-> api, class |-> class, fields |-> Given(api), checksum |-> <<>>, calls |-> builder.calls]
  BY <1>1 DEF OptInv, Begin
<1>3. DOMAIN Given(api) \subseteq DOMAIN Wire[api]
  BY ApisAre, NamesOf DEF Given, RetryNames, RestartNames, FetchNames, CacheNames
<1>4. api # "none"
  BY ApisAre
<1>5. meant' = ObjectOf(builder)'
  <2>1. builder'.api = api /\ builder'.fields = Given(api) /\ builder'.checksum = <<>>
    BY ONLY <1>2
  <2>2. ObjectOf(builder)' = OnWire(api, Given(api))
    BY <2>1 DEF ObjectOf
  <2> QED
    BY <2>2 DEF Begin
<1>6. OptionsKeepFaith'
  BY <1>1 DEF OptionsKeepFaith, OptionsArrive, AnswersAreHonest
<1> QED
  BY <1>1, <1>2, <1>3, <1>4, <1>5, <1>6 DEF OptInv

LEMMA KvTells ==
  ASSUME NEW m \in {"text", "json", "bytes", "stream"}, NEW h
  PROVE  KvTold(m, KvAnswers(ValueType(m), h)) = "None" <=> ReadsAsNothing(ValueType(m), h)
BY DEF KvTold, KvAnswers, ValueType, ReadsAsNothing

LEMMA R2Tells ==
  ASSUME NEW h
  PROVE  /\ R2Told(R2Answers("r2_get", h)) = "None" <=> h = "nothing"
         /\ R2Told(R2Answers("r2_get", h)) = "Body" => h \notin {"nothing", "unmet"}
         /\ R2Told(R2Answers("r2_put", h)) = "None" <=> h \in {"nothing", "unmet"}
BY DEF R2Told, R2Answers

LEMMA CacheTells ==
  ASSUME NEW h
  PROVE  /\ CacheTold("cache_get", h) = "None" <=> h = "nothing"
         /\ CacheTold("cache_delete", h) = "ResponseNotFound" <=> h = "nothing"
BY DEF CacheTold

(* What was sent is what was meant, the type that the method goes with      *)
(* included, and what the worker is told is right by the API.               *)
LEMMA ExecuteMoves ==
  ASSUME OptSensible, OptInv, NEW m \in {"text", "json", "bytes", "stream"}, NEW has, Execute(m, has) PROVE OptInv'
<1> DEFINE kv == builder.api = "kv_get"
           filled == [builder EXCEPT !.fields = Sets(@, "value_type", ValueType(m))]
           said == reply'.told
<1>1. builder.api \in Apis /\ builder.api # "none" /\ reply.sent = <<>>
  BY DEF OptInv, Execute
<1>2. builder' = IF kv THEN filled ELSE builder
  BY DEF Execute
<1>3. ObjectOf(builder') = meant' /\ DOMAIN builder'.fields \subseteq DOMAIN Wire[builder'.api]
      /\ builder' = [api |-> builder.api, class |-> builder.class, fields |-> builder'.fields,
                     checksum |-> builder.checksum, calls |-> builder.calls]
  <2>1. CASE kv
    <3>1. builder' = [api |-> builder.api, class |-> builder.class, fields |-> Sets(builder.fields, "value_type", ValueType(m)),
                      checksum |-> builder.checksum, calls |-> builder.calls]
      BY <1>2, <2>1 DEF OptInv
    <3>2. builder'.api = builder.api /\ builder'.checksum = builder.checksum
          /\ builder'.fields = Sets(builder.fields, "value_type", ValueType(m))
      BY ONLY <3>1
    <3>3. "value_type" \in DOMAIN Wire[builder.api] /\ Wire[builder.api]["value_type"] = "type"
      BY <2>1, NamesOf DEF KvGetNames
    <3>4. ObjectOf(builder') = Sets(meant, "type", ValueType(m)) /\ DOMAIN builder'.fields \subseteq DOMAIN Wire[builder.api]
      BY <1>1, <3>2, <3>3, SetsOption
    <3>5. meant' = Sets(meant, "type", ValueType(m))
      BY <2>1 DEF Execute
    <3> QED
      BY <3>1, <3>2, <3>4, <3>5
  <2>2. CASE ~kv
    <3>1. builder' = builder /\ meant' = meant
      BY <1>2, <2>2 DEF Execute
    <3> QED
      BY <1>1, <3>1 DEF OptInv
  <2> QED
    BY <2>1, <2>2
<1>4. reply'.sent = <<meant'>> /\ reply'.has = has
  BY <1>2, <1>3 DEF Execute
<1>5. ObjectOf(builder)' = ObjectOf(builder')
  BY DEF ObjectOf
<1>6. builder'.api = builder.api
  BY <1>3
<1>7. /\ builder.api = "kv_get" => (said = "None" <=> ReadsAsNothing(reply'.sent[1]["type"], has))
      /\ builder.api = "r2_get" => (said = "None" <=> has = "nothing") /\ (said = "Body" => has \notin {"nothing", "unmet"})
      /\ builder.api = "r2_put" => (said = "None" <=> has \in {"nothing", "unmet"})
  <2>1. CASE kv
    <3>1. meant'["type"] = ValueType(m)
      BY <2>1 DEF Execute, Sets
    <3>2. said = KvTold(m, KvAnswers(ValueType(m), has))
      BY <1>2, <1>3, <2>1, <3>1 DEF Execute
    <3>3. reply'.sent[1]["type"] = ValueType(m)
      BY <1>4, <3>1
    <3> QED
      BY <2>1, <3>2, <3>3, KvTells
  <2>2. CASE builder.api = "r2_get"
    <3>1. said = R2Told(R2Answers("r2_get", has))
      BY <2>2 DEF Execute
    <3> QED
      BY <2>2, <3>1, R2Tells
  <2>3. CASE builder.api = "r2_put"
    <3>1. said = R2Told(R2Answers("r2_put", has))
      BY <2>3 DEF Execute
    <3> QED
      BY <2>3, <3>1, R2Tells
  <2> QED
    BY <2>1, <2>2, <2>3
<1>8. /\ builder.api = "cache_get" => (said = "None" <=> has = "nothing")
      /\ builder.api = "cache_delete" => (said = "ResponseNotFound" <=> has = "nothing")
  <2>1. CASE builder.api = "cache_get"
    <3>1. said = CacheTold("cache_get", has)
      BY <2>1 DEF Execute
    <3> QED
      BY <2>1, <3>1, CacheTells
  <2>2. CASE builder.api = "cache_delete"
    <3>1. said = CacheTold("cache_delete", has)
      BY <2>2 DEF Execute
    <3> QED
      BY <2>2, <3>1, CacheTells
  <2> QED
    BY <2>1, <2>2
<1>9. OptionsKeepFaith'
  <2>1. OptionsArrive'
    BY <1>4 DEF OptionsArrive
  <2>2. AnswersAreHonest'
    BY <1>4, <1>6, <1>7, <1>8 DEF AnswersAreHonest, ReadsAsNothing
  <2> QED
    BY <2>1, <2>2 DEF OptionsKeepFaith
<1>10. builder'.calls = builder.calls /\ builder'.checksum = builder.checksum /\ builder'.class = builder.class
  BY <1>3
<1> QED
  BY <1>1, <1>3, <1>4, <1>5, <1>6, <1>9, <1>10 DEF OptInv

LEMMA OptStep == OptSensible /\ OptInv /\ [OptNext]_optVars => OptInv'
<1> SUFFICES ASSUME OptSensible, OptInv, [OptNext]_optVars PROVE OptInv'
  OBVIOUS
<1>1. CASE UNCHANGED optVars
  BY <1>1 DEF optVars, OptInv, ObjectOf, OptionsKeepFaith, OptionsArrive, AnswersAreHonest
<1>2. CASE OptNext
  <2>1. \A v \in 1..2 : v \in Nat
    OBVIOUS
  <2> QED
    BY <1>2, <2>1, BeginMoves, SetMoves, ParamsMoves, ChecksumMoves, ExecuteMoves DEF OptNext
<1> QED
  BY <1>1, <1>2

LEMMA OptInductive == ASSUME OptSensible PROVE OptSpec => []OptInv
<1>1. OptInit => OptInv
  BY OptInitially
<1>2. OptInv /\ [OptNext]_optVars => OptInv'
  BY OptStep
<1> QED
  BY <1>1, <1>2, PTL DEF OptSpec

LEMMA RangeIs ==
  ASSUME NEW a, NEW b, NEW c
  PROVE  /\ a # Undefined /\ b # Undefined /\ c = Undefined => RangeFromJs(<<a, b, c>>) = <<"OffsetWithLength", a, b>>
         /\ a # Undefined /\ b = Undefined /\ c = Undefined => RangeFromJs(<<a, b, c>>) = <<"OffsetToEnd", a>>
         /\ a = Undefined /\ b # Undefined /\ c = Undefined => RangeFromJs(<<a, b, c>>) = <<"Prefix", b>>
         /\ a = Undefined /\ b = Undefined /\ c # Undefined => RangeFromJs(<<a, b, c>>) = <<"Suffix", c>>
<1> DEFINE js == <<a, b, c>>
           is == [i \in 1..3 |-> js[i] # Undefined]
<1>1. js[1] = a /\ js[2] = b /\ js[3] = c
  OBVIOUS
<1> HIDE DEF js
<1>2. is[1] = (a # Undefined) /\ is[2] = (b # Undefined) /\ is[3] = (c # Undefined)
  BY <1>1
<1>3. RangeFromJs(js) =
        CASE is[1] /\ is[2] /\ ~is[3] -> <<"OffsetWithLength", a, b>> [] is[1] /\ ~is[2] /\ ~is[3] -> <<"OffsetToEnd", a>>
          [] ~is[1] /\ is[2] /\ ~is[3] -> <<"Prefix", b>>             [] ~is[1] /\ ~is[2] /\ is[3] -> <<"Suffix", c>>
          [] OTHER -> <<"invalid">>
  BY <1>1 DEF RangeFromJs
<1> HIDE DEF is
<1> QED
  BY <1>2, <1>3 DEF js

(* A range is read back as it was.                                          *)
LEMMA RangesComeBack == ASSUME MaxSafeRange \in Nat, NEW r \in Ranges PROVE RangeComesBack(r)
<1>0. Undefined \in Nat /\ \A a \in 0..MaxSafeRange : a # Undefined /\ a <= MaxSafeRange /\ a \in Nat
  BY DEF Undefined
<1>1. ASSUME NEW a \in 0..MaxSafeRange, NEW b \in 0..MaxSafeRange, r = <<"OffsetWithLength", a, b>> PROVE RangeComesBack(r)
  <2>1. RangeToJs(r) = <<a, b, Undefined>>
    BY <1>0, <1>1 DEF RangeToJs
  <2> QED
    BY <1>0, <1>1, <2>1, RangeIs DEF RangeComesBack
<1>2. ASSUME NEW a \in 0..MaxSafeRange, r = <<"OffsetToEnd", a>> PROVE RangeComesBack(r)
  <2>1. RangeToJs(r) = <<a, Undefined, Undefined>>
    BY <1>0, <1>2 DEF RangeToJs
  <2> QED
    BY <1>0, <1>2, <2>1, RangeIs DEF RangeComesBack
<1>3. ASSUME NEW a \in 0..MaxSafeRange, r = <<"Prefix", a>> PROVE RangeComesBack(r)
  <2>1. RangeToJs(r) = <<Undefined, a, Undefined>>
    BY <1>0, <1>3 DEF RangeToJs
  <2> QED
    BY <1>0, <1>3, <2>1, RangeIs DEF RangeComesBack
<1>4. ASSUME NEW a \in 0..MaxSafeRange, r = <<"Suffix", a>> PROVE RangeComesBack(r)
  <2>1. RangeToJs(r) = <<Undefined, Undefined, a>>
    BY <1>0, <1>4 DEF RangeToJs
  <2> QED
    BY <1>0, <1>4, <2>1, RangeIs DEF RangeComesBack
<1> QED
  BY <1>1, <1>2, <1>3, <1>4 DEF Ranges

(* get_bulk tells of every key whether something is there that is not a     *)
(* JSON null, or fails.                                                     *)
LEMMA BulksAreWhole == ASSUME NEW m \in {"text", "json"}, NEW h, NEW n PROVE BulkIsWhole(m, h, n)
<1> DEFINE first == KvTold(m, KvAnswers(ValueType(m), h))
           second == KvTold(m, KvAnswers(ValueType(m), n))
<1>1. (first = "None" <=> ReadsAsNothing(m, h)) /\ (second = "None" <=> ReadsAsNothing(m, n))
  <2>1. ValueType(m) = m
    BY DEF ValueType
  <2> QED
    BY <2>1, KvTells
<1>2. BulkTold(m, h, n) = IF "Err" \in {first, second} THEN <<"Err">> ELSE <<first, second>>
  BY DEF BulkTold
<1> HIDE DEF first, second
<1> QED
  BY <1>1, <1>2 DEF BulkIsWhole

-----------------------------------------------------------------------------
(* The constants are as their modules assume.                               *)
LEMMA Sensible ==
  /\ DoSensible /\ QueueSensible /\ WfSensible /\ WsSensible
  /\ StSensible /\ DbSensible /\ OptSensible
BY ObjectAssumption, QueueAssumption, WorkflowAssumption, EventsAssumption, StreamsAssumption, DatabasesAssumption,
   OptionsAssumption
   DEF DoSensible, QueueSensible, WfSensible, WsSensible, StSensible, DbSensible, OptSensible

(* A step is one of the part that is looked at, and of no other.            *)
LEMMA OneMoves ==
  ASSUME Next
  PROVE  /\ [DoNext]_doVars /\ [QueueNext]_queueVars /\ [WfNext]_wfVars /\ [WsNext]_wsVars
         /\ [StNext]_stVars /\ [HttpNext]_httpVars /\ [DbNext]_dbVars /\ [OptNext]_optVars
         /\ UNCHANGED <<subject, probe>>
<1>1. CASE subject = "durable" /\ DoNext /\ Only("durable")
  BY <1>1 DEF Only
<1>2. CASE subject = "queue" /\ QueueNext /\ Only("queue")
  BY <1>2 DEF Only
<1>3. CASE subject = "workflow" /\ WfNext /\ Only("workflow")
  BY <1>3 DEF Only
<1>4. CASE subject = "websocket" /\ WsNext /\ Only("websocket")
  BY <1>4 DEF Only
<1>5. CASE subject = "streams" /\ StNext /\ Only("streams")
  BY <1>5 DEF Only
<1>6. CASE subject = "http" /\ HttpNext /\ Only("http")
  BY <1>6 DEF Only
<1>7. CASE subject = "sql" /\ SqlNext /\ Only("sql")
  BY <1>7 DEF Only, DbNext
<1>8. CASE subject = "d1" /\ D1Next /\ Only("d1")
  BY <1>8 DEF Only, DbNext
<1>9. CASE subject = "options" /\ OptNext /\ Only("options")
  BY <1>9 DEF Only
<1> QED
  BY <1>1, <1>2, <1>3, <1>4, <1>5, <1>6, <1>7, <1>8, <1>9 DEF Next

LEMMA EachMoves ==
  [Next]_vars =>
    /\ [DoNext]_doVars /\ [QueueNext]_queueVars /\ [WfNext]_wfVars /\ [WsNext]_wsVars
    /\ [StNext]_stVars /\ [HttpNext]_httpVars /\ [DbNext]_dbVars /\ [OptNext]_optVars
    /\ UNCHANGED probe
<1> SUFFICES ASSUME [Next]_vars
             PROVE  /\ [DoNext]_doVars /\ [QueueNext]_queueVars /\ [WfNext]_wfVars /\ [WsNext]_wsVars
                    /\ [StNext]_stVars /\ [HttpNext]_httpVars /\ [DbNext]_dbVars /\ [OptNext]_optVars
                    /\ UNCHANGED probe
  OBVIOUS
<1>1. CASE Next
  BY <1>1, OneMoves
<1>2. CASE UNCHANGED vars
  BY <1>2 DEF vars
<1> QED
  BY <1>1, <1>2

(* A behaviour of the whole is one of each of its parts: what is proved of  *)
(* a part holds where its neighbours run in the same isolate.               *)
THEOREM PartsRun ==
  Spec => DoSpec /\ QueueSpec /\ WfSpec /\ WsSpec /\ StSpec /\ HttpSpec /\ DbSpec /\ OptSpec
<1>1. Init => DoInit /\ QueueInit /\ WfInit /\ WsInit /\ StInit /\ HttpInit /\ DbInit /\ OptInit
  BY DEF Init
<1> QED
  BY <1>1, EachMoves, PTL DEF Spec, DoSpec, QueueSpec, WfSpec, WsSpec, StSpec, HttpSpec, DbSpec, OptSpec

(* Every part's inductive invariant holds of the whole.                     *)
LEMMA PartsHold ==
  Spec => [](DoInv /\ QueueInv /\ WfInv /\ WsInv /\ StInv /\ HttpInv /\ DbInv /\ OptInv)
<1>1. DoSpec => []DoInv
  BY Sensible, DoInductive
<1>2. QueueSpec => []QueueInv
  BY Sensible, QueueInductive
<1>3. WfSpec => []WfInv
  BY Sensible, WfInductive
<1>4. WsSpec => []WsInv
  BY Sensible, WsInductive
<1>5. StSpec => []StInv
  BY Sensible, StInductive
<1>6. DbSpec => []DbInv
  BY Sensible, DbInductive
<1>7. OptSpec => []OptInv
  BY Sensible, OptInductive
<1> QED
  BY <1>1, <1>2, <1>3, <1>4, <1>5, <1>6, <1>7, HttpInductive, PartsRun, PTL

(* Every component's state keeps its type, for all constants: the counters, *)
(* ids and positions that the code keeps never leave their ranges.          *)
THEOREM TypeCorrect == Spec => []TypeOK
<1>1. DoInv => DoTypeOK
  BY DEF DoInv
<1>2. WfInv => WfTypeOK
  BY DEF WfInv, Typed, WfTypeOK, StepStates, CallStates
<1> QED
  BY <1>1, <1>2, QueueInvGives, WsInvGives, Sensible, StInvGives, HttpInvGives, DbInvGives, OptInvGives, PartsHold, PTL DEF TypeOK

(* A message that is sent to a queue or a WebSocket arrives as it was sent, *)
(* and is handed to the worker once and in order: MessageBatch and its      *)
(* iterator (queue.rs), EventStream (websocket.rs).                         *)
THEOREM MessagesArrive == Spec => []MessagesKeepFaith
<1>1. QueueInv /\ WsInv => MessagesKeepFaith
  BY QueueInvGives, WsInvGives DEF MessagesKeepFaith
<1> QED
  BY <1>1, PartsHold, PTL

(* Bodies are read once and whole, or the worker is told or panics, but for *)
(* an aborted ByteStream, which ends; a delay whose milliseconds fit in an  *)
(* i32 does not end early; and a request goes to the route that it matches. *)
(* This for bodies of any length, any number of rounds of the clock, any    *)
(* width of an i32 and any number of handled requests.                      *)
THEOREM BodiesAreWhole == Spec => []BodiesKeepFaith
<1>1. StInv /\ HttpInv => BodiesKeepFaith
  BY Sensible, StInvGives, HttpInvGives DEF BodiesKeepFaith
<1> QED
  BY <1>1, PartsHold, PTL

(* The values that conversions are asked for.                               *)
ProbeIsRight ==
  CASE probe[1] = "thrown"  -> Rethrown(probe[2])
    [] probe[1] = "integer" -> IntegersAreExact(probe[2])
    [] probe[1] = "range"   -> RangeComesBack(probe[2])
    [] probe[1] = "bulk"    -> BulkIsWhole(probe[2], probe[3], probe[4])
    [] OTHER                -> TRUE

LEMMA HeapsAreClosed == ASSUME NEW h \in Heaps PROVE Rethrown(h)
<1>1. PICK code \in [Ids -> {"none", "E_RATE_LIMIT_EXCEEDED"}], cause \in [Ids -> Ids \cup {"6", "7", "none"}] :
        h = {Object(i, "Error", code[i], cause[i]) : i \in Ids} \cup {String("6"), Other("7")}
  BY DEF Heaps
<1>2. \A v \in h : Throwable(v)
  BY <1>1 DEF Throwable
<1>3. \A w \in h : w.cause # "none" => w.cause \in Ids \cup {"6", "7"}
  <2>1. \A i \in Ids : Object(i, "Error", code[i], cause[i]).cause = cause[i]
    BY DEF Object
  <2>2. String("6").cause = "none" /\ Other("7").cause = "none"
    BY DEF String, Other
  <2> QED
    BY <1>1, <2>1, <2>2
<1>4. \A i \in Ids \cup {"6", "7"} : \E c \in h : c.id = i
  <2>1. \A i \in Ids : Object(i, "Error", code[i], cause[i]).id = i
    BY DEF Object
  <2>2. String("6").id = "6" /\ Other("7").id = "7"
    BY DEF String, Other
  <2> QED
    BY <1>1, <2>1, <2>2
<1>5. Closed(h)
  BY <1>3, <1>4 DEF Closed
<1> QED
  BY <1>2, <1>5, ErrorsComeBack

LEMMA ProbesAreRight == Init => ProbeIsRight
<1> SUFFICES ASSUME Init PROVE ProbeIsRight
  OBVIOUS
<1>1. probe \in Probes \/ probe = <<"none">>
  BY DEF Init
<1>2. CASE probe = <<"none">>
  <2>1. probe[1] = "none"
    BY <1>2
  <2> QED
    BY <2>1 DEF ProbeIsRight
<1>3. ASSUME NEW h \in Heaps, probe = <<"thrown", h>> PROVE ProbeIsRight
  <2>1. probe[1] = "thrown" /\ probe[2] = h
    BY <1>3
  <2> QED
    BY <2>1, HeapsAreClosed DEF ProbeIsRight
<1>4. ASSUME NEW i \in Int, probe = <<"integer", i>> PROVE ProbeIsRight
  <2>1. probe[1] = "integer" /\ probe[2] = i
    BY <1>4
  <2> QED
    BY <2>1, Sensible, IntegersStayExact DEF ProbeIsRight
<1>5. ASSUME NEW r \in Ranges, probe = <<"range", r>> PROVE ProbeIsRight
  <2>1. probe[1] = "range" /\ probe[2] = r
    BY <1>5
  <2> QED
    BY <2>1, OptionsAssumption, RangesComeBack DEF ProbeIsRight
<1>6. ASSUME NEW m \in {"text", "json"}, NEW h, NEW n, probe = <<"bulk", m, h, n>> PROVE ProbeIsRight
  <2>1. probe[1] = "bulk" /\ probe[2] = m /\ probe[3] = h /\ probe[4] = n
    BY <1>6
  <2> QED
    BY <2>1, BulksAreWhole DEF ProbeIsRight
<1>7. \A i \in -4 * (MaxSafe + 1) .. 4 * (MaxSafe + 1) : i \in Int
  OBVIOUS
<1> QED
  BY <1>1, <1>2, <1>3, <1>4, <1>5, <1>6, <1>7 DEF Probes

(* Options, statements and values mean in JavaScript what they meant in     *)
(* Rust, and answers the reverse: the builders of kv, r2 and the other      *)
(* bindings, D1's bind and batch, SQL's cursors, and the conversions of     *)
(* integers, ranges, bulk answers and errors, for any largest safe integer. *)
(* A JSON null in KV is told as nothing; an error that KV or D1 wrapped is  *)
(* thrown again as a new one.                                               *)
THEOREM ArgumentsAreMeant == Spec => []ArgumentsArrive
<1>1. Init => ProbeIsRight
  BY ProbesAreRight
<1>2. ProbeIsRight /\ [Next]_vars => ProbeIsRight'
  BY EachMoves DEF ProbeIsRight
<1>3. DbInv /\ OptInv /\ ProbeIsRight => ArgumentsArrive
  BY DbInvGives, OptInvGives DEF ArgumentsArrive, ProbeIsRight
<1> QED
  BY <1>1, <1>2, <1>3, PartsHold, PTL DEF Spec

(* In an isolate that holds the other parts too, a Durable Object's events  *)
(* wait for its initialisation and its transactions are atomic, and the     *)
(* steps of a Workflow end once.                                            *)
THEOREM EnginesAreOrdered == Spec => EnginesKeepOrder
BY PartsRun, EventsAreHeld, ObjectTransactionsAreAtomic, WorkflowStepsEndOnce, PTL DEF EnginesKeepOrder
=============================================================================
