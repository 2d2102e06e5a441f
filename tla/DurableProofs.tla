---------------------------- MODULE DurableProofs ----------------------------
(***************************************************************************)
(* Proofs about DurableObject and about Workflow, the two engines whose    *)
(* state outlives the isolate that holds it.                               *)
(***************************************************************************)
EXTENDS DurableObject, Workflow, TLAPS

(* The clock is a number, and the words that stand for no handler are none. *)
DoSensible == MaxTime \in Nat /\ Handler \cap {"new", "nobody", "cancelled"} = {}

(* An initialisation that is not over holds the gate.                       *)
Gated == object.up /\ object.asked /\ ~object.ready => "new" \in blocks

(* Who holds the gate, or a transaction, is where its future is awaited, or *)
(* is gone and left the gate closed: an answer never starts a handler that  *)
(* no event was delivered to.                                               *)
Waiting ==
  /\ \A h \in Handler : h \in blocks => HandlerAt(h, "blocking") \/ HandlerAt(h, "idle")
  /\ \A h \in Handler : txn.owner = h => HandlerAt(h, "txn")

(* A transaction that is there was started by someone, and its promise is   *)
(* fulfilled only by a closure that returned Ok.                            *)
Started ==
  /\ txn # NoTxn => txn.owner # "nobody"
  /\ txn.promise = "fulfilled" => txn.said = "Ok"

(* The runtime's time of the alarm is not before the one that was asked for.*)
Timely == alarm.set => alarm.notBefore <= alarm.at

DoInv == DoTypeOK /\ Gated /\ Waiting /\ Started /\ Timely

LEMMA ConvertGives ==
  ASSUME NEW op, NEW js
  PROVE  Convert(op, js) \in {"None", "Some", "Ok", "Err"}
BY DEF Convert

LEMMA AppliedIsStore ==
  ASSUME NEW store \in [Key -> Value \cup {Missing}], NEW op, NEW ks, NEW v \in Value
  PROVE  Applied(store, op, ks, v) \in [Key -> Value \cup {Missing}]
BY DEF Applied

LEMMA DoInitially == DoSensible /\ DoInit => DoInv
<1> SUFFICES ASSUME DoSensible, DoInit PROVE DoInv
  OBVIOUS
<1>1. DoTypeOK
  BY DEF DoSensible, DoInit, DoTypeOK, Gone, Idle, NoTxn, NoAlarm, Results
<1> QED
  BY <1>1 DEF DoSensible, DoInit, DoInv, Gated, Waiting, Started, Timely, Gone, NoTxn, NoAlarm

(* The types of a handler's state, of the transaction and of the alarm.      *)
Handlers == [at : {"idle", "running", "blocking", "opening", "txn"}, got : Results]
Txns == [owner : Handler \cup {"nobody", "cancelled"}, said : {"nothing", "Ok", "Err"},
         promise : {"pending", "fulfilled", "rejected"}, rolled : BOOLEAN,
         work : [Key -> Value \cup {Missing}]]
Alarms == [set : BOOLEAN, at : 0..2 * MaxTime, notBefore : 0..2 * MaxTime]

LEMMA NoTxnIsOne == NoTxn \in Txns
BY DEF NoTxn, Txns

LEMMA AnswerChangesOne ==
  ASSUME NEW h \in Handler, NEW p \in {"idle", "running", "blocking", "opening", "txn"}, NEW r \in Results,
         hs \in [Handler -> Handlers], Answer(h, p, r)
  PROVE  /\ hs' \in [Handler -> Handlers]
         /\ HandlerAt(h, p)' /\ hs'[h].got = r
         /\ \A g \in Handler \ {h} : hs'[g] = hs[g]
BY DEF Answer, Handlers, HandlerAt

(* What a step preserves that leaves the gate and the transaction alone and *)
(* moves one handler that holds neither.                                    *)
LEMMA OneHandlerMoves ==
  ASSUME DoSensible, DoInv, NEW h \in Handler, HandlerAt(h, "running"), UNCHANGED <<object, blocks, txn, now>>,
         hs' \in [Handler -> Handlers], \A g \in Handler \ {h} : hs'[g] = hs[g],
         disk' \in [Key -> Value \cup {Missing}], alarm' \in Alarms, Timely'
  PROVE  DoInv'
<1>1. DoTypeOK'
  BY DEF DoInv, DoTypeOK, Handlers, Txns, Alarms
<1>2. h \notin blocks /\ txn.owner # h
  BY DEF DoInv, Waiting, HandlerAt
<1>3. Waiting'
  BY <1>2 DEF DoInv, Waiting, HandlerAt
<1>4. Gated' /\ Started'
  BY DEF DoInv, Gated, Started, NoTxn
<1> QED
  BY <1>1, <1>3, <1>4 DEF DoInv

(* A step of the transaction's closure: only the transaction changes.       *)
LEMMA ClosureMoves ==
  ASSUME DoSensible, DoInv, InClosure, UNCHANGED <<object, blocks, hs, disk, alarm, now>>,
         txn' \in Txns, txn'.owner = txn.owner, txn'.promise = "fulfilled" => txn'.said = "Ok"
  PROVE  DoInv'
<1>1. DoTypeOK'
  BY DEF DoInv, DoTypeOK, Txns
<1>2. Waiting'
  BY DEF DoInv, Waiting, HandlerAt
<1>3. Started'
  BY DEF DoInv, Started, InClosure
<1>4. Gated' /\ Timely'
  BY DEF DoInv, Gated, Timely
<1> QED
  BY <1>1, <1>2, <1>3, <1>4 DEF DoInv

LEMMA StructureKept ==
  ASSUME DoSensible, DoInv, Construct \/ Reset \/ Tick \/ UNCHANGED doVars
  PROVE  DoInv'
<1>1. CASE Construct
  <2>1. UNCHANGED <<hs, disk, txn, alarm, now>>
    BY <1>1 DEF Construct
  <2>2. object' \in [up : BOOLEAN, asked : BOOLEAN, ready : BOOLEAN] /\ blocks' \subseteq Handler \cup {"new"}
    <3> DEFINE Asked(a) == [up |-> TRUE, asked |-> a, ready |-> FALSE]
    <3>1. Asked(FALSE) \in [up : BOOLEAN, asked : BOOLEAN, ready : BOOLEAN]
            /\ Asked(TRUE) \in [up : BOOLEAN, asked : BOOLEAN, ready : BOOLEAN]
      OBVIOUS
    <3>2. object' = Asked(FALSE) \/ object' = Asked(TRUE)
      BY <1>1 DEF Construct
    <3>3. blocks' \subseteq Handler \cup {"new"}
      BY <1>1 DEF Construct, BlockConcurrencyWhile, DoInv, DoTypeOK
    <3> HIDE DEF Asked
    <3> QED
      BY <3>1, <3>2, <3>3
  <2>3. Gated'
    BY <1>1 DEF Construct, BlockConcurrencyWhile, Gated
  <2>4. \A h \in Handler : h \in blocks' => h \in blocks
    BY <1>1 DEF Construct, BlockConcurrencyWhile, DoSensible
  <2>5. DoTypeOK'
    BY <2>1, <2>2 DEF DoInv, DoTypeOK
  <2>6. Waiting' /\ Started' /\ Timely'
    BY <2>1, <2>4 DEF DoInv, Waiting, Started, Timely, HandlerAt, NoTxn
  <2> QED
    BY <2>3, <2>5, <2>6 DEF DoInv
<1>2. CASE Reset
  <2>1. object' = Gone /\ blocks' = {} /\ hs' = [h \in Handler |-> Idle] /\ txn' = NoTxn /\ UNCHANGED <<disk, alarm, now>>
    BY <1>2 DEF Reset
  <2>2. DoTypeOK'
    BY <2>1, NoTxnIsOne DEF DoInv, DoTypeOK, Gone, Idle, Results, Txns
  <2>3. Gated' /\ Waiting' /\ Started' /\ Timely'
    BY <2>1 DEF DoSensible, DoInv, Gated, Waiting, Started, Timely, Gone, NoTxn, HandlerAt
  <2> QED
    BY <2>2, <2>3 DEF DoInv
<1>3. CASE Tick
  BY <1>3 DEF Tick, DoSensible, DoInv, DoTypeOK, Gated, Waiting, Started, Timely, HandlerAt, NoTxn
<1>4. CASE UNCHANGED doVars
  BY <1>4 DEF doVars, DoInv, DoTypeOK, Gated, Waiting, Started, Timely, HandlerAt, NoTxn
<1> QED
  BY <1>1, <1>2, <1>3, <1>4

LEMMA TransactionKept ==
  ASSUME DoSensible, DoInv, \/ TransactionOp \/ Rollback \/ TransactionEnds
         \/ \E result \in {"Ok", "Err"} : ClosureEnds(result)
  PROVE  DoInv'
<1>0. txn \in Txns
  BY DEF DoInv, DoTypeOK, Txns
<1>1. CASE TransactionOp
  <2>1. InClosure /\ UNCHANGED <<object, blocks, hs, disk, alarm, now>>
    BY <1>1 DEF TransactionOp
  <2>2. txn.said = "nothing" /\ txn.promise # "fulfilled"
    BY <2>1 DEF InClosure, DoInv, Started
  <2> PICK op \in (StorageOps \ {"get"}) \cup {"transaction get"}, v \in Value : \E ks \in Keys(op) :
        \/ txn' = [txn EXCEPT !.work = Applied(@, op, ks, v)]
        \/ txn' = [txn EXCEPT !.said = "Err", !.promise = "rejected"]
    BY <1>1 DEF TransactionOp
  <2> PICK ks \in Keys(op) :
        \/ txn' = [txn EXCEPT !.work = Applied(@, op, ks, v)]
        \/ txn' = [txn EXCEPT !.said = "Err", !.promise = "rejected"]
    OBVIOUS
  <2>3. CASE txn' = [txn EXCEPT !.work = Applied(@, op, ks, v)]
    <3>1. Applied(txn.work, op, ks, v) \in [Key -> Value \cup {Missing}]
      BY <1>0, AppliedIsStore DEF Txns
    <3>2. txn' \in Txns /\ txn'.owner = txn.owner /\ txn'.promise # "fulfilled"
      BY <1>0, <2>2, <2>3, <3>1 DEF Txns
    <3> QED
      BY <2>1, <3>2, ClosureMoves
  <2>4. CASE txn' = [txn EXCEPT !.said = "Err", !.promise = "rejected"]
    <3>1. txn' \in Txns /\ txn'.owner = txn.owner /\ txn'.promise # "fulfilled"
      BY <1>0, <2>4 DEF Txns
    <3> QED
      BY <2>1, <3>1, ClosureMoves
  <2> QED
    BY <2>3, <2>4
<1>2. CASE Rollback
  <2>1. InClosure /\ UNCHANGED <<object, blocks, hs, disk, alarm, now>> /\ txn' = [txn EXCEPT !.rolled = TRUE]
    BY <1>2 DEF Rollback
  <2>2. txn' \in Txns /\ txn'.owner = txn.owner /\ txn'.promise = txn.promise /\ txn'.said = txn.said
    BY <1>0, <2>1 DEF Txns
  <2> QED
    BY <2>1, <2>2, ClosureMoves DEF DoInv, Started
<1>3. ASSUME NEW result \in {"Ok", "Err"}, ClosureEnds(result) PROVE DoInv'
  <2>1. InClosure /\ UNCHANGED <<object, blocks, hs, disk, alarm, now>>
    BY <1>3 DEF ClosureEnds
  <2>2. txn' \in Txns /\ txn'.owner = txn.owner /\ (txn'.promise = "fulfilled" => txn'.said = "Ok")
    BY <1>0, <1>3 DEF ClosureEnds, Txns
  <2> QED
    BY <2>1, <2>2, ClosureMoves
<1>4. CASE TransactionEnds
  <2> PICK commits \in {FALSE, txn.promise = "fulfilled"} :
        /\ disk' = IF commits /\ ~txn.rolled THEN txn.work ELSE disk
        /\ IF txn.owner \in Handler
             THEN Answer(txn.owner, "running", Convert("transaction", IF commits THEN "undefined" ELSE "throws"))
             ELSE UNCHANGED hs
    BY <1>4 DEF TransactionEnds
  <2>1. txn' = NoTxn /\ UNCHANGED <<object, blocks, alarm, now>>
    BY <1>4 DEF TransactionEnds
  <2>2. disk' \in [Key -> Value \cup {Missing}]
    BY <1>0 DEF DoInv, DoTypeOK, Txns
  <2>3. hs \in [Handler -> Handlers]
    BY DEF DoInv, DoTypeOK, Handlers
  <2>4. CASE txn.owner \in Handler
    <3>1. Convert("transaction", IF commits THEN "undefined" ELSE "throws") \in Results
      BY ConvertGives DEF Results
    <3>2. hs' \in [Handler -> Handlers] /\ \A g \in Handler \ {txn.owner} : hs'[g] = hs[g]
      BY <2>3, <2>4, <3>1, AnswerChangesOne
    <3>3. txn.owner \notin blocks
      BY <2>4 DEF DoInv, Waiting, HandlerAt
    <3> QED
      BY <3>2, <3>3, <2>1, <2>2, NoTxnIsOne
         DEF DoSensible, DoInv, DoTypeOK, Gated, Waiting, Started, Timely, HandlerAt, Handlers, NoTxn, Txns
  <2>5. CASE txn.owner \notin Handler
    BY <2>5, <2>1, <2>2, NoTxnIsOne
       DEF DoSensible, DoInv, DoTypeOK, Gated, Waiting, Started, Timely, HandlerAt, NoTxn, Txns
  <2> QED
    BY <2>4, <2>5
<1> QED
  BY <1>1, <1>2, <1>3, <1>4

LEMMA HandlerKept ==
  ASSUME DoSensible, DoInv, NEW h \in Handler,
         \/ Deliver(h) \/ HandlerBlocks(h) \/ CallTransaction(h) \/ EnterTransaction(h) \/ HandlerEnds(h)
  PROVE  DoInv'
<1>0. hs \in [Handler -> Handlers] /\ txn \in Txns /\ "nothing" \in Results /\ "Err" \in Results
  BY DEF DoInv, DoTypeOK, Handlers, Txns, Results
<1>1. CASE Deliver(h)
  <2>1. hs' \in [Handler -> Handlers] /\ \A g \in Handler \ {h} : hs'[g] = hs[g]
    BY <1>0, <1>1, AnswerChangesOne DEF Deliver
  <2>2. alarm' \in Alarms /\ Timely'
    <3>1. NoAlarm \in Alarms /\ ~NoAlarm.set
      BY DEF NoAlarm, Alarms, DoSensible
    <3>2. alarm \in Alarms /\ Timely
      BY DEF DoInv, DoTypeOK, Alarms
    <3>3. alarm' = alarm \/ alarm' = NoAlarm
      BY <1>1 DEF Deliver
    <3> QED
      BY <3>1, <3>2, <3>3 DEF Timely
  <2>3. UNCHANGED <<object, blocks, disk, txn, now>> /\ h \notin blocks /\ txn.owner # h
    BY <1>1 DEF Deliver, DoInv, Waiting, HandlerAt
  <2>4. DoTypeOK'
    BY <2>1, <2>2, <2>3 DEF DoInv, DoTypeOK, Handlers, Alarms
  <2>5. Waiting' /\ Gated' /\ Started'
    BY <2>1, <2>3 DEF DoInv, Waiting, Gated, Started, HandlerAt, NoTxn
  <2> QED
    BY <2>2, <2>4, <2>5 DEF DoInv
<1>2. CASE HandlerBlocks(h)
  <2>1. UNCHANGED <<object, disk, txn, alarm, now>> /\ txn.owner # h
    BY <1>2 DEF HandlerBlocks, DoInv, Waiting, HandlerAt
  <2>2. hs' \in [Handler -> Handlers] /\ \A g \in Handler \ {h} : hs'[g] = hs[g]
    BY <1>0, <1>2, AnswerChangesOne DEF HandlerBlocks
  <2>3. \/ blocks' = blocks \cup {h} /\ HandlerAt(h, "blocking")'
        \/ blocks' = blocks /\ h \notin blocks
    BY <1>0, <1>2, AnswerChangesOne DEF HandlerBlocks, BlockConcurrencyWhile, DoInv, Waiting, HandlerAt
  <2>4. DoTypeOK'
    BY <2>1, <2>2, <2>3 DEF DoInv, DoTypeOK, Handlers
  <2>5. Waiting'
    BY <2>1, <2>2, <2>3 DEF DoInv, Waiting, HandlerAt
  <2>6. Gated' /\ Started' /\ Timely'
    BY <2>1, <2>3 DEF DoInv, Gated, Started, Timely, NoTxn
  <2> QED
    BY <2>4, <2>5, <2>6 DEF DoInv
<1>3. CASE CallTransaction(h)
  <2>1. hs' \in [Handler -> Handlers] /\ \A g \in Handler \ {h} : hs'[g] = hs[g]
    BY <1>0, <1>3, AnswerChangesOne DEF CallTransaction
  <2>2. UNCHANGED <<object, blocks, disk, txn, alarm, now>> /\ HandlerAt(h, "running")
    BY <1>3 DEF CallTransaction
  <2>3. disk' \in [Key -> Value \cup {Missing}] /\ alarm' \in Alarms /\ Timely'
    BY <2>2 DEF DoInv, DoTypeOK, Alarms, Timely
  <2> QED
    BY <2>1, <2>2, <2>3, OneHandlerMoves
<1>4. CASE EnterTransaction(h)
  <2>1. hs' \in [Handler -> Handlers] /\ HandlerAt(h, "txn")' /\ \A g \in Handler \ {h} : hs'[g] = hs[g]
    BY <1>0, <1>4, AnswerChangesOne DEF EnterTransaction
  <2>2. UNCHANGED <<object, blocks, disk, alarm, now>> /\ h \notin blocks
    BY <1>4 DEF EnterTransaction, DoInv, Waiting, HandlerAt
  <2>3. txn' \in Txns /\ txn'.owner = h /\ txn'.promise = "pending"
    BY <1>4, NoTxnIsOne DEF EnterTransaction, Txns, NoTxn, DoInv, DoTypeOK
  <2>4. DoTypeOK'
    BY <2>1, <2>2, <2>3 DEF DoInv, DoTypeOK, Handlers, Txns
  <2>5. Waiting'
    BY <2>1, <2>2, <2>3 DEF DoInv, Waiting, HandlerAt
  <2>6. Gated' /\ Timely'
    BY <2>2 DEF DoInv, Gated, Timely
  <2>7. Started'
    BY <2>3 DEF Started, DoSensible
  <2> QED
    BY <2>4, <2>5, <2>6, <2>7 DEF DoInv
<1>5. CASE HandlerEnds(h)
  <2>1. hs' \in [Handler -> Handlers] /\ \A g \in Handler \ {h} : hs'[g] = hs[g]
    BY <1>0, <1>5 DEF HandlerEnds, Idle, Handlers
  <2>2. UNCHANGED <<object, blocks, disk, alarm, now>> /\ HandlerAt(h, "idle")'
    BY <1>0, <1>5 DEF HandlerEnds, HandlerAt, Idle
  <2>3. txn' \in Txns /\ txn'.promise = txn.promise /\ txn'.said = txn.said /\ txn'.owner # h
          /\ (txn'.owner = txn.owner \/ txn'.owner = "cancelled")
    BY <1>0, <1>5 DEF HandlerEnds, Txns, DoSensible
  <2>4. DoTypeOK'
    BY <2>1, <2>2, <2>3 DEF DoInv, DoTypeOK, Handlers, Txns
  <2>5. Waiting'
    BY <2>1, <2>2, <2>3 DEF DoInv, Waiting, HandlerAt, DoSensible
  <2>6. Gated' /\ Timely'
    BY <2>2 DEF DoInv, Gated, Timely
  <2>7. txn # NoTxn => txn'.owner # "nobody"
    BY <2>3 DEF DoInv, Started
  <2>8. txn = NoTxn => txn' = NoTxn
    BY <1>5 DEF HandlerEnds, NoTxn, DoSensible
  <2>9. Started'
    BY <2>3, <2>7, <2>8 DEF DoInv, Started
  <2> QED
    BY <2>4, <2>5, <2>6, <2>9 DEF DoInv
<1> QED
  BY <1>1, <1>2, <1>3, <1>4, <1>5

LEMMA StorageKept ==
  ASSUME DoSensible, DoInv, NEW h \in Handler, StorageOp(h) \/ SetAlarm(h) \/ GetAlarm(h) \/ DeleteAlarm(h)
  PROVE  DoInv'
<1>0. hs \in [Handler -> Handlers] /\ disk \in [Key -> Value \cup {Missing}] /\ alarm \in Alarms /\ Timely
  BY DEF DoInv, DoTypeOK, Handlers, Alarms
<1>1. HandlerAt(h, "running") /\ UNCHANGED <<object, blocks, txn, now>>
  BY DEF StorageOp, SetAlarm, GetAlarm, DeleteAlarm
<1>2. \E r \in Results : Answer(h, "running", r)
  <2>1. \A op, js : Convert(op, js) \in Results
    BY ConvertGives DEF Results
  <2> QED
    BY <2>1 DEF StorageOp, SetAlarm, GetAlarm, DeleteAlarm, Results
<1>3. hs' \in [Handler -> Handlers] /\ \A g \in Handler \ {h} : hs'[g] = hs[g]
  BY <1>0, <1>2, AnswerChangesOne
<1>4. disk' \in [Key -> Value \cup {Missing}]
  <2>1. CASE StorageOp(h)
    <3> PICK op \in StorageOps, v \in Value : \E ks \in Keys(op) : UNCHANGED disk \/ disk' = Applied(disk, op, ks, v)
      BY <2>1 DEF StorageOp
    <3> QED
      BY <1>0, AppliedIsStore
  <2>2. CASE SetAlarm(h) \/ GetAlarm(h) \/ DeleteAlarm(h)
    BY <1>0, <2>2 DEF SetAlarm, GetAlarm, DeleteAlarm
  <2> QED
    BY <2>1, <2>2
<1>5. alarm' \in Alarms /\ Timely'
  <2>1. CASE StorageOp(h) \/ GetAlarm(h)
    BY <1>0, <2>1 DEF StorageOp, GetAlarm, Timely
  <2>2. CASE DeleteAlarm(h)
    BY <2>2 DEF DeleteAlarm, NoAlarm, Alarms, Timely, DoSensible
  <2>3. CASE SetAlarm(h)
    <3>1. PICK init \in [kind : {"date", "offset"}, ms : 0..MaxTime] :
            \/ alarm' = [set |-> TRUE, at |-> Schedule(init),
                         notBefore |-> IF init.kind = "offset" THEN now + init.ms ELSE init.ms]
            \/ UNCHANGED alarm
      BY <2>3 DEF SetAlarm
    <3>2. now \in 0..MaxTime /\ init.ms \in 0..MaxTime /\ init.kind \in {"date", "offset"} /\ MaxTime \in Nat
      BY DEF DoSensible, DoInv, DoTypeOK
    <3>3. now + init.ms \in 0..2 * MaxTime /\ init.ms \in 0..2 * MaxTime
      BY <3>2
    <3>4. Schedule(init) \in 0..2 * MaxTime
            /\ Schedule(init) = IF init.kind = "offset" THEN now + init.ms ELSE init.ms
      BY <3>2, <3>3 DEF Schedule
    <3>5. CASE UNCHANGED alarm
      BY <1>0, <3>5 DEF Timely
    <3>6. CASE alarm' = [set |-> TRUE, at |-> Schedule(init), notBefore |-> Schedule(init)]
      BY <3>4, <3>6 DEF Alarms, Timely
    <3> QED
      BY <3>1, <3>4, <3>5, <3>6
  <2> QED
    BY <2>1, <2>2, <2>3
<1> QED
  BY <1>1, <1>3, <1>4, <1>5, OneHandlerMoves

LEMMA BlockEndsKept ==
  ASSUME DoSensible, DoInv, NEW b \in blocks, BlockEnds(b)
  PROVE  DoInv'
<1>0. hs \in [Handler -> Handlers] /\ "Ok" \in Results
  BY DEF DoInv, DoTypeOK, Handlers, Results
<1>1. blocks' = blocks \ {b} /\ UNCHANGED <<disk, txn, alarm, now>>
  BY DEF BlockEnds
<1>2. CASE b = "new"
  <2>1. object' = [object EXCEPT !.ready = TRUE] /\ UNCHANGED hs
    BY <1>2 DEF BlockEnds
  <2>2. DoTypeOK'
    BY <1>1, <2>1 DEF DoInv, DoTypeOK
  <2>3. Gated'
    BY <2>1 DEF DoInv, DoTypeOK, Gated
  <2>4. Waiting' /\ Started' /\ Timely'
    BY <1>1, <2>1 DEF DoInv, Waiting, Started, Timely, HandlerAt, NoTxn
  <2> QED
    BY <2>2, <2>3, <2>4 DEF DoInv
<1>3. CASE b # "new"
  <2>1. b \in Handler /\ UNCHANGED object /\ (Answer(b, "running", "Ok") \/ UNCHANGED hs)
    BY <1>3 DEF BlockEnds, DoInv, DoTypeOK
  <2>2. /\ hs' \in [Handler -> Handlers] /\ \A g \in Handler \ {b} : hs'[g] = hs[g]
        /\ ~HandlerAt(b, "blocking")'
    <3>1. CASE HandlerAt(b, "blocking")
      <4>1. Answer(b, "running", "Ok")
        BY <1>3, <3>1 DEF BlockEnds
      <4> QED
        BY <1>0, <2>1, <4>1, AnswerChangesOne DEF HandlerAt
    <3>2. CASE ~HandlerAt(b, "blocking")
      <4>1. UNCHANGED hs
        BY <1>3, <3>2 DEF BlockEnds
      <4> QED
        BY <1>0, <3>2, <4>1 DEF HandlerAt
    <3> QED
      BY <3>1, <3>2
  <2>3. txn.owner # b
    BY <2>1 DEF DoInv, Waiting, HandlerAt
  <2>4. DoTypeOK'
    BY <1>1, <2>1, <2>2 DEF DoInv, DoTypeOK, Handlers
  <2>5. Gated'
    BY <1>1, <1>3, <2>1 DEF DoInv, Gated
  <2>6. Waiting'
    BY <1>1, <2>2, <2>3 DEF DoInv, Waiting, HandlerAt
  <2>7. Started' /\ Timely'
    BY <1>1 DEF DoInv, Started, Timely, NoTxn
  <2> QED
    BY <2>4, <2>5, <2>6, <2>7 DEF DoInv
<1> QED
  BY <1>2, <1>3

LEMMA DoStep == DoSensible /\ DoInv /\ [DoNext]_doVars => DoInv'
BY StructureKept, TransactionKept, HandlerKept, StorageKept, BlockEndsKept DEF DoNext

LEMMA DoInductive == ASSUME DoSensible PROVE DoSpec => []DoInv
<1>1. DoInit => DoInv
  BY DoInitially
<1>2. DoInv /\ [DoNext]_doVars => DoInv'
  BY DoStep
<1> QED
  BY <1>1, <1>2, PTL DEF DoSpec

-----------------------------------------------------------------------------
(* The state of a Durable Object keeps its type.                            *)
THEOREM ObjectTypeCorrect == DoSpec => []DoTypeOK
<1>1. DoSensible
  BY ObjectAssumption DEF DoSensible
<1> QED
  BY <1>1, DoInductive, PTL DEF DoInv

(* Only the delivery of an event starts a handler.                          *)
LEMMA OnlyDeliverStarts ==
  ASSUME DoSensible, DoInv, [DoNext]_doVars, NEW h \in Handler, HandlerAt(h, "idle"), HandlerAt(h, "running")'
  PROVE  Deliver(h)
<1> USE DEF DoInv, DoTypeOK, HandlerAt, Waiting
<1>1. CASE Construct \/ TransactionOp \/ Rollback \/ Tick \/ UNCHANGED doVars
  <2>1. UNCHANGED hs
    BY <1>1 DEF Construct, TransactionOp, Rollback, Tick, doVars
  <2> QED
    BY <2>1
<1>11. CASE Reset
  BY <1>11 DEF Reset, Idle
<1>2. CASE TransactionEnds
  BY <1>2 DEF TransactionEnds, Answer
<1>3. ASSUME NEW result \in {"Ok", "Err"}, ClosureEnds(result) PROVE FALSE
  BY <1>3 DEF ClosureEnds
<1>4. ASSUME NEW b \in blocks, BlockEnds(b) PROVE FALSE
  BY <1>4 DEF BlockEnds, Answer
<1>5. ASSUME NEW g \in Handler, Deliver(g), g # h PROVE FALSE
  BY <1>5 DEF Deliver, Answer
<1>6. ASSUME NEW g \in Handler, HandlerBlocks(g) PROVE FALSE
  BY <1>6 DEF HandlerBlocks, Answer
<1>7. ASSUME NEW g \in Handler, StorageOp(g) PROVE FALSE
  BY <1>7 DEF StorageOp, Answer
<1>8. ASSUME NEW g \in Handler, CallTransaction(g) \/ EnterTransaction(g) PROVE FALSE
  BY <1>8 DEF CallTransaction, EnterTransaction, Answer
<1>9. ASSUME NEW g \in Handler, SetAlarm(g) \/ GetAlarm(g) \/ DeleteAlarm(g) PROVE FALSE
  BY <1>9 DEF SetAlarm, GetAlarm, DeleteAlarm, Answer
<1>10. ASSUME NEW g \in Handler, HandlerEnds(g) PROVE FALSE
  BY <1>10 DEF HandlerEnds, Idle
<1> QED
  BY <1>1, <1>2, <1>3, <1>4, <1>5, <1>6, <1>7, <1>8, <1>9, <1>10, <1>11 DEF DoNext

(* No event reaches an object before its initialisation is over, and no     *)
(* alarm comes early, for any number of handlers.                           *)
THEOREM EventsAreHeld == DoSpec => EventsWait
<1> SUFFICES ASSUME DoSensible PROVE DoSpec => EventsWait
  BY ObjectAssumption DEF DoSensible
<1> DEFINE Waits == \A h \in Handler :
             HandlerAt(h, "idle") /\ HandlerAt(h, "running")' =>
               /\ object.asked => object.ready
               /\ alarm # alarm' => alarm.notBefore <= now
<1>1. ASSUME DoInv, [DoNext]_doVars, NEW h \in Handler, HandlerAt(h, "idle"), HandlerAt(h, "running")'
      PROVE  /\ object.asked => object.ready
             /\ alarm # alarm' => alarm.notBefore <= now
  <2>1. Deliver(h)
    BY <1>1, OnlyDeliverStarts
  <2> QED
    BY <1>1, <2>1 DEF Deliver, DoInv, DoTypeOK, Gated, Timely
<1>2. DoInv /\ [DoNext]_doVars => [Waits]_doVars
  BY <1>1
<1>3. DoSpec => [][Waits]_doVars
  BY DoInductive, <1>2, PTL DEF DoSpec
<1> QED
  BY <1>3 DEF EventsWait

(* Transactions are atomic, and their handlers are told so truthfully, for  *)
(* any number of handlers, keys and values.                                 *)
THEOREM ObjectTransactionsAreAtomic == DoSpec => TransactionsAreAtomic
<1> SUFFICES ASSUME DoSensible PROVE DoSpec => TransactionsAreAtomic
  BY ObjectAssumption DEF DoSensible
<1> DEFINE Atomic == txn # NoTxn /\ txn' = NoTxn =>
             /\ disk' = disk \/ (disk' = txn.work /\ txn.said = "Ok" /\ ~txn.rolled)
             /\ \A h \in Handler : txn.owner = h /\ hs'[h].got = "Ok" =>
                  txn.said = "Ok" /\ (txn.rolled \/ disk' = txn.work)
<1>1. ASSUME DoInv, [DoNext]_doVars, txn # NoTxn, txn' = NoTxn
      PROVE  Reset \/ TransactionEnds
  <2> USE <1>1 DEF DoInv, DoTypeOK, Started
  <2>0. txn.owner # "nobody" /\ txn'.owner = "nobody"
    BY DEF NoTxn
  <2>1. ASSUME TransactionOp \/ Rollback PROVE FALSE
    BY <2>0, <2>1 DEF TransactionOp, Rollback
  <2>2. ASSUME NEW result \in {"Ok", "Err"}, ClosureEnds(result) PROVE FALSE
    BY <2>0, <2>2 DEF ClosureEnds
  <2>3. ASSUME NEW h \in Handler, EnterTransaction(h) PROVE FALSE
    BY <1>1, <2>3 DEF EnterTransaction
  <2>4. ASSUME NEW h \in Handler, HandlerEnds(h) PROVE FALSE
    BY <2>0, <2>4 DEF HandlerEnds
  <2>5. ASSUME txn' = txn PROVE FALSE
    BY <1>1, <2>5
  <2>6. ASSUME Construct \/ Tick \/ (\E b \in blocks : BlockEnds(b)) \/ UNCHANGED doVars PROVE txn' = txn
    BY <2>6 DEF Construct, Tick, BlockEnds, doVars
  <2>7. ASSUME NEW h \in Handler, Deliver(h) \/ HandlerBlocks(h) \/ StorageOp(h) \/ CallTransaction(h)
                                    \/ SetAlarm(h) \/ GetAlarm(h) \/ DeleteAlarm(h)
        PROVE  txn' = txn
    BY <2>7 DEF Deliver, HandlerBlocks, StorageOp, CallTransaction, SetAlarm, GetAlarm, DeleteAlarm
  <2> QED
    BY <1>1, <2>1, <2>2, <2>3, <2>4, <2>5, <2>6, <2>7 DEF DoNext
<1>2. ASSUME DoInv, Reset, txn # NoTxn PROVE Atomic
  BY <1>2 DEF Reset, Idle, DoInv, DoTypeOK
<1>3. ASSUME DoInv, TransactionEnds, txn # NoTxn PROVE Atomic
  <2> PICK commits \in {FALSE, txn.promise = "fulfilled"} :
        /\ disk' = IF commits /\ ~txn.rolled THEN txn.work ELSE disk
        /\ IF txn.owner \in Handler
             THEN Answer(txn.owner, "running", Convert("transaction", IF commits THEN "undefined" ELSE "throws"))
             ELSE UNCHANGED hs
    BY <1>3 DEF TransactionEnds
  <2>1. commits => txn.said = "Ok"
    BY <1>3 DEF DoInv, Started
  <2>2. ASSUME NEW h \in Handler, txn.owner = h, hs'[h].got = "Ok" PROVE commits
    BY <1>3, <2>2 DEF Answer, Convert, DoInv, DoTypeOK
  <2> QED
    BY <2>1, <2>2
<1>4. DoInv /\ [DoNext]_doVars => [Atomic]_doVars
  BY <1>1, <1>2, <1>3
<1>5. DoSpec => [][Atomic]_doVars
  BY DoInductive, <1>4, PTL DEF DoSpec
<1> QED
  BY <1>5 DEF TransactionsAreAtomic

-----------------------------------------------------------------------------
(***************************************************************************)
(* Workflow.                                                               *)
(***************************************************************************)
(* A retry limit is a number.                                               *)
WfSensible == MaxAttempts \in Nat

StepStates == [kept : {"none", "output", "error"}, attempts : 0..MaxAttempts,
               pending : SUBSET (1..MaxAttempts), retry : BOOLEAN]
CallStates == [at : {"none", "awaiting", "dropped", "done"}, closure : {"freed", "live"},
          got : {"none", "value", "unreadable", "error"}]

Typed ==
  /\ instance \in Statuses
  /\ run_ \in {"none", "running", "rejected", "fulfilled"}
  /\ calls_ \in [Step -> CallStates]
  /\ steps \in [Step -> StepStates]
  /\ DOMAIN entered = Step

(* The runtime keeps an error for the step of which an attempt that it      *)
(* waited for ended in one that must not be retried.                        *)
Final == \A s \in Step : "NonRetryableError" \in entered[s] => steps[s].kept = "error"

(* The closure of a future that is awaited lives as long as run does.       *)
Closures == run_ = "running" => \A s \in Step : calls_[s].at = "awaiting" => calls_[s].closure = "live"

WfInv == Typed /\ Final /\ Closures

LEMMA NonRetryableIsRejected == Rejection("NonRetryableError").name = "NonRetryableError"
<1> DEFINE e == [variant |-> "Internal", source |-> <<>>, message |-> "none",
                 original |-> E!Object("1", "NonRetryableError", "none", "none")]
<1>1. e.variant = "Internal" /\ e.original = E!Object("1", "NonRetryableError", "none", "none")
  OBVIOUS
<1>2. Rejection("NonRetryableError") = E!ToJs(e)
  BY DEF Rejection
<1> HIDE DEF e
<1>3. \A c \in DOMAIN E!Coded : E!Coded[c] # "Internal"
  BY DEF E!Coded
<1>4. E!ToJs(e) = e.original
  BY <1>1, <1>3 DEF E!ToJs
<1>5. E!Object("1", "NonRetryableError", "none", "none").name = "NonRetryableError"
  BY DEF E!Object
<1> QED
  BY <1>1, <1>2, <1>4, <1>5

LEMMA NoStepIsOne == WfSensible => NoStep \in StepStates
BY DEF WfSensible, NoStep, StepStates

LEMMA NoCallIsOne == NoCall \in CallStates
BY DEF NoCall, CallStates

(* What changes the attempts of one step, and of that step what it says.    *)
LEMMA OneStepMoves ==
  ASSUME NEW s \in Step, steps \in [Step -> StepStates], NEW r \in StepStates, steps' = [steps EXCEPT ![s] = r]
  PROVE  steps' \in [Step -> StepStates] /\ steps'[s] = r /\ \A t \in Step \ {s} : steps'[t] = steps[t]
OBVIOUS

LEMMA WfInitially == WfSensible /\ WfInit => WfInv
<1> SUFFICES ASSUME WfSensible, WfInit PROVE WfInv
  OBVIOUS
<1>1. Typed
  BY NoStepIsOne, NoCallIsOne DEF WfInit, Typed, Statuses
<1> QED
  BY <1>1 DEF WfInit, WfInv, Final, Closures

-----------------------------------------------------------------------------
(* Each action of one step: what becomes of that step, and of the others.   *)
LEMMA AttemptMoves ==
  ASSUME WfSensible, WfInv, NEW s \in Step, NEW raw, Attempt(s, raw)
  PROVE  /\ steps' \in [Step -> StepStates] /\ \A t \in Step \ {s} : steps'[t] = steps[t]
         /\ steps[s].kept = "none" /\ steps'[s].kept = "none"
         /\ UNCHANGED <<instance, run_, calls_, entered>>
<1> DEFINE n == steps[s].attempts
           retry == ContextFromRaw(raw) = "error" \/ calls_[s].closure = "freed"
           pending == IF ContextFromRaw(raw) = "context" /\ calls_[s].closure = "live"
                        THEN steps[s].pending \cup {n + 1} ELSE steps[s].pending
           r == [steps[s] EXCEPT !.attempts = n + 1, !.retry = retry, !.pending = pending]
<1>1. steps[s] \in StepStates /\ steps \in [Step -> StepStates]
  BY DEF WfInv, Typed
<1>2. n < MaxAttempts /\ n \in 0..MaxAttempts
  BY <1>1 DEF Attempt, StepStates
<1>3. n + 1 \in 1..MaxAttempts
  BY <1>2 DEF WfSensible
<1>4. retry \in BOOLEAN
  OBVIOUS
<1>5. pending \in SUBSET (1..MaxAttempts)
  BY <1>1, <1>3 DEF StepStates
<1> HIDE DEF n, retry, pending
<1>6. n + 1 \in 0..MaxAttempts
  BY <1>3
<1>7. r \in StepStates /\ r.kept = steps[s].kept
  BY <1>1, <1>4, <1>5, <1>6 DEF StepStates
<1>8. steps' = [steps EXCEPT ![s] = r]
  BY <1>1 DEF Attempt, n, retry, pending
<1> HIDE DEF r
<1>9. steps[s].kept = "none" /\ UNCHANGED <<instance, run_, calls_, entered>>
  BY DEF Attempt
<1> QED
  BY <1>1, <1>7, <1>8, <1>9, OneStepMoves

LEMMA AttemptEndsMoves ==
  ASSUME WfSensible, WfInv, NEW s \in Step, NEW n \in 1..MaxAttempts, NEW o \in {"output", "error", "NonRetryableError"},
         AttemptEnds(s, n, o)
  PROVE  /\ steps' \in [Step -> StepStates] /\ \A t \in Step \ {s} : steps'[t] = steps[t] /\ entered'[t] = entered[t]
         /\ DOMAIN entered' = Step
         /\ steps'[s].pending \subseteq steps[s].pending
         /\ "NonRetryableError" \in entered'[s] => steps'[s].kept = "error"
         /\ UNCHANGED <<instance, run_, calls_>>
<1> DEFINE waited == n = steps[s].attempts /\ ~steps[s].retry /\ steps[s].kept = "none"
           final == o # "output" /\ Rejection(o).name = "NonRetryableError"
           kept == IF ~waited THEN steps[s].kept
                   ELSE IF o = "output" THEN "output"
                   ELSE IF final THEN "error"
                   ELSE steps[s].kept
           retry == IF waited /\ o # "output" /\ ~final THEN TRUE ELSE steps[s].retry
           r == [steps[s] EXCEPT !.pending = steps[s].pending \ {n}, !.kept = kept, !.retry = retry]
<1>1. steps[s] \in StepStates /\ steps \in [Step -> StepStates] /\ DOMAIN entered = Step
  BY DEF WfInv, Typed
<1>2. kept \in {"none", "output", "error"}
  <2>1. steps[s].kept \in {"none", "output", "error"}
    BY <1>1 DEF StepStates
  <2> QED
    BY <2>1
<1>3. retry \in BOOLEAN
  <2>1. steps[s].retry \in BOOLEAN
    BY <1>1 DEF StepStates
  <2> QED
    BY <2>1
<1>4. steps' = [steps EXCEPT ![s] = r]
  <2>1. steps' = [steps EXCEPT ![s].pending = @ \ {n}, ![s].kept = kept, ![s].retry = retry]
    BY DEF AttemptEnds
  <2> HIDE DEF kept, retry, waited, final
  <2> QED
    BY <1>1, <2>1
<1>5. entered' = IF waited /\ o # "output" THEN [entered EXCEPT ![s] = @ \cup {o}] ELSE entered
  BY DEF AttemptEnds
<1>6. UNCHANGED <<instance, run_, calls_>>
  BY DEF AttemptEnds
<1>7. "NonRetryableError" \in entered'[s] => kept = "error"
  <2>1. CASE "NonRetryableError" \in entered[s]
    <3>1. steps[s].kept = "error"
      BY <2>1 DEF WfInv, Final
    <3>2. ~waited
      BY <3>1
    <3> HIDE DEF waited, final
    <3>3. kept = steps[s].kept
      BY <3>2
    <3> QED
      BY <3>1, <3>3
  <2>2. CASE "NonRetryableError" \notin entered[s]
    <3> SUFFICES ASSUME "NonRetryableError" \in entered'[s] PROVE kept = "error"
      OBVIOUS
    <3>1. waited /\ o = "NonRetryableError"
      BY <1>1, <1>5, <2>2
    <3>2. final
      BY <3>1, NonRetryableIsRejected
    <3> QED
      BY <3>1, <3>2
  <2> QED
    BY <2>1, <2>2
<1> HIDE DEF kept, retry, waited
<1>8. r \in StepStates /\ r.kept = kept /\ r.pending \subseteq steps[s].pending
  BY <1>1, <1>2, <1>3 DEF StepStates
<1> HIDE DEF r
<1>9. steps' \in [Step -> StepStates] /\ steps'[s] = r /\ \A t \in Step \ {s} : steps'[t] = steps[t]
  BY <1>1, <1>4, <1>8, OneStepMoves
<1>10. DOMAIN entered' = Step /\ \A t \in Step \ {s} : entered'[t] = entered[t]
  BY <1>1, <1>5
<1> QED
  BY <1>6, <1>7, <1>8, <1>9, <1>10

LEMMA AttemptTimesOutMoves ==
  ASSUME WfSensible, WfInv, NEW s \in Step, AttemptTimesOut(s)
  PROVE  /\ steps' \in [Step -> StepStates] /\ \A t \in Step \ {s} : steps'[t] = steps[t]
         /\ steps'[s].pending = steps[s].pending /\ steps'[s].kept = steps[s].kept
         /\ UNCHANGED <<instance, run_, calls_, entered>>
<1> DEFINE r == [steps[s] EXCEPT !.retry = TRUE]
<1>1. steps[s] \in StepStates /\ steps \in [Step -> StepStates]
  BY DEF WfInv, Typed
<1>2. TRUE \in BOOLEAN
  OBVIOUS
<1>3. r \in StepStates /\ r.pending = steps[s].pending /\ r.kept = steps[s].kept
  BY <1>1, <1>2 DEF StepStates
<1>4. steps' = [steps EXCEPT ![s] = r] /\ UNCHANGED <<instance, run_, calls_, entered>>
  BY <1>1 DEF AttemptTimesOut
<1> HIDE DEF r
<1> QED
  BY <1>1, <1>3, <1>4, OneStepMoves

LEMMA ExhaustedMoves ==
  ASSUME WfSensible, WfInv, NEW s \in Step, Exhausted(s)
  PROVE  /\ steps' \in [Step -> StepStates] /\ \A t \in Step \ {s} : steps'[t] = steps[t]
         /\ steps'[s].pending = steps[s].pending /\ steps'[s].kept = "error"
         /\ UNCHANGED <<instance, run_, calls_, entered>>
<1> DEFINE r == [steps[s] EXCEPT !.kept = "error"]
<1>1. steps[s] \in StepStates /\ steps \in [Step -> StepStates]
  BY DEF WfInv, Typed
<1>2. r \in StepStates /\ r.pending = steps[s].pending /\ r.kept = "error"
  BY <1>1 DEF StepStates
<1>3. steps' = [steps EXCEPT ![s] = r] /\ UNCHANGED <<instance, run_, calls_, entered>>
  BY <1>1 DEF Exhausted
<1> HIDE DEF r
<1> QED
  BY <1>1, <1>2, <1>3, OneStepMoves

(* The steps stay when the isolate goes, without what was under way.        *)
LEMMA IsolateLostMoves ==
  ASSUME WfSensible, WfInv, IsolateLost
  PROVE  /\ steps' \in [Step -> StepStates]
         /\ \A s \in Step : steps'[s].kept = steps[s].kept /\ steps'[s].pending = {}
<1> DEFINE retry(s) == steps[s].attempts > 0 /\ steps[s].kept = "none"
           r(s) == [steps[s] EXCEPT !.pending = {}, !.retry = retry(s)]
<1>1. steps' = [s \in Step |-> r(s)]
  BY DEF IsolateLost
<1>2. \A s \in Step : retry(s) \in BOOLEAN
  OBVIOUS
<1> HIDE DEF retry
<1>3. ASSUME NEW s \in Step PROVE r(s) \in StepStates /\ r(s).kept = steps[s].kept /\ r(s).pending = {}
  <2>1. steps[s] \in StepStates
    BY DEF WfInv, Typed
  <2>2. retry(s) \in BOOLEAN
    BY <1>2
  <2> QED
    BY <2>1, <2>2 DEF StepStates
<1> HIDE DEF r
<1> QED
  BY <1>1, <1>3

-----------------------------------------------------------------------------
(* Only a worker's calls change: none loses its closure while it is awaited.*)
CallActions(s) == CallStep(s) \/ DropStep(s) \/ \E readable \in BOOLEAN : StepReturns(s, readable)

LEMMA CallsMove ==
  ASSUME WfInv, NEW s \in Step, CallActions(s)
  PROVE  /\ calls_' \in [Step -> CallStates]
         /\ calls_'[s].at = "awaiting" => calls_'[s].closure = "live"
         /\ \A t \in Step \ {s} : calls_'[t] = calls_[t]
         /\ UNCHANGED <<instance, run_, steps, entered>>
<1> USE DEF WfInv, Typed
<1>1. CASE CallStep(s)
  BY <1>1 DEF CallStep, CallStates
<1>2. CASE DropStep(s)
  BY <1>2 DEF DropStep, CallStates
<1>3. ASSUME NEW readable \in BOOLEAN, StepReturns(s, readable)
      PROVE  /\ calls_' \in [Step -> CallStates]
             /\ calls_'[s].at = "awaiting" => calls_'[s].closure = "live"
             /\ \A t \in Step \ {s} : calls_'[t] = calls_[t]
             /\ UNCHANGED <<instance, run_, steps, entered>>
  <2> DEFINE got == IF steps[s].kept = "error" THEN "error" ELSE IF readable THEN "value" ELSE "unreadable"
  <2>1. got \in {"none", "value", "unreadable", "error"}
    OBVIOUS
  <2>2. calls_' = [calls_ EXCEPT ![s] = [at |-> "done", closure |-> "freed", got |-> got]]
          /\ UNCHANGED <<instance, run_, steps, entered>>
    BY <1>3 DEF StepReturns
  <2> HIDE DEF got
  <2> QED
    BY <2>1, <2>2 DEF CallStates
<1> QED
  BY <1>1, <1>2, <1>3 DEF CallActions

(* What moves the run or the instance as a whole, and leaves no call that   *)
(* is awaited without its closure.                                          *)
RunActions ==
  \/ \E raw \in [payload : BOOLEAN, timestamp : {TRUE}, instanceId : {TRUE}] : StartRun(raw)
  \/ \E ok \in BOOLEAN : RunReturns(ok)
  \/ RunSettles \/ Sleeps \/ Wakes

LEMMA RunMoves ==
  ASSUME WfInv, RunActions
  PROVE  /\ instance' \in Statuses /\ run_' \in {"none", "running", "rejected", "fulfilled"}
         /\ calls_' \in [Step -> CallStates] /\ Closures'
         /\ UNCHANGED <<steps, entered>>
<1> USE DEF WfInv, Typed, Closures, Statuses
<1>1. CASE \E raw \in [payload : BOOLEAN, timestamp : {TRUE}, instanceId : {TRUE}] : StartRun(raw)
  BY <1>1, NoCallIsOne DEF StartRun, NoCall
<1>2. CASE \E ok \in BOOLEAN : RunReturns(ok)
  <2>1. run_' \in {"rejected", "fulfilled"} /\ UNCHANGED <<instance, steps, entered>>
          /\ calls_' = [s \in Step |-> [calls_[s] EXCEPT !.closure = "freed"]]
    BY <1>2 DEF RunReturns
  <2> QED
    BY <2>1 DEF CallStates
<1>3. CASE RunSettles \/ Sleeps \/ Wakes
  BY <1>3 DEF RunSettles, Sleeps, Wakes
<1> QED
  BY <1>1, <1>2, <1>3 DEF RunActions

LEMMA ManageMoves ==
  ASSUME WfSensible, WfInv, NEW op \in {"pause", "resume", "terminate", "restart"}, Manage(op)
  PROVE  WfInv' /\ \A s \in Step : steps'[s].pending \subseteq steps[s].pending
<1> USE DEF WfInv, Typed, Closures, Statuses
<1>1. CASE op \in {"pause", "resume", "terminate"}
  <2>1. UNCHANGED <<steps, entered>> /\ instance' \in Statuses
    BY <1>1 DEF Manage
  <2>2. UNCHANGED <<run_, calls_>> \/ (run_' = "none" /\ calls_' = [s \in Step |-> NoCall])
    BY <1>1 DEF Manage
  <2> QED
    BY <2>1, <2>2, NoCallIsOne DEF Final
<1>2. CASE op = "restart"
  <2>1. instance' = "queued" /\ run_' = "none" /\ calls_' = [s \in Step |-> NoCall]
          /\ steps' = [s \in Step |-> NoStep] /\ entered' = [s \in Step |-> {}]
    BY <1>2 DEF Manage
  <2>2. Typed' /\ Closures' /\ Final'
    BY <2>1, NoCallIsOne, NoStepIsOne DEF Final
  <2>3. \A s \in Step : steps'[s].pending = {}
    BY <2>1 DEF NoStep
  <2> QED
    BY <2>2, <2>3
<1> QED
  BY <1>1, <1>2

LEMMA WfStep == WfSensible /\ WfInv /\ [WfNext]_wfVars => WfInv'
<1> SUFFICES ASSUME WfSensible, WfInv, [WfNext]_wfVars PROVE WfInv'
  OBVIOUS
<1> USE DEF WfInv, Typed, Final, Closures
<1>1. CASE RunActions
  BY <1>1, RunMoves
<1>2. CASE IsolateLost
  <2>1. run_' = "none" /\ calls_' = [s \in Step |-> NoCall] /\ UNCHANGED <<instance, entered>>
    BY <1>2 DEF IsolateLost
  <2> QED
    BY <1>2, <2>1, IsolateLostMoves, NoCallIsOne
<1>3. ASSUME NEW op \in {"pause", "resume", "terminate", "restart"}, Manage(op) PROVE WfInv'
  BY <1>3, ManageMoves
<1>4. ASSUME NEW s \in Step, CallActions(s) PROVE WfInv'
  BY <1>4, CallsMove
<1>5. ASSUME NEW s \in Step, AttemptTimesOut(s) PROVE WfInv'
  BY <1>5, AttemptTimesOutMoves
<1>6. ASSUME NEW s \in Step, Exhausted(s) PROVE WfInv'
  BY <1>6, ExhaustedMoves
<1>7. ASSUME NEW s \in Step, NEW raw, Attempt(s, raw) PROVE WfInv'
  BY <1>7, AttemptMoves
<1>8. ASSUME NEW s \in Step, NEW n \in 1..MaxAttempts, NEW o \in {"output", "error", "NonRetryableError"},
             AttemptEnds(s, n, o)
      PROVE  WfInv'
  BY <1>8, AttemptEndsMoves
<1>9. CASE UNCHANGED wfVars
  BY <1>9 DEF wfVars
<1> QED
  BY <1>1, <1>2, <1>3, <1>4, <1>5, <1>6, <1>7, <1>8, <1>9 DEF WfNext, RunActions, CallActions

LEMMA WfInductive == ASSUME WfSensible PROVE WfSpec => []WfInv
<1>1. WfInit => WfInv
  BY WfInitially
<1>2. WfInv /\ [WfNext]_wfVars => WfInv'
  BY WfStep
<1> QED
  BY <1>1, <1>2, PTL DEF WfSpec

-----------------------------------------------------------------------------
(* The state of a Workflow keeps its type: the runtime makes no more        *)
(* attempts than the step's configuration allows.                           *)
THEOREM WorkflowTypeCorrect == WfSpec => []WfTypeOK
<1> SUFFICES ASSUME WfSensible PROVE WfSpec => []WfTypeOK
  BY WorkflowAssumption DEF WfSensible
<1>1. WfInv => WfTypeOK
  BY DEF WfInv, Typed, WfTypeOK, StepStates, CallStates
<1> QED
  BY <1>1, WfInductive, PTL

(* Steps end once, for good and as the worker is told, for any number of    *)
(* steps and attempts: execute keeps an attempt's callback from starting    *)
(* again after a NonRetryableError, and a closure alive while it is awaited.*)
THEOREM WorkflowStepsEndOnce == WfSpec => StepsEndOnce
<1> SUFFICES ASSUME WfSensible PROVE WfSpec => StepsEndOnce
  BY WorkflowAssumption DEF WfSensible
<1> DEFINE
      Once(s) ==
        /\ steps'[s].pending \ steps[s].pending # {} =>
             steps[s].kept = "none" /\ "NonRetryableError" \notin entered[s]
        /\ calls_'[s].got # calls_[s].got /\ calls_'[s].got \in {"value", "unreadable"} => steps[s].kept = "output"
        /\ calls_[s].at = "awaiting" /\ run_ = "running" => calls_[s].closure = "live"
      Completes == instance' = "complete" /\ instance # "complete" => run_ = "fulfilled"
<1>1. ASSUME WfInv, [WfNext]_wfVars, NEW s \in Step, NEW a \in steps'[s].pending \ steps[s].pending
      PROVE  steps[s].kept = "none" /\ "NonRetryableError" \notin entered[s]
  <2>1. PICK t \in Step : \E raw : Attempt(t, raw)
    <3>1. CASE UNCHANGED steps
      BY <1>1, <3>1
    <3>2. CASE IsolateLost
      BY <1>1, <3>2, IsolateLostMoves
    <3>3. ASSUME NEW op \in {"pause", "resume", "terminate", "restart"}, Manage(op) PROVE FALSE
      BY <1>1, <3>3, ManageMoves
    <3>4. ASSUME NEW t \in Step, AttemptTimesOut(t) \/ Exhausted(t) PROVE FALSE
      BY <1>1, <3>4, AttemptTimesOutMoves, ExhaustedMoves
    <3>5. ASSUME NEW t \in Step, NEW n \in 1..MaxAttempts, NEW o \in {"output", "error", "NonRetryableError"},
                 AttemptEnds(t, n, o)
          PROVE  FALSE
      BY <1>1, <3>5, AttemptEndsMoves
    <3>6. ASSUME RunActions \/ (\E t \in Step : CallActions(t)) \/ UNCHANGED wfVars PROVE UNCHANGED steps
      BY <1>1, <3>6, RunMoves, CallsMove DEF wfVars
    <3> QED
      BY <1>1, <3>1, <3>2, <3>3, <3>4, <3>5, <3>6 DEF WfNext, RunActions, CallActions
  <2>2. t = s
    BY <1>1, <2>1, AttemptMoves
  <2> QED
    BY <1>1, <2>1, <2>2, AttemptMoves DEF WfInv, Final
<1>2. ASSUME WfInv, [WfNext]_wfVars, NEW s \in Step, calls_'[s].got # calls_[s].got, calls_'[s].got \in {"value", "unreadable"}
      PROVE  steps[s].kept = "output"
  <2> USE <1>2 DEF WfInv, Typed
  <2>1. ASSUME calls_' = [t \in Step |-> NoCall] PROVE FALSE
    BY <2>1 DEF NoCall
  <2>2. ASSUME UNCHANGED calls_ PROVE FALSE
    BY <2>2
  <2>3. ASSUME NEW ok, RunReturns(ok) PROVE FALSE
    BY <2>3 DEF RunReturns, CallStates
  <2>4. ASSUME NEW t \in Step, CallStep(t) \/ DropStep(t) PROVE FALSE
    BY <2>4 DEF CallStep, DropStep, CallStates
  <2>5. ASSUME NEW t \in Step, NEW readable \in BOOLEAN, StepReturns(t, readable) PROVE steps[s].kept = "output"
    <3> DEFINE got == IF steps[t].kept = "error" THEN "error" ELSE IF readable THEN "value" ELSE "unreadable"
    <3>1. steps[t].kept # "none" /\ calls_' = [calls_ EXCEPT ![t] = [at |-> "done", closure |-> "freed", got |-> got]]
      BY <2>5 DEF StepReturns
    <3>2. t = s /\ calls_'[s].got = got
      BY <3>1
    <3>3. steps[t].kept # "error"
      <4> SUFFICES ASSUME steps[t].kept = "error" PROVE FALSE
        OBVIOUS
      <4>1. got = "error"
        OBVIOUS
      <4> HIDE DEF got
      <4> QED
        BY <3>2, <4>1
    <3>4. steps[t].kept \in {"none", "output", "error"}
      BY DEF StepStates
    <3> QED
      BY <3>1, <3>2, <3>3, <3>4
  <2>6. ASSUME NEW raw, StartRun(raw) PROVE FALSE
    BY <2>1, <2>6 DEF StartRun
  <2>7. ASSUME NEW op \in {"pause", "resume", "terminate", "restart"}, Manage(op) PROVE FALSE
    BY <2>1, <2>2, <2>7 DEF Manage
  <2>8. ASSUME IsolateLost PROVE FALSE
    BY <2>1, <2>8 DEF IsolateLost
  <2>9. ASSUME NEW t \in Step, NEW n \in 1..MaxAttempts, NEW o \in {"output", "error", "NonRetryableError"},
               AttemptEnds(t, n, o)
        PROVE  FALSE
    BY <2>2, <2>9 DEF AttemptEnds
  <2>10. ASSUME NEW t \in Step, NEW raw, Attempt(t, raw) PROVE FALSE
    BY <2>2, <2>10 DEF Attempt
  <2>11. ASSUME NEW t \in Step, AttemptTimesOut(t) \/ Exhausted(t) PROVE FALSE
    BY <2>2, <2>11 DEF AttemptTimesOut, Exhausted
  <2>12. ASSUME RunSettles \/ Sleeps \/ Wakes \/ UNCHANGED wfVars PROVE FALSE
    BY <2>2, <2>12 DEF RunSettles, Sleeps, Wakes, wfVars
  <2> QED
    BY <1>2, <2>3, <2>4, <2>5, <2>6, <2>7, <2>8, <2>9, <2>10, <2>11, <2>12 DEF WfNext
<1>3. ASSUME WfInv, [WfNext]_wfVars, instance' = "complete", instance # "complete" PROVE run_ = "fulfilled"
  <2> USE <1>3
  <2>1. ASSUME UNCHANGED instance PROVE FALSE
    BY <2>1
  <2>2. ASSUME NEW raw, StartRun(raw) PROVE FALSE
    BY <2>2 DEF StartRun
  <2>3. ASSUME NEW op \in {"pause", "resume", "terminate", "restart"}, Manage(op) PROVE FALSE
    BY <2>3 DEF Manage
  <2>4. ASSUME Sleeps \/ Wakes PROVE FALSE
    BY <2>4 DEF Sleeps, Wakes
  <2>5. ASSUME NEW ok, RunReturns(ok) PROVE UNCHANGED instance
    BY <2>5 DEF RunReturns
  <2>6. ASSUME IsolateLost \/ UNCHANGED wfVars PROVE UNCHANGED instance
    BY <2>6 DEF IsolateLost, wfVars
  <2>7. ASSUME NEW s \in Step, CallActions(s) \/ AttemptTimesOut(s) \/ Exhausted(s) PROVE UNCHANGED instance
    BY <2>7 DEF CallActions, CallStep, DropStep, StepReturns, AttemptTimesOut, Exhausted
  <2>8. ASSUME NEW s \in Step, NEW raw, Attempt(s, raw) PROVE UNCHANGED instance
    BY <2>8 DEF Attempt
  <2>9. ASSUME NEW s \in Step, NEW n, NEW o, AttemptEnds(s, n, o) PROVE UNCHANGED instance
    BY <2>9 DEF AttemptEnds
  <2>10. CASE RunSettles
    BY <2>10 DEF RunSettles
  <2> QED
    BY <1>3, <2>1, <2>2, <2>3, <2>4, <2>5, <2>6, <2>7, <2>8, <2>9, <2>10 DEF WfNext, CallActions
<1>4. WfInv /\ [WfNext]_wfVars => [(\A s \in Step : Once(s)) /\ Completes]_wfVars
  BY <1>1, <1>2, <1>3 DEF WfInv, Closures
<1>5. WfInit => WfInv
  BY WfInitially
<1>6. WfInv /\ [WfNext]_wfVars => WfInv'
  BY WfStep
<1> QED
  BY <1>4, <1>5, <1>6, PTL DEF WfSpec, StepsEndOnce
=============================================================================
