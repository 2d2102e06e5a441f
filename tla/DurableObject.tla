---------------------------- MODULE DurableObject ----------------------------
(***************************************************************************)
(* A Durable Object as durable.rs gives it to a worker: its construction,  *)
(* the gate of block_concurrency_while, the handlers that interleave at    *)
(* their awaits, the storage, transactions and the alarm.  What the        *)
(* runtime does with the calls (input gate, snapshots, alarms, resets) is  *)
(* external.  A value that JavaScript returns is abstracted to its kind.   *)
(***************************************************************************)
EXTENDS Naturals, FiniteSets

CONSTANTS
  Handler,   \* events that may be under way at once
  Key, Value, Missing,
  MaxTime    \* of the clock

(* The words for who holds the gate or a transaction are not handlers.      *)
ASSUME ObjectAssumption == MaxTime \in Nat /\ Handler \cap {"new", "nobody", "cancelled"} = {}

VARIABLES
  object,  \* is it there, did its constructor start an initialisation, is that over
  blocks,  \* the futures of block_concurrency_while that are pending: the gate
  hs,      \* the handlers
  disk,    \* the storage
  txn,     \* the transaction that is open
  alarm, now

doVars == <<object, blocks, hs, disk, txn, alarm, now>>

NoTxn == [owner |-> "nobody", said |-> "nothing", promise |-> "pending", rolled |-> FALSE,
          work |-> [k \in Key |-> Missing]]
NoAlarm == [set |-> FALSE, at |-> 0, notBefore |-> 0]
Idle == [at |-> "idle", got |-> "nothing"]
Gone == [up |-> FALSE, asked |-> FALSE, ready |-> FALSE]

Results == {"nothing", "None", "Some", "Ok", "Err"}

DoTypeOK ==
  /\ object \in [up : BOOLEAN, asked : BOOLEAN, ready : BOOLEAN]
  /\ blocks \subseteq Handler \cup {"new"}
  /\ hs \in [Handler -> [at : {"idle", "running", "blocking", "opening", "txn"}, got : Results]]
  /\ disk \in [Key -> Value \cup {Missing}]
  /\ txn \in [owner : Handler \cup {"nobody", "cancelled"}, said : {"nothing", "Ok", "Err"},
              promise : {"pending", "fulfilled", "rejected"}, rolled : BOOLEAN,
              work : [Key -> Value \cup {Missing}]]
  /\ alarm \in [set : BOOLEAN, at : 0..2 * MaxTime, notBefore : 0..2 * MaxTime]
  /\ now \in 0..MaxTime

DoInit ==
  /\ object = Gone /\ blocks = {} /\ hs = [h \in Handler |-> Idle]
  /\ disk = [k \in Key |-> Missing]
  /\ txn = NoTxn /\ alarm = NoAlarm /\ now = 0

HandlerAt(h, p) == hs[h].at = p
Answer(h, p, result) == hs' = [hs EXCEPT ![h] = [at |-> p, got |-> result]]

-----------------------------------------------------------------------------
(* How the methods turn what the promise gave, js, into a Result.           *)
Convert(op, js) ==
  IF js = "throws" THEN "Err"
  ELSE CASE op = "get"                      -> IF js = "undefined" THEN "None" ELSE "Some"
         [] op = "transaction get"          -> IF js = "undefined" THEN "Err" ELSE "Ok"
         [] op = "delete"                   -> IF js = "bool" THEN "Ok" ELSE "Err"
         [] op = "delete_multiple"          -> IF js = "number" THEN "Ok" ELSE "Err"
         [] op \in {"get_multiple", "list"} -> IF js = "map" THEN "Ok" ELSE "Err"
         [] op = "get_alarm"                -> IF js = "number" THEN "Some" ELSE "None"
         [] OTHER                           -> "Ok"

StorageOps == {"get", "get_multiple", "put", "put_multiple", "delete", "delete_multiple", "delete_all", "list"}

(* put_multiple and list_with_options check or serialize their argument     *)
(* before they call the runtime: what is no object is not stored.           *)
Refused(op) == op = "put_multiple"

(* The runtime's storage: what an operation on the keys ks does and returns.*)
Applied(store, op, ks, v) ==
  [k \in Key |-> CASE op \in {"put", "put_multiple"} /\ k \in ks       -> v
                   [] op \in {"delete", "delete_multiple"} /\ k \in ks -> Missing
                   [] op = "delete_all"                                -> Missing
                   [] OTHER                                            -> store[k]]

Returned(store, op, ks) ==
  CASE op \in {"get", "transaction get"}  -> IF \A k \in ks : store[k] = Missing THEN "undefined" ELSE "value"
    [] op \in {"get_multiple", "list"}    -> "map"
    [] op = "delete"                      -> "bool"
    [] op = "delete_multiple"             -> "number"
    [] OTHER                              -> "undefined"

Keys(op) == IF op \in {"get", "transaction get", "put", "delete"} THEN {{k} : k \in Key}
            ELSE SUBSET Key

-----------------------------------------------------------------------------
\* Mutant of BlockConcurrencyWhile: the runtime is called when the future is polled.
BlockConcurrencyLazily(b, awaited) == blocks' = IF awaited THEN blocks \cup {b} ELSE blocks

(* The runtime is called, and closes the gate, whether or not the future    *)
(* that is returned will be awaited.                                        *)
BlockConcurrencyWhile(b, awaited) == blocks' = blocks \cup {b}

(* DurableObject::new is synchronous; it may start an initialisation and    *)
(* discard the future.                                                      *)
Construct ==
  /\ ~object.up
  /\ \/ object' = [up |-> TRUE, asked |-> FALSE, ready |-> FALSE] /\ UNCHANGED blocks
     \/ object' = [up |-> TRUE, asked |-> TRUE, ready |-> FALSE] /\ BlockConcurrencyWhile("new", FALSE)
  /\ UNCHANGED <<hs, disk, txn, alarm, now>>

(* The runtime delivers an event while the gate is open: a request, or the  *)
(* alarm when its time has come.                                            *)
Deliver(h) ==
  /\ object.up /\ blocks = {} /\ HandlerAt(h, "idle")
  /\ Answer(h, "running", "nothing")
  /\ \/ UNCHANGED alarm
     \/ alarm.set /\ alarm.at <= now /\ alarm' = NoAlarm
  /\ UNCHANGED <<object, blocks, disk, txn, now>>

(* A handler blocks the others; the runtime may refuse at once.             *)
HandlerBlocks(h) ==
  /\ HandlerAt(h, "running")
  /\ \/ Answer(h, "blocking", "nothing") /\ BlockConcurrencyWhile(h, TRUE)
     \/ Answer(h, "running", "Err") /\ UNCHANGED blocks
  /\ UNCHANGED <<object, disk, txn, alarm, now>>

(* The future ends with a value, which the slot carries to who awaits it,   *)
(* if that is still there.                                                  *)
BlockEnds(b) ==
  /\ b \in blocks /\ blocks' = blocks \ {b}
  /\ IF b = "new" THEN object' = [object EXCEPT !.ready = TRUE] /\ UNCHANGED hs
                  ELSE (IF HandlerAt(b, "blocking") THEN Answer(b, "running", "Ok") ELSE UNCHANGED hs) /\ UNCHANGED object
  /\ UNCHANGED <<disk, txn, alarm, now>>

(* The object is gone, with its handlers and what they have not committed:  *)
(* the future failed or took too long, or the object was evicted.           *)
Reset ==
  /\ object.up
  /\ object' = Gone /\ blocks' = {} /\ hs' = [h \in Handler |-> Idle] /\ txn' = NoTxn
  /\ UNCHANGED <<disk, alarm, now>>

-----------------------------------------------------------------------------
(* Storage: the operation fails or is applied; the runtime keeps operations *)
(* of other handlers out while a transaction is open.                       *)
StorageOp(h) ==
  /\ HandlerAt(h, "running") /\ txn = NoTxn
  /\ \E op \in StorageOps, v \in Value : \E ks \in Keys(op) :
       \/ Refused(op) /\ Answer(h, "running", "Err") /\ UNCHANGED disk
       \/ Answer(h, "running", Convert(op, "throws")) /\ UNCHANGED disk
       \/ disk' = Applied(disk, op, ks, v) /\ Answer(h, "running", Convert(op, Returned(disk, op, ks)))
  /\ UNCHANGED <<object, blocks, txn, alarm, now>>

(* transaction(closure): the runtime has the closure, which is dropped with *)
(* the handler's future; once called it runs as a promise of its own.       *)
CallTransaction(h) ==
  /\ HandlerAt(h, "running") /\ Answer(h, "opening", "nothing")
  /\ UNCHANGED <<object, blocks, disk, txn, alarm, now>>

EnterTransaction(h) ==
  /\ HandlerAt(h, "opening") /\ txn = NoTxn
  /\ Answer(h, "txn", "nothing")
  /\ txn' = [NoTxn EXCEPT !.owner = h, !.work = disk]
  /\ UNCHANGED <<object, blocks, disk, alarm, now>>

InClosure == txn # NoTxn /\ txn.said = "nothing"

(* A method of Transaction.  The closure returns early on an Err, or not.   *)
TransactionOp ==
  /\ InClosure /\ ~txn.rolled
  /\ \E op \in (StorageOps \ {"get"}) \cup {"transaction get"}, v \in Value : \E ks \in Keys(op) :
       LET result == Convert(op, Returned(txn.work, op, ks)) IN
       \/ /\ result = "Ok"
          /\ txn' = [txn EXCEPT !.work = Applied(@, op, ks, v)]
       \/ /\ result = "Err"
          /\ txn' = [txn EXCEPT !.said = "Err", !.promise = "rejected"]
  /\ UNCHANGED <<object, blocks, hs, disk, alarm, now>>

Rollback ==
  /\ InClosure
  /\ txn' = [txn EXCEPT !.rolled = TRUE]
  /\ UNCHANGED <<object, blocks, hs, disk, alarm, now>>

\* Mutant of ClosureEnds: the promise does not tell an error.
ClosureEndsWell(result) ==
  /\ InClosure
  /\ txn' = [txn EXCEPT !.said = result, !.promise = "fulfilled"]
  /\ UNCHANGED <<object, blocks, hs, disk, alarm, now>>

(* The closure's Result settles the promise that the runtime waits for.     *)
ClosureEnds(result) ==
  /\ InClosure
  /\ txn' = [txn EXCEPT !.said = result, !.promise = IF result = "Ok" THEN "fulfilled" ELSE "rejected"]
  /\ UNCHANGED <<object, blocks, hs, disk, alarm, now>>

(* The runtime commits what a fulfilled promise has written and was not     *)
(* rolled back; it may fail to.                                             *)
TransactionEnds ==
  /\ txn.promise # "pending" /\ txn' = NoTxn
  /\ \E commits \in {FALSE, txn.promise = "fulfilled"} :
       /\ disk' = IF commits /\ ~txn.rolled THEN txn.work ELSE disk
       /\ IF txn.owner \in Handler
            THEN Answer(txn.owner, "running", Convert("transaction", IF commits THEN "undefined" ELSE "throws"))
            ELSE UNCHANGED hs
  /\ UNCHANGED <<object, blocks, alarm, now>>

-----------------------------------------------------------------------------
\* Mutant of Schedule: an offset is taken for a time.
ScheduleAbsolute(init) == init.ms

(* ScheduledTime: a date, or an offset from the time of the call.           *)
Schedule(init) == IF init.kind = "date" THEN init.ms ELSE now + init.ms

SetAlarm(h) ==
  /\ HandlerAt(h, "running")
  /\ \E init \in [kind : {"date", "offset"}, ms : 0..MaxTime] :
       \/ /\ alarm' = [set |-> TRUE, at |-> Schedule(init),
                       notBefore |-> IF init.kind = "offset" THEN now + init.ms ELSE init.ms]
          /\ Answer(h, "running", Convert("set_alarm", "undefined"))
       \/ UNCHANGED alarm /\ Answer(h, "running", Convert("set_alarm", "throws"))
  /\ UNCHANGED <<object, blocks, disk, txn, now>>

GetAlarm(h) ==
  /\ HandlerAt(h, "running")
  /\ \E js \in {"throws", IF alarm.set THEN "number" ELSE "null"} : Answer(h, "running", Convert("get_alarm", js))
  /\ UNCHANGED <<object, blocks, disk, txn, alarm, now>>

DeleteAlarm(h) ==
  /\ HandlerAt(h, "running")
  /\ alarm' = NoAlarm /\ Answer(h, "running", Convert("delete_alarm", "undefined"))
  /\ UNCHANGED <<object, blocks, disk, txn, now>>

Tick ==
  /\ now < MaxTime /\ now' = now + 1
  /\ UNCHANGED <<object, blocks, hs, disk, txn, alarm>>

(* The handler returns, or its future is dropped: a closure that was not    *)
(* yet called is dropped too; a transaction goes on without it, and so does *)
(* the future that the gate is closed for.                                  *)
HandlerEnds(h) ==
  /\ ~HandlerAt(h, "idle")
  /\ hs' = [hs EXCEPT ![h] = Idle]
  /\ txn' = IF txn.owner = h THEN [txn EXCEPT !.owner = "cancelled"] ELSE txn
  /\ UNCHANGED <<object, blocks, disk, alarm, now>>

DoNext ==
  \/ Construct \/ Reset \/ TransactionOp \/ Rollback \/ TransactionEnds \/ Tick
  \/ \E result \in {"Ok", "Err"} : ClosureEnds(result)
  \/ \E b \in blocks : BlockEnds(b)
  \/ \E h \in Handler : \/ Deliver(h) \/ HandlerBlocks(h) \/ StorageOp(h)
                        \/ CallTransaction(h) \/ EnterTransaction(h)
                        \/ SetAlarm(h) \/ GetAlarm(h) \/ DeleteAlarm(h) \/ HandlerEnds(h)

DoSpec == DoInit /\ [][DoNext]_doVars

-----------------------------------------------------------------------------
(* No event reaches an object before the initialisation that its            *)
(* constructor started, and did not wait for, is over; and no alarm before  *)
(* its time, counted from the call that set it.                             *)
EventsWait ==
  [][\A h \in Handler :
       HandlerAt(h, "idle") /\ HandlerAt(h, "running")' =>
         /\ object.asked => object.ready
         /\ alarm # alarm' => alarm.notBefore <= now]_doVars

(* A transaction leaves all that its closure has written or nothing: all of *)
(* it only if the closure returned Ok and did not roll back; and a handler  *)
(* that is told Ok finds it done, however handlers, cancellation and        *)
(* failures interleave.                                                     *)
TransactionsAreAtomic ==
  [][txn # NoTxn /\ txn' = NoTxn =>
       /\ disk' = disk \/ (disk' = txn.work /\ txn.said = "Ok" /\ ~txn.rolled)
       /\ \A h \in Handler : txn.owner = h /\ hs'[h].got = "Ok" =>
            txn.said = "Ok" /\ (txn.rolled \/ disk' = txn.work)]_doVars
=============================================================================
