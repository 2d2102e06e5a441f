----------------------------- MODULE AbortRecovery -----------------------------
(***************************************************************************)
(* How a worker survives a panic or a trap of its wasm instance: the       *)
(* start-up code of worker/src/init.rs and the class and instance proxies  *)
(* that worker-build puts around every exported class (shim.js when panics *)
(* abort, shim-unwind.js when they unwind).                                *)
(*                                                                         *)
(* JavaScript runs one segment at a time, so an action is a segment: the   *)
(* runtime constructs an object, looks a method up, calls what it looked   *)
(* up, resumes a call when a promise settles, or delivers the rejection of *)
(* an async method.  Between two segments anything may run.  A segment     *)
(* threads the state of the host through its steps, in program order.      *)
(*                                                                         *)
(* wasm-bindgen is not part of the repository.  It is asked for            *)
(* __wbg_reset_state and for abort handlers (worker-build/src/main.rs), and*)
(* is taken to do no more than this: an abort calls the registered handler,*)
(* a scheduled reinitialisation happens before the next exported function  *)
(* or constructor runs, and code of an instance that was replaced is never *)
(* resumed.  Whether an explicit reset forgets a scheduled one is left open.*)
(***************************************************************************)
EXTENDS Naturals

CONSTANTS
    Objects,      \* instances of exported classes, as the runtime sees them
    Calls,        \* slots for calls that are under way at the same time
    AsyncCalls,   \* those that call an async JavaScript function
    MaxGen        \* bound: code fails only while the instance is younger

ASSUME AbortAssumption ==
    /\ AsyncCalls \subseteq Calls
    /\ MaxGen \in Nat

VARIABLES
    host,    \* the wasm instance and globalThis.__worker_init_state
    proxy,   \* the target of each object's proxy
    call     \* the calls under way

vars == <<host, proxy, call>>

\* `unwinds` is the build option --panic-unwind, which chooses the shim.
Host == [unwinds : BOOLEAN, gen : Nat, dead : BOOLEAN, scheduled : BOOLEAN,
         instanceId : Nat, criticalError : BOOLEAN]

\* The instance that an object lives in, the instanceId recorded when it was
\* constructed, and whether a method has run since, so that it has a memory.
NoTarget == [inst |-> 0, id |-> 0, used |-> FALSE]
Target == [inst : Nat \ {0}, id : Nat \ {0}, used : BOOLEAN]

Idle == [pc |-> "idle"]
Call == {Idle} \cup [pc : {"got"}, obj : Objects]
               \cup [pc : {"running"}, obj : Objects, gen : Nat]
               \cup [pc : {"rejecting"}, error : {"error", "RuntimeError"}]

Made(o) == proxy[o] # NoTarget

\* The first instance has started: `init` has counted itself once.
Init ==
    /\ \E u \in BOOLEAN :
          host = [unwinds |-> u, gen |-> 1, dead |-> FALSE, scheduled |-> FALSE,
                  instanceId |-> 1, criticalError |-> FALSE]
    /\ proxy = [o \in Objects |-> NoTarget]
    /\ call = [c \in Calls |-> Idle]

-------------------------------------------------------------------------------
\* What the steps of a segment do to the host.

\* A start function that begins the count anew.
StartFromOne(h) == [h EXCEPT !.instanceId = 1]

\* `init`, the start function of every instance.
Start(h) == [h EXCEPT !.instanceId = @ + 1]

\* wasm-bindgen replaces the instance and runs its start function.
ResetState(h) ==
    {Start([h EXCEPT !.gen = @ + 1, !.dead = FALSE, !.scheduled = s]) :
        s \in {FALSE, h.scheduled}}

\* checkReinitialize that counts a reset it does not make.
CheckReinitializeInName(h) ==
    {IF h.criticalError
     THEN [h EXCEPT !.criticalError = FALSE, !.instanceId = @ + 1]
     ELSE h}

\* checkReinitialize().
CheckReinitialize(h) ==
    IF h.criticalError
    THEN {[r EXCEPT !.criticalError = FALSE, !.instanceId = @ + 1] : r \in ResetState(h)}
    ELSE {h}

\* wasm-bindgen carries out a scheduled reinitialisation before an export runs.
EnterExport(h) ==
    IF h.scheduled
    THEN {[r EXCEPT !.scheduled = FALSE] : r \in ResetState(h)}
    ELSE {h}

\* handleMaybeCritical().
HandleMaybeCritical(h, error) ==
    IF error = "RuntimeError" /\ ~h.unwinds THEN [h EXCEPT !.criticalError = TRUE] ELSE h

\* An abort handler that schedules nothing.
OnAbortIgnored(h) == h

\* on_abort(): schedule_reinit().
OnAbort(h) == [h EXCEPT !.scheduled = TRUE]

\* The panic hook runs before the instance aborts.
PanicHook(h) == IF h.unwinds THEN h ELSE [h EXCEPT !.criticalError = TRUE]

Trap(h) == OnAbort([h EXCEPT !.dead = TRUE])

\* How a failure ends wasm code: an error that is returned is thrown by the glue,
\* a trap aborts the instance; a panic is an exception when panics unwind and a
\* trap otherwise; a JavaScript exception that passes through wasm, which only
\* unwinding builds are made for, costs the others their instance.
Failures(h) ==
    {[host |-> h, error |-> "error"], [host |-> Trap(h), error |-> "RuntimeError"]}
        \cup (IF h.unwinds
              THEN {[host |-> PanicHook(h), error |-> "error"]}
              ELSE {[host |-> Trap(PanicHook(h)), error |-> "RuntimeError"],
                    [host |-> Trap(h), error |-> "error"]})

\* How wasm code that was entered in h ends: with a value or a failure.
RunWasm(h) ==
    {[host |-> h, error |-> "none"]} \cup (IF h.gen < MaxGen THEN Failures(h) ELSE {})

\* Reflect.construct of an exported class.
RunConstructor(h) == UNION {RunWasm(e) : e \in EnterExport(h)}

\* What a proxy records of the object it has just constructed.
Recorded(after) == [inst |-> after.gen, id |-> after.instanceId, used |-> FALSE]

\* The `get` trap without its comparison.
GetUnchecked(h, t) == {[host |-> h, error |-> "none", target |-> t]}

\* The `get` trap that always constructs.
GetAnew(h, t) ==
    {[host |-> r.host, error |-> r.error,
      target |-> IF r.error = "none" THEN Recorded(r.host) ELSE t] : r \in RunConstructor(h)}

\* The `get` trap: an object older than the instance is constructed again.
Get(h, t) ==
    IF t.id # h.instanceId
    THEN {[host |-> r.host, error |-> r.error,
           target |-> IF r.error = "none" THEN Recorded(r.host) ELSE t] :
              r \in RunConstructor(h)}
    ELSE {[host |-> h, error |-> "none", target |-> t]}

-------------------------------------------------------------------------------
\* The `construct` trap of shim.js in both builds.
ConstructOrReset(o) ==
    /\ ~Made(o)
    /\ \E h \in CheckReinitialize(host) : \E r \in RunConstructor(h) :
          IF r.error = "none"
          THEN /\ host' = r.host
               /\ proxy' = [proxy EXCEPT ![o] = Recorded(r.host)]
          ELSE /\ host' = [r.host EXCEPT !.criticalError = TRUE]
               /\ UNCHANGED proxy
    /\ UNCHANGED call

\* The `construct` trap: any exception asks for a reinitialisation.
Construct(o) ==
    /\ ~Made(o)
    /\ \E h \in (IF host.unwinds THEN {host} ELSE CheckReinitialize(host)) :
       \E r \in RunConstructor(h) :
          IF r.error = "none"
          THEN /\ host' = r.host
               /\ proxy' = [proxy EXCEPT ![o] = Recorded(r.host)]
          ELSE /\ host' = IF host.unwinds THEN r.host
                          ELSE [r.host EXCEPT !.criticalError = TRUE]
               /\ UNCHANGED proxy
    /\ UNCHANGED call

\* The runtime looks up a method, which it may call much later; an exception
\* thrown by the trap goes to the runtime.
LookUp(c, o) ==
    /\ call[c] = Idle
    /\ Made(o)
    /\ \E g \in Get(host, proxy[o]) :
          /\ host' = g.host
          /\ proxy' = [proxy EXCEPT ![o] = g.target]
          /\ call' = IF g.error = "none"
                     THEN [call EXCEPT ![c] = [pc |-> "got", obj |-> o]]
                     ELSE call

\* The method reads this.__wbg_ptr, through the proxy, and runs.
Body(h, t) ==
    UNION {IF g.error = "none"
           THEN {[host |-> r.host, error |-> r.error, target |-> [g.target EXCEPT !.used = TRUE]] :
                     r \in RunWasm(g.host)}
           ELSE {g} :
               g \in UNION {Get(e, t) : e \in EnterExport(h)}}

\* The `apply` trap of the method, or the bare method when panics unwind.  It
\* returns a value or the promise of one; a synchronous method's exception is
\* examined at once, an async one's when its promise is rejected.
Apply(c) ==
    /\ call[c].pc = "got"
    /\ LET o == call[c].obj IN
       \E h \in (IF host.unwinds THEN {host} ELSE CheckReinitialize(host)) :
       \E r \in Body(h, proxy[o]) :
          /\ proxy' = [proxy EXCEPT ![o] = r.target]
          /\ IF r.error = "none"
             THEN /\ host' = r.host
                  /\ \E p \in {Idle, [pc |-> "running", obj |-> o, gen |-> r.host.gen]} :
                        call' = [call EXCEPT ![c] = p]
             ELSE IF c \in AsyncCalls
                  THEN /\ host' = r.host
                       /\ call' = [call EXCEPT ![c] = [pc |-> "rejecting", error |-> r.error]]
                  ELSE /\ host' = HandleMaybeCritical(r.host, r.error)
                       /\ call' = [call EXCEPT ![c] = Idle]

\* The catch of the async `apply`.
Rejected(c) ==
    /\ call[c].pc = "rejecting"
    /\ host' = HandleMaybeCritical(host, call[c].error)
    /\ call' = [call EXCEPT ![c] = Idle]
    /\ UNCHANGED proxy

\* A promise that a call awaits settles.  The call goes on in its instance, ends,
\* or aborts it: nobody catches that, the `error` listener hears of it, and the
\* call's own promise does not settle any more.
Resume(c) ==
    /\ call[c].pc = "running"
    /\ call[c].gen = host.gen
    /\ ~host.dead
    /\ \E r \in RunWasm(host) :
          /\ host' = HandleMaybeCritical(r.host, r.error)
          /\ call' = IF r.host.dead THEN call ELSE [call EXCEPT ![c] = Idle]
    /\ UNCHANGED proxy

\* The runtime cancels a call whose instance is gone or dead: its promise can
\* never settle.
Cancel(c) ==
    /\ call[c].pc = "running"
    /\ call[c].gen # host.gen \/ host.dead
    /\ call' = [call EXCEPT ![c] = Idle]
    /\ UNCHANGED <<host, proxy>>

\* The runtime evicts an object that has no call under way.
Evict(o) ==
    /\ Made(o)
    /\ \A c \in Calls : call[c].pc \in {"got", "running"} => call[c].obj # o
    /\ proxy' = [proxy EXCEPT ![o] = NoTarget]
    /\ UNCHANGED <<host, call>>

Next ==
    \/ \E o \in Objects : Construct(o) \/ Evict(o)
    \/ \E c \in Calls, o \in Objects : LookUp(c, o)
    \/ \E c \in Calls : Apply(c) \/ Rejected(c) \/ Resume(c) \/ Cancel(c)

Spec == Init /\ [][Next]_vars

\* Requests keep coming, and what the runtime has begun goes on.
LiveSpec ==
    /\ Spec
    /\ \A o \in Objects : WF_vars(Construct(o))
    /\ \A c \in Calls, o \in Objects : WF_vars(LookUp(c, o))
    /\ \A c \in Calls : WF_vars(Apply(c)) /\ WF_vars(Rejected(c)) /\ WF_vars(Cancel(c))

-------------------------------------------------------------------------------
\* The variables keep their types, and nothing is younger than the instance.
TypeOK ==
    /\ host \in Host
    /\ proxy \in [Objects -> {NoTarget} \cup Target]
    /\ call \in [Calls -> Call]
    /\ \A o \in Objects : proxy[o].inst <= host.gen /\ proxy[o].id <= host.instanceId
    /\ \A c \in Calls : call[c].pc = "running" => call[c].gen <= host.gen

\* instanceId is all that the shims know of the instances: the number that a
\* proxy recorded is the current one exactly when its object lives in the
\* current instance, although a reset may bump the number once (init) or twice
\* (init and checkReinitialize).
IdTellsInstance ==
    \A o \in Objects : Made(o) =>
        (proxy[o].id = host.instanceId <=> proxy[o].inst = host.gen)

\* A call never starts with the pointer of an object of another instance, nor in
\* an instance that has aborted, however long ago its method was looked up.
StartsInCurrent ==
    [][\A c \in Calls : call[c].pc = "got" /\ call'[c].pc = "running" =>
          /\ proxy'[call[c].obj].inst = call'[c].gen
          /\ call'[c].gen = host'.gen
          /\ ~host'.dead]_vars

\* What an object has in memory is given up only with its instance: a proxy never
\* constructs a used object again while the old one could still be used.
ObjectKept ==
    [][\A o \in Objects :
          proxy[o].used /\ ~proxy'[o].used /\ proxy'[o] # NoTarget =>
              proxy[o].inst # host'.gen]_vars

\* When panics unwind, only an abort costs the other calls their instance: a
\* panic or an exception fails its own request (README.md, "Panic Recovery with --panic-unwind").
OthersAreSpared == [][host.unwinds /\ host'.gen # host.gen => host.dead]_vars

\* A worker that is still asked for something recovers from every abort.
Heals == host.dead ~> ~host.dead

\* README.md: without --panic-unwind, "any panic will terminate the isolate".
\* An instance that has aborted would then never be replaced.
DeathIsFinal == [][host.dead /\ ~host.unwinds => host'.gen = host.gen]_vars
===============================================================================
