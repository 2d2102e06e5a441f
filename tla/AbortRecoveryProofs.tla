--------------------------- MODULE AbortRecoveryProofs ---------------------------
(***************************************************************************)
(* Proofs about AbortRecovery, for any number of objects, calls and        *)
(* instances and for both ways of panicking.                               *)
(*                                                                         *)
(* A segment threads the host through a few steps.  Each step either keeps *)
(* the instance and its number or moves both on (Advances); what a proxy   *)
(* recorded fits the host it was recorded in (Fits) and every later one.   *)
(***************************************************************************)
EXTENDS AbortRecovery, TLAPS

Sound(h) ==
    /\ h \in Host
    /\ h.gen > 0 /\ h.instanceId > 0
    /\ h.dead => h.scheduled

Advances(h, k) ==
    \/ k.gen = h.gen /\ k.instanceId = h.instanceId
    \/ k.gen > h.gen /\ k.instanceId > h.instanceId

\* The step from h to k.
Leads(h, k) == Sound(k) /\ Advances(h, k)

Fits(h, t) ==
    \/ t = NoTarget
    \/ /\ t \in Target
       /\ t.inst <= h.gen /\ t.id <= h.instanceId
       /\ t.id = h.instanceId <=> t.inst = h.gen

\* An object that is being used has been made.
UsedIsMade ==
    \A c \in Calls : call[c].pc \in {"got", "running"} => Made(call[c].obj)

FutureOK == \A c \in Calls : call[c].pc = "running" => call[c].gen <= host.gen

Inv ==
    /\ Sound(host)
    /\ proxy \in [Objects -> {NoTarget} \cup Target]
    /\ \A o \in Objects : Fits(host, proxy[o])
    /\ call \in [Calls -> Call]
    /\ FutureOK
    /\ UsedIsMade

-------------------------------------------------------------------------------
LEMMA LeadsTransitive ==
    ASSUME NEW h, NEW k, NEW m, Sound(h), Leads(h, k), Leads(k, m)
    PROVE  Leads(h, m)
  BY DEF Sound, Leads, Advances, Host

LEMMA FitsLater ==
    ASSUME NEW h, NEW k, NEW t, Sound(h), Leads(h, k), Fits(h, t)
    PROVE  Fits(k, t)
  BY DEF Sound, Leads, Advances, Fits, Host, Target, NoTarget

LEMMA RecordedFits ==
    ASSUME NEW h, Sound(h)
    PROVE  Fits(h, Recorded(h)) /\ Recorded(h).inst = h.gen /\ Recorded(h) \in Target
  BY DEF Sound, Fits, Host, Target, Recorded

LEMMA ResetLeads ==
    ASSUME NEW h, Sound(h), NEW k \in ResetState(h)
    PROVE  /\ Leads(h, k) /\ ~k.dead
           /\ k.gen > h.gen /\ k.instanceId > h.instanceId
<1>1. PICK s \in {FALSE, h.scheduled} :
          k = Start([h EXCEPT !.gen = @ + 1, !.dead = FALSE, !.scheduled = s])
  BY DEF ResetState
<1>2. h \in Host /\ s \in BOOLEAN
  BY <1>1 DEF Sound, Host
<1>3. DEFINE a == [h EXCEPT !.gen = @ + 1]
             b == [a EXCEPT !.dead = FALSE]
             d == [b EXCEPT !.scheduled = s]
<1>4. a \in Host /\ a.gen = h.gen + 1 /\ a.instanceId = h.instanceId
  BY <1>2 DEF Host
<1>5. b \in Host /\ b.gen = a.gen /\ b.instanceId = a.instanceId /\ b.dead = FALSE
  <2>. HIDE DEF a
  <2>. QED
    BY <1>4 DEF Host
<1>6. d \in Host /\ d.gen = b.gen /\ d.instanceId = b.instanceId /\ d.dead = b.dead
  <2>. HIDE DEF a, b
  <2>. QED
    BY <1>2, <1>5 DEF Host
<1>7. k = [d EXCEPT !.instanceId = @ + 1]
  BY <1>1 DEF Start
<1>8. k \in Host /\ k.gen = d.gen /\ k.instanceId = d.instanceId + 1 /\ k.dead = d.dead
  <2>. HIDE DEF a, b, d
  <2>. QED
    BY <1>6, <1>7 DEF Host
<1>. QED
  <2>. HIDE DEF a, b, d
  <2>1. k.gen = h.gen + 1 /\ k.instanceId = h.instanceId + 1 /\ k.dead = FALSE
    BY <1>4, <1>5, <1>6, <1>8
  <2>2. h.gen \in Nat /\ h.instanceId \in Nat
    BY <1>2 DEF Host
  <2>. QED
    BY <1>8, <2>1, <2>2 DEF Sound, Leads, Advances

LEMMA CheckLeads ==
    ASSUME NEW h, Sound(h), NEW k \in CheckReinitialize(h)
    PROVE  Leads(h, k)
<1>1. CASE h.criticalError
  <2>1. PICK r \in ResetState(h) :
            k = [r EXCEPT !.criticalError = FALSE, !.instanceId = @ + 1]
    BY <1>1 DEF CheckReinitialize
  <2>2. Leads(h, r)
    BY ResetLeads
  <2>3. DEFINE q == [r EXCEPT !.criticalError = FALSE]
  <2>4. /\ q \in Host /\ q.gen = r.gen /\ q.instanceId = r.instanceId
        /\ q.dead = r.dead /\ q.scheduled = r.scheduled
    BY <2>2 DEF Leads, Sound, Host
  <2>5. k = [q EXCEPT !.instanceId = @ + 1]
    BY <2>1
  <2>6. /\ k \in Host /\ k.gen = q.gen /\ k.instanceId = q.instanceId + 1
        /\ k.dead = q.dead /\ k.scheduled = q.scheduled
    <3>. HIDE DEF q
    <3>. QED
      BY <2>4, <2>5 DEF Host
  <2>7. r.gen > h.gen /\ r.instanceId > h.instanceId
    BY ResetLeads
  <2>. QED
    <3>. HIDE DEF q
    <3>. QED
      BY <2>2, <2>4, <2>6, <2>7 DEF Leads, Sound, Advances, Host
<1>2. CASE ~h.criticalError
  BY <1>2 DEF CheckReinitialize, Leads, Advances, Sound
<1>. QED
  BY <1>1, <1>2

LEMMA EnterLeads ==
    ASSUME NEW h, Sound(h), NEW k \in EnterExport(h)
    PROVE  Leads(h, k) /\ ~k.dead
<1>1. CASE h.scheduled
  <2>1. PICK r \in ResetState(h) : k = [r EXCEPT !.scheduled = FALSE]
    BY <1>1 DEF EnterExport
  <2>2. Leads(h, r) /\ ~r.dead
    BY ResetLeads
  <2>. QED
    BY <2>1, <2>2 DEF Leads, Sound, Advances, Host
<1>2. CASE ~h.scheduled
  BY <1>2 DEF EnterExport, Leads, Advances, Sound
<1>. QED
  BY <1>1, <1>2

LEMMA HandleLeads ==
    ASSUME NEW h, Sound(h), NEW e
    PROVE  Leads(h, HandleMaybeCritical(h, e))
  BY DEF HandleMaybeCritical, Leads, Advances, Sound, Host

LEMMA RunWasmLeads ==
    ASSUME NEW h, Sound(h), NEW r \in RunWasm(h)
    PROVE  /\ Leads(h, r.host)
           /\ r.host.gen = h.gen
           /\ r.error \in {"none", "error", "RuntimeError"}
           /\ r.error = "none" => r.host = h
<1>1. r = [host |-> h, error |-> "none"]
        \/ r = [host |-> h, error |-> "error"]
        \/ r = [host |-> Trap(h), error |-> "RuntimeError"]
        \/ r = [host |-> PanicHook(h), error |-> "error"]
        \/ r = [host |-> Trap(PanicHook(h)), error |-> "RuntimeError"]
        \/ r = [host |-> Trap(h), error |-> "error"]
  BY DEF RunWasm, Failures
<1>2. Leads(h, h)
  BY DEF Leads, Advances
<1>3. Leads(h, Trap(h)) /\ Trap(h).gen = h.gen
  BY DEF Leads, Advances, Sound, Host, Trap, OnAbort
<1>4. Leads(h, PanicHook(h)) /\ PanicHook(h).gen = h.gen
  BY DEF Leads, Advances, Sound, Host, PanicHook
<1>5. Leads(h, Trap(PanicHook(h))) /\ Trap(PanicHook(h)).gen = h.gen
  BY DEF Leads, Advances, Sound, Host, PanicHook, Trap, OnAbort
<1>. QED
  BY <1>1, <1>2, <1>3, <1>4, <1>5

LEMMA ConstructorLeads ==
    ASSUME NEW h, Sound(h), NEW r \in RunConstructor(h)
    PROVE  /\ Leads(h, r.host)
           /\ r.error \in {"none", "error", "RuntimeError"}
           /\ r.error = "none" => ~r.host.dead
<1>1. PICK e \in EnterExport(h) : r \in RunWasm(e)
  BY DEF RunConstructor
<1>2. Leads(h, e) /\ ~e.dead
  BY EnterLeads
<1>3. Sound(e)
  BY <1>2 DEF Leads
<1>4. /\ Leads(e, r.host)
      /\ r.error \in {"none", "error", "RuntimeError"}
      /\ r.error = "none" => r.host = e
  BY <1>1, <1>3, RunWasmLeads
<1>. QED
  BY <1>2, <1>4, LeadsTransitive

\* What the `get` trap returns: the target fits the host, and when nothing was
\* thrown its object lives in the current instance.
LEMMA GetLeads ==
    ASSUME NEW h, Sound(h), NEW t, t \in Target, Fits(h, t), NEW g \in Get(h, t)
    PROVE  /\ Leads(h, g.host)
           /\ g.error \in {"none", "error", "RuntimeError"}
           /\ g.target \in Target
           /\ Fits(g.host, g.target)
           /\ g.error = "none" => g.target.inst = g.host.gen
           /\ g.error = "none" /\ ~h.dead => ~g.host.dead
           /\ g.target = t \/ t.inst # g.host.gen
<1>1. CASE t.id # h.instanceId
  <2>1. PICK r \in RunConstructor(h) :
            g = [host |-> r.host, error |-> r.error,
                 target |-> IF r.error = "none" THEN Recorded(r.host) ELSE t]
    BY <1>1 DEF Get
  <2>2. /\ Leads(h, r.host)
        /\ r.error \in {"none", "error", "RuntimeError"}
        /\ r.error = "none" => ~r.host.dead
    BY ConstructorLeads
  <2>3. Sound(r.host)
    BY <2>2 DEF Leads
  <2>4. Fits(r.host, t)
    BY <2>2, FitsLater
  <2>5. /\ Fits(r.host, Recorded(r.host))
        /\ Recorded(r.host).inst = r.host.gen
        /\ Recorded(r.host) \in Target
    BY <2>3, RecordedFits
  <2>6. t.inst # r.host.gen
    <3>1. t.inst < h.gen
      BY <1>1 DEF Fits, Target, NoTarget, Sound, Host
    <3>2. r.host.gen >= h.gen
      BY <2>2 DEF Leads, Advances, Sound, Host
    <3>. QED
      BY <3>1, <3>2, <2>3 DEF Sound, Host, Target
  <2>. QED
    BY <2>1, <2>2, <2>4, <2>5, <2>6
<1>2. CASE t.id = h.instanceId
  <2>1. g = [host |-> h, error |-> "none", target |-> t]
    BY <1>2 DEF Get
  <2>2. t.inst = h.gen
    BY <1>2 DEF Fits, Target, NoTarget
  <2>. QED
    BY <2>1, <2>2 DEF Leads, Advances
<1>. QED
  BY <1>1, <1>2

\* The same of a whole method.
LEMMA BodyLeads ==
    ASSUME NEW h, Sound(h), NEW t, t \in Target, Fits(h, t), NEW r \in Body(h, t)
    PROVE  /\ Leads(h, r.host)
           /\ r.error \in {"none", "error", "RuntimeError"}
           /\ r.target \in Target
           /\ Fits(r.host, r.target)
           /\ r.error = "none" => r.target.inst = r.host.gen /\ ~r.host.dead
           /\ r.target.used \/ r.target = t \/ t.inst # r.host.gen
<1>0. PICK e \in EnterExport(h) : \E g \in Get(e, t) :
          r \in (IF g.error = "none"
                 THEN {[host |-> w.host, error |-> w.error, target |-> [g.target EXCEPT !.used = TRUE]] :
                           w \in RunWasm(g.host)}
                 ELSE {g})
  BY DEF Body
<1>1. PICK g \in Get(e, t) :
          r \in (IF g.error = "none"
                 THEN {[host |-> w.host, error |-> w.error, target |-> [g.target EXCEPT !.used = TRUE]] :
                           w \in RunWasm(g.host)}
                 ELSE {g})
  BY <1>0
<1>2. Leads(h, e) /\ ~e.dead
  BY EnterLeads
<1>3. Sound(e) /\ Fits(e, t)
  BY <1>2, FitsLater DEF Leads
<1>4. /\ Leads(e, g.host)
      /\ g.error \in {"none", "error", "RuntimeError"}
      /\ g.target \in Target
      /\ Fits(g.host, g.target)
      /\ g.error = "none" => g.target.inst = g.host.gen /\ ~g.host.dead
      /\ g.target = t \/ t.inst # g.host.gen
  BY <1>2, <1>3, GetLeads
<1>5. Leads(h, g.host) /\ Sound(g.host)
  BY <1>2, <1>4, LeadsTransitive DEF Leads
<1>6. CASE g.error # "none"
  BY <1>1, <1>4, <1>5, <1>6
<1>7. CASE g.error = "none"
  <2>1. PICK w \in RunWasm(g.host) :
            r = [host |-> w.host, error |-> w.error, target |-> [g.target EXCEPT !.used = TRUE]]
    BY <1>1, <1>7
  <2>2. /\ Leads(g.host, w.host)
        /\ w.host.gen = g.host.gen
        /\ w.error \in {"none", "error", "RuntimeError"}
        /\ w.error = "none" => w.host = g.host
    BY <1>5, RunWasmLeads
  <2>3. Fits(w.host, g.target)
    BY <1>4, <1>5, <2>2, FitsLater
  <2>5. /\ r.target \in Target /\ r.target.used
        /\ r.target.inst = g.target.inst /\ r.target.id = g.target.id
    BY <1>4, <2>1 DEF Target
  <2>6. Fits(w.host, r.target)
    BY <1>4, <2>3, <2>5 DEF Fits, Target, NoTarget
  <2>4. Leads(h, w.host)
    BY <1>5, <2>2, LeadsTransitive
  <2>. QED
    BY <1>4, <1>7, <2>1, <2>2, <2>4, <2>5, <2>6
<1>. QED
  BY <1>6, <1>7

-------------------------------------------------------------------------------
LEMMA InitInv == Init => Inv
<1>. SUFFICES ASSUME Init PROVE Inv
  OBVIOUS
<1>1. Sound(host)
  BY DEF Init, Sound, Host
<1>2. proxy \in [Objects -> {NoTarget} \cup Target] /\ \A o \in Objects : Fits(host, proxy[o])
  BY DEF Init, Fits
<1>3. call \in [Calls -> Call] /\ FutureOK /\ UsedIsMade
  BY DEF Init, Call, Idle, FutureOK, UsedIsMade
<1>. QED
  BY <1>1, <1>2, <1>3 DEF Inv

\* A proxy that no step touches, and a call that none does, stay as they should be.
LEMMA OthersKeep ==
    ASSUME Inv, Leads(host, host')
    PROVE  /\ \A o \in Objects : proxy'[o] = proxy[o] => Fits(host', proxy'[o])
           /\ \A c \in Calls : call'[c] = call[c] /\ call[c].pc = "running"
                                    => call'[c].gen <= host'.gen
<1>1. Sound(host)
  BY DEF Inv
<1>2. \A o \in Objects : Fits(host', proxy[o])
  BY <1>1, FitsLater DEF Inv
<1>3. \A c \in Calls : call[c].pc = "running" => call[c].gen \in Nat
  BY DEF Inv, Call, Idle
<1>4. host.gen \in Nat /\ host'.gen \in Nat /\ host.gen <= host'.gen
  BY <1>1 DEF Leads, Sound, Advances, Host
<1>. QED
  BY <1>2, <1>3, <1>4 DEF Inv, FutureOK

\* No object that is made is unmade, no idle call starts.
LEMMA UsedStays ==
    ASSUME Inv,
           \A o \in Objects : Made(o) => proxy'[o] # NoTarget,
           \A c \in Calls : call'[c].pc \in {"got", "running"} =>
               \/ call'[c] = call[c]
               \/ Made(call'[c].obj) /\ call'[c].obj \in Objects
    PROVE  UsedIsMade'
<1>1. \A c \in Calls : call[c].pc \in {"got", "running"} => call[c].obj \in Objects
  BY DEF Inv, Call, Idle
<1>. QED
  BY <1>1 DEF Inv, UsedIsMade, Made

LEMMA ConstructStep ==
    ASSUME Inv, NEW o \in Objects, Construct(o)
    PROVE  Inv' /\ call' = call /\ \A p \in Objects : Made(p) => proxy'[p] = proxy[p]
<1>1. Sound(host)
  BY DEF Inv
<1>2. PICK h \in (IF host.unwinds THEN {host} ELSE CheckReinitialize(host)) :
      \E r \in RunConstructor(h) :
          IF r.error = "none"
          THEN host' = r.host /\ proxy' = [proxy EXCEPT ![o] = Recorded(r.host)]
          ELSE /\ host' = IF host.unwinds THEN r.host ELSE [r.host EXCEPT !.criticalError = TRUE]
               /\ UNCHANGED proxy
  BY DEF Construct
<1>3. Leads(host, h)
  BY <1>1, <1>2, CheckLeads DEF Leads, Advances
<1>4. PICK r \in RunConstructor(h) :
          IF r.error = "none"
          THEN host' = r.host /\ proxy' = [proxy EXCEPT ![o] = Recorded(r.host)]
          ELSE /\ host' = IF host.unwinds THEN r.host ELSE [r.host EXCEPT !.criticalError = TRUE]
               /\ UNCHANGED proxy
  BY <1>2
<1>5. Leads(host, r.host)
  BY <1>1, <1>3, ConstructorLeads, LeadsTransitive DEF Leads
<1>6. Sound(r.host)
  BY <1>5 DEF Leads
<1>7. Leads(host, host')
  <2>1. Leads(host, [r.host EXCEPT !.criticalError = TRUE])
    BY <1>5 DEF Leads, Sound, Advances, Host
  <2>. QED
    BY <1>4, <1>5, <2>1
<1>8. UNCHANGED call
  BY DEF Construct
<1>9. CASE r.error = "none"
  <2>1. proxy' = [proxy EXCEPT ![o] = Recorded(r.host)] /\ host' = r.host
    BY <1>4, <1>9
  <2>2. Fits(r.host, Recorded(r.host)) /\ Recorded(r.host) \in Target
    BY <1>6, RecordedFits
  <2>3. \A p \in Objects : p # o => proxy'[p] = proxy[p]
    BY <2>1 DEF Inv
  <2>4. \A p \in Objects : Fits(host', proxy'[p])
    BY <1>7, <2>1, <2>2, <2>3, OthersKeep DEF Inv
  <2>5. \A p \in Objects : Made(p) => proxy'[p] = proxy[p]
    BY <2>3 DEF Construct
  <2>6. UsedIsMade'
    BY <1>8, <2>5, UsedStays DEF Made
  <2>. QED
    BY <1>6, <1>7, <1>8, <2>1, <2>2, <2>4, <2>5, <2>6, OthersKeep DEF Inv, FutureOK
<1>10. CASE r.error # "none"
  <2>1. UNCHANGED proxy
    BY <1>4, <1>10
  <2>2. UsedIsMade'
    BY <1>8, <2>1 DEF Inv, UsedIsMade, Made
  <2>. QED
    BY <1>7, <1>8, <2>1, <2>2, OthersKeep DEF Inv, FutureOK, Leads
<1>. QED
  BY <1>9, <1>10

LEMMA LookUpStep ==
    ASSUME Inv, NEW c \in Calls, NEW o \in Objects, LookUp(c, o)
    PROVE  /\ Inv'
           /\ \A d \in Calls : call'[d].pc = "running" => call'[d] = call[d]
           /\ \A p \in Objects : proxy'[p] = proxy[p] \/ proxy[p].inst # host'.gen
<1>1. Sound(host) /\ proxy[o] \in Target /\ Fits(host, proxy[o])
  BY DEF Inv, LookUp, Made
<1>2. PICK g \in Get(host, proxy[o]) :
          /\ host' = g.host
          /\ proxy' = [proxy EXCEPT ![o] = g.target]
          /\ call' = IF g.error = "none"
                     THEN [call EXCEPT ![c] = [pc |-> "got", obj |-> o]]
                     ELSE call
  BY DEF LookUp
<1>3. /\ Leads(host, g.host) /\ g.target \in Target /\ Fits(g.host, g.target)
      /\ g.target = proxy[o] \/ proxy[o].inst # g.host.gen
  BY <1>1, <1>2, GetLeads
<1>4. \A p \in Objects : p # o => proxy'[p] = proxy[p]
  BY <1>2 DEF Inv
<1>5. proxy'[o] = g.target
  BY <1>2 DEF Inv
<1>6. \A p \in Objects : Fits(host', proxy'[p])
  BY <1>2, <1>3, <1>4, <1>5, OthersKeep
<1>7. call' \in [Calls -> Call] /\ \A d \in Calls : call'[d].pc = "running" => call'[d] = call[d]
  BY <1>2 DEF Inv, Call, Idle
<1>8. FutureOK'
  BY <1>2, <1>3, <1>7, OthersKeep DEF FutureOK
<1>9. proxy' \in [Objects -> {NoTarget} \cup Target]
  BY <1>2, <1>3 DEF Inv
<1>10. Sound(host')
  BY <1>2, <1>3 DEF Leads
<1>11. UsedIsMade'
  <2>1. \A p \in Objects : Made(p) => proxy'[p] # NoTarget
    BY <1>3, <1>4, <1>5 DEF Made, Target, NoTarget
  <2>2. \A d \in Calls : call'[d] = call[d] \/ call'[d] = [pc |-> "got", obj |-> o]
    BY <1>2 DEF Inv
  <2>. QED
    BY <2>1, <2>2, UsedStays DEF LookUp
<1>. QED
  BY <1>2, <1>3, <1>4, <1>5, <1>6, <1>7, <1>8, <1>9, <1>10, <1>11 DEF Inv

LEMMA ApplyStep ==
    ASSUME Inv, NEW c \in Calls, Apply(c)
    PROVE  /\ Inv'
           /\ \A d \in Calls : d # c => call'[d] = call[d]
           /\ call'[c].pc = "running" =>
                  /\ proxy'[call[c].obj].inst = call'[c].gen
                  /\ call'[c].gen = host'.gen
                  /\ ~host'.dead
           /\ \A p \in Objects :
                  proxy'[p].used \/ proxy'[p] = proxy[p] \/ proxy[p].inst # host'.gen
<1>. DEFINE o == call[c].obj
<1>0. o \in Objects /\ call[c].pc = "got" /\ Made(o)
  BY DEF Apply, Inv, Call, Idle, UsedIsMade
<1>1. Sound(host) /\ Fits(host, proxy[o]) /\ proxy[o] \in Target
  BY <1>0 DEF Inv, Made
<1>2. PICK h \in (IF host.unwinds THEN {host} ELSE CheckReinitialize(host)) :
      \E r \in Body(h, proxy[o]) :
          /\ proxy' = [proxy EXCEPT ![o] = r.target]
          /\ IF r.error = "none"
             THEN /\ host' = r.host
                  /\ \E p \in {Idle, [pc |-> "running", obj |-> o, gen |-> r.host.gen]} :
                        call' = [call EXCEPT ![c] = p]
             ELSE IF c \in AsyncCalls
                  THEN /\ host' = r.host
                       /\ call' = [call EXCEPT ![c] = [pc |-> "rejecting", error |-> r.error]]
                  ELSE /\ host' = HandleMaybeCritical(r.host, r.error)
                       /\ call' = [call EXCEPT ![c] = Idle]
  BY DEF Apply
<1>3. Leads(host, h)
  BY <1>1, <1>2, CheckLeads DEF Leads, Advances
<1>4. PICK r \in Body(h, proxy[o]) :
          /\ proxy' = [proxy EXCEPT ![o] = r.target]
          /\ IF r.error = "none"
             THEN /\ host' = r.host
                  /\ \E p \in {Idle, [pc |-> "running", obj |-> o, gen |-> r.host.gen]} :
                        call' = [call EXCEPT ![c] = p]
             ELSE IF c \in AsyncCalls
                  THEN /\ host' = r.host
                       /\ call' = [call EXCEPT ![c] = [pc |-> "rejecting", error |-> r.error]]
                  ELSE /\ host' = HandleMaybeCritical(r.host, r.error)
                       /\ call' = [call EXCEPT ![c] = Idle]
  BY <1>2
<1>5. Sound(h) /\ Fits(h, proxy[o])
  BY <1>1, <1>3, FitsLater DEF Leads
<1>6. /\ Leads(h, r.host)
      /\ r.error \in {"none", "error", "RuntimeError"}
      /\ r.target \in Target
      /\ Fits(r.host, r.target)
      /\ r.error = "none" => r.target.inst = r.host.gen /\ ~r.host.dead
      /\ r.target.used \/ r.target = proxy[o] \/ proxy[o].inst # r.host.gen
  BY <1>1, <1>4, <1>5, BodyLeads
<1>7. Leads(host, r.host) /\ Sound(r.host)
  BY <1>1, <1>3, <1>6, LeadsTransitive DEF Leads
<1>8. /\ Leads(r.host, host')
      /\ host'.gen = r.host.gen /\ host'.instanceId = r.host.instanceId
  <2>1. Leads(r.host, r.host)
    BY <1>7 DEF Leads, Advances
  <2>2. LET k == HandleMaybeCritical(r.host, r.error)
        IN  Leads(r.host, k) /\ k.gen = r.host.gen /\ k.instanceId = r.host.instanceId
    BY <1>7, HandleLeads DEF HandleMaybeCritical, Sound, Host
  <2>. QED
    BY <1>4, <2>1, <2>2
<1>9. Leads(host, host') /\ Fits(host', r.target) /\ Sound(host')
  BY <1>1, <1>6, <1>7, <1>8, LeadsTransitive, FitsLater DEF Leads
<1>10. /\ proxy'[o] = r.target
       /\ \A p \in Objects : p # o => proxy'[p] = proxy[p]
       /\ proxy' \in [Objects -> {NoTarget} \cup Target]
  BY <1>0, <1>4, <1>6 DEF Inv
<1>11. \A p \in Objects : Fits(host', proxy'[p])
  BY <1>9, <1>10, OthersKeep
<1>12. /\ \A d \in Calls : d # c => call'[d] = call[d]
       /\ \/ call'[c] = Idle
          \/ /\ call'[c] = [pc |-> "running", obj |-> o, gen |-> r.host.gen]
             /\ r.error = "none" /\ host' = r.host
          \/ call'[c] = [pc |-> "rejecting", error |-> r.error] /\ r.error # "none"
       /\ DOMAIN call' = Calls
       /\ call' = [d \in Calls |-> call'[d]]
  BY <1>4 DEF Inv
<1>13. call'[c] \in Call
  <2>1. r.host.gen \in Nat
    BY <1>7 DEF Sound, Host
  <2>. QED
    BY <1>0, <1>6, <1>12, <2>1 DEF Call
<1>14. call' \in [Calls -> Call]
  BY <1>12, <1>13 DEF Inv
<1>15. call'[c].pc = "running" =>
          /\ proxy'[o].inst = call'[c].gen
          /\ call'[c].gen = host'.gen
          /\ ~host'.dead
  BY <1>6, <1>10, <1>12 DEF Idle
<1>16. FutureOK'
  <2>1. \A d \in Calls : d # c => (call'[d].pc = "running" => call'[d].gen <= host'.gen)
    BY <1>9, <1>12, OthersKeep
  <2>2. call'[c].pc = "running" => call'[c].gen <= host'.gen
    BY <1>9, <1>15 DEF Sound, Host
  <2>. QED
    BY <2>1, <2>2 DEF FutureOK
<1>17. UsedIsMade'
  <2>0. r.target # NoTarget
    BY <1>6 DEF Target, NoTarget
  <2>1. \A p \in Objects : Made(p) => proxy'[p] # NoTarget
    BY <1>10, <2>0 DEF Made
  <2>2. \A d \in Calls : call'[d].pc \in {"got", "running"} =>
            \/ call'[d] = call[d]
            \/ Made(call'[d].obj) /\ call'[d].obj \in Objects
    BY <1>0, <1>12 DEF Idle
  <2>. QED
    BY <2>1, <2>2, UsedStays
<1>18. \A p \in Objects :
            proxy'[p].used \/ proxy'[p] = proxy[p] \/ proxy[p].inst # host'.gen
  BY <1>6, <1>8, <1>10
<1>. QED
  BY <1>9, <1>10, <1>11, <1>12, <1>14, <1>15, <1>16, <1>17, <1>18 DEF Inv

\* Steps that leave every proxy alone.
LEMMA CallStep ==
    ASSUME Inv, NEW c \in Calls, Rejected(c) \/ Resume(c) \/ Cancel(c)
    PROVE  /\ Inv' /\ proxy' = proxy
           /\ \A d \in Calls : call'[d].pc = "running" => call'[d] = call[d]
<1>1. Sound(host)
  BY DEF Inv
<1>2. UNCHANGED proxy /\ (call' = call \/ call' = [call EXCEPT ![c] = Idle])
  BY DEF Rejected, Resume, Cancel
<1>3. Leads(host, host')
  <2>1. CASE Rejected(c)
    BY <1>1, <2>1, HandleLeads DEF Rejected
  <2>2. CASE Resume(c)
    <3>1. PICK r \in RunWasm(host) : host' = HandleMaybeCritical(r.host, r.error)
      BY <2>2 DEF Resume
    <3>2. Leads(host, r.host) /\ Sound(r.host)
      BY <1>1, RunWasmLeads DEF Leads
    <3>. QED
      BY <1>1, <3>1, <3>2, HandleLeads, LeadsTransitive
  <2>3. CASE Cancel(c)
    BY <1>1, <2>3 DEF Cancel, Leads, Advances
  <2>. QED
    BY <2>1, <2>2, <2>3
<1>4. /\ call' \in [Calls -> Call]
      /\ \A d \in Calls : call'[d].pc \in {"got", "running"} => call'[d] = call[d]
  BY <1>2 DEF Inv, Call, Idle
<1>5. FutureOK'
  BY <1>3, <1>4, OthersKeep DEF FutureOK
<1>6. UsedIsMade'
  BY <1>2, <1>4, UsedStays DEF Made
<1>7. \A p \in Objects : Fits(host', proxy'[p])
  BY <1>2, <1>3, OthersKeep
<1>. QED
  BY <1>2, <1>3, <1>4, <1>5, <1>6, <1>7 DEF Inv, Leads

LEMMA EvictStep ==
    ASSUME Inv, NEW o \in Objects, Evict(o)
    PROVE  /\ Inv' /\ UNCHANGED <<host, call>>
           /\ \A p \in Objects : proxy'[p] # NoTarget => proxy'[p] = proxy[p]
<1>1. /\ proxy' = [proxy EXCEPT ![o] = NoTarget] /\ UNCHANGED <<host, call>>
      /\ \A c \in Calls : call[c].pc \in {"got", "running"} => call[c].obj # o
  BY DEF Evict
<1>2. /\ proxy' \in [Objects -> {NoTarget} \cup Target]
      /\ proxy'[o] = NoTarget
      /\ \A p \in Objects : p # o => proxy'[p] = proxy[p]
  BY <1>1 DEF Inv
<1>3. UsedIsMade'
  <2>1. \A c \in Calls : call[c].pc \in {"got", "running"} => call[c].obj \in Objects
    BY DEF Inv, Call, Idle
  <2>. QED
    BY <1>1, <1>2, <2>1 DEF Inv, UsedIsMade, Made
<1>4. \A p \in Objects : Fits(host', proxy'[p])
  BY <1>1, <1>2 DEF Inv, Fits
<1>. QED
  BY <1>1, <1>2, <1>3, <1>4 DEF Inv, FutureOK

LEMMA NextInv == Inv /\ [Next]_vars => Inv'
<1>. SUFFICES ASSUME Inv, [Next]_vars PROVE Inv'
  OBVIOUS
<1>1. CASE UNCHANGED vars
  BY <1>1 DEF vars, Inv, FutureOK, UsedIsMade, Made
<1>2. CASE Next
  BY <1>2, ConstructStep, EvictStep, LookUpStep, ApplyStep, CallStep DEF Next
<1>. QED
  BY <1>1, <1>2

\* Inv is an invariant of the specification.
THEOREM Invariance == Spec => []Inv
  BY InitInv, NextInv, PTL DEF Spec

-------------------------------------------------------------------------------
\* Every variable keeps its type, and nothing is younger than the instance.
THEOREM RecoveryTypeCorrect == Spec => []TypeOK
<1>1. Inv => TypeOK
  BY DEF Inv, TypeOK, FutureOK, Fits, Sound, NoTarget, Target, Host
<1>. QED
  BY <1>1, Invariance, PTL

\* The number a proxy recorded tells whether its object lives in the current
\* instance, whatever mixture of resets by the shim and by wasm-bindgen went before.
THEOREM IdIsTelling == Spec => []IdTellsInstance
<1>1. Inv => IdTellsInstance
  BY DEF Inv, IdTellsInstance, Fits, Made
<1>. QED
  BY <1>1, Invariance, PTL

\* No call starts in an instance other than its object's, nor in a dead one.
THEOREM CallsStartInCurrent == Spec => StartsInCurrent
<1>. DEFINE A == \A c \in Calls : call[c].pc = "got" /\ call'[c].pc = "running" =>
                    /\ proxy'[call[c].obj].inst = call'[c].gen
                    /\ call'[c].gen = host'.gen
                    /\ ~host'.dead
<1>1. Inv /\ [Next]_vars => [A]_vars
  <2>. SUFFICES ASSUME Inv, Next PROVE A
    OBVIOUS
  <2>1. CASE \E o \in Objects : Construct(o) \/ Evict(o)
    BY <2>1, ConstructStep, EvictStep
  <2>2. CASE \E c \in Calls, o \in Objects : LookUp(c, o)
    BY <2>2, LookUpStep
  <2>3. CASE \E c \in Calls : Apply(c)
    BY <2>3, ApplyStep
  <2>4. CASE \E c \in Calls : Rejected(c) \/ Resume(c) \/ Cancel(c)
    BY <2>4, CallStep
  <2>. QED
    BY <2>1, <2>2, <2>3, <2>4 DEF Next
<1>. HIDE DEF A
<1>2. Spec => [][A]_vars
  BY <1>1, Invariance, PTL DEF Spec
<1>. QED
  BY <1>2 DEF A, StartsInCurrent

\* An object is constructed anew only when its instance is gone.
THEOREM ObjectsAreKept == Spec => ObjectKept
<1>. DEFINE A == \A o \in Objects :
                    proxy[o].used /\ ~proxy'[o].used /\ proxy'[o] # NoTarget =>
                        proxy[o].inst # host'.gen
<1>1. Inv /\ [Next]_vars => [A]_vars
  <2>. SUFFICES ASSUME Inv, Next PROVE A
    OBVIOUS
  <2>1. CASE \E o \in Objects : Construct(o)
    BY <2>1, ConstructStep DEF Made, NoTarget
  <2>2. CASE \E o \in Objects : Evict(o)
    BY <2>2, EvictStep
  <2>3. CASE \E c \in Calls, o \in Objects : LookUp(c, o)
    BY <2>3, LookUpStep
  <2>4. CASE \E c \in Calls : Apply(c)
    BY <2>4, ApplyStep
  <2>5. CASE \E c \in Calls : Rejected(c) \/ Resume(c) \/ Cancel(c)
    BY <2>5, CallStep
  <2>. QED
    BY <2>1, <2>2, <2>3, <2>4, <2>5 DEF Next
<1>. HIDE DEF A
<1>2. Spec => [][A]_vars
  BY <1>1, Invariance, PTL DEF Spec
<1>. QED
  BY <1>2 DEF A, ObjectKept

-------------------------------------------------------------------------------
\* With unwinding: nothing is scheduled (Settled), only what follows an abort is
\* (Calm), the instance stays (Stays), or goes because it was dead (Spares).
Settled(h) == h.unwinds => ~h.scheduled
Calm(h) == h.unwinds => (h.scheduled => h.dead)
Stays(h, k) == k.unwinds = h.unwinds /\ Calm(k) /\ (h.unwinds => k.gen = h.gen)
Spares(h, k) == k.unwinds = h.unwinds /\ Calm(k) /\ (h.unwinds /\ k.gen # h.gen => h.dead)

LEMMA StaysTransitive ==
    ASSUME NEW h, NEW k, NEW m, Stays(h, k), Stays(k, m)
    PROVE  Stays(h, m)
  BY DEF Stays

LEMMA SparesThenStays ==
    ASSUME NEW h, NEW k, NEW m, Spares(h, k), Stays(k, m)
    PROVE  Spares(h, m)
  BY DEF Stays, Spares

LEMMA EnterSpares ==
    ASSUME NEW h, Sound(h), Calm(h), NEW e \in EnterExport(h)
    PROVE  Spares(h, e) /\ Settled(e) /\ Sound(e)
<1>0. Sound(e)
  BY EnterLeads DEF Leads
<1>1. CASE h.scheduled
  <2>1. PICK r \in ResetState(h) : e = [r EXCEPT !.scheduled = FALSE]
    BY <1>1 DEF EnterExport
  <2>2. r.unwinds = h.unwinds
    BY DEF ResetState, Start, Sound, Host
  <2>3. r \in Host
    BY ResetLeads DEF Leads, Sound
  <2>4. e.unwinds = h.unwinds /\ ~e.scheduled
    BY <2>1, <2>2, <2>3 DEF Host
  <2>. QED
    BY <1>0, <1>1, <2>4 DEF Calm, Spares, Settled
<1>2. CASE ~h.scheduled
  BY <1>0, <1>2 DEF EnterExport, Calm, Spares, Settled
<1>. QED
  BY <1>1, <1>2

LEMMA RunWasmStays ==
    ASSUME NEW h, Sound(h), Settled(h), NEW r \in RunWasm(h)
    PROVE  Stays(h, r.host) /\ Sound(r.host) /\ (r.error = "none" => r.host = h)
<1>0. Sound(r.host) /\ r.host.gen = h.gen /\ (r.error = "none" => r.host = h)
  BY RunWasmLeads DEF Leads
<1>1. r.host = h \/ r.host = PanicHook(h) \/ r.host = Trap(h) \/ r.host = Trap(PanicHook(h))
  BY DEF RunWasm, Failures
<1>2. h.unwinds = PanicHook(h).unwinds /\ h.scheduled = PanicHook(h).scheduled /\ PanicHook(h) \in Host
  BY DEF PanicHook, Sound, Host
<1>3. \A k \in Host : Trap(k).unwinds = k.unwinds /\ Trap(k).dead
  BY DEF Trap, OnAbort, Host
<1>4. h \in Host
  BY DEF Sound
<1>. QED
  BY <1>0, <1>1, <1>2, <1>3, <1>4 DEF Stays, Calm, Settled

LEMMA ConstructorSpares ==
    ASSUME NEW h, Sound(h), Calm(h), NEW r \in RunConstructor(h)
    PROVE  /\ Spares(h, r.host)
           /\ Settled(h) => Stays(h, r.host)
           /\ r.error = "none" => Settled(r.host)
<1>1. PICK e \in EnterExport(h) : r \in RunWasm(e)
  BY DEF RunConstructor
<1>2. Spares(h, e) /\ Settled(e) /\ Sound(e)
  BY EnterSpares
<1>3. Stays(e, r.host) /\ (r.error = "none" => r.host = e)
  BY <1>1, <1>2, RunWasmStays
<1>4. Settled(h) /\ h.unwinds => e = h
  BY DEF Settled, EnterExport
<1>. QED
  BY <1>2, <1>3, <1>4, SparesThenStays DEF Stays, Spares

LEMMA GetSpares ==
    ASSUME NEW h, Sound(h), Calm(h), NEW t, NEW g \in Get(h, t)
    PROVE  /\ Spares(h, g.host)
           /\ Settled(h) => Stays(h, g.host) /\ (g.error = "none" => Settled(g.host))
<1>1. CASE t.id # h.instanceId
  <2>1. PICK r \in RunConstructor(h) : g.host = r.host /\ g.error = r.error
    BY <1>1 DEF Get
  <2>. QED
    BY <2>1, ConstructorSpares
<1>2. CASE t.id = h.instanceId
  <2>1. g.host = h
    BY <1>2 DEF Get
  <2>. QED
    BY <2>1 DEF Spares, Stays
<1>. QED
  BY <1>1, <1>2

LEMMA BodySpares ==
    ASSUME NEW h, Sound(h), Calm(h), NEW t, t \in Target, Fits(h, t), NEW r \in Body(h, t)
    PROVE  Spares(h, r.host)
<1>0. PICK e \in EnterExport(h) : \E g \in Get(e, t) :
          r \in (IF g.error = "none"
                 THEN {[host |-> w.host, error |-> w.error, target |-> [g.target EXCEPT !.used = TRUE]] :
                           w \in RunWasm(g.host)}
                 ELSE {g})
  BY DEF Body
<1>1. PICK g \in Get(e, t) :
          r \in (IF g.error = "none"
                 THEN {[host |-> w.host, error |-> w.error, target |-> [g.target EXCEPT !.used = TRUE]] :
                           w \in RunWasm(g.host)}
                 ELSE {g})
  BY <1>0
<1>2. Spares(h, e) /\ Settled(e) /\ Sound(e) /\ Calm(e)
  BY EnterSpares DEF Spares
<1>3. Stays(e, g.host) /\ (g.error = "none" => Settled(g.host))
  BY <1>2, GetSpares
<1>4. Sound(g.host)
  <2>1. Leads(h, e)
    BY EnterLeads
  <2>2. Fits(e, t)
    BY <2>1, FitsLater
  <2>. QED
    BY <1>2, <2>2, GetLeads DEF Leads
<1>5. Stays(e, r.host)
  <2>1. CASE g.error = "none"
    <3>1. PICK w \in RunWasm(g.host) : r.host = w.host
      BY <1>1, <2>1
    <3>2. Stays(g.host, w.host)
      BY <1>3, <1>4, <2>1, RunWasmStays
    <3>. QED
      BY <1>3, <3>1, <3>2, StaysTransitive
  <2>2. CASE g.error # "none"
    BY <1>1, <1>3, <2>2
  <2>. QED
    BY <2>1, <2>2
<1>. QED
  BY <1>2, <1>5, SparesThenStays

\* A flag that only the other shim's check reads.
LEMMA FlagStays ==
    ASSUME NEW h, Sound(h), Calm(h)
    PROVE  /\ Stays(h, [h EXCEPT !.criticalError = TRUE])
           /\ \A error : Stays(h, HandleMaybeCritical(h, error))
  BY DEF Stays, Calm, Sound, Host, HandleMaybeCritical

\* Without unwinding any host leads to any other of its build.
LEMMA CheckKeepsBuild ==
    ASSUME NEW h, Sound(h), ~h.unwinds, NEW k \in CheckReinitialize(h)
    PROVE  Sound(k) /\ Spares(h, k)
<1>1. Sound(k)
  BY CheckLeads DEF Leads
<1>2. \A r \in ResetState(h) : r.unwinds = h.unwinds /\ r \in Host
  BY ResetLeads DEF ResetState, Start, Leads, Sound, Host
<1>3. k.unwinds = h.unwinds
  BY <1>2 DEF CheckReinitialize, Sound, Host
<1>. QED
  BY <1>1, <1>3 DEF Spares, Calm

LEMMA StepSpares ==
    ASSUME Inv, Calm(host), Next
    PROVE  Spares(host, host')
<1>0. Sound(host)
  BY DEF Inv
<1>1. ASSUME NEW h \in (IF host.unwinds THEN {host} ELSE CheckReinitialize(host))
      PROVE  /\ Sound(h) /\ Calm(h) /\ Leads(host, h)
             /\ \A k : Spares(h, k) => Spares(host, k)
  BY <1>0, <1>1, CheckKeepsBuild, CheckLeads DEF Spares, Leads, Advances
<1>2. ASSUME NEW o \in Objects, Construct(o) PROVE Spares(host, host')
  <2>0. PICK h \in (IF host.unwinds THEN {host} ELSE CheckReinitialize(host)) :
            \E r \in RunConstructor(h) : host' = r.host \/ host' = [r.host EXCEPT !.criticalError = TRUE]
    BY <1>2 DEF Construct
  <2>1. PICK r \in RunConstructor(h) : host' = r.host \/ host' = [r.host EXCEPT !.criticalError = TRUE]
    BY <2>0
  <2>2. Sound(h) /\ Calm(h) /\ \A k : Spares(h, k) => Spares(host, k)
    BY <1>1
  <2>3. Spares(h, r.host) /\ Sound(r.host) /\ Calm(r.host)
    BY <2>2, ConstructorSpares, ConstructorLeads DEF Spares, Leads
  <2>4. Spares(h, [r.host EXCEPT !.criticalError = TRUE])
    BY <2>3, FlagStays, SparesThenStays
  <2>. QED
    BY <2>1, <2>2, <2>3, <2>4
<1>3. ASSUME NEW c \in Calls, NEW o \in Objects, LookUp(c, o) PROVE Spares(host, host')
  <2>1. PICK g \in Get(host, proxy[o]) : host' = g.host
    BY <1>3 DEF LookUp
  <2>. QED
    BY <1>0, <2>1, GetSpares
<1>4. ASSUME NEW c \in Calls, Apply(c) PROVE Spares(host, host')
  <2>0. PICK h \in (IF host.unwinds THEN {host} ELSE CheckReinitialize(host)) :
            \E r \in Body(h, proxy[call[c].obj]) : host' = r.host \/ host' = HandleMaybeCritical(r.host, r.error)
    BY <1>4 DEF Apply
  <2>1. PICK r \in Body(h, proxy[call[c].obj]) : host' = r.host \/ host' = HandleMaybeCritical(r.host, r.error)
    BY <2>0
  <2>2. Sound(h) /\ Calm(h) /\ Leads(host, h) /\ \A k : Spares(h, k) => Spares(host, k)
    BY <1>1
  <2>3. proxy[call[c].obj] \in Target /\ Fits(host, proxy[call[c].obj])
    BY <1>4 DEF Apply, Inv, Call, Idle, UsedIsMade, Made
  <2>4. Fits(h, proxy[call[c].obj])
    BY <1>0, <2>2, <2>3, FitsLater
  <2>5. Spares(h, r.host) /\ Sound(r.host) /\ Calm(r.host)
    BY <2>2, <2>3, <2>4, BodySpares, BodyLeads DEF Spares, Leads
  <2>6. Spares(h, HandleMaybeCritical(r.host, r.error))
    BY <2>5, FlagStays, SparesThenStays
  <2>. QED
    BY <2>1, <2>2, <2>5, <2>6
<1>5. ASSUME NEW c \in Calls, Rejected(c) PROVE Spares(host, host')
  <2>1. host' = HandleMaybeCritical(host, call[c].error)
    BY <1>5 DEF Rejected
  <2>2. Stays(host, host')
    BY <1>0, <2>1, FlagStays
  <2>. QED
    BY <2>2 DEF Stays, Spares
<1>6. ASSUME NEW c \in Calls, Resume(c) PROVE Spares(host, host')
  <2>1. PICK r \in RunWasm(host) : host' = HandleMaybeCritical(r.host, r.error)
    BY <1>6 DEF Resume
  <2>2. Settled(host)
    BY <1>6 DEF Resume, Calm, Settled
  <2>3. Stays(host, r.host) /\ Sound(r.host) /\ Calm(r.host)
    BY <1>0, <2>2, RunWasmStays DEF Stays
  <2>4. Stays(host, host')
    BY <2>1, <2>3, FlagStays, StaysTransitive
  <2>. QED
    BY <2>4 DEF Stays, Spares
<1>7. ASSUME UNCHANGED host PROVE Spares(host, host')
  BY <1>7 DEF Spares
<1>. QED
  BY <1>2, <1>3, <1>4, <1>5, <1>6, <1>7 DEF Next, Evict, Cancel

\* With unwinding, a request that panics or throws costs no other its instance:
\* only an abort does (shim-unwind.js).
THEOREM OthersKeepTheirInstance == Spec => OthersAreSpared
<1>. DEFINE A == host.unwinds /\ host'.gen # host.gen => host.dead
<1>1. Init => Calm(host)
  BY DEF Init, Calm
<1>2. Inv /\ Calm(host) /\ [Next]_vars => Calm(host)' /\ [A]_vars
  <2>1. ASSUME Inv, Calm(host), Next PROVE Calm(host)' /\ A
    BY <2>1, StepSpares DEF Spares, Calm
  <2>2. ASSUME Calm(host), UNCHANGED vars PROVE Calm(host)'
    BY <2>2 DEF vars, Calm
  <2>. QED
    BY <2>1, <2>2
<1>. HIDE DEF A
<1>3. Spec => [][A]_vars
  BY <1>1, <1>2, Invariance, PTL DEF Spec
<1>. QED
  BY <1>3 DEF A, OthersAreSpared
===============================================================================
