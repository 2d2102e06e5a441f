------------------------------- MODULE Workflow -------------------------------
(***************************************************************************)
(* A Workflow instance as workflows.rs and the #[workflow] macro run it:   *)
(* the entrypoint's run is started, awaits steps, and may be started again *)
(* from the beginning, the steps that were persisted answering at once;    *)
(* a step's callback is a closure that JavaScript calls for each attempt,  *)
(* one that timed out going on beside the next.  What the Workflows        *)
(* runtime does with steps and instances is external.                      *)
(***************************************************************************)
EXTENDS Naturals, FiniteSets

E == INSTANCE Errors

CONSTANTS
  Step,
  MaxAttempts   \* the retry limit, plus one

ASSUME WorkflowAssumption == MaxAttempts \in Nat

VARIABLES
  instance,   \* the runtime's status of the instance
  run_,       \* the entrypoint's run: under way, and how it ended
  calls_,     \* WorkflowStepCall: each step's future, and the closure that it owns
  steps,      \* the runtime: each step's output and attempts
  entered     \* history: the errors that callbacks have ended with

wfVars == <<instance, run_, calls_, steps, entered>>

Statuses == {"queued", "running", "paused", "errored", "terminated", "complete", "waiting", "waitingForPause"}

NoStep == [kept |-> "none", attempts |-> 0, pending |-> {}, retry |-> FALSE]
NoCall == [at |-> "none", closure |-> "freed", got |-> "none"]

WfInit ==
  /\ instance = "queued" /\ run_ = "none"
  /\ calls_ = [s \in Step |-> NoCall] /\ steps = [s \in Step |-> NoStep]
  /\ entered = [s \in Step |-> {}]

WfTypeOK ==
  /\ instance \in Statuses
  /\ run_ \in {"none", "running", "rejected", "fulfilled"}
  /\ calls_ \in [Step -> [at : {"none", "awaiting", "dropped", "done"}, closure : {"freed", "live"},
                          got : {"none", "value", "unreadable", "error"}]]
  /\ \A s \in Step : steps[s].attempts \in 0..MaxAttempts

-----------------------------------------------------------------------------
(* WorkflowStatus: a status that this version does not know is Unknown.     *)
StatusOf(js) == IF js \in Statuses THEN js ELSE "Unknown"

(* WorkflowEvent::_from_raw: without payload, timestamp or instanceId there *)
(* is no event; the name of the Workflow and the schedule may be missing.   *)
EventFromRaw(raw) ==
  IF raw.payload /\ raw.timestamp /\ raw.instanceId THEN "event" ELSE "error"

(* WorkflowStepContext::from_raw.                                           *)
ContextFromRaw(raw) == IF raw.step /\ raw.attempt THEN "context" ELSE "error"

(* The runtime starts run, the first time or again after it lost the        *)
(* isolate; an event that is not what Input expects rejects it.             *)
StartRun(raw) ==
  /\ instance \in {"queued", "running", "waiting"} /\ run_ = "none"
  /\ instance' = "running"
  /\ run_' = IF EventFromRaw(raw) = "event" THEN "running" ELSE "rejected"
  /\ calls_' = [s \in Step |-> NoCall]
  /\ UNCHANGED <<steps, entered>>

(* execute: the closure is made and given to the runtime with the name and  *)
(* the configuration, unless that does not serialize.                       *)
CallStep(s) ==
  /\ run_ = "running" /\ instance = "running" /\ calls_[s].at = "none"
  /\ \/ calls_' = [calls_ EXCEPT ![s] = [at |-> "awaiting", closure |-> "live", got |-> "none"]]
     \/ calls_' = [calls_ EXCEPT ![s] = [at |-> "done", closure |-> "freed", got |-> "error"]]
  /\ UNCHANGED <<instance, run_, steps, entered>>

(* The runtime calls the closure for the next attempt of a step that is not *)
(* persisted: a context that cannot be read rejects without the callback,   *)
(* as does a closure that is freed.                                         *)
Attempt(s, raw) ==
  LET n == steps[s].attempts IN
  /\ instance = "running" /\ calls_[s].at \in {"awaiting", "dropped"}
  /\ steps[s].kept = "none" /\ n < MaxAttempts
  /\ n = 0 \/ steps[s].retry
  /\ steps' = [steps EXCEPT ![s].attempts = n + 1,
                            ![s].retry = (ContextFromRaw(raw) = "error" \/ calls_[s].closure = "freed"),
                            ![s].pending = IF ContextFromRaw(raw) = "context" /\ calls_[s].closure = "live"
                                             THEN @ \cup {n + 1} ELSE @]
  /\ UNCHANGED <<instance, run_, calls_, entered>>

(* The runtime gives up on an attempt that is under way; its future goes on.*)
AttemptTimesOut(s) ==
  /\ steps[s].kept = "none" /\ steps[s].pending # {} /\ ~steps[s].retry
  /\ steps' = [steps EXCEPT ![s].retry = TRUE]
  /\ UNCHANGED <<instance, run_, calls_, entered>>

\* Mutant of Rejection: the error is thrown as its text.
RejectionAsText(error) ==
  E!Object("text", "Error", "none", "none")

(* map_err(JsValue::from): what the promise of an attempt is rejected with. *)
Rejection(error) ==
  IF error = "NonRetryableError"
    THEN E!ToJs([variant |-> "Internal", source |-> <<>>, message |-> "none",
                 original |-> E!Object("1", "NonRetryableError", "none", "none")])
    ELSE E!ToJs(E!RustError("text"))

(* The callback of an attempt ends: with an output, which may not           *)
(* serialize, or an error.  The runtime keeps the output of the attempt it  *)
(* waits for, retries after an error unless that is a NonRetryableError.    *)
AttemptEnds(s, n, outcome) ==
  LET waited == n = steps[s].attempts /\ ~steps[s].retry /\ steps[s].kept = "none"
      final == /\ outcome # "output"
               /\ Rejection(outcome).name = "NonRetryableError"
  IN  /\ n \in steps[s].pending
      /\ entered' = IF waited /\ outcome # "output" THEN [entered EXCEPT ![s] = @ \cup {outcome}] ELSE entered
      /\ steps' = [steps EXCEPT ![s].pending = @ \ {n},
                                ![s].kept = IF ~waited THEN @
                                            ELSE IF outcome = "output" THEN "output"
                                            ELSE IF final THEN "error"
                                            ELSE @,
                                ![s].retry = IF waited /\ outcome # "output" /\ ~final THEN TRUE ELSE @]
      /\ UNCHANGED <<instance, run_, calls_>>

Exhausted(s) ==
  /\ steps[s].kept = "none" /\ steps[s].attempts = MaxAttempts /\ steps[s].retry
  /\ steps' = [steps EXCEPT ![s].kept = "error"]
  /\ UNCHANGED <<instance, run_, calls_, entered>>

(* The promise of the step settles: the closure is freed, the output read.  *)
StepReturns(s, readable) ==
  /\ calls_[s].at = "awaiting" /\ steps[s].kept # "none"
  /\ calls_' = [calls_ EXCEPT ![s] = [at |-> "done", closure |-> "freed",
                  got |-> IF steps[s].kept = "error" THEN "error" ELSE IF readable THEN "value" ELSE "unreadable"]]
  /\ UNCHANGED <<instance, run_, steps, entered>>

(* run returns, fails or is dropped with a step's future, its closure freed *)
(* while the runtime may call it; then the instance has ended.              *)
RunReturns(ok) ==
  /\ run_ = "running" /\ instance = "running"
  /\ run_' = IF ok THEN "fulfilled" ELSE "rejected"
  /\ calls_' = [s \in Step |-> [calls_[s] EXCEPT !.closure = "freed"]]
  /\ UNCHANGED <<instance, steps, entered>>

RunSettles ==
  /\ run_ \in {"fulfilled", "rejected"} /\ instance = "running"
  /\ instance' = IF run_ = "fulfilled" THEN "complete" ELSE "errored"
  /\ UNCHANGED <<run_, calls_, steps, entered>>

(* A step's future is dropped while run goes on, in a select for instance;  *)
(* the runtime does not know.                                               *)
DropStep(s) ==
  /\ run_ = "running" /\ calls_[s].at = "awaiting"
  /\ calls_' = [calls_ EXCEPT ![s].closure = "freed", ![s].at = "dropped"]
  /\ UNCHANGED <<instance, run_, steps, entered>>

(* sleep and wait_for_event: the instance waits; an event that is not what  *)
(* the worker expects, or the timeout, is an error that run may return.     *)
Sleeps == run_ = "running" /\ instance = "running" /\ instance' = "waiting" /\ UNCHANGED <<run_, calls_, steps, entered>>
Wakes == run_ = "running" /\ instance = "waiting" /\ instance' = "running" /\ UNCHANGED <<run_, calls_, steps, entered>>

(* The isolate is gone: run, its futures and closures are, the steps stay.  *)
IsolateLost ==
  /\ run_ # "none" /\ instance \in {"running", "waiting", "paused"}
  /\ run_' = "none" /\ calls_' = [s \in Step |-> NoCall]
  /\ steps' = [s \in Step |-> [steps[s] EXCEPT !.pending = {}, !.retry = steps[s].attempts > 0 /\ steps[s].kept = "none"]]
  /\ UNCHANGED <<instance, entered>>

(* WorkflowInstance: pause, resume, terminate, restart from the beginning.  *)
Manage(op) ==
  /\ \/ op = "pause" /\ instance = "running" /\ instance' = "paused" /\ UNCHANGED <<run_, calls_, steps, entered>>
     \/ op = "resume" /\ instance = "paused" /\ instance' = "running" /\ UNCHANGED <<run_, calls_, steps, entered>>
     \/ /\ op = "terminate" /\ instance \notin {"complete", "errored", "terminated"}
        /\ instance' = "terminated" /\ run_' = "none" /\ calls_' = [s \in Step |-> NoCall]
        /\ UNCHANGED <<steps, entered>>
     \/ op = "restart" /\ instance # "queued" /\ instance' = "queued" /\ run_' = "none"
        /\ calls_' = [s \in Step |-> NoCall] /\ steps' = [s \in Step |-> NoStep] /\ entered' = [s \in Step |-> {}]

WfNext ==
  \/ \E raw \in [payload : BOOLEAN, timestamp : {TRUE}, instanceId : {TRUE}] : StartRun(raw)
  \/ \E ok \in BOOLEAN : RunReturns(ok)
  \/ RunSettles \/ Sleeps \/ Wakes \/ IsolateLost
  \/ \E op \in {"pause", "resume", "terminate", "restart"} : Manage(op)
  \/ \E s \in Step :
       \/ CallStep(s) \/ AttemptTimesOut(s) \/ Exhausted(s) \/ DropStep(s)
       \/ \E raw \in [step : {TRUE}, attempt : BOOLEAN] : Attempt(s, raw)
       \/ \E n \in 1..MaxAttempts, o \in {"output", "error", "NonRetryableError"} : AttemptEnds(s, n, o)
       \/ \E readable \in BOOLEAN : StepReturns(s, readable)

WfSpec == WfInit /\ [][WfNext]_wfVars

-----------------------------------------------------------------------------
(* A callback is not entered again once the attempt that the runtime waited *)
(* for has ended in a NonRetryableError or an output was kept, whatever     *)
(* timed out, was lost or started again, short of a restart; what a worker  *)
(* is told of a step is what was kept of it; no attempt that the runtime    *)
(* makes for a future still awaited finds its closure freed.                *)
StepsEndOnce ==
  [][/\ \A s \in Step :
          /\ steps'[s].pending \ steps[s].pending # {} =>
               steps[s].kept = "none" /\ "NonRetryableError" \notin entered[s]
          /\ calls_'[s].got # calls_[s].got /\ calls_'[s].got \in {"value", "unreadable"} => steps[s].kept = "output"
          /\ calls_[s].at = "awaiting" /\ run_ = "running" => calls_[s].closure = "live"
     /\ instance' = "complete" /\ instance # "complete" => run_ = "fulfilled"]_wfVars
=============================================================================
