-------------------------- MODULE CircuitBreaker --------------------------
(***************************************************************************)
(* src/src/circuit_breaker.rs: one CircuitBreaker shared by concurrent     *)
(* callers.  Its fields are behind separate locks and atomics, taken one   *)
(* after the other, so each lock acquisition is a step of its caller.      *)
(*                                                                         *)
(* allow_request turns the breaker half-open inside the `if let` whose     *)
(* scrutinee holds last_failure_time's read lock; writers of that field    *)
(* wait meanwhile.  Time is what the code asks of it: has the timeout      *)
(* since the last failure elapsed, and how many failures are in the        *)
(* one-minute window.                                                      *)
(***************************************************************************)
EXTENDS Integers, FiniteSets

CONSTANTS
    Caller,            \* tasks that call() through the breaker
    Operator,          \* tasks that force it open or closed
    FailureThreshold,  \* config.failure_threshold
    SuccessThreshold,  \* config.success_threshold
    HalfOpenMax,       \* config.half_open_max_requests
    MayCancel,         \* callers may drop the future of call()
    MaxFailures        \* recent_failures is counted up to this bound

ASSUME CallerAssumption == IsFiniteSet(Caller) /\ IsFiniteSet(Operator)
ASSUME ConfigAssumption ==
    /\ FailureThreshold \in Nat \ {0}
    /\ SuccessThreshold \in Nat \ {0}
    /\ HalfOpenMax \in Nat \ {0}
ASSUME CancelAssumption == MayCancel \in BOOLEAN
ASSUME BoundAssumption  == MaxFailures \in Nat /\ MaxFailures >= FailureThreshold

Task == Caller \cup Operator

VARIABLES
    state,        \* Closed, Open or HalfOpen
    lastFailure,  \* last_failure_time: none, within the timeout, or past it
    requests,     \* half_open_requests
    successes,    \* half_open_successes
    recent,       \* the length of recent_failures
    doing,        \* what each task is about to do
    passed        \* history: the calls that succeeded in the half-open state

breakerVars == <<state, lastFailure, requests, successes, recent, doing, passed>>

BreakerInit ==
    /\ state = "Closed"
    /\ lastFailure = "none"
    /\ requests = 0
    /\ successes = 0
    /\ recent = 0
    /\ doing = [t \in Task |-> "idle"]
    /\ passed = 0

Goto(t, from, to) == doing[t] = from /\ doing' = [doing EXCEPT ![t] = to]

(* Tasks that hold last_failure_time's read lock across allow_request's    *)
(* transition.                                                             *)
ReadLocked == \E t \in Task : doing[t] \in {"toHalfOpen", "resetRequests", "resetSuccesses"}

---------------------------------------------------------------------------
(* allow_request *)

ReadState(t) ==
    /\ t \in Caller
    /\ Goto(t, "idle", CASE state = "Closed" -> "run"
                         [] state = "Open" -> "checkTimeout"
                         [] state = "HalfOpen" -> "checkQuota")
    /\ UNCHANGED <<state, lastFailure, requests, successes, recent, passed>>

CheckTimeout(t) ==
    /\ Goto(t, "checkTimeout", IF lastFailure = "elapsed" THEN "toHalfOpen" ELSE "idle")
    /\ UNCHANGED <<state, lastFailure, requests, successes, recent, passed>>

ToHalfOpen(t) ==
    /\ Goto(t, "toHalfOpen", "resetRequests")
    /\ state' = "HalfOpen"
    /\ passed' = IF state = "HalfOpen" THEN passed ELSE 0
    /\ UNCHANGED <<lastFailure, requests, successes, recent>>

ResetRequests(t) ==
    /\ Goto(t, "resetRequests", "resetSuccesses")
    /\ requests' = 0
    /\ UNCHANGED <<state, lastFailure, successes, recent, passed>>

(* A slip: the successes of an earlier half-open period still count. *)
SlipResetSuccesses(t) ==
    /\ Goto(t, "resetSuccesses", "run")
    /\ UNCHANGED <<state, lastFailure, requests, successes, recent, passed>>

ResetSuccesses(t) ==
    /\ Goto(t, "resetSuccesses", "run")
    /\ successes' = 0
    /\ UNCHANGED <<state, lastFailure, requests, recent, passed>>

(* A slip: one request more than the quota. *)
SlipCheckQuota(t) ==
    /\ Goto(t, "checkQuota", IF requests <= HalfOpenMax THEN "count" ELSE "idle")
    /\ UNCHANGED <<state, lastFailure, requests, successes, recent, passed>>

CheckQuota(t) ==
    /\ Goto(t, "checkQuota", IF requests < HalfOpenMax THEN "count" ELSE "idle")
    /\ UNCHANGED <<state, lastFailure, requests, successes, recent, passed>>

CountRequest(t) ==
    /\ Goto(t, "count", "run")
    /\ requests' = requests + 1
    /\ UNCHANGED <<state, lastFailure, successes, recent, passed>>

---------------------------------------------------------------------------
(* The protected operation ends, or the caller drops the future of call(). *)

Succeed(t) ==
    /\ Goto(t, "run", "readOnSuccess")
    /\ passed' = IF state = "HalfOpen" THEN passed + 1 ELSE passed
    /\ UNCHANGED <<state, lastFailure, requests, successes, recent>>

Fail(t) ==
    /\ Goto(t, "run", "noteFailure")
    /\ UNCHANGED <<state, lastFailure, requests, successes, recent, passed>>

(* The steps of call() that begin at an await, where it can be dropped. *)
Awaits == {"checkTimeout", "toHalfOpen", "run", "readOnSuccess", "close", "forgetFailure",
           "clear", "clean", "noteFailure", "push", "cleanOnFailure", "readOnFailure",
           "checkFailures", "open"}

DropCall(t) ==
    /\ MayCancel
    /\ t \in Caller
    /\ doing[t] \in Awaits
    /\ doing' = [doing EXCEPT ![t] = "idle"]
    /\ UNCHANGED <<state, lastFailure, requests, successes, recent, passed>>

---------------------------------------------------------------------------
(* on_success *)

ReadOnSuccess(t) ==
    /\ Goto(t, "readOnSuccess", IF state = "HalfOpen" THEN "addSuccess" ELSE "clean")
    /\ UNCHANGED <<state, lastFailure, requests, successes, recent, passed>>

AddSuccess(t) ==
    /\ Goto(t, "addSuccess", IF successes + 1 >= SuccessThreshold THEN "close" ELSE "idle")
    /\ successes' = successes + 1
    /\ UNCHANGED <<state, lastFailure, requests, recent, passed>>

Close(t) ==
    /\ Goto(t, "close", "forgetFailure")
    /\ state' = "Closed"
    /\ UNCHANGED <<lastFailure, requests, successes, recent, passed>>

ForgetFailure(t) ==
    /\ Goto(t, "forgetFailure", "clear")
    /\ ~ReadLocked
    /\ lastFailure' = "none"
    /\ UNCHANGED <<state, requests, successes, recent, passed>>

Clear(t) ==
    /\ Goto(t, "clear", "idle")
    /\ recent' = 0
    /\ UNCHANGED <<state, lastFailure, requests, successes, passed>>

(* clean_old_failures: any number of the oldest may be past the window. *)
Clean(t) ==
    /\ Goto(t, "clean", "idle")
    /\ recent' \in 0..recent
    /\ UNCHANGED <<state, lastFailure, requests, successes, passed>>

---------------------------------------------------------------------------
(* on_failure *)

NoteFailure(t) ==
    /\ Goto(t, "noteFailure", "push")
    /\ ~ReadLocked
    /\ lastFailure' = "fresh"
    /\ UNCHANGED <<state, requests, successes, recent, passed>>

Push(t) ==
    /\ Goto(t, "push", "cleanOnFailure")
    /\ recent' = IF recent < MaxFailures THEN recent + 1 ELSE recent
    /\ UNCHANGED <<state, lastFailure, requests, successes, passed>>

(* The newest failure is never past the window. *)
CleanOnFailure(t) ==
    /\ Goto(t, "cleanOnFailure", "readOnFailure")
    /\ recent' \in (IF recent = 0 THEN {0} ELSE 1..recent)
    /\ UNCHANGED <<state, lastFailure, requests, successes, passed>>

ReadOnFailure(t) ==
    /\ Goto(t, "readOnFailure", CASE state = "Closed" -> "checkFailures"
                                  [] state = "HalfOpen" -> "open"
                                  [] state = "Open" -> "idle")
    /\ UNCHANGED <<state, lastFailure, requests, successes, recent, passed>>

CheckFailures(t) ==
    /\ Goto(t, "checkFailures", IF recent >= FailureThreshold THEN "open" ELSE "idle")
    /\ UNCHANGED <<state, lastFailure, requests, successes, recent, passed>>

Open(t) ==
    /\ Goto(t, "open", "idle")
    /\ state' = "Open"
    /\ UNCHANGED <<lastFailure, requests, successes, recent, passed>>

---------------------------------------------------------------------------
(* force_open and force_close *)

ForceOpen(t) ==
    /\ t \in Operator
    /\ Goto(t, "idle", "noteForced")
    /\ state' = "Open"
    /\ UNCHANGED <<lastFailure, requests, successes, recent, passed>>

NoteForced(t) ==
    /\ Goto(t, "noteForced", "idle")
    /\ ~ReadLocked
    /\ lastFailure' = "fresh"
    /\ UNCHANGED <<state, requests, successes, recent, passed>>

ForceClose(t) ==
    /\ t \in Operator
    /\ Goto(t, "idle", "forgetFailure")
    /\ state' = "Closed"
    /\ UNCHANGED <<lastFailure, requests, successes, recent, passed>>

---------------------------------------------------------------------------
Elapse ==
    /\ lastFailure = "fresh"
    /\ lastFailure' = "elapsed"
    /\ UNCHANGED <<state, requests, successes, recent, doing, passed>>

AllowRequest(t) ==
    \/ ReadState(t) \/ CheckTimeout(t) \/ ToHalfOpen(t) \/ ResetRequests(t)
    \/ ResetSuccesses(t) \/ CheckQuota(t) \/ CountRequest(t)

OnSuccess(t) ==
    \/ ReadOnSuccess(t) \/ AddSuccess(t) \/ Close(t) \/ ForgetFailure(t) \/ Clear(t) \/ Clean(t)

OnFailure(t) ==
    \/ NoteFailure(t) \/ Push(t) \/ CleanOnFailure(t) \/ ReadOnFailure(t)
    \/ CheckFailures(t) \/ Open(t)

BreakerCall(t) == AllowRequest(t) \/ Succeed(t) \/ Fail(t) \/ OnSuccess(t) \/ OnFailure(t)

BreakerNext ==
    \/ \E t \in Task : \/ BreakerCall(t) \/ DropCall(t)
                       \/ ForceOpen(t) \/ NoteForced(t) \/ ForceClose(t)
    \/ Elapse

BreakerSpec == BreakerInit /\ [][BreakerNext]_breakerVars

(* Callers keep calling, their operations end, time passes. *)
BreakerFairSpec ==
    /\ BreakerSpec
    /\ WF_breakerVars(Elapse)
    /\ \A t \in Caller : WF_breakerVars(BreakerCall(t))

---------------------------------------------------------------------------
(* Properties *)

Steps == {"idle", "checkTimeout", "toHalfOpen", "resetRequests", "resetSuccesses",
          "checkQuota", "count", "run", "readOnSuccess", "addSuccess", "close",
          "forgetFailure", "clear", "clean", "noteFailure", "push", "cleanOnFailure",
          "readOnFailure", "checkFailures", "open", "noteForced"}

(* Type invariant of the breaker's fields and of the tasks in its methods. *)
TypeOK ==
    /\ state \in {"Closed", "Open", "HalfOpen"}
    /\ lastFailure \in {"none", "fresh", "elapsed"}
    /\ requests \in Nat
    /\ successes \in Nat
    /\ recent \in 0..MaxFailures
    /\ doing \in [Task -> Steps]
    /\ passed \in Nat

(* The quota of the half-open breaker is checked and counted in two steps, *)
(* so racing callers may overshoot it, by at most one each.                *)
QuotaOvershoot == requests <= HalfOpenMax - 1 + Cardinality(Caller)

(* A success that began before the half-open period may count in it, but  *)
(* once the counter is reset no caller brings more than one: the counter   *)
(* is ahead of the calls that succeeded in this period by less than one    *)
(* per caller. While the reset is under way it holds the old count still.  *)
SuccessOvershoot ==
    state = "HalfOpen" /\ (\A t \in Task : doing[t] \notin {"resetRequests", "resetSuccesses"})
        => successes <= passed + Cardinality(Caller) - 1

(* "Duration to wait before attempting to close circuit"                   *)
(* (circuit_breaker.rs:25): an open breaker whose callers go on calling    *)
(* makes the attempt once that time has passed.                            *)
OpenIsLeft == state = "Open" ~> state # "Open"
===========================================================================
