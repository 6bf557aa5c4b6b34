----------------------- MODULE CircuitBreakerProofs -----------------------
(***************************************************************************)
(* Proofs about CircuitBreaker, for any finite sets of callers and         *)
(* operators and every configuration.                                      *)
(*                                                                         *)
(* QuotaOvershoot is not inductive: a caller that has seen room in the     *)
(* quota adds to half_open_requests later, whatever the others did in the  *)
(* meantime.  QuotaInv counts these callers as if they had added already.  *)
(* SuccessOvershoot counts, in SuccessInv, the successes on_success has    *)
(* yet to count as if it had.                                              *)
(***************************************************************************)
EXTENDS CircuitBreaker, FiniteSetTheorems, TLAPS

(* Every step of callers, operators and time keeps the state well typed.   *)
THEOREM TypeInvariant == BreakerSpec => []TypeOK
<1>1. BreakerInit => TypeOK
  BY BoundAssumption DEF BreakerInit, TypeOK, Steps
<1>2. TypeOK /\ [BreakerNext]_breakerVars => TypeOK'
  <2>. SUFFICES ASSUME TypeOK, [BreakerNext]_breakerVars PROVE TypeOK'
    OBVIOUS
  <2>. USE BoundAssumption DEF TypeOK, Goto, Steps
  <2>1. ASSUME NEW t \in Task, AllowRequest(t) PROVE TypeOK'
    BY <2>1 DEF AllowRequest, ReadState, CheckTimeout, ToHalfOpen, ResetRequests,
                ResetSuccesses, CheckQuota, CountRequest
  <2>2. ASSUME NEW t \in Task, Succeed(t) \/ Fail(t) \/ DropCall(t) PROVE TypeOK'
    BY <2>2 DEF Succeed, Fail, DropCall, Awaits
  <2>3. ASSUME NEW t \in Task, OnSuccess(t) PROVE TypeOK'
    <3>1. CASE ReadOnSuccess(t) \/ AddSuccess(t) \/ Close(t)
      BY <3>1 DEF ReadOnSuccess, AddSuccess, Close
    <3>2. CASE ForgetFailure(t) \/ Clear(t) \/ Clean(t)
      BY <3>2 DEF ForgetFailure, Clear, Clean
    <3>. QED
      BY <2>3, <3>1, <3>2 DEF OnSuccess
  <2>4. ASSUME NEW t \in Task, OnFailure(t) PROVE TypeOK'
    <3>1. CASE NoteFailure(t) \/ Push(t) \/ CleanOnFailure(t)
      BY <3>1 DEF NoteFailure, Push, CleanOnFailure
    <3>2. CASE ReadOnFailure(t) \/ CheckFailures(t) \/ Open(t)
      BY <3>2 DEF ReadOnFailure, CheckFailures, Open
    <3>. QED
      BY <2>4, <3>1, <3>2 DEF OnFailure
  <2>5. ASSUME NEW t \in Task, ForceOpen(t) \/ NoteForced(t) \/ ForceClose(t) PROVE TypeOK'
    BY <2>5 DEF ForceOpen, NoteForced, ForceClose
  <2>6. CASE Elapse
    BY <2>6 DEF Elapse
  <2>7. CASE UNCHANGED breakerVars
    BY <2>7 DEF breakerVars
  <2>. QED
    BY <2>1, <2>2, <2>3, <2>4, <2>5, <2>6, <2>7 DEF BreakerNext, BreakerCall
<1>. QED
  BY <1>1, <1>2, PTL DEF BreakerSpec

---------------------------------------------------------------------------
(* The quota *)

Counting == {t \in Caller : doing[t] = "count"}

(* Only callers ask for the quota; those between the check and the count   *)
(* are as good as counted.                                                 *)
QuotaInv ==
    /\ \A t \in Task : doing[t] \in {"checkQuota", "count"} => t \in Caller
    /\ requests + Cardinality(Counting) <= HalfOpenMax - 1 + Cardinality(Caller)

LEMMA CountingFinite ==
    /\ Cardinality(Caller) \in Nat
    /\ IsFiniteSet(Counting) /\ Cardinality(Counting) \in Nat
    /\ Cardinality(Counting) <= Cardinality(Caller)
<1>1. Counting \subseteq Caller
  BY DEF Counting
<1>. QED
  BY <1>1, CallerAssumption, FS_Subset, FS_CardinalityType

(* Where nobody joins or leaves the counting callers.                      *)
LEMMA OtherStepsKeepQuota ==
    ASSUME TypeOK, QuotaInv, NEW t \in Task, BreakerNext, requests' = requests,
           \A u \in Task : u # t => doing'[u] = doing[u],
           doing[t] # "count", doing'[t] # "count",
           doing'[t] = "checkQuota" => t \in Caller
    PROVE  QuotaInv'
<1>1. Counting' = Counting
  BY DEF Counting, Task
<1>2. \A u \in Task : doing'[u] \in {"checkQuota", "count"} => u \in Caller
  BY DEF QuotaInv
<1>. QED
  BY <1>1, <1>2 DEF QuotaInv

LEMMA QuotaInit == BreakerInit => QuotaInv
<1>. SUFFICES ASSUME BreakerInit PROVE QuotaInv
  OBVIOUS
<1>1. Counting = {}
  BY DEF BreakerInit, Counting, Task
<1>. QED
  BY <1>1, FS_EmptySet, CountingFinite, ConfigAssumption DEF BreakerInit, QuotaInv

LEMMA CheckQuotaKeeps ==
    ASSUME TypeOK, QuotaInv, NEW t \in Task, CheckQuota(t)
    PROVE  QuotaInv'
<1>1. t \in Caller /\ doing[t] = "checkQuota" /\ t \notin Counting
  BY DEF CheckQuota, Goto, QuotaInv, Counting
<1>2. CASE requests < HalfOpenMax
  <2>1. Counting' = Counting \cup {t}
    BY <1>1, <1>2 DEF CheckQuota, Goto, Counting, TypeOK, Task
  <2>2. Cardinality(Counting)' = Cardinality(Counting) + 1
    BY <1>1, <2>1, CountingFinite, FS_AddElement
  <2>3. Cardinality(Counting) + 1 <= Cardinality(Caller)
    <3>1. Counting \cup {t} \in SUBSET Caller
      BY <1>1 DEF Counting
    <3>2. Cardinality(Counting \cup {t}) <= Cardinality(Caller)
      BY <3>1, FS_Subset, CallerAssumption
    <3>. QED
      BY <2>1, <2>2, <3>2
  <2>4. \A u \in Task : doing'[u] \in {"checkQuota", "count"} => u \in Caller
    BY <1>1 DEF CheckQuota, Goto, QuotaInv, TypeOK
  <2>5. requests' = requests /\ requests \in Nat /\ HalfOpenMax \in Nat
    BY ConfigAssumption DEF CheckQuota, TypeOK
  <2>. QED
    BY <1>2, <2>2, <2>3, <2>4, <2>5, CountingFinite DEF QuotaInv
<1>3. CASE ~(requests < HalfOpenMax)
  <2>1. Counting' = Counting
    BY <1>1, <1>3 DEF CheckQuota, Goto, Counting, TypeOK
  <2>2. \A u \in Task : doing'[u] \in {"checkQuota", "count"} => u \in Caller
    BY <1>1 DEF CheckQuota, Goto, QuotaInv, TypeOK
  <2>. QED
    BY <2>1, <2>2 DEF QuotaInv, CheckQuota
<1>. QED
  BY <1>2, <1>3

LEMMA CountKeeps ==
    ASSUME TypeOK, QuotaInv, NEW t \in Task, CountRequest(t)
    PROVE  QuotaInv'
<1>1. t \in Counting
  BY DEF CountRequest, Goto, QuotaInv, Counting
<1>2. Counting' = Counting \ {t}
  BY DEF CountRequest, Goto, Counting, TypeOK, Task
<1>3. Cardinality(Counting)' = Cardinality(Counting) - 1
  BY <1>1, <1>2, CountingFinite, FS_RemoveElement
<1>4. \A u \in Task : doing'[u] \in {"checkQuota", "count"} => u \in Caller
  BY DEF CountRequest, Goto, QuotaInv, TypeOK
<1>5. requests' = requests + 1 /\ requests \in Nat
  BY DEF CountRequest, TypeOK
<1>. QED
  BY <1>3, <1>4, <1>5, CountingFinite DEF QuotaInv

LEMMA ResetRequestsKeeps ==
    ASSUME TypeOK, QuotaInv, NEW t \in Task, ResetRequests(t)
    PROVE  QuotaInv'
<1>1. Counting' = Counting
  BY DEF ResetRequests, Goto, Counting, TypeOK
<1>2. \A u \in Task : doing'[u] \in {"checkQuota", "count"} => u \in Caller
  BY DEF ResetRequests, Goto, QuotaInv, TypeOK
<1>3. requests' = 0 /\ requests \in Nat
  BY DEF ResetRequests, TypeOK
<1>. QED
  BY <1>1, <1>2, <1>3, CountingFinite, ConfigAssumption DEF QuotaInv

LEMMA QuotaStep == TypeOK /\ QuotaInv /\ [BreakerNext]_breakerVars => QuotaInv'
<1>. SUFFICES ASSUME TypeOK, QuotaInv, [BreakerNext]_breakerVars PROVE QuotaInv'
  OBVIOUS
<1>1. ASSUME NEW t \in Task, ReadState(t) \/ CheckTimeout(t) \/ ToHalfOpen(t) \/ ResetSuccesses(t)
      PROVE  QuotaInv'
  <2>1. BreakerNext
    BY <1>1 DEF BreakerNext, BreakerCall, AllowRequest
  <2>. QED
    BY <1>1, <2>1, OtherStepsKeepQuota
       DEF ReadState, CheckTimeout, ToHalfOpen, ResetSuccesses, Goto, TypeOK
<1>2. ASSUME NEW t \in Task, Succeed(t) \/ Fail(t) \/ DropCall(t) PROVE QuotaInv'
  <2>1. BreakerNext
    BY <1>2 DEF BreakerNext, BreakerCall
  <2>. QED
    BY <1>2, <2>1, OtherStepsKeepQuota DEF Succeed, Fail, DropCall, Awaits, Goto, TypeOK
<1>3. ASSUME NEW t \in Task, OnSuccess(t) PROVE QuotaInv'
  <2>1. BreakerNext
    BY <1>3 DEF BreakerNext, BreakerCall
  <2>. QED
    BY <1>3, <2>1, OtherStepsKeepQuota
       DEF OnSuccess, ReadOnSuccess, AddSuccess, Close, ForgetFailure, Clear, Clean, Goto, TypeOK
<1>4. ASSUME NEW t \in Task, OnFailure(t) PROVE QuotaInv'
  <2>1. BreakerNext
    BY <1>4 DEF BreakerNext, BreakerCall
  <2>. QED
    BY <1>4, <2>1, OtherStepsKeepQuota
       DEF OnFailure, NoteFailure, Push, CleanOnFailure, ReadOnFailure, CheckFailures, Open,
           Goto, TypeOK
<1>5. ASSUME NEW t \in Task, ForceOpen(t) \/ NoteForced(t) \/ ForceClose(t) PROVE QuotaInv'
  <2>1. BreakerNext
    BY <1>5 DEF BreakerNext
  <2>. QED
    BY <1>5, <2>1, OtherStepsKeepQuota DEF ForceOpen, NoteForced, ForceClose, Goto, TypeOK
<1>6. CASE Elapse \/ UNCHANGED breakerVars
  <2>1. Counting' = Counting /\ doing' = doing /\ requests' = requests
    BY <1>6 DEF Elapse, breakerVars, Counting
  <2>. QED
    BY <2>1 DEF QuotaInv
<1>. QED
  BY <1>1, <1>2, <1>3, <1>4, <1>5, <1>6, CheckQuotaKeeps, CountKeeps, ResetRequestsKeeps
     DEF BreakerNext, BreakerCall, AllowRequest

(* However many callers race for the half-open quota, half_open_requests   *)
(* overshoots half_open_max_requests by less than their number, over any   *)
(* number of half-open periods and with operators forcing the state.       *)
THEOREM QuotaBound == BreakerSpec => []QuotaOvershoot
<1>1. BreakerInit => TypeOK /\ QuotaInv
  BY QuotaInit, BoundAssumption DEF BreakerInit, TypeOK, Steps
<1>2. QuotaInv /\ TypeOK => QuotaOvershoot
  BY CountingFinite, ConfigAssumption DEF QuotaInv, QuotaOvershoot, TypeOK
<1>3. BreakerSpec => []QuotaInv
  BY <1>1, QuotaStep, TypeInvariant, PTL DEF BreakerSpec
<1>. QED
  BY <1>2, <1>3, TypeInvariant, PTL

---------------------------------------------------------------------------
(* The successes of a half-open period                                     *)

Uncounted == {t \in Task : doing[t] \in {"readOnSuccess", "addSuccess"}}
Resetting == {t \in Task : doing[t] \in {"resetRequests", "resetSuccesses"}}

(* Where a task can be that is no caller.                                  *)
Forcing == {"idle", "noteForced", "forgetFailure", "clear"}

SuccessInv ==
    /\ \A t \in Task : doing[t] \notin Forcing => t \in Caller
    /\ state = "HalfOpen" /\ Resetting = {} =>
         successes + Cardinality(Uncounted) <= passed + Cardinality(Caller) - 1

LEMMA UncountedFinite ==
    ASSUME \A t \in Task : doing[t] \notin Forcing => t \in Caller
    PROVE  /\ Uncounted \subseteq Caller /\ IsFiniteSet(Uncounted)
           /\ Cardinality(Uncounted) \in Nat /\ Cardinality(Caller) \in Nat
           /\ Cardinality(Uncounted) <= Cardinality(Caller)
<1>1. Uncounted \subseteq Caller
  BY DEF Uncounted, Forcing
<1>. QED
  BY <1>1, CallerAssumption, FS_Subset, FS_CardinalityType

(* A task that joins or leaves those whose success is not yet counted.     *)
LEMMA OneUncounted ==
    ASSUME TypeOK, SuccessInv, NEW t \in Task, NEW to \in Steps,
           doing' = [doing EXCEPT ![t] = to],
           to \notin Forcing => t \in Caller
    PROVE  /\ \A u \in Task : doing'[u] \notin Forcing => u \in Caller
           /\ Resetting' = IF to \in {"resetRequests", "resetSuccesses"}
                           THEN Resetting \cup {t} ELSE Resetting \ {t}
           /\ to \in {"readOnSuccess", "addSuccess"} /\ t \notin Uncounted
                => Cardinality(Uncounted)' = Cardinality(Uncounted) + 1
           /\ to \notin {"readOnSuccess", "addSuccess"} /\ t \in Uncounted
                => Cardinality(Uncounted)' = Cardinality(Uncounted) - 1
           /\ (to \in {"readOnSuccess", "addSuccess"} <=> t \in Uncounted)
                => Cardinality(Uncounted)' = Cardinality(Uncounted)
<1>1. \A u \in Task : doing'[u] = IF u = t THEN to ELSE doing[u]
  BY DEF TypeOK
<1>2. Uncounted' = IF to \in {"readOnSuccess", "addSuccess"}
                   THEN Uncounted \cup {t} ELSE Uncounted \ {t}
  BY <1>1 DEF Uncounted
<1>3. IsFiniteSet(Uncounted) /\ Cardinality(Uncounted) \in Nat
  BY UncountedFinite DEF SuccessInv
<1>4. /\ \A u \in Task : doing'[u] \notin Forcing => u \in Caller
      /\ Resetting' = IF to \in {"resetRequests", "resetSuccesses"}
                      THEN Resetting \cup {t} ELSE Resetting \ {t}
  BY <1>1 DEF SuccessInv, Resetting
<1>5. CASE to \in {"readOnSuccess", "addSuccess"} /\ t \notin Uncounted
  <2>1. Cardinality(Uncounted') = Cardinality(Uncounted) + 1
    BY <1>2, <1>3, <1>5, FS_AddElement
  <2>. QED
    BY <1>4, <1>5, <2>1
<1>6. CASE to \notin {"readOnSuccess", "addSuccess"} /\ t \in Uncounted
  <2>1. Cardinality(Uncounted') = Cardinality(Uncounted) - 1
    BY <1>2, <1>3, <1>6, FS_RemoveElement
  <2>. QED
    BY <1>4, <1>6, <2>1
<1>7. CASE to \in {"readOnSuccess", "addSuccess"} <=> t \in Uncounted
  <2>1. Uncounted' = Uncounted
    BY <1>2, <1>7
  <2>. QED
    BY <1>4, <1>7, <2>1
<1>. QED
  BY <1>5, <1>6, <1>7

(* A step that keeps both counts and the state, or leaves the half-open    *)
(* state, and adds no uncounted success.                                   *)
LEMMA QuietKeeps ==
    ASSUME TypeOK, SuccessInv, NEW t \in Task, NEW to \in Steps,
           doing' = [doing EXCEPT ![t] = to],
           to \notin Forcing => t \in Caller,
           \/ state' # "HalfOpen"
           \/ /\ state' = state /\ successes' = successes /\ passed' = passed
              /\ t \notin Resetting
              /\ to \in {"readOnSuccess", "addSuccess"} => t \in Uncounted
    PROVE  SuccessInv'
<1>1. \A u \in Task : doing'[u] \notin Forcing => u \in Caller
  BY OneUncounted
<1>2. CASE state' # "HalfOpen"
  BY <1>1, <1>2 DEF SuccessInv
<1>3. CASE state' = "HalfOpen"
  <2>0. /\ t \notin Resetting
        /\ to \in {"readOnSuccess", "addSuccess"} => t \in Uncounted
    BY <1>3
  <2>1. Resetting' = {} => Resetting = {}
    <3>1. \/ Resetting' = Resetting \cup {t}
          \/ Resetting' = Resetting \ {t}
      BY OneUncounted
    <3>. QED
      BY <2>0, <3>1
  <2>2. Cardinality(Uncounted) \in Nat /\ Cardinality(Caller) \in Nat
    BY UncountedFinite DEF SuccessInv
  <2>3. /\ Cardinality(Uncounted)' \in Int
        /\ Cardinality(Uncounted)' <= Cardinality(Uncounted)
    <3>1. \/ Cardinality(Uncounted)' = Cardinality(Uncounted)
          \/ Cardinality(Uncounted)' = Cardinality(Uncounted) - 1
      BY <2>0, OneUncounted
    <3>. QED
      BY <2>2, <3>1
  <2>4. state' = state /\ successes' = successes /\ passed' = passed
    BY <1>3
  <2>. QED
    BY <1>1, <1>3, <2>1, <2>2, <2>3, <2>4 DEF SuccessInv, TypeOK
<1>. QED
  BY <1>2, <1>3

LEMMA SucceedKeeps ==
    ASSUME TypeOK, SuccessInv, NEW t \in Task, Succeed(t)
    PROVE  SuccessInv'
<1>1. doing[t] = "run" /\ doing' = [doing EXCEPT ![t] = "readOnSuccess"] /\ "readOnSuccess" \in Steps
  BY DEF Succeed, Goto, Steps
<1>2. t \in Caller /\ t \notin Uncounted /\ t \notin Resetting
  BY <1>1 DEF SuccessInv, Forcing, Uncounted, Resetting
<1>3. /\ \A u \in Task : doing'[u] \notin Forcing => u \in Caller
      /\ Cardinality(Uncounted)' = Cardinality(Uncounted) + 1
      /\ Resetting' = Resetting
  BY <1>1, <1>2, OneUncounted
<1>4. state' = state /\ successes' = successes
      /\ (state = "HalfOpen" => passed' = passed + 1)
  BY DEF Succeed
<1>. QED
  BY <1>3, <1>4, UncountedFinite DEF SuccessInv, TypeOK

LEMMA AddSuccessKeeps ==
    ASSUME TypeOK, SuccessInv, NEW t \in Task, AddSuccess(t)
    PROVE  SuccessInv'
<1>1. PICK to \in {"close", "idle"} :
        doing[t] = "addSuccess" /\ doing' = [doing EXCEPT ![t] = to] /\ to \in Steps
  BY DEF AddSuccess, Goto, Steps
<1>2. t \in Caller /\ t \in Uncounted /\ t \notin Resetting
  BY <1>1 DEF SuccessInv, Forcing, Uncounted, Resetting
<1>3. /\ \A u \in Task : doing'[u] \notin Forcing => u \in Caller
      /\ Cardinality(Uncounted)' = Cardinality(Uncounted) - 1
      /\ Resetting' = Resetting
  BY <1>1, <1>2, OneUncounted
<1>4. state' = state /\ successes' = successes + 1 /\ passed' = passed
  BY DEF AddSuccess
<1>. QED
  BY <1>3, <1>4, UncountedFinite DEF SuccessInv, TypeOK

(* The counter starts again; whoever succeeded before is another caller.   *)
LEMMA ResetSuccessesKeeps ==
    ASSUME TypeOK, SuccessInv, NEW t \in Task, ResetSuccesses(t)
    PROVE  SuccessInv'
<1>1. doing[t] = "resetSuccesses" /\ doing' = [doing EXCEPT ![t] = "run"] /\ "run" \in Steps
  BY DEF ResetSuccesses, Goto, Steps
<1>2. t \in Caller /\ t \notin Uncounted
  BY <1>1 DEF SuccessInv, Forcing, Uncounted
<1>3. /\ \A u \in Task : doing'[u] \notin Forcing => u \in Caller
      /\ Cardinality(Uncounted)' = Cardinality(Uncounted)
  BY <1>1, <1>2, OneUncounted, UncountedFinite DEF SuccessInv
<1>4. Cardinality(Uncounted) <= Cardinality(Caller) - 1
  <2>1. Uncounted \subseteq Caller \ {t} /\ IsFiniteSet(Caller \ {t})
    BY <1>2, UncountedFinite, CallerAssumption, FS_RemoveElement DEF SuccessInv
  <2>2. Cardinality(Caller \ {t}) = Cardinality(Caller) - 1
    BY <1>2, CallerAssumption, FS_RemoveElement
  <2>. QED
    BY <2>1, <2>2, FS_Subset
<1>5. successes' = 0 /\ passed' = passed
  BY DEF ResetSuccesses
<1>. QED
  BY <1>3, <1>4, <1>5, UncountedFinite DEF SuccessInv, TypeOK

(* The period begins while its counter is still to be reset.               *)
LEMMA ToHalfOpenKeeps ==
    ASSUME TypeOK, SuccessInv, NEW t \in Task, ToHalfOpen(t) \/ ResetRequests(t)
    PROVE  SuccessInv'
<1>1. PICK to \in {"resetRequests", "resetSuccesses"} :
        doing' = [doing EXCEPT ![t] = to] /\ to \in Steps
  BY DEF ToHalfOpen, ResetRequests, Goto, Steps
<1>2. t \in Caller
  BY DEF ToHalfOpen, ResetRequests, Goto, SuccessInv, Forcing
<1>3. /\ \A u \in Task : doing'[u] \notin Forcing => u \in Caller
      /\ Resetting' # {}
  BY <1>1, <1>2, OneUncounted
<1>. QED
  BY <1>3 DEF SuccessInv

LEMMA SuccessStep == TypeOK /\ SuccessInv /\ [BreakerNext]_breakerVars => SuccessInv'
<1>. SUFFICES ASSUME TypeOK, SuccessInv, [BreakerNext]_breakerVars PROVE SuccessInv'
  OBVIOUS
<1>1. ASSUME NEW t \in Task,
             \/ ReadState(t) \/ CheckTimeout(t) \/ CheckQuota(t) \/ CountRequest(t)
             \/ Fail(t) \/ DropCall(t)
      PROVE  SuccessInv'
  <2>1. PICK to \in {"idle", "run", "checkTimeout", "toHalfOpen", "checkQuota", "count", "noteFailure"} :
          doing' = [doing EXCEPT ![t] = to]
    BY <1>1 DEF ReadState, CheckTimeout, CheckQuota, CountRequest, Fail, DropCall, Goto, TypeOK
  <2>2. doing[t] \notin Forcing \/ t \in Caller
    BY <1>1 DEF ReadState, CheckTimeout, CheckQuota, CountRequest, Fail, DropCall, Goto, Forcing
  <2>3. t \notin Resetting
    BY <1>1 DEF ReadState, CheckTimeout, CheckQuota, CountRequest, Fail, DropCall, Goto,
                Resetting, Awaits
  <2>4. UNCHANGED <<state, successes, passed>>
    BY <1>1 DEF ReadState, CheckTimeout, CheckQuota, CountRequest, Fail, DropCall
  <2>. QED
    BY <2>1, <2>2, <2>3, <2>4, QuietKeeps DEF Steps, SuccessInv
<1>2. ASSUME NEW t \in Task, OnSuccess(t) PROVE SuccessInv'
  <2>1. CASE ReadOnSuccess(t)
    <3>1. PICK to \in {"addSuccess", "clean"} : doing' = [doing EXCEPT ![t] = to]
      BY <2>1 DEF ReadOnSuccess, Goto
    <3>2. t \in Caller /\ t \in Uncounted /\ t \notin Resetting
      BY <2>1 DEF ReadOnSuccess, Goto, SuccessInv, Forcing, Uncounted, Resetting
    <3>. QED
      BY <2>1, <3>1, <3>2, QuietKeeps DEF ReadOnSuccess, Steps
  <2>2. CASE Close(t) \/ ForgetFailure(t) \/ Clear(t) \/ Clean(t)
    <3>1. PICK to \in {"forgetFailure", "clear", "idle"} : doing' = [doing EXCEPT ![t] = to]
      BY <2>2 DEF Close, ForgetFailure, Clear, Clean, Goto
    <3>2. t \notin Resetting
      BY <2>2 DEF Close, ForgetFailure, Clear, Clean, Goto, Resetting
    <3>3. \/ state' # "HalfOpen"
          \/ UNCHANGED <<state, successes, passed>>
      BY <2>2 DEF Close, ForgetFailure, Clear, Clean
    <3>. QED
      BY <3>1, <3>2, <3>3, QuietKeeps DEF Steps, Forcing
  <2>. QED
    BY <1>2, <2>1, <2>2, AddSuccessKeeps DEF OnSuccess
<1>3. ASSUME NEW t \in Task, OnFailure(t) PROVE SuccessInv'
  <2>1. PICK to \in {"push", "cleanOnFailure", "readOnFailure", "checkFailures", "open", "idle"} :
          doing' = [doing EXCEPT ![t] = to]
    BY <1>3 DEF OnFailure, NoteFailure, Push, CleanOnFailure, ReadOnFailure, CheckFailures,
                Open, Goto, TypeOK
  <2>2. doing[t] \notin Forcing /\ t \notin Resetting
    BY <1>3 DEF OnFailure, NoteFailure, Push, CleanOnFailure, ReadOnFailure, CheckFailures,
                Open, Goto, Forcing, Resetting
  <2>3. \/ state' # "HalfOpen"
        \/ UNCHANGED <<state, successes, passed>>
    BY <1>3 DEF OnFailure, NoteFailure, Push, CleanOnFailure, ReadOnFailure, CheckFailures, Open
  <2>. QED
    BY <2>1, <2>2, <2>3, QuietKeeps DEF Steps, SuccessInv
<1>4. ASSUME NEW t \in Task, ForceOpen(t) \/ NoteForced(t) \/ ForceClose(t) PROVE SuccessInv'
  <2>1. PICK to \in Forcing : doing' = [doing EXCEPT ![t] = to]
    BY <1>4 DEF ForceOpen, NoteForced, ForceClose, Goto, Forcing
  <2>2. \/ state' # "HalfOpen"
        \/ UNCHANGED <<state, successes, passed>> /\ t \notin Resetting
    BY <1>4 DEF ForceOpen, NoteForced, ForceClose, Goto, Resetting
  <2>. QED
    BY <2>1, <2>2, QuietKeeps DEF Steps, Forcing
<1>5. CASE Elapse \/ UNCHANGED breakerVars
  BY <1>5 DEF Elapse, breakerVars, SuccessInv, Uncounted, Resetting
<1>. QED
  BY <1>1, <1>2, <1>3, <1>4, <1>5, SucceedKeeps, ResetSuccessesKeeps, ToHalfOpenKeeps
     DEF BreakerNext, BreakerCall, AllowRequest

(* However many callers race, drop their calls and are overruled, a reset  *)
(* half_open_successes is ahead of the calls that succeeded in the period  *)
(* by less than one per caller: on_success may count a success that began  *)
(* before, and no caller brings two of them.                               *)
THEOREM SuccessBound == BreakerSpec => []SuccessOvershoot
<1>1. BreakerInit => SuccessInv
  BY DEF BreakerInit, SuccessInv, Task, Forcing
<1>2. SuccessInv /\ TypeOK => SuccessOvershoot
  BY UncountedFinite DEF SuccessInv, SuccessOvershoot, TypeOK, Resetting
<1>3. BreakerSpec => []SuccessInv
  BY <1>1, SuccessStep, TypeInvariant, PTL DEF BreakerSpec
<1>. QED
  BY <1>2, <1>3, TypeInvariant, PTL
===========================================================================
