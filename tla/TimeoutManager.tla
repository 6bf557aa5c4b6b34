--------------------------- MODULE TimeoutManager ---------------------------
(***************************************************************************)
(* TimeoutManager (src/src/timeout_manager.rs) as its callers share it:    *)
(* one global instance behind one mutex, which a call holds while its      *)
(* operation runs, while it sleeps between retries, and while it adapts    *)
(* the timeout.  Times are small numbers for milliseconds.                 *)
(***************************************************************************)
EXTENDS Integers, Sequences

CONSTANTS
    TimeoutCallers,  \* tasks that call the global manager
    MaxRetries,      \* TimeoutConfig::max_retries
    MinTimeout, BaseTimeout, MaxTimeout,
    MaxOperations    \* bound on recorded operations, after which no call begins

ASSUME TimeoutAssumption ==
    /\ MaxRetries \in Nat /\ MaxOperations \in Nat
    /\ MinTimeout \in Nat \ {0} /\ BaseTimeout \in Nat /\ MaxTimeout \in Nat
    /\ MinTimeout <= BaseTimeout /\ BaseTimeout <= MaxTimeout

VARIABLES
    calls,   \* per caller [pc, left, nested]: retries left, and whether its
             \* operation calls the global manager itself
    queue,   \* who waits for the mutex; its head, when running, holds it
    stats    \* TimeoutStats [ops, timeouts, duration, current]; current 0: not adapted

timeoutVars == <<calls, queue, stats>>

TimeoutInit ==
    /\ calls = [c \in TimeoutCallers |-> [pc |-> "idle", left |-> 0, nested |-> FALSE]]
    /\ queue = <<>>
    /\ stats = [ops |-> 0, timeouts |-> 0, duration |-> 0, current |-> 0]

Lesser(a, b) == IF a < b THEN a ELSE b
Greater(a, b) == IF a < b THEN b ELSE a

CurrentTimeout == IF stats.current = 0 THEN BaseTimeout ELSE stats.current

---------------------------------------------------------------------------
(* Recording and adapting *)

(* The timeout after a record s: above a tenth of timeouts it grows by     *)
(* half, below a fiftieth it goes to three times the average success, or   *)
(* to four fifths of itself if that is more.                               *)
Adapted(s) ==
    LET good == s.ops - s.timeouts
        average == IF good = 0 THEN 0 ELSE s.duration \div good
    IN  IF s.timeouts * 10 > s.ops
        THEN Lesser((CurrentTimeout * 3) \div 2, MaxTimeout)
        ELSE IF s.timeouts * 50 < s.ops /\ average > 0
        THEN Greater(Greater(average * 3, (CurrentTimeout * 4) \div 5), MinTimeout)
        ELSE CurrentTimeout

(* due: 30 seconds have passed since the last adjustment.                  *)
Adjust(s, due) ==
    IF due /\ Adapted(s) # CurrentTimeout THEN [s EXCEPT !.current = Adapted(s)] ELSE s

Success(d) == [stats EXCEPT !.ops = @ + 1, !.duration = @ + d]
Timeout == [stats EXCEPT !.ops = @ + 1, !.timeouts = @ + 1]

---------------------------------------------------------------------------
(* Calls *)

(* execute_with_timeout tries once, execute_with_retry MaxRetries times    *)
(* more.                                                                   *)
TimeoutCall(c, left, nested) ==
    /\ calls[c].pc = "idle" /\ stats.ops < MaxOperations
    /\ calls' = [calls EXCEPT ![c] = [pc |-> "waiting", left |-> left, nested |-> nested]]
    /\ queue' = Append(queue, c)
    /\ UNCHANGED stats

(* The mutex serves callers in the order they came.                        *)
TimeoutLock(c) ==
    /\ queue # <<>> /\ c = Head(queue) /\ calls[c].pc = "waiting"
    /\ calls' = [calls EXCEPT ![c].pc = "running"]
    /\ UNCHANGED <<queue, stats>>

Leave(c) ==
    /\ calls' = [calls EXCEPT ![c].pc = "idle"]
    /\ queue' = Tail(queue)

(* An attempt that did not succeed is tried again after a pause, with the  *)
(* mutex held, or given up.                                                *)
RetryOrLeave(c) ==
    IF calls[c].left = 0 THEN Leave(c)
    ELSE /\ calls' = [calls EXCEPT ![c].pc = "sleeping", ![c].left = @ - 1]
         /\ UNCHANGED queue

(* A nested operation waits for the mutex its own caller holds, so only    *)
(* the timeout ends it.                                                    *)
Succeed(c, d, due) ==
    /\ calls[c].pc = "running" /\ ~calls[c].nested
    /\ stats' = Adjust(Success(d), due)
    /\ Leave(c)

(* An error counts as a success of its duration and adapts nothing.        *)
Fail(c, d) ==
    /\ calls[c].pc = "running" /\ ~calls[c].nested
    /\ stats' = Success(d)
    /\ RetryOrLeave(c)

(* A slip: the last attempt runs without a timeout. *)
SlipTimeOut(c, due) ==
    /\ calls[c].pc = "running" /\ calls[c].left > 0
    /\ stats' = Adjust(Timeout, due)
    /\ RetryOrLeave(c)

(* The timeout of the attempt, of the length adapted so far.               *)
TimeOut(c, due) ==
    /\ calls[c].pc = "running"
    /\ stats' = Adjust(Timeout, due)
    /\ RetryOrLeave(c)

Wake(c) ==
    /\ calls[c].pc = "sleeping"
    /\ calls' = [calls EXCEPT ![c].pc = "running"]
    /\ UNCHANGED <<queue, stats>>

TimeoutNext ==
    \E c \in TimeoutCallers, due \in BOOLEAN :
        \/ \E left \in {0, MaxRetries}, nested \in BOOLEAN : TimeoutCall(c, left, nested)
        \/ TimeoutLock(c)
        \/ \E d \in {0, 1, CurrentTimeout} : Succeed(c, d, due) \/ Fail(c, d)
        \/ TimeOut(c, due)
        \/ Wake(c)

---------------------------------------------------------------------------
(* Properties *)

(* Whatever its operation does, and even if it calls the global manager    *)
(* again under the mutex, every call of the manager ends.                  *)
CallsEnd == \A c \in TimeoutCallers : calls[c].pc # "idle" ~> calls[c].pc = "idle"
=============================================================================
