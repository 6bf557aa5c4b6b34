--------------------------- MODULE Backpressure ---------------------------
(***************************************************************************)
(* src/src/backpressure.rs: the channels of a PriorityBackpressureManager, *)
(* one per priority level.  A channel is a bounded queue and a semaphore   *)
(* with as many permits as the queue has places.  Any number of clones of  *)
(* a sender run concurrently; there is one receiver (&mut self).           *)
(*                                                                         *)
(* A task's step ends where it awaits or makes its next atomic operation.  *)
(* A timeout is a step that may be taken wherever the task would wait.     *)
(***************************************************************************)
EXTENDS Integers, FiniteSets, Sequences

CONSTANTS
    Sender,      \* tasks that hold a clone of the senders
    Levels,      \* number of priorities (4)
    Capacity,    \* max_pending / 4, the capacity of each channel
    Direct,      \* levels the caller also receives from by name
    MaxMessages  \* bound on messages created

ASSUME SenderAssumption   == IsFiniteSet(Sender)
ASSUME LevelsAssumption   == Levels \in Nat \ {0}
ASSUME CapacityAssumption == Capacity \in Nat \ {0}
ASSUME DirectAssumption   == Direct \subseteq 0..(Levels - 1)
ASSUME MessageAssumption  == MaxMessages \in Nat

Level    == 0..(Levels - 1)
Critical == Levels - 1
Msg      == 1..MaxMessages

VARIABLES
    queue,    \* queue[p]: the mpsc channel of level p
    permits,  \* permits[p]: available permits of its semaphore
    snd,      \* snd[t]: what task t is doing, and on which level
    rcv,      \* the receiver: what it is doing, on which level, with what
    created,  \* messages created so far; message n is the n-th
    got,      \* messages returned to the caller
    seen      \* history: the queues when the receiver began to scan

vars == <<queue, permits, snd, rcv, created, got, seen>>

Idle == [at |-> "idle", level |-> 0, msg |-> 0]

Init ==
    /\ queue = [p \in Level |-> << >>]
    /\ permits = [p \in Level |-> Capacity]
    /\ snd = [t \in Sender |-> Idle]
    /\ rcv = Idle
    /\ created = 0
    /\ got = {}
    /\ seen = queue

---------------------------------------------------------------------------
(* send() and try_send().  The permit that is not to be had, at once or in *)
(* time, is an error that changes nothing.                                 *)

Acquire(t, p) ==
    /\ snd[t].at = "idle"
    /\ permits[p] > 0
    /\ created < MaxMessages
    /\ permits' = [permits EXCEPT ![p] = @ - 1]
    /\ created' = created + 1
    /\ snd' = [snd EXCEPT ![t] = [at |-> "holding", level |-> p, msg |-> created + 1]]
    /\ UNCHANGED <<queue, rcv, got, seen>>

HasRoom(p) == Len(queue[p]) < Capacity

Enqueue(t) ==
    LET p == snd[t].level
    IN  /\ snd[t].at = "holding"
        /\ HasRoom(p)
        /\ queue' = [queue EXCEPT ![p] = Append(@, snd[t].msg)]
        /\ snd' = [snd EXCEPT ![t].at = "sent"]
        /\ UNCHANGED <<permits, rcv, created, got, seen>>

(* The send timed out, or its future was dropped: so is the permit. *)
GiveUp(t) ==
    LET p == snd[t].level
    IN  /\ snd[t].at = "holding"
        /\ permits' = [permits EXCEPT ![p] = @ + 1]
        /\ snd' = [snd EXCEPT ![t] = Idle]
        /\ UNCHANGED <<queue, rcv, created, got, seen>>

(* A slip: the permit of a message that was sent is dropped. *)
SlipForget(t) ==
    /\ snd[t].at = "sent"
    /\ permits' = [permits EXCEPT ![snd[t].level] = @ + 1]
    /\ snd' = [snd EXCEPT ![t] = Idle]
    /\ UNCHANGED <<queue, rcv, created, got, seen>>

(* record_sent, and mem::forget of the permit. *)
Forget(t) ==
    /\ snd[t].at = "sent"
    /\ snd' = [snd EXCEPT ![t] = Idle]
    /\ UNCHANGED <<queue, permits, rcv, created, got, seen>>

---------------------------------------------------------------------------
(* The receiver *)

(* recv_prioritized() tries the levels from the highest down. *)
BeginScan ==
    /\ rcv.at = "idle"
    /\ rcv' = [at |-> "scan", level |-> Critical, msg |-> 0]
    /\ seen' = queue
    /\ UNCHANGED <<queue, permits, snd, created, got>>

(* receiver(p).recv() *)
BeginRecv(p) ==
    /\ rcv.at = "idle"
    /\ rcv' = [at |-> "wait", level |-> p, msg |-> 0]
    /\ UNCHANGED <<queue, permits, snd, created, got, seen>>

Take ==
    LET p == rcv.level
    IN  /\ rcv.at \in {"scan", "scanWait", "wait"}
        /\ queue[p] # << >>
        /\ queue' = [queue EXCEPT ![p] = Tail(@)]
        /\ rcv' = [at |-> "release", level |-> p, msg |-> Head(queue[p])]
        /\ UNCHANGED <<permits, snd, created, got, seen>>

(* A slip: the scan goes on from the lowest level. *)
SlipTryNext ==
    /\ rcv.at = "scan"
    /\ queue[rcv.level] = << >>
    /\ rcv' = CASE rcv.level = Critical -> [rcv EXCEPT !.level = 0]
                [] rcv.level = Critical - 1 ->
                        [rcv EXCEPT !.at = "scanWait", !.level = Critical]
                [] OTHER -> [rcv EXCEPT !.level = @ + 1]
    /\ UNCHANGED <<queue, permits, snd, created, got, seen>>

(* A slip: the receiver ends up waiting on the lowest level. *)
SlipWaitLowest ==
    /\ rcv.at = "scan"
    /\ queue[rcv.level] = << >>
    /\ rcv' = IF rcv.level > 0 THEN [rcv EXCEPT !.level = @ - 1]
              ELSE [rcv EXCEPT !.at = "scanWait", !.level = 0]
    /\ UNCHANGED <<queue, permits, snd, created, got, seen>>

(* No message here: on to the next level, then wait on the highest. *)
TryNext ==
    /\ rcv.at = "scan"
    /\ queue[rcv.level] = << >>
    /\ rcv' = IF rcv.level > 0 THEN [rcv EXCEPT !.level = @ - 1]
              ELSE [rcv EXCEPT !.at = "scanWait", !.level = Critical]
    /\ UNCHANGED <<queue, permits, snd, created, got, seen>>

(* add_permits(1); the message is returned. *)
AddPermit ==
    /\ rcv.at = "release"
    /\ permits' = [permits EXCEPT ![rcv.level] = @ + 1]
    /\ got' = got \cup {rcv.msg}
    /\ rcv' = Idle
    /\ UNCHANGED <<queue, snd, created, seen>>

(* The caller drops the future of recv() or recv_prioritized(). *)
DropRecv ==
    /\ rcv.at \in {"wait", "scanWait"}
    /\ rcv' = Idle
    /\ UNCHANGED <<queue, permits, snd, created, got, seen>>

Receive == BeginScan \/ Take \/ TryNext \/ AddPermit

Next ==
    \/ \E t \in Sender :
        \/ \E p \in Level : Acquire(t, p)
        \/ Enqueue(t) \/ GiveUp(t) \/ Forget(t)
    \/ Receive \/ DropRecv
    \/ \E p \in Direct : BeginRecv(p)

Spec == Init /\ [][Next]_vars

(* A caller that keeps receiving; with Direct empty, from all levels. *)
FairSpec == Spec /\ WF_vars(Receive)

---------------------------------------------------------------------------
(* Properties *)

SenderSteps   == {"idle", "holding", "sent"}
ReceiverSteps == {"idle", "scan", "scanWait", "wait", "release"}

(* Type invariant of channels, permits and tasks: a semaphore's count      *)
(* never goes below zero.                                                  *)
TypeOK ==
    /\ queue \in [Level -> Seq(Msg)]
    /\ permits \in [Level -> Nat]
    /\ snd \in [Sender -> [at : SenderSteps, level : Level, msg : 0..MaxMessages]]
    /\ rcv \in [at : ReceiverSteps, level : Level, msg : 0..MaxMessages]
    /\ created \in 0..MaxMessages
    /\ got \subseteq Msg
    /\ seen \in [Level -> Seq(Msg)]

Holders(p) == {t \in Sender : snd[t].at = "holding" /\ snd[t].level = p}

Releasing(p) == IF rcv.at = "release" /\ rcv.level = p THEN 1 ELSE 0

(* Every permit is available, held by a sender that has not sent yet, owed *)
(* by a queued message, or about to be returned by the receiver: neither a *)
(* timeout nor the race of add_permits with mem::forget loses or makes one.*)
PermitsConserved ==
    \A p \in Level :
        permits[p] + Cardinality(Holders(p)) + Len(queue[p]) + Releasing(p) = Capacity

(* A sender with a permit always finds room in the channel: "Channel full" *)
(* and the timeout of the second wait in send() never happen.              *)
PermitMeansRoom == \A t \in Sender : snd[t].at = "holding" => HasRoom(snd[t].level)

(* "Receive from the highest priority queue that has messages": a message  *)
(* that recv_prioritized returns passes over none that was queued on a     *)
(* higher level when the call began.                                       *)
ScanKeepsPriority ==
    [][\A p \in Level :
        rcv.at = "scan" /\ rcv'.at = "release" /\ rcv'.level = p =>
            \A h \in (p + 1)..Critical : seen[h] = << >>]_vars

(* Every message queued on the highest level reaches the caller.           *)
CriticalIsReceived ==
    \A m \in Msg :
        (\E i \in 1..Len(queue[Critical]) : queue[Critical][i] = m) ~> m \in got
===========================================================================
