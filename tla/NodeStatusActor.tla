--------------------------- MODULE NodeStatusActor ---------------------------
(***************************************************************************)
(* The status actor of src/src/actor_patterns.rs: a task that owns the     *)
(* node's status and serves commands from a bounded mailbox, and handles   *)
(* that send a command and wait 100 ms for its answer.  A command is known *)
(* by its place in the order of sending, and a part of the status by the   *)
(* command that wrote it last (0: the initial status).                     *)
(***************************************************************************)
EXTENDS Integers, Sequences, FiniteSetsExt

CONSTANTS
    StatusCallers,    \* tasks with a clone of the handle
    StatusCapacity,   \* of the mailbox (1000 in the code)
    MaxStatusCommands \* bound on commands sent

StatusKinds == {"get", "status", "role", "indexes"}
RoleWriters == {"status", "role"}
IndexWriters == {"status", "indexes"}

VARIABLES
    sent,      \* the kinds of all commands sent, in order
    mailbox,   \* numbers of the commands not yet served
    callers,   \* per caller: the command it waits for, 0 when idle
    answers,   \* per caller: the last status answered [to, role, indexes]
    nodeStatus \* [role, indexes]

statusVars == <<sent, mailbox, callers, answers, nodeStatus>>

StatusInit ==
    /\ sent = <<>> /\ mailbox = <<>>
    /\ callers = [c \in StatusCallers |-> 0]
    /\ answers = [c \in StatusCallers |-> [to |-> 0, role |-> 0, indexes |-> 0]]
    /\ nodeStatus = [role |-> 0, indexes |-> 0]

(* send waits until the mailbox has room.                                  *)
SendStatusCommand(c, kind) ==
    /\ callers[c] = 0
    /\ Len(mailbox) < StatusCapacity /\ Len(sent) < MaxStatusCommands
    /\ sent' = Append(sent, kind)
    /\ mailbox' = Append(mailbox, Len(sent'))
    /\ callers' = [callers EXCEPT ![c] = Len(sent')]
    /\ UNCHANGED <<answers, nodeStatus>>

Written(n) ==
    [role |-> IF sent[n] \in RoleWriters THEN n ELSE nodeStatus.role,
     indexes |-> IF sent[n] \in IndexWriters THEN n ELSE nodeStatus.indexes]

(* One turn of the actor's loop.  The answer is lost when its caller gave  *)
(* up; the command is carried out all the same.                            *)
ServeStatus ==
    /\ mailbox # <<>>
    /\ LET n == Head(mailbox)
       IN  /\ nodeStatus' = Written(n)
           /\ answers' = [c \in StatusCallers |->
                IF callers[c] = n /\ sent[n] = "get"
                THEN [to |-> n, role |-> nodeStatus.role, indexes |-> nodeStatus.indexes]
                ELSE answers[c]]
           /\ callers' = [c \in StatusCallers |-> IF callers[c] = n THEN 0 ELSE callers[c]]
    /\ mailbox' = Tail(mailbox)
    /\ UNCHANGED sent

(* 100 ms without an answer: an error to the caller.                       *)
GiveUpStatus(c) ==
    /\ callers[c] # 0
    /\ callers' = [callers EXCEPT ![c] = 0]
    /\ UNCHANGED <<sent, mailbox, answers, nodeStatus>>

StatusNext ==
    \/ \E c \in StatusCallers :
        \/ \E kind \in StatusKinds : SendStatusCommand(c, kind)
        \/ GiveUpStatus(c)
    \/ ServeStatus

---------------------------------------------------------------------------
(* Properties *)

LastOf(kinds, n) == Max({0} \cup {i \in 1..n-1 : sent[i] \in kinds})

(* A status that get_status answers has every update sent before it, those *)
(* whose callers were told of a timeout included, and the later of two     *)
(* updates of the same part.                                               *)
ReadsAreCurrent ==
    \A c \in StatusCallers :
        LET a == answers[c]
        IN  a.to # 0 => /\ a.role = LastOf(RoleWriters, a.to)
                        /\ a.indexes = LastOf(IndexWriters, a.to)
=============================================================================
