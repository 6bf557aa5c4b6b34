------------------------------ MODULE EventLoop ------------------------------
(***************************************************************************)
(* The event loop of raft/event_loop.rs with the handlers of               *)
(* raft/handlers.rs: one task that takes a tick or the next proposal,      *)
(* message or configuration change, in no fixed order, has the handler     *)
(* carry it out and run the ready function. The raft node, the ready       *)
(* function and the configuration manager are external here: they either   *)
(* do their work or return an error, which ends the loop.                  *)
(***************************************************************************)
EXTENDS Integers, Sequences, FiniteSets

CONSTANTS
    LoopProposals,   \* proposal ids
    MaxLoopMessages  \* bound on messages and changes in their channels

VARIABLES
    proposalRx,   \* proposals in the channel, in order
    loopMessages, \* number of messages in the channel
    confChanges,  \* number of configuration changes in the channel
    waitingFor,   \* pending_proposals: ids whose proposer waits
    proposed,     \* ids raft has taken
    replied,      \* per id: what its proposer was told, or "nothing"
    isLeader,
    running

loopVars == <<proposalRx, loopMessages, confChanges, waitingFor, proposed, replied, isLeader, running>>

LoopInit ==
    /\ proposalRx = <<>> /\ loopMessages = 0 /\ confChanges = 0
    /\ waitingFor = {} /\ proposed = {}
    /\ replied = [p \in LoopProposals |-> "nothing"]
    /\ isLeader = FALSE /\ running = TRUE

SendProposal(p) ==
    /\ p \notin proposed \cup waitingFor /\ replied[p] = "nothing"
    /\ \A i \in 1..Len(proposalRx) : proposalRx[i] # p
    /\ running /\ proposalRx' = Append(proposalRx, p)
    /\ UNCHANGED <<loopMessages, confChanges, waitingFor, proposed, replied, isLeader, running>>

SendToLoop ==
    /\ running
    /\ \/ loopMessages < MaxLoopMessages /\ loopMessages' = loopMessages + 1 /\ UNCHANGED confChanges
       \/ confChanges < MaxLoopMessages /\ confChanges' = confChanges + 1 /\ UNCHANGED loopMessages
    /\ UNCHANGED <<proposalRx, waitingFor, proposed, replied, isLeader, running>>

(* The ready function answers some of the proposals raft has committed,    *)
(* and may fail after that; raft may have changed its role before it.      *)
Ready(taken, waiting, told) ==
    /\ \E done \in SUBSET (taken \cap waiting) :
        /\ waitingFor' = waiting \ done
        /\ replied' = [p \in LoopProposals |-> IF p \in done THEN "ok" ELSE told[p]]
    /\ running' \in BOOLEAN /\ isLeader' \in BOOLEAN

(* A tick; on a leader also the check for snapshots to send, which may     *)
(* fail like the ready function.                                           *)
HandleTick ==
    /\ running
    /\ Ready(proposed, waitingFor, replied)
    /\ UNCHANGED <<proposalRx, loopMessages, confChanges, proposed>>

(* The proposer is registered first; one told that this is not the leader  *)
(* is removed again. One whose proposal raft drops stays, as the loop ends.*)
HandleProposal ==
    LET p == Head(proposalRx)
    IN  /\ running /\ proposalRx # <<>>
        /\ proposalRx' = Tail(proposalRx)
        /\ \/ /\ ~isLeader
              /\ replied' = [replied EXCEPT ![p] = "not leader"]
              /\ UNCHANGED <<waitingFor, proposed, isLeader, running>>
           \/ /\ isLeader
              /\ proposed' = proposed \cup {p}
              /\ Ready(proposed', waitingFor \cup {p}, replied)
           \/ /\ isLeader /\ running' = FALSE
              /\ waitingFor' = waitingFor \cup {p}
              /\ UNCHANGED <<proposed, replied, isLeader>>
        /\ UNCHANGED <<loopMessages, confChanges>>

(* A message raft refuses to step ends the loop.                           *)
HandleMessage ==
    /\ running /\ loopMessages > 0 /\ loopMessages' = loopMessages - 1
    /\ \/ Ready(proposed, waitingFor, replied)
       \/ running' = FALSE /\ UNCHANGED <<waitingFor, replied, isLeader>>
    /\ UNCHANGED <<proposalRx, confChanges, proposed>>

(* A change is handed to the configuration manager; no ready function.     *)
HandleConfChange ==
    /\ running /\ confChanges > 0 /\ confChanges' = confChanges - 1
    /\ running' \in BOOLEAN
    /\ UNCHANGED <<proposalRx, loopMessages, waitingFor, proposed, replied, isLeader>>

LoopNext ==
    \/ \E p \in LoopProposals : SendProposal(p)
    \/ SendToLoop \/ HandleTick \/ HandleProposal \/ HandleMessage \/ HandleConfChange

----------------------------------------------------------------------------
(* Properties *)

(* A proposer told that this is not the leader may try elsewhere: its      *)
(* proposal is not in raft's hands, even if the node leads again later.    *)
RefusedIsNotProposed == \A p \in LoopProposals : replied[p] = "not leader" => p \notin proposed
=============================================================================
