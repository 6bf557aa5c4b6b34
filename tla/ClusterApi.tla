----------------------------- MODULE ClusterApi -----------------------------
(***************************************************************************)
(* RaftCluster of src/src/cluster_api.rs and its HTTP endpoints: clones of *)
(* one handle share the state machine, the status and the stored health,   *)
(* each behind its own lock, and the shutdown notification.  Operations    *)
(* are carried out on the spot, there is no consensus behind them.  The    *)
(* state is how many commands have been applied.                           *)
(***************************************************************************)
EXTENDS Integers, Sequences

CONSTANTS
    ApiCallers,
    ApiNode,     \* node_id of the cluster
    ApiNodes,    \* ids that add and remove are called with
    MaxListed,   \* bound on the nodes listed
    MaxApplied   \* bound on commands applied

VARIABLES
    applied,     \* commands the state machine has applied
    listed,      \* status.nodes, as ids in order
    storedHealth,\* "starting" or "healthy"
    signal,      \* whether shutdown_tx is still there to be taken
    waiting,     \* callers in wait_for_shutdown
    reply        \* the last answer

apiVars == <<applied, listed, storedHealth, signal, waiting, reply>>

(* What build makes, once the configuration is valid.                      *)
ApiInit ==
    /\ applied = 0 /\ listed = <<ApiNode>> /\ storedHealth = "starting"
    /\ signal = TRUE /\ waiting = {} /\ reply = "none"

Propose(succeeds) ==
    /\ applied < MaxApplied
    /\ applied' = IF succeeds THEN applied + 1 ELSE applied
    /\ reply' = IF succeeds THEN "ok" ELSE "error"
    /\ UNCHANGED <<listed, storedHealth, signal, waiting>>

(* An id already listed is listed again.                                   *)
AddNode(n) ==
    /\ Len(listed) < MaxListed
    /\ listed' = Append(listed, n)
    /\ reply' = "ok"
    /\ UNCHANGED <<applied, storedHealth, signal, waiting>>

(* Removing an id that is not there, or the node itself, succeeds too.     *)
RemoveNode(n) ==
    /\ listed' = SelectSeq(listed, LAMBDA m : m # n)
    /\ reply' = "ok"
    /\ UNCHANGED <<applied, storedHealth, signal, waiting>>

TransferLeadership ==
    /\ reply' = "ok"
    /\ UNCHANGED <<applied, listed, storedHealth, signal, waiting>>

ReadHealth ==
    /\ storedHealth' = "healthy" /\ reply' = "ok"
    /\ UNCHANGED <<applied, listed, signal, waiting>>

(* The endpoint of one node: the first entry of that id.                   *)
GetNode(n) ==
    /\ reply' = IF \E i \in DOMAIN listed : listed[i] = n THEN "ok" ELSE "not found"
    /\ UNCHANGED <<applied, listed, storedHealth, signal, waiting>>

(* An endpoint whose payload is not as expected.                           *)
BadRequest ==
    /\ reply' = "bad request"
    /\ UNCHANGED <<applied, listed, storedHealth, signal, waiting>>

WaitForShutdown(c) ==
    /\ c \notin waiting
    /\ waiting' = waiting \cup {c}
    /\ UNCHANGED <<applied, listed, storedHealth, signal, reply>>

(* The receiver of the signal was dropped in build, and notify_waiters     *)
(* wakes only who waits now: nothing stops, and who comes later waits on.  *)
ShutdownApi ==
    /\ signal' = FALSE /\ waiting' = {} /\ reply' = "ok"
    /\ UNCHANGED <<applied, listed, storedHealth>>

ApiNext ==
    \/ \E succeeds \in BOOLEAN : Propose(succeeds)
    \/ \E n \in ApiNodes : AddNode(n) \/ RemoveNode(n) \/ GetNode(n)
    \/ TransferLeadership \/ ReadHealth \/ BadRequest
    \/ \E c \in ApiCallers : WaitForShutdown(c)
    \/ ShutdownApi
=============================================================================
