-------------------------- MODULE ManagementClient --------------------------
(***************************************************************************)
(* IrohRaftManagementClient and its ConnectionPool                         *)
(* (src/src/management/client.rs), used by several tasks at once: a        *)
(* request asks the leader the client remembers, and then the nodes it     *)
(* knows, one after the other.  The remembered leader is behind tokio's    *)
(* RwLock, which grants its guards in the order they were asked for; the   *)
(* pool's locks are held for single steps and are part of those.           *)
(***************************************************************************)
EXTENDS Integers, Sequences, FiniteSets, TLC

CONSTANTS
    Requesters,  \* tasks that use the client
    Members,     \* nodes whose address the client has
    Strangers,   \* nodes of the cluster whose address it could not parse
    None,
    MaxOutages   \* bound on crashes of nodes

VARIABLES
    requests,   \* per task [pc, status, node, left, link]; link: what it
                \* does about node: "look" in the pool, "connect", "open" a
                \* stream, "ask"; the latter two on a connection that is
                \* gone: "dead", "lost"
    guards,     \* tasks that hold a read guard of the remembered leader
    lockQueue,  \* tasks that wait for a guard, in order; their pc says which
    leader,     \* the leader remembered
    pooled,     \* per node: no connection ("none"), or one "open" or "dead"
    up,         \* nodes that answer
    outages

clientVars == <<requests, guards, lockQueue, leader, pooled, up, outages>>

NoRequest == [pc |-> "idle", status |-> FALSE, node |-> None, left |-> {}, link |-> "look"]

(* connect_to_cluster remembers the leader that discovery names, with an   *)
(* address or without; connect_to_members none.                            *)
ClientInit ==
    /\ requests = [t \in Requesters |-> NoRequest]
    /\ guards = {} /\ lockQueue = <<>>
    /\ leader \in Members \cup Strangers \cup {None}
    /\ pooled = [n \in Members |-> "none"]
    /\ up = Members /\ outages = 0

Become(t, changes) == requests' = [requests EXCEPT ![t] = changes @@ @]

---------------------------------------------------------------------------
(* The lock of the remembered leader *)

(* status: whether the operation is GetClusterStatus, whose answer names a *)
(* leader.                                                                 *)
SendRequest(t, status) ==
    /\ requests[t].pc = "idle"
    /\ Become(t, [pc |-> "reading", status |-> status])
    /\ lockQueue' = Append(lockQueue, t)
    /\ UNCHANGED <<guards, leader, pooled, up, outages>>

(* The read guard lives as long as the body of the "if let" over it.       *)
ReadLeader(t) ==
    /\ lockQueue # <<>> /\ t = Head(lockQueue) /\ requests[t].pc = "reading"
    /\ lockQueue' = Tail(lockQueue)
    /\ IF leader = None
       THEN /\ Become(t, [pc |-> "others", left |-> Members])
            /\ UNCHANGED guards
       ELSE /\ Become(t, [pc |-> "leader", node |-> leader])
            /\ guards' = guards \cup {t}
    /\ UNCHANGED <<leader, pooled, up, outages>>

(* A write guard needs every read guard gone, that of its own task too.    *)
WriteGranted(t, pc) ==
    /\ lockQueue # <<>> /\ t = Head(lockQueue) /\ requests[t].pc = pc
    /\ guards = {}
    /\ lockQueue' = Tail(lockQueue)
    /\ UNCHANGED <<guards, pooled, up, outages>>

ClearLeader(t) ==
    /\ WriteGranted(t, "clearing")
    /\ leader' = None
    /\ Become(t, [pc |-> "others", left |-> Members])

(* The node that answered names the leader it knows.                       *)
SetLeader(t) ==
    /\ WriteGranted(t, "setting")
    /\ leader' \in Members \cup Strangers
    /\ requests' = [requests EXCEPT ![t] = NoRequest]

---------------------------------------------------------------------------
(* Asking a node *)

(* The next of the other nodes, in the order of a hash map.                *)
NextNode(t, n) ==
    /\ requests[t].pc = "others" /\ requests[t].node = None
    /\ n \in requests[t].left
    /\ Become(t, [node |-> n, left |-> requests[t].left \ {n}])
    /\ UNCHANGED <<guards, lockQueue, leader, pooled, up, outages>>

NoneAvailable(t) ==
    /\ requests[t].pc = "others" /\ requests[t].node = None /\ requests[t].left = {}
    /\ requests' = [requests EXCEPT ![t] = NoRequest]
    /\ UNCHANGED <<guards, lockQueue, leader, pooled, up, outages>>

(* A slip: the node that failed is asked again. *)
SlipFailed(t) ==
    IF requests[t].pc = "leader"
    THEN /\ Become(t, [pc |-> "clearing", node |-> None, link |-> "look"])
         /\ lockQueue' = Append(lockQueue, t)
         /\ UNCHANGED pooled
    ELSE /\ Become(t, [node |-> None, link |-> "look",
                       left |-> requests[t].left \cup {requests[t].node}])
         /\ pooled' = [pooled EXCEPT ![requests[t].node] = "none"]
         /\ UNCHANGED lockQueue

(* A leader that failed is forgotten, its guard still held; its connection *)
(* stays.  Of another node the connection goes.                            *)
Failed(t) ==
    IF requests[t].pc = "leader"
    THEN /\ Become(t, [pc |-> "clearing", node |-> None, link |-> "look"])
         /\ lockQueue' = Append(lockQueue, t)
         /\ UNCHANGED pooled
    ELSE /\ Become(t, [node |-> None, link |-> "look"])
         /\ pooled' = [pooled EXCEPT ![requests[t].node] = "none"]
         /\ UNCHANGED lockQueue

(* get_connection: a pooled connection is taken without asking whether it  *)
(* is alive.                                                               *)
TakePooled(t) ==
    LET n == requests[t].node
    IN  /\ n \in Members /\ requests[t].link = "look"
        /\ Become(t, [link |-> IF pooled[n] = "none" THEN "connect" ELSE pooled[n]])
        /\ UNCHANGED <<guards, lockQueue, leader, pooled, up, outages>>

(* "No endpoint found": a remembered leader without an address.            *)
NoEndpoint(t) ==
    /\ requests[t].node \in Strangers
    /\ Failed(t)
    /\ UNCHANGED <<guards, leader, up, outages>>

(* No timeout is around this wait.  A new connection is stored, over one   *)
(* another task made meanwhile.                                            *)
Connect(t) ==
    LET n == requests[t].node
    IN  /\ requests[t].link = "connect"
        /\ \/ /\ n \in up
              /\ pooled' = [pooled EXCEPT ![n] = "open"]
              /\ Become(t, [link |-> "open"])
              /\ UNCHANGED lockQueue
           \/ n \notin up /\ Failed(t)
        /\ UNCHANGED <<guards, leader, up, outages>>

(* Nor around this one.  Whether a connection is gone need not show yet.   *)
OpenStream(t) ==
    /\ \/ /\ requests[t].link = "open"
          /\ Become(t, [link |-> "ask"])
          /\ UNCHANGED <<lockQueue, pooled>>
       \/ /\ requests[t].link = "dead"
          /\ Become(t, [link |-> "lost"])
          /\ UNCHANGED <<lockQueue, pooled>>
       \/ requests[t].link = "dead" /\ Failed(t)
    /\ UNCHANGED <<guards, leader, up, outages>>

(* The answer, an error answer included; a status that names a leader then *)
(* sets it, unless the leader itself gave it.                              *)
Answered(t) ==
    /\ requests[t].link = "ask"
    /\ guards' = guards \ {t}
    /\ \/ /\ requests[t].status /\ requests[t].pc = "others"
          /\ Become(t, [pc |-> "setting", node |-> None, link |-> "look"])
          /\ lockQueue' = Append(lockQueue, t)
       \/ /\ requests' = [requests EXCEPT ![t] = NoRequest]
          /\ UNCHANGED lockQueue
    /\ UNCHANGED <<leader, pooled, up, outages>>

(* No answer in time, or a broken stream: the operation may have been done.*)
Unanswered(t) ==
    /\ requests[t].link \in {"ask", "lost"}
    /\ Failed(t)
    /\ UNCHANGED <<guards, leader, up, outages>>

---------------------------------------------------------------------------
(* Nodes *)

NodeDown(n) ==
    /\ n \in up /\ outages < MaxOutages
    /\ up' = up \ {n} /\ outages' = outages + 1
    /\ pooled' = [pooled EXCEPT ![n] = IF @ = "open" THEN "dead" ELSE @]
    /\ requests' = [t \in Requesters |->
                     IF requests[t].node = n
                     THEN [requests[t] EXCEPT !.link = CASE @ = "open" -> "dead"
                                                         [] @ = "ask" -> "lost"
                                                         [] OTHER -> @]
                     ELSE requests[t]]
    /\ UNCHANGED <<guards, lockQueue, leader>>

NodeUp(n) ==
    /\ n \notin up
    /\ up' = up \cup {n}
    /\ UNCHANGED <<requests, guards, lockQueue, leader, pooled, outages>>

ClientStep(t) ==
    \/ ReadLeader(t) \/ ClearLeader(t) \/ SetLeader(t)
    \/ NoneAvailable(t) \/ (\E n \in Members : NextNode(t, n))
    \/ TakePooled(t) \/ NoEndpoint(t) \/ Answered(t) \/ Unanswered(t)

(* What the task waits for without a timeout of its own.                   *)
NetworkStep(t) == Connect(t) \/ OpenStream(t)

ClientNext ==
    \/ \E t \in Requesters : \/ ClientStep(t) \/ NetworkStep(t)
                            \/ \E status \in BOOLEAN : SendRequest(t, status)
    \/ \E n \in Members : NodeDown(n) \/ NodeUp(n)

---------------------------------------------------------------------------
(* Properties *)

(* "Clear the cached leader and try other nodes" (client.rs:219): a        *)
(* request ends, with an answer or with "No available cluster members".    *)
EveryRequestEnds == \A t \in Requesters : requests[t].pc # "idle" ~> requests[t].pc = "idle"

(* The one thing that keeps a request from its end is a request whose      *)
(* remembered leader failed: crashes, dead connections and other requests  *)
(* at the lock do not. It takes a network in which connecting and opening  *)
(* a stream come to an end, NetworkAnswers: nothing here bounds them.      *)
RequestsEndOrLeaderFailed ==
    \A t \in Requesters :
        requests[t].pc # "idle" ~> \/ requests[t].pc = "idle"
                                   \/ \E s \in Requesters : requests[s].pc = "clearing"
=============================================================================
