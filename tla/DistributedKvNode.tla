-------------------------- MODULE DistributedKvNode --------------------------
(***************************************************************************)
(* The nodes of examples/distributed_kv_store.rs and their clients. A      *)
(* client sends each request to the next node in turn and waits for the    *)
(* answer; a node handles the requests of its channel one at a time. The   *)
(* cluster behind a node is the example's own mock: a proposal is applied  *)
(* to that node's store at once (what that does: DistributedKvStore), and  *)
(* a query calls get_current_state, which panics.                          *)
(***************************************************************************)
EXTENDS Integers, Sequences, FiniteSetsExt

CONSTANTS
    KvClients,
    NodeCount,     \* nodes, in the order every client has them
    MaxKvRequests        \* bound on requests

Writes == {"set", "delete", "increment", "cas", "set_new", "expire"}
Reads == {"get", "get_multiple", "list"}

VARIABLES
    asking,    \* per client [waiting, kind, number, told]; told: how its last call ended
    turn,      \* per client: current_node
    inboxes,   \* per node: requests [kind, from, number] in its channel
    serving,   \* nodes whose task has not panicked
    carried,   \* numbers of the requests applied to a store
    nodeCounts \* per node [reads, writes], its metrics

kvNodeVars == <<asking, turn, inboxes, serving, carried, nodeCounts>>

Connections == 1..NodeCount

KvNodeInit ==
    /\ asking = [c \in KvClients |-> [waiting |-> FALSE, kind |-> "none", number |-> 0, told |-> "none"]]
    /\ turn = [c \in KvClients |-> 1]
    /\ inboxes = [n \in Connections |-> <<>>]
    /\ serving = Connections /\ carried = {}
    /\ nodeCounts = [n \in Connections |-> [reads |-> 0, writes |-> 0]]

Ended(c, how) == [asking EXCEPT ![c].waiting = FALSE, ![c].told = how]

(* Requests are numbered in the order they are sent. The turn moves on     *)
(* whether the node takes the request or is gone.                          *)
SendKvRequest(c, kind) ==
    LET number == 1 + Max({asking[d].number : d \in KvClients})
        node == turn[c]
    IN  /\ ~asking[c].waiting /\ number <= MaxKvRequests
        /\ turn' = [turn EXCEPT ![c] = 1 + (node % NodeCount)]
        /\ IF node \in serving
           THEN /\ asking' = [asking EXCEPT ![c] = [waiting |-> TRUE, kind |-> kind, number |-> number, told |-> "none"]]
                /\ inboxes' = [inboxes EXCEPT ![node] = Append(@, [kind |-> kind, from |-> c, number |-> number])]
           ELSE /\ asking' = [asking EXCEPT ![c] = [waiting |-> FALSE, kind |-> kind, number |-> number, told |-> "not sent"]]
                /\ UNCHANGED inboxes
        /\ UNCHANGED <<serving, carried, nodeCounts>>

(* What a call makes of the answer Success: an increment expects Integer   *)
(* and a compare-and-swap its result, which no node ever answers.          *)
Understood(kind) == IF kind \in {"increment", "cas"} THEN "unexpected" ELSE "ok"

(* handle_client_request of a write: it is applied and answered Success.   *)
HandleWrite(n) ==
    LET request == Head(inboxes[n])
    IN  /\ n \in serving /\ inboxes[n] # <<>> /\ request.kind \in Writes
        /\ inboxes' = [inboxes EXCEPT ![n] = Tail(@)]
        /\ carried' = carried \cup {request.number}
        /\ nodeCounts' = [nodeCounts EXCEPT ![n].writes = @ + 1]
        /\ asking' = IF asking[request.from].waiting /\ asking[request.from].number = request.number
                     THEN Ended(request.from, Understood(request.kind)) ELSE asking
        /\ UNCHANGED <<turn, serving>>

(* Of a read: query panics, and with the task go the channel and every     *)
(* request in it, so that those who wait learn the node is disconnected.   *)
HandleRead(n) ==
    /\ n \in serving /\ inboxes[n] # <<>> /\ Head(inboxes[n]).kind \in Reads
    /\ serving' = serving \ {n}
    /\ inboxes' = [inboxes EXCEPT ![n] = <<>>]
    /\ asking' = [c \in KvClients |->
          IF \E i \in 1..Len(inboxes[n]) : inboxes[n][i].from = c /\ inboxes[n][i].number = asking[c].number
             /\ asking[c].waiting
          THEN [asking[c] EXCEPT !.waiting = FALSE, !.told = "disconnected"] ELSE asking[c]]
    /\ UNCHANGED <<turn, carried, nodeCounts>>

(* After five seconds the client gives up; the node still has the request. *)
KvTimeout(c) ==
    /\ asking[c].waiting
    /\ asking' = Ended(c, "timeout")
    /\ UNCHANGED <<turn, inboxes, serving, carried, nodeCounts>>

KvNodeNext ==
    \/ \E c \in KvClients : KvTimeout(c) \/ \E kind \in Writes \cup Reads : SendKvRequest(c, kind)
    \/ \E n \in Connections : HandleWrite(n) \/ HandleRead(n)
=============================================================================
