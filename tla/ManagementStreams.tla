------------------------- MODULE ManagementStreams -------------------------
(***************************************************************************)
(* The serving side of the management protocol                             *)
(* (src/src/management/protocol.rs): a task per stream reads one message,  *)
(* passes a request to the cluster manager and writes its answer, all of   *)
(* it within 60 seconds.  The manager (external) takes requests from an    *)
(* unbounded channel.                                                      *)
(***************************************************************************)
EXTENDS Integers, Sequences

CONSTANT Streams \* streams of one connection, a message each

(* Header types on the wire, and what a management stream takes them for:  *)
(* nothing on the wire becomes an Event.                                   *)
WireTypes == {"Request", "Response", "Error", "Heartbeat", "RaftMessage"}
ManagementType(wire) ==
    CASE wire = "Heartbeat" -> "HealthCheck"
      [] wire \in {"Request", "Response", "Error"} -> wire
      [] OTHER -> "Error"

VARIABLES
    served,    \* per stream [pc, type, answer]
    managerBox,\* streams whose request the manager has not taken yet
    done,      \* requests the manager carried out
    connection,\* whether the connection is open
    manager    \* whether the manager's receiver is there

streamVars == <<served, managerBox, done, connection, manager>>

StreamInit ==
    /\ served = [s \in Streams |-> [pc |-> "unopened", type |-> "none", answer |-> "none"]]
    /\ managerBox = <<>> /\ done = {}
    /\ connection = TRUE /\ manager = TRUE

(* accept_bi; a task for the stream.                                       *)
AcceptStream(s) ==
    /\ connection /\ served[s].pc = "unopened"
    /\ served' = [served EXCEPT ![s].pc = "reading"]
    /\ UNCHANGED <<managerBox, done, connection, manager>>

(* The message arrives; readable: its request can be deserialized.         *)
ProcessMessage(s, wire, readable) ==
    /\ served[s].pc = "reading"
    /\ LET type == ManagementType(wire)
           end == [pc |-> "ended", type |-> type, answer |-> "none"]
       IN  CASE type = "Request" /\ ~readable ->
                  served' = [served EXCEPT ![s] = end] /\ UNCHANGED managerBox
             [] type = "Request" /\ readable /\ manager ->
                  /\ served' = [served EXCEPT ![s] = [end EXCEPT !.pc = "waiting"]]
                  /\ managerBox' = Append(managerBox, s)
             [] type = "Request" /\ readable /\ ~manager ->
                  /\ served' = [served EXCEPT ![s] = [end EXCEPT !.answer = "unavailable"]]
                  /\ UNCHANGED managerBox
             [] type = "HealthCheck" ->
                  /\ served' = [served EXCEPT ![s] = [end EXCEPT !.answer = "success"]]
                  /\ UNCHANGED managerBox
             [] OTHER -> served' = [served EXCEPT ![s] = end] /\ UNCHANGED managerBox
    /\ UNCHANGED <<done, connection, manager>>

(* 60 seconds, or the stream broke: no answer is written, and a request    *)
(* passed on stays where it is.                                            *)
StreamTimeout(s) ==
    /\ served[s].pc \in {"reading", "waiting"}
    /\ served' = [served EXCEPT ![s].pc = "ended"]
    /\ UNCHANGED <<managerBox, done, connection, manager>>

(* The manager carries a request out and answers, if it is still waited    *)
(* for, or drops it.                                                       *)
ManagerTakes(carried) ==
    LET s == Head(managerBox)
    IN  /\ manager /\ managerBox # <<>>
        /\ managerBox' = Tail(managerBox)
        /\ done' = IF carried THEN done \cup {s} ELSE done
        /\ served' = IF served[s].pc # "waiting" THEN served
                     ELSE [served EXCEPT ![s].pc = "ended",
                             ![s].answer = IF carried THEN "response" ELSE "closed"]
        /\ UNCHANGED <<connection, manager>>

(* The manager goes: every request it has not taken is dropped with it.    *)
ManagerStops ==
    /\ manager /\ manager' = FALSE
    /\ managerBox' = <<>>
    /\ served' = [s \in Streams |-> IF served[s].pc = "waiting"
                    THEN [served[s] EXCEPT !.pc = "ended", !.answer = "closed"]
                    ELSE served[s]]
    /\ UNCHANGED <<done, connection>>

(* A task that waits for the manager notices when it writes.               *)
ConnectionCloses ==
    /\ connection /\ connection' = FALSE
    /\ served' = [s \in Streams |-> IF served[s].pc = "reading"
                    THEN [served[s] EXCEPT !.pc = "ended"] ELSE served[s]]
    /\ UNCHANGED <<managerBox, done, manager>>

StreamNext ==
    \/ \E s \in Streams :
        \/ AcceptStream(s) \/ StreamTimeout(s)
        \/ \E wire \in WireTypes, readable \in BOOLEAN : ProcessMessage(s, wire, readable)
    \/ \E carried \in BOOLEAN : ManagerTakes(carried)
    \/ ManagerStops \/ ConnectionCloses
=============================================================================
