---------------------------- MODULE ClientCalls ----------------------------
(***************************************************************************)
(* The two places where a caller waits for a lock that another caller      *)
(* holds across an await: the global timeout manager and the management    *)
(* client. They share no state; focus says which of them moves in a        *)
(* behaviour, the other rests in an initial state.                         *)
(***************************************************************************)
EXTENDS TimeoutManager, ManagementClient

CONSTANT Components \* those a run looks at

VARIABLE focus

vars == <<focus, timeoutVars, clientVars>>

Init ==
    /\ focus \in Components
    /\ TimeoutInit
    /\ ClientInit
    /\ focus # "client" => leader = None

Timeouts(action) == focus = "timeouts" /\ action /\ UNCHANGED <<focus, clientVars>>
Client(action) == focus = "client" /\ action /\ UNCHANGED <<focus, timeoutVars>>

Next == Timeouts(TimeoutNext) \/ Client(ClientNext)

(* The mutex serves its queue, a timer fires, and a request goes on: each  *)
(* is a task of the runtime. Nobody has to make a call or a request. An    *)
(* assumption on what lies outside: a connection and a stream on it come   *)
(* about or fail in the end (NetworkAnswers).                              *)
NetworkAnswers == \A t \in Requesters : WF_vars(Client(NetworkStep(t)))

FairSpec ==
    /\ Init /\ [][Next]_vars
    /\ \A c \in TimeoutCallers :
        /\ WF_vars(Timeouts(TimeoutLock(c)))
        /\ WF_vars(Timeouts(\E due \in BOOLEAN : TimeOut(c, due)))
        /\ WF_vars(Timeouts(Wake(c)))
    /\ \A t \in Requesters : WF_vars(Client(ClientStep(t)))
    /\ NetworkAnswers
=============================================================================
