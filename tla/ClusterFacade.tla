---------------------------- MODULE ClusterFacade ----------------------------
(***************************************************************************)
(* RaftCluster of src/src/cluster.rs: methods that send a command to one   *)
(* task over an unbounded channel and wait for its answer, and a task that *)
(* answers commands until it is told to stop, in whatever order select!    *)
(* finds a command and the stop signal.  A method borrows the cluster for  *)
(* as long as it runs (&self shared, &mut self alone), and shutdown takes  *)
(* it, so that no method can be running or start afterwards.               *)
(***************************************************************************)
EXTENDS Integers, Sequences, FiniteSets

CONSTANTS
    FacadeCallers,
    MaxFacadeCommands \* bound on commands sent

ASSUME FacadeAssumption == "gone" \notin FacadeCallers

SharedCommands == {"propose", "query", "transfer", "status", "health", "info", "snapshot"}
AloneCommands == {"add_member", "remove_member", "compact_log"}
Answerable == {"status", "health", "info"}

VARIABLES
    facadeCalls, \* per caller [running, kind, answer]
    commands,    \* [kind, from] in the channel; from "gone": the caller gave up
    commandsSent,
    owned,       \* whether the application still has the cluster
    clusterTask  \* "running", "told" to stop, or "stopped"

facadeVars == <<facadeCalls, commands, commandsSent, owned, clusterTask>>

FacadeInit ==
    /\ facadeCalls = [c \in FacadeCallers |-> [running |-> FALSE, kind |-> "none", answer |-> "none"]]
    /\ commands = <<>> /\ commandsSent = 0
    /\ owned = TRUE /\ clusterTask = "running"

Running == {c \in FacadeCallers : facadeCalls[c].running}

FacadeCall(c, kind) ==
    /\ owned /\ commandsSent < MaxFacadeCommands
    /\ c \notin Running
    /\ IF kind \in AloneCommands THEN Running = {}
       ELSE \A d \in Running : facadeCalls[d].kind \in SharedCommands
    /\ facadeCalls' = [facadeCalls EXCEPT ![c] = [running |-> TRUE, kind |-> kind, answer |-> "none"]]
    /\ commands' = Append(commands, [kind |-> kind, from |-> c])
    /\ commandsSent' = commandsSent + 1
    /\ UNCHANGED <<owned, clusterTask>>

(* The caller drops the call, by a timeout of its own: the command stays.  *)
Cancel(c) ==
    /\ c \in Running
    /\ facadeCalls' = [facadeCalls EXCEPT ![c].running = FALSE]
    /\ commands' = [i \in DOMAIN commands |->
                     IF commands[i].from = c THEN [commands[i] EXCEPT !.from = "gone"]
                     ELSE commands[i]]
    /\ UNCHANGED <<commandsSent, owned, clusterTask>>

(* A stub: operations are refused, status and health are constants.        *)
AnswerTo(kind) == IF kind \in Answerable THEN "value" ELSE "not implemented"

Handle ==
    LET m == Head(commands)
    IN  /\ clusterTask # "stopped" /\ commands # <<>>
        /\ commands' = Tail(commands)
        /\ facadeCalls' = IF m.from = "gone" THEN facadeCalls
                          ELSE [facadeCalls EXCEPT ![m.from] =
                                  [running |-> FALSE, kind |-> @.kind, answer |-> AnswerTo(m.kind)]]
        /\ UNCHANGED <<commandsSent, owned, clusterTask>>

(* A slip: shutdown(&self). *)
SlipShutdown ==
    /\ owned
    /\ owned' = FALSE /\ clusterTask' = "told"
    /\ UNCHANGED <<facadeCalls, commands, commandsSent>>

(* shutdown, or the cluster dropped: the signal's channel says so too.     *)
Shutdown ==
    /\ owned /\ Running = {}
    /\ owned' = FALSE /\ clusterTask' = "told"
    /\ UNCHANGED <<facadeCalls, commands, commandsSent>>

(* What is left in the channel goes with the task; its callers would hear  *)
(* that the response channel closed.                                       *)
StopTask ==
    /\ clusterTask = "told"
    /\ clusterTask' = "stopped"
    /\ commands' = <<>>
    /\ facadeCalls' = [c \in FacadeCallers |->
          IF c \in Running THEN [facadeCalls[c] EXCEPT !.running = FALSE, !.answer = "closed"]
          ELSE facadeCalls[c]]
    /\ UNCHANGED <<commandsSent, owned>>

FacadeNext ==
    \/ \E c \in FacadeCallers :
        (\E kind \in SharedCommands \cup AloneCommands : FacadeCall(c, kind)) \/ Cancel(c)
    \/ Handle \/ Shutdown \/ StopTask

---------------------------------------------------------------------------
(* Properties *)

(* No call is cut off by a shutdown: what the task drops from its channel  *)
(* when it stops is only commands whose callers gave up, and a call that   *)
(* ends has the handler's answer to its own command.                       *)
NoCallIsCutOff ==
    \A c \in FacadeCallers :
        facadeCalls[c].answer # "none" => facadeCalls[c].answer = AnswerTo(facadeCalls[c].kind)
=============================================================================
