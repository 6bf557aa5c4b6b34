----------------------------- MODULE Deployment -----------------------------
(***************************************************************************)
(* The manager of src/examples/cluster_deployment.rs and the two kinds of  *)
(* tasks it spawns: the sweep of health checks, which goes over a copy of  *)
(* the endpoints while the manager changes them, and backups. The nodes    *)
(* themselves are the example's mock: each says it leads, and a check      *)
(* always finds its node well (check_node_health is a stub that says true, *)
(* so that what the sweep does of a failure is never run).                 *)
(***************************************************************************)
EXTENDS Integers, Sequences, FiniteSets, Functions, SequencesExt, FiniteSetsExt

CONSTANTS
    DeployConfigs,  \* the nodes a configuration may list, [node_id, endpoint] in order
    DeployIds,      \* the node ids the operator uses
    MaxDeployCalls, \* bound: calls of the operator
    BackupCallers,  \* callers of create_backup beside the schedule
    Schedule,       \* the task that schedule_backups spawns
    Retention,      \* retention_count
    MaxBackups      \* bound: backups begun

ASSUME DeploymentAssumption == Retention \in Nat

VARIABLES
    operation,    \* the operator's call: [op, at, node, todo], nodes left in todo
    calls,        \* calls begun
    deployed,     \* nodes of the manager and their status
    endpoints,    \* discovery: versions of the registered endpoints, NoVersion if none
    healthChecks, \* discovery: last known health, NotChecked if none
    monitored,    \* the sweep was spawned
    sweep         \* what is left of the sweep's copy

deploymentVars == <<operation, calls, deployed, endpoints, healthChecks, monitored, sweep>>

NoVersion == 0
FirstVersion == 1
UpdatedVersion == 2

Call(op, at, todo) == [op |-> op, at |-> at, node |-> 0, todo |-> todo]
NoCall == Call("none", "idle", <<>>)

DeploymentInit ==
    /\ operation = NoCall /\ calls = 0
    /\ deployed = [n \in DeployIds |-> "none"]
    /\ endpoints = [n \in DeployIds |-> NoVersion]
    /\ healthChecks = [n \in DeployIds |-> "not checked"]
    /\ monitored = FALSE /\ sweep = {}

Deployed == {n \in DeployIds : deployed[n] # "none"}

----------------------------------------------------------------------------
(* The manager *)

ValidateConfiguration(nodes) ==
    /\ Len(nodes) >= 3
    /\ \A i, j \in DOMAIN nodes :
         i # j => nodes[i].node_id # nodes[j].node_id /\ nodes[i].endpoint # nodes[j].endpoint

BeginCall(next) ==
    /\ operation.at = "idle" /\ calls < MaxDeployCalls
    /\ operation' = next /\ calls' = calls + 1
    /\ UNCHANGED <<deployed, endpoints, healthChecks, monitored, sweep>>

(* bootstrap: the nodes are deployed one after another.                    *)
Bootstrap(nodes) ==
    /\ Deployed = {} /\ ~monitored
    /\ ValidateConfiguration(nodes)
    /\ BeginCall(Call("bootstrap", "deploy", [i \in DOMAIN nodes |-> nodes[i].node_id]))

(* deploy_node, up to the first of register_node's two locks ...           *)
RegisterEndpoint ==
    /\ operation.at = "deploy" /\ operation.todo # <<>>
    /\ endpoints' = [endpoints EXCEPT ![Head(operation.todo)] = FirstVersion]
    /\ operation' =
         [operation EXCEPT !.at = "register", !.node = Head(operation.todo), !.todo = Tail(@)]
    /\ UNCHANGED <<calls, deployed, healthChecks, monitored, sweep>>

(* ... and from the second.                                                *)
RegisterHealth ==
    /\ operation.at = "register"
    /\ healthChecks' = [healthChecks EXCEPT ![operation.node] = "starting"]
    /\ deployed' = [deployed EXCEPT ![operation.node] = "starting"]
    /\ operation' = [operation EXCEPT !.at = IF operation.op = "add" THEN "await" ELSE "deploy"]
    /\ UNCHANGED <<calls, endpoints, monitored, sweep>>

(* wait_for_cluster_formation, which finds a leader and a majority at      *)
(* once, and start_monitoring.                                             *)
FormCluster ==
    /\ operation.op = "bootstrap" /\ operation.at = "deploy" /\ operation.todo = <<>>
    /\ Cardinality(Deployed) >= Cardinality(Deployed) \div 2 + 1
    /\ monitored' = TRUE
    /\ operation' = NoCall
    /\ UNCHANGED <<calls, deployed, endpoints, healthChecks, sweep>>

AddDeployedNode(n) == BeginCall(Call("add", "deploy", <<n>>))

(* wait_for_node_health, the end of add_node and a part of the update.     *)
FindHealthy ==
    /\ operation.at = "await"
    /\ healthChecks[operation.node] = "healthy"
    /\ operation' = IF operation.op = "add" THEN NoCall ELSE [operation EXCEPT !.at = "verify"]
    /\ UNCHANGED <<calls, deployed, endpoints, healthChecks, monitored, sweep>>

GiveUpWaiting ==
    /\ operation.at = "await"
    /\ operation' = NoCall
    /\ UNCHANGED <<calls, deployed, endpoints, healthChecks, monitored, sweep>>

(* rolling_update, in the order of a hash map; the check update_node waits *)
(* for may be older than the update.                                       *)
RollingUpdate(order) ==
    /\ IsInjective(order) /\ Range(order) = Deployed
    /\ BeginCall(Call("update", "next", order))

TakeDown ==
    /\ operation.at = "next" /\ operation.todo # <<>>
    /\ deployed' = [deployed EXCEPT ![Head(operation.todo)] = "maintenance"]
    /\ operation' =
         [operation EXCEPT !.at = "down", !.node = Head(operation.todo), !.todo = Tail(@)]
    /\ UNCHANGED <<calls, endpoints, healthChecks, monitored, sweep>>

FinishUpdate ==
    /\ operation.at = "down"
    /\ endpoints' =
         [endpoints EXCEPT ![operation.node] = IF @ = NoVersion THEN @ ELSE UpdatedVersion]
    /\ deployed' = [deployed EXCEPT ![operation.node] = "healthy"]
    /\ operation' = [operation EXCEPT !.at = "await"]
    /\ UNCHANGED <<calls, healthChecks, monitored, sweep>>

(* verify_cluster_health: every node that is healthy says it leads.        *)
HealthyNodes == {n \in Deployed : deployed[n] = "healthy"}
ClusterIsHealthy ==
    /\ Cardinality(HealthyNodes) = 1
    /\ Cardinality(HealthyNodes) >= Cardinality(Deployed) \div 2 + 1

VerifyClusterHealth ==
    /\ operation.at = "verify"
    /\ operation' = IF ClusterIsHealthy THEN [operation EXCEPT !.at = "next"] ELSE NoCall
    /\ UNCHANGED <<calls, deployed, endpoints, healthChecks, monitored, sweep>>

EndRollingUpdate ==
    /\ operation.at = "next" /\ operation.todo = <<>>
    /\ operation' = NoCall
    /\ UNCHANGED <<calls, deployed, endpoints, healthChecks, monitored, sweep>>

(* remove_node, and unregister_node's two locks. *)
RemoveDeployedNode(n) ==
    n \in Deployed /\ BeginCall([Call("remove", "remove", <<>>) EXCEPT !.node = n])

UnregisterEndpoint ==
    /\ operation.at = "remove"
    /\ deployed' = [deployed EXCEPT ![operation.node] = "none"]
    /\ endpoints' = [endpoints EXCEPT ![operation.node] = NoVersion]
    /\ operation' = [operation EXCEPT !.at = "unregister"]
    /\ UNCHANGED <<calls, healthChecks, monitored, sweep>>

UnregisterHealth ==
    /\ operation.at = "unregister"
    /\ healthChecks' = [healthChecks EXCEPT ![operation.node] = "not checked"]
    /\ operation' = NoCall
    /\ UNCHANGED <<calls, deployed, endpoints, monitored, sweep>>

(* get_cluster_status panics in the mock's query for a healthy node.       *)
GetClusterStatus ==
    /\ HealthyNodes # {}
    /\ BeginCall(Call("status", "panicked", <<>>))

----------------------------------------------------------------------------
(* The sweep of health checks *)

StartSweep ==
    /\ monitored /\ sweep = {}
    /\ sweep' = {n \in DeployIds : endpoints[n] # NoVersion} /\ sweep' # {}
    /\ UNCHANGED <<operation, calls, deployed, endpoints, healthChecks, monitored>>

CheckNode(n) ==
    /\ n \in sweep
    /\ sweep' = sweep \ {n}
    /\ healthChecks' =
         [healthChecks EXCEPT ![n] = IF @ = "not checked" THEN @ ELSE "healthy"]
    /\ UNCHANGED <<operation, calls, deployed, endpoints, monitored>>

DeploymentNext ==
    \/ \E nodes \in DeployConfigs : Bootstrap(nodes)
    \/ RegisterEndpoint \/ RegisterHealth \/ FormCluster
    \/ FindHealthy \/ GiveUpWaiting
    \/ \E k \in 0..Cardinality(DeployIds) : \E order \in [1..k -> DeployIds] : RollingUpdate(order)
    \/ TakeDown \/ FinishUpdate \/ VerifyClusterHealth \/ EndRollingUpdate
    \/ \E n \in DeployIds : AddDeployedNode(n) \/ RemoveDeployedNode(n) \/ CheckNode(n)
    \/ UnregisterEndpoint \/ UnregisterHealth
    \/ GetClusterStatus
    \/ StartSweep

----------------------------------------------------------------------------
(* Backups *)

VARIABLES
    backupTasks, \* what each task has in hand: a record to push, a cleanup to do
    history,     \* backup_history
    backups,     \* every record that was pushed
    begun        \* backups begun, the clock of their names and timestamps

backupVars == <<backupTasks, history, backups, begun>>

NoBackup == [timestamp |-> 0]
CleaningUp == [timestamp |-> -1]

BackupInit ==
    /\ backupTasks = [t \in BackupCallers \cup {Schedule} |-> NoBackup]
    /\ history = <<>> /\ backups = {} /\ begun = 0

(* The record is made before its task waits for the lock of the history.   *)
NameBackup(t) ==
    /\ backupTasks[t] = NoBackup /\ begun < MaxBackups
    /\ begun' = begun + 1
    /\ backupTasks' = [backupTasks EXCEPT ![t] = [timestamp |-> begun + 1]]
    /\ UNCHANGED <<history, backups>>

PushBackup(t) ==
    /\ backupTasks[t] \notin {NoBackup, CleaningUp}
    /\ history' = Append(history, backupTasks[t])
    /\ backups' = backups \cup {backupTasks[t]}
    /\ backupTasks' = [backupTasks EXCEPT ![t] = CleaningUp]
    /\ UNCHANGED begun

Later(a, b) == a.timestamp > b.timestamp

(* No two timestamps are equal, so that i - 1 records are later than the   *)
(* i-th of the sorted ones.                                                *)
NewestFirst(records) ==
    [i \in DOMAIN records |->
       CHOOSE r \in Range(records) : Cardinality({c \in Range(records) : Later(c, r)}) = i - 1]
Kept(records) == SubSeq(records, 1, Retention)

(* A slip: the history is cut without being sorted. *)
SlipCleanupOldBackups(t) ==
    /\ backupTasks[t] = CleaningUp
    /\ history' = IF Len(history) > Retention THEN Kept(history) ELSE history
    /\ backupTasks' = [backupTasks EXCEPT ![t] = NoBackup]
    /\ UNCHANGED <<backups, begun>>

CleanupOldBackups(t) ==
    /\ backupTasks[t] = CleaningUp
    /\ history' =
         IF Len(history) > Retention THEN Kept(NewestFirst(history)) ELSE history
    /\ backupTasks' = [backupTasks EXCEPT ![t] = NoBackup]
    /\ UNCHANGED <<backups, begun>>

BackupNext ==
    \E t \in BackupCallers \cup {Schedule} : NameBackup(t) \/ PushBackup(t) \/ CleanupOldBackups(t)

----------------------------------------------------------------------------
(* Properties *)

(* However the schedule and callers of create_backup overlap, and in       *)
(* whatever order their records reach the history, the newest backups, as  *)
(* many as are to be retained, are in it.                                  *)
NewestBackupsAreKept ==
    \A b \in backups :
      Cardinality({c \in backups : Later(c, b)}) < Retention => Contains(history, b)
=============================================================================
