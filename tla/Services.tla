------------------------------ MODULE Services ------------------------------
(***************************************************************************)
(* The components around the Raft node that share no state with each other *)
(* (each has callers, threads or nodes of its own), side by side: focus    *)
(* says which of them moves in a behaviour, the others rest in an initial  *)
(* state. A property of a component is a property of the behaviours that   *)
(* focus on it.                                                            *)
(***************************************************************************)
EXTENDS
    NodeStatusActor, ConnectionPoolActor, LockFree, LatencyHistogram,
    CircuitBreaker, BreakerRegistry, EventLoop, Proposals, MessageProcessing, SimpleStorage,
    ManagementEvents,
    ClusterDiscovery, ManagementStreams, ManagementAuth, ClusterFacade,
    ClusterApi, Configuration, KeyValueStore, DistributedKvStore,
    DistributedKvNode, Codec, SnapshotInstall, Deployment, Monitoring

CONSTANT Components \* those a run looks at

VARIABLE focus

vars == <<focus,
          statusVars, poolVars, lockFreeVars, histogramVars,
          breakerVars, registryVars, loopVars, proposalVars, processingVars,
          storageVars, eventVars, discoveryVars, streamVars,
          authVars, facadeVars, apiVars, configVars, kvVars, storeVars,
          kvNodeVars, codecVars, installVars,
          deploymentVars, backupVars, monitoringVars>>

Init ==
    /\ focus \in Components
    /\ StatusInit
    /\ PoolInit
    /\ LockFreeInit
    /\ HistogramInit
    /\ BreakerInit
    /\ RegistryInit
    /\ LoopInit
    /\ ProposalsInit
    /\ ProcessingInit
    /\ StorageInit
    /\ EventInit
    /\ DiscoveryInit
    /\ StreamInit
    /\ AuthInit
    /\ FacadeInit
    /\ ApiInit
    /\ ConfigInit
    /\ KvInit
    /\ StoreInit
    /\ KvNodeInit
    /\ CodecInit
    /\ InstallInit
    /\ DeploymentInit
    /\ BackupInit
    /\ MonitoringInit
    /\ focus # "configuration" => config = DefaultConfig

----------------------------------------------------------------------------
Rests(component, variables) == IF focus = component THEN TRUE ELSE UNCHANGED variables

(* The parts of the monitoring, which share only the alerts' metrics.      *)
MonitoringParts == {"metrics", "alerts", "health checks", "spans"}

TheOthersRest ==
    /\ UNCHANGED focus
    /\ Rests("status", statusVars)
    /\ Rests("connections", poolVars)
    /\ Rests("lock free", lockFreeVars)
    /\ Rests("latencies", histogramVars)
    /\ Rests("breaker", breakerVars)
    /\ Rests("breakers", registryVars)
    /\ Rests("event loop", loopVars)
    /\ Rests("proposals", proposalVars)
    /\ Rests("processing", processingVars)
    /\ Rests("storage", storageVars)
    /\ Rests("events", eventVars)
    /\ Rests("discovery", discoveryVars)
    /\ Rests("streams", streamVars)
    /\ Rests("authorization", authVars)
    /\ Rests("facade", facadeVars)
    /\ Rests("api", apiVars)
    /\ Rests("configuration", configVars)
    /\ Rests("key values", kvVars)
    /\ Rests("store", storeVars)
    /\ Rests("store node", kvNodeVars)
    /\ Rests("codec", codecVars)
    /\ Rests("installation", installVars)
    /\ Rests("deployment", deploymentVars)
    /\ Rests("backups", backupVars)
    /\ IF focus \in MonitoringParts THEN TRUE ELSE UNCHANGED monitoringVars

StatusMove == focus = "status" /\ StatusNext /\ TheOthersRest
PoolMove == focus = "connections" /\ PoolNext /\ TheOthersRest
LockFreeMove == focus = "lock free" /\ LockFreeNext /\ TheOthersRest
HistogramMove == focus = "latencies" /\ HistogramNext /\ TheOthersRest
BreakerMove == focus = "breaker" /\ BreakerNext /\ TheOthersRest
RegistryMove == focus = "breakers" /\ RegistryNext /\ TheOthersRest
LoopMove == focus = "event loop" /\ LoopNext /\ TheOthersRest
ProposalsMove == focus = "proposals" /\ ProposalsNext /\ TheOthersRest
ProcessingMove == focus = "processing" /\ ProcessingNext /\ TheOthersRest
StorageMove == focus = "storage" /\ StorageNext /\ TheOthersRest
EventMove == focus = "events" /\ EventNext /\ TheOthersRest
DiscoveryMove == focus = "discovery" /\ DiscoveryNext /\ TheOthersRest
StreamMove == focus = "streams" /\ StreamNext /\ TheOthersRest
AuthMove == focus = "authorization" /\ AuthNext /\ TheOthersRest
FacadeMove == focus = "facade" /\ FacadeNext /\ TheOthersRest
ApiMove == focus = "api" /\ ApiNext /\ TheOthersRest
ConfigMove == focus = "configuration" /\ ConfigNext /\ TheOthersRest
KvMove == focus = "key values" /\ KvNext /\ TheOthersRest
StoreMove == focus = "store" /\ StoreNext /\ TheOthersRest
KvNodeMove == focus = "store node" /\ KvNodeNext /\ TheOthersRest
CodecMove == focus = "codec" /\ CodecNext /\ TheOthersRest
InstallMove == focus = "installation" /\ InstallNext /\ TheOthersRest
DeploymentMove == focus = "deployment" /\ DeploymentNext /\ TheOthersRest
BackupMove == focus = "backups" /\ BackupNext /\ TheOthersRest
MetricsMove == focus = "metrics" /\ MetricsNext /\ TheOthersRest
AlertsMove == focus = "alerts" /\ AlertsNext /\ TheOthersRest
HealthMove == focus = "health checks" /\ HealthNext /\ TheOthersRest
SpansMove == focus = "spans" /\ SpansNext /\ TheOthersRest

Next ==
    \/ StatusMove \/ PoolMove \/ LockFreeMove \/ HistogramMove
    \/ BreakerMove \/ RegistryMove \/ LoopMove \/ ProposalsMove \/ ProcessingMove \/ StorageMove
    \/ EventMove \/ DiscoveryMove \/ StreamMove \/ AuthMove
    \/ FacadeMove \/ ApiMove \/ ConfigMove \/ KvMove \/ StoreMove \/ KvNodeMove
    \/ CodecMove \/ InstallMove \/ DeploymentMove \/ BackupMove
    \/ MetricsMove \/ AlertsMove \/ HealthMove \/ SpansMove

Spec == Init /\ [][Next]_vars
=============================================================================
