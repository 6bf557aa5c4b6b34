----------------------------- MODULE Monitoring -----------------------------
(***************************************************************************)
(* The monitoring of src/examples/monitoring_integration.rs: metrics under *)
(* a lock for each kind, which collectors write and exports read; alert    *)
(* rules evaluated against them, health checks, and trace spans.  The JSON *)
(* export, which drops each guard before it takes the next one and changes *)
(* nothing, is left out.                                                   *)
(***************************************************************************)
EXTENDS Integers, Sequences

CONSTANTS
    Monitors,       \* calls of start_monitoring: each spawns a collector of
                    \* metrics, an exporter, and an evaluator of alerts
    FailuresLimit,  \* value of the rule on failed proposals, 10 in the code
    MaxCollections, \* bound: rounds of the collectors
    MaxAlerts,      \* bound: alerts fired
    MaxSpans        \* bound: spans started

VARIABLES
    raftMetrics,   \* proposals_total, which counts the collectors' rounds
    systemMetrics, \* [uptime, cpu]
    collecting,    \* the collectors that have written the first and not the second
    failedProposals,      \* custom metric raft_proposals_failed, Unset if there is none
    exporting,     \* monitor -> its Prometheus export: what it holds and has read
    evaluation,    \* monitor -> what it found of a rule before it locks the alerts
    activeAlerts,  \* active_alerts
    health,        \* the checks done, and whether all of those are well
    spans          \* the spans and the parts added to them

monitoringVars ==
    <<raftMetrics, systemMetrics, collecting, failedProposals, exporting, evaluation, activeAlerts,
      health, spans>>

metricVars == <<raftMetrics, systemMetrics, collecting, failedProposals>>
alertVars == <<evaluation, activeAlerts>>

Unset == -1
NoExport == [raft |-> 0, uptime |-> 0]
NoRule == [rule |-> "none", fires |-> FALSE]

MonitoringInit ==
    /\ raftMetrics = 0 /\ systemMetrics = [uptime |-> 0, cpu |-> 0] /\ collecting = {}
    /\ failedProposals = Unset
    /\ exporting = [m \in Monitors |-> [at |-> "idle", read |-> NoExport]]
    /\ evaluation = [m \in Monitors |-> NoRule]
    /\ activeAlerts = <<>>
    /\ health = [checked |-> {}, well |-> TRUE]
    /\ spans = <<>>

----------------------------------------------------------------------------
(* Metrics *)

(* The guards that a Prometheus export has taken are kept until it returns.*)
Holds(m, kind) ==
    \/ exporting[m].at = "raft" /\ kind = "raft"
    \/ exporting[m].at = "system" /\ kind \in {"raft", "system"}
IsRead(kind) == \E m \in Monitors : Holds(m, kind)

CollectRaft(m) ==
    /\ m \notin collecting /\ raftMetrics < MaxCollections
    /\ ~IsRead("raft")
    /\ raftMetrics' = raftMetrics + 1
    /\ collecting' = collecting \cup {m}
    /\ UNCHANGED <<systemMetrics, failedProposals, exporting, alertVars, health, spans>>

(* The processor is between 35 and 55 percent busy.                        *)
CollectSystem(m, cpu) ==
    /\ m \in collecting
    /\ ~IsRead("system")
    /\ systemMetrics' = [uptime |-> systemMetrics.uptime + 1, cpu |-> cpu]
    /\ collecting' = collecting \ {m}
    /\ UNCHANGED <<raftMetrics, failedProposals, exporting, alertVars, health, spans>>

(* increment_counter and record_metric. *)
IncrementCounter ==
    /\ failedProposals <= FailuresLimit
    /\ failedProposals' = IF failedProposals = Unset THEN 1 ELSE failedProposals + 1
    /\ UNCHANGED <<raftMetrics, systemMetrics, collecting, exporting, alertVars, health, spans>>

SetGauge(value) ==
    /\ failedProposals' = value
    /\ UNCHANGED <<raftMetrics, systemMetrics, collecting, exporting, alertVars, health, spans>>

ExportRaft(m) ==
    /\ exporting[m].at = "idle"
    /\ exporting' = [exporting EXCEPT ![m] =
                       [at |-> "raft", read |-> [@.read EXCEPT !.raft = raftMetrics]]]
    /\ UNCHANGED <<metricVars, alertVars, health, spans>>

ExportSystem(m) ==
    /\ exporting[m].at = "raft"
    /\ exporting' = [exporting EXCEPT ![m] =
                       [at |-> "system", read |-> [@.read EXCEPT !.uptime = systemMetrics.uptime]]]
    /\ UNCHANGED <<metricVars, alertVars, health, spans>>

(* After the custom metrics, which nothing else is read with.              *)
ReturnExport(m) ==
    /\ exporting[m].at = "system"
    /\ exporting' = [exporting EXCEPT ![m].at = "idle"]
    /\ UNCHANGED <<metricVars, alertVars, health, spans>>

----------------------------------------------------------------------------
(* Alerts *)

Rules == {"high_cpu_usage", "raft_proposals_failing"}

(* The counter of failed proposals that get_metric_value finds by its name *)
(* is a custom metric, not the one of the Raft metrics.                    *)
ShouldFire(rule) ==
    IF rule = "high_cpu_usage" THEN systemMetrics.cpu > 80 ELSE failedProposals > FailuresLimit

EvaluateRule(e, rule) ==
    /\ evaluation[e] = NoRule
    /\ evaluation' = [evaluation EXCEPT ![e] = [rule |-> rule, fires |-> ShouldFire(rule)]]
    /\ UNCHANGED <<metricVars, exporting, activeAlerts, health, spans>>

ActiveAlerts(rule) ==
    {i \in DOMAIN activeAlerts : activeAlerts[i] = [name |-> rule, ended |-> FALSE]}

(* The rest of the round of evaluate_alerts, under the lock of the alerts. *)
UpdateAlerts(e) ==
    LET found == evaluation[e]
    IN  /\ found # NoRule
        /\ evaluation' = [evaluation EXCEPT ![e] = NoRule]
        /\ \/ /\ found.fires /\ ActiveAlerts(found.rule) = {} /\ Len(activeAlerts) < MaxAlerts
              /\ activeAlerts' = Append(activeAlerts, [name |-> found.rule, ended |-> FALSE])
           \/ /\ ~found.fires /\ ActiveAlerts(found.rule) # {}
              /\ \E i \in ActiveAlerts(found.rule) :
                   /\ \A j \in ActiveAlerts(found.rule) : i <= j
                   /\ activeAlerts' = [activeAlerts EXCEPT ![i] = [name |-> found.rule, ended |-> TRUE]]
           \/ found.fires = (ActiveAlerts(found.rule) # {}) /\ UNCHANGED activeAlerts
        /\ UNCHANGED <<metricVars, exporting, health, spans>>

----------------------------------------------------------------------------
(* Health checks *)

(* What the checks of the coordinator measure, and their thresholds.       *)
Checks == {"raft_leadership", "memory_usage", "disk_usage"}
ExecuteHealthCheck(check) ==
    CASE check = "raft_leadership" -> "healthy"
      [] check = "memory_usage"    -> IF 455 > 800 THEN "degraded" ELSE "healthy"
      [] check = "disk_usage"      -> IF 678 > 900 THEN "degraded" ELSE "healthy"

CheckHealth(check) ==
    /\ health' = [checked |-> health.checked \cup {check},
                  well |-> \A c \in health.checked \cup {check} : ExecuteHealthCheck(c) = "healthy"]
    /\ UNCHANGED <<metricVars, exporting, alertVars, spans>>

----------------------------------------------------------------------------
(* Spans *)

StartSpan ==
    /\ Len(spans) < MaxSpans
    /\ spans' = Append(spans, [ended |-> FALSE, parts |-> {}])
    /\ UNCHANGED <<metricVars, exporting, alertVars, health>>

FinishSpan(s) ==
    /\ spans' = [spans EXCEPT ![s].ended = TRUE]
    /\ UNCHANGED <<metricVars, exporting, alertVars, health>>

(* add_span_tag and add_span_log, of a span that may have ended.           *)
AddToSpan(s, part) ==
    /\ spans' = [spans EXCEPT ![s].parts = @ \cup {part}]
    /\ UNCHANGED <<metricVars, exporting, alertVars, health>>

MetricsNext ==
    \E m \in Monitors :
      \/ CollectRaft(m) \/ (\E cpu \in {35, 55} : CollectSystem(m, cpu))
      \/ ExportRaft(m) \/ ExportSystem(m) \/ ReturnExport(m)

AlertsNext ==
    \/ IncrementCounter \/ (\E value \in 0..FailuresLimit : SetGauge(value))
    \/ \E e \in Monitors : UpdateAlerts(e) \/ \E rule \in Rules : EvaluateRule(e, rule)

HealthNext == \E check \in Checks : CheckHealth(check)

SpansNext ==
    \/ StartSpan
    \/ \E s \in DOMAIN spans : FinishSpan(s) \/ \E part \in {"tag", "log"} : AddToSpan(s, part)

MonitoringNext == MetricsNext \/ AlertsNext \/ HealthNext \/ SpansNext

----------------------------------------------------------------------------
(* Properties *)

(* A Prometheus export that has read the last of the metrics holds a state *)
(* that they have all at once: export_prometheus_format keeps each guard   *)
(* while it takes the next, so that no collector writes what it has read.  *)
ExportIsOfOneMoment ==
    \A m \in Monitors :
      exporting[m].at = "system" =>
        exporting[m].read = [raft |-> raftMetrics, uptime |-> systemMetrics.uptime]

(* However many evaluations run, a rule has at most one alert that has not *)
(* ended: it is looked for and added under one lock, although whether the  *)
(* rule fires was found before.                                            *)
OneActiveAlert ==
    \A rule \in Rules : \A i, j \in ActiveAlerts(rule) : i = j
=============================================================================
