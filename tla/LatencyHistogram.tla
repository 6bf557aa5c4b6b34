-------------------------- MODULE LatencyHistogram --------------------------
(***************************************************************************)
(* LockFreeHistogram and HistogramSnapshot of src/src/lock_free.rs: a      *)
(* latency raises the counter of its bucket; a snapshot loads the counters *)
(* one after the other while latencies are recorded, and a percentile is   *)
(* read off the snapshot.  A snapshot is its reader's own, so one reader   *)
(* stands for any number.                                                  *)
(***************************************************************************)
EXTENDS Integers, Sequences, FiniteSets, SequencesExt

CONSTANTS
    Samples,    \* latencies recorded, in microseconds
    MaxSamples  \* bound on them

ASSUME HistogramAssumption == Samples \subseteq Nat

VARIABLES
    latencies, \* the samples, in order; the buckets count them
    loading,   \* the bucket the snapshot loads next, one past the last when it is done
    counted,   \* the samples, by their place, that the loaded counters count
    began      \* history: the number of samples when the snapshot began

histogramVars == <<latencies, loading, counted, began>>

(* The upper boundaries of the buckets, but for the last, unbounded one.   *)
Boundaries == <<1, 10, 100, 1000, 10000, 100000, 1000000, 10000000>>
Unbounded == 2000000000

Buckets == 1..Len(Boundaries) + 1
SnapshotDone == loading = Len(Boundaries) + 2

(* Before the first snapshot there is an empty one.                        *)
HistogramInit ==
    latencies = <<>> /\ loading = Len(Boundaries) + 2 /\ counted = {} /\ began = 0

FindBucket(value) ==
    CHOOSE i \in Buckets :
        /\ i <= Len(Boundaries) => value < Boundaries[i]
        /\ \A j \in 1..i-1 : value >= Boundaries[j]

RecordLatency(v) ==
    /\ Len(latencies) < MaxSamples
    /\ latencies' = Append(latencies, v)
    /\ UNCHANGED <<loading, counted, began>>

StartSnapshot ==
    /\ SnapshotDone
    /\ loading' = 1 /\ counted' = {} /\ began' = Len(latencies)
    /\ UNCHANGED latencies

LoadBucket ==
    /\ loading \in Buckets
    /\ counted' = counted \cup {k \in DOMAIN latencies : FindBucket(latencies[k]) = loading}
    /\ loading' = loading + 1
    /\ UNCHANGED <<latencies, began>>

---------------------------------------------------------------------------
(* HistogramSnapshot *)

Cumulative(i) == Cardinality({k \in counted : FindBucket(latencies[k]) <= i})

(* ceil(total * p) for p in hundredths.                                    *)
Target(p) == (Cardinality(counted) * p + 99) \div 100

(* A slip: the upper boundary of the bucket. *)
SlipPercentile(p) ==
    LET i == CHOOSE i \in Buckets :
                /\ Cumulative(i) >= Target(p)
                /\ \A j \in 1..i-1 : Cumulative(j) < Target(p)
    IN  IF i > Len(Boundaries) THEN Unbounded ELSE Boundaries[i]

(* The lower boundary of the first bucket that reaches the target.         *)
Percentile(p) ==
    LET i == CHOOSE i \in Buckets :
                /\ Cumulative(i) >= Target(p)
                /\ \A j \in 1..i-1 : Cumulative(j) < Target(p)
    IN  IF i = 1 THEN 0 ELSE Boundaries[i - 1]

HistogramNext == (\E v \in Samples : RecordLatency(v)) \/ StartSnapshot \/ LoadBucket

---------------------------------------------------------------------------
(* Properties *)

(* Of the samples in the snapshot, the one of a rank: fewer than that are  *)
(* below it, and as many are not above it.                                 *)
HasRank(v, rank) ==
    /\ Cardinality({k \in counted : latencies[k] < v}) < rank
    /\ Cardinality({k \in counted : latencies[k] <= v}) >= rank

Ranked(rank) == CHOOSE v \in {latencies[k] : k \in counted} : HasRank(v, rank)

(* However the loads of a snapshot interleave with the records of others,  *)
(* its percentiles are those of a set of samples, each counted once, that  *)
(* misses none recorded before the snapshot began: a percentile is a lower *)
(* bound of the exact one of these samples, in the same bucket.            *)
PercentileIsTight ==
    SnapshotDone =>
        /\ 1..began \subseteq counted
        /\ counted # {} => \A p \in {1, 50, 95, 99} :
             LET ranked == Ranked(Target(p))
             IN  ranked >= Percentile(p) /\ FindBucket(ranked) = FindBucket(Percentile(p))
=============================================================================
