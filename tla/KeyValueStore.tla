---------------------------- MODULE KeyValueStore ----------------------------
(***************************************************************************)
(* The key-value state machine (raft/kv_example.rs) behind the generic     *)
(* wrapper (raft/generic_state_machine.rs), on several replicas: each      *)
(* applies the committed log in order, and a replica may skip part of it   *)
(* by restoring another one's snapshot. last_updated, the wall clock of    *)
(* the replica, differs between replicas by design and is left out.        *)
(***************************************************************************)
EXTENDS Integers, Sequences, FiniteSets

CONSTANTS
    KvReplicas, KvKeys, KvValues,
    MaxKvLog  \* bound on the log

VARIABLES
    kvLog,       \* committed entries [op, key, value]
    kvReplicas,  \* per replica [at, data, operations, version]; at: entries applied
    kvSnapshot,  \* the last snapshot taken, with the position it stands for
    kvAnswer     \* what the last query returned

kvVars == <<kvLog, kvReplicas, kvSnapshot, kvAnswer>>

Absent == "absent"

NewKvState == [at |-> 0, data |-> [k \in KvKeys |-> Absent], operations |-> 0, version |-> 0]

KvInit ==
    /\ kvLog = <<>>
    /\ kvReplicas = [r \in KvReplicas |-> NewKvState]
    /\ kvSnapshot = NewKvState
    /\ kvAnswer = Absent

(* Every command counts as an operation, a delete of an absent key too.    *)
Changed(state, data) ==
    [state EXCEPT !.data = data, !.operations = @ + 1, !.version = @ + 1]

ApplyCommand(state, entry) ==
    Changed(state,
        CASE entry.op = "set"    -> [state.data EXCEPT ![entry.key] = entry.value]
          [] entry.op = "delete" -> [state.data EXCEPT ![entry.key] = Absent]
          [] entry.op = "clear"  -> [k \in KvKeys |-> Absent])

(* An entry with no data (a new leader's, or a configuration change's) and *)
(* one that does not decode return an error and change nothing.            *)
ApplyEntry(r) ==
    LET state == kvReplicas[r]
        entry == kvLog[state.at + 1]
        next == IF entry.op \in {"empty", "garbled"} THEN state ELSE ApplyCommand(state, entry)
    IN  /\ state.at < Len(kvLog)
        /\ kvReplicas' = [kvReplicas EXCEPT ![r] = [next EXCEPT !.at = state.at + 1]]
        /\ UNCHANGED <<kvLog, kvSnapshot, kvAnswer>>

CreateSnapshot(r) ==
    /\ kvSnapshot' = kvReplicas[r]
    /\ UNCHANGED <<kvLog, kvReplicas, kvAnswer>>

(* The snapshot replaces the whole state. Raft hands over a snapshot only  *)
(* to a replica that is behind it.                                         *)
RestoreFromSnapshot(r) ==
    /\ kvReplicas[r].at < kvSnapshot.at
    /\ kvReplicas' = [kvReplicas EXCEPT ![r] = kvSnapshot]
    /\ UNCHANGED <<kvLog, kvSnapshot, kvAnswer>>

Commit(entry) ==
    /\ Len(kvLog) < MaxKvLog
    /\ kvLog' = Append(kvLog, entry)
    /\ UNCHANGED <<kvReplicas, kvSnapshot, kvAnswer>>

(* Queries read the replica they are asked of: Get; Exists, List and Size  *)
(* are functions of the same map.                                          *)
ExecuteQuery(r, k) ==
    /\ kvAnswer' = kvReplicas[r].data[k]
    /\ UNCHANGED <<kvLog, kvReplicas, kvSnapshot>>

KvNext ==
    \/ \E op \in {"set", "delete", "clear", "empty", "garbled"}, k \in KvKeys, v \in KvValues :
          Commit([op |-> op, key |-> k, value |-> v])
    \/ \E r \in KvReplicas :
        \/ ApplyEntry(r) \/ CreateSnapshot(r) \/ RestoreFromSnapshot(r)
        \/ \E k \in KvKeys : ExecuteQuery(r, k)
=============================================================================
