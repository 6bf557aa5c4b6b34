-------------------------- MODULE SnapshotInstall --------------------------
(***************************************************************************)
(* What a follower does of a Ready that brings a snapshot (raft/core.rs,   *)
(* raft/snapshot.rs and apply_snapshot of storage/redb.rs): configuration, *)
(* hard state, tables and log are transactions of their own, the tables    *)
(* are restored twice, and the node may crash between any two.  Its leader *)
(* is outside the model: one of this program aborts before it sends a      *)
(* snapshot (LaggingVoterIsServed).  Terms and votes are RaftManager's.    *)
(* A table is told by the snapshot it was last restored from: an entry     *)
(* applied on top, the first time or again after a restart (RawNode starts *)
(* with applied at 0), changes the rows of its command and not that.       *)
(***************************************************************************)
EXTENDS Integers

CONSTANTS
    MaxInstalled,  \* bound: log and snapshot indexes
    MaxInstalls    \* bound: snapshots received

ASSUME InstallAssumption == MaxInstalled \in Nat

VARIABLES
    installing, \* step of on_ready, "idle" between them, "down" after a crash
    snapshot,   \* index of the snapshot in the Ready, 0 if none
    installs,   \* snapshots received
    logRows,    \* indexes with a row in the log table
    storedCommit, \* commit index of the stored hard state
    carries,    \* whether it has data: only then are the tables restored
    tables,     \* the state machine's tables: the snapshot each was restored from
    transaction \* the same, in the transaction that is open

installVars ==
    <<installing, snapshot, installs, logRows, storedCommit, carries, tables, transaction>>

(* The tables by the type of their keys, in the order they are restored.   *)
Kinds == {"string", "bytes", "u64"}
CreateSnapshotData(index) == [k \in Kinds |-> index]

LastRow == IF logRows = {} THEN 0 ELSE CHOOSE i \in logRows : \A j \in logRows : j <= i

InstallInit ==
    /\ installing = "idle" /\ snapshot = 0 /\ installs = 0
    /\ logRows = {} /\ storedCommit = 0 /\ carries = FALSE
    /\ tables = CreateSnapshotData(0) /\ transaction = tables

(* Entries from the leader: a row, and one that is committed and applied.  *)
(* None matches a log that ends before the commit index.                   *)
AppendRow ==
    /\ installing = "idle" /\ LastRow \in storedCommit..(MaxInstalled - 1)
    /\ logRows' = logRows \cup {LastRow + 1}
    /\ UNCHANGED <<installing, snapshot, installs, storedCommit, carries, tables, transaction>>

CommitRow ==
    /\ installing = "idle" /\ storedCommit + 1 \in logRows
    /\ storedCommit' = storedCommit + 1
    /\ UNCHANGED <<installing, snapshot, installs, logRows, carries, tables, transaction>>

(* The library takes a snapshot ahead of its commit index only.            *)
ReceiveSnapshot(index, data) ==
    /\ installing = "idle" /\ installs < MaxInstalls /\ index > storedCommit
    /\ installing' = "save configuration" /\ snapshot' = index /\ installs' = installs + 1
    /\ carries' = data
    /\ UNCHANGED <<logRows, storedCommit, tables, transaction>>

SaveConfiguration ==
    /\ installing = "save configuration"
    /\ installing' = "save hard state"
    /\ UNCHANGED <<snapshot, installs, logRows, storedCommit, carries, tables, transaction>>

SaveSnapshotHardState ==
    /\ installing = "save hard state"
    /\ storedCommit' = snapshot
    /\ transaction' = tables
    /\ installing' = IF carries THEN "restore string" ELSE "compact"
    /\ UNCHANGED <<snapshot, installs, logRows, carries, tables>>

(* A slip: each helper commits what it restored. *)
SlipRestoreTable(kind, step, next) ==
    /\ installing = step
    /\ transaction' = [transaction EXCEPT ![kind] = CreateSnapshotData(snapshot)[kind]]
    /\ tables' = transaction'
    /\ installing' = next
    /\ UNCHANGED <<snapshot, installs, logRows, storedCommit, carries>>

RestoreTable(kind, step, next) ==
    /\ installing = step
    /\ transaction' = [transaction EXCEPT ![kind] = CreateSnapshotData(snapshot)[kind]]
    /\ installing' = next
    /\ UNCHANGED <<snapshot, installs, logRows, storedCommit, carries, tables>>

RestoreStringTable == RestoreTable("string", "restore string", "restore bytes")
RestoreBytesTable == RestoreTable("bytes", "restore bytes", "restore u64")
RestoreU64Table == RestoreTable("u64", "restore u64", "commit tables")

CommitTables ==
    /\ installing = "commit tables"
    /\ tables' = transaction
    /\ installing' = "compact"
    /\ UNCHANGED <<snapshot, installs, logRows, storedCommit, carries, transaction>>

(* Every row below the snapshot goes; none is written at its index.        *)
CompactLog ==
    /\ installing = "compact"
    /\ logRows' = {i \in logRows : i >= snapshot}
    /\ transaction' = tables
    /\ installing' = IF carries THEN "apply string" ELSE "idle"
    /\ snapshot' = IF carries THEN snapshot ELSE 0
    /\ UNCHANGED <<installs, storedCommit, carries, tables>>

(* apply_snapshot_to_state_machine, the second time. *)
ApplyStringTable == RestoreTable("string", "apply string", "apply bytes")
ApplyBytesTable == RestoreTable("bytes", "apply bytes", "apply u64")
ApplyU64Table == RestoreTable("u64", "apply u64", "commit again")

CommitAgain ==
    /\ installing = "commit again"
    /\ tables' = transaction
    /\ installing' = "idle" /\ snapshot' = 0
    /\ UNCHANGED <<installs, logRows, storedCommit, carries, transaction>>

CrashInstalling ==
    /\ installing # "down"
    /\ installing' = "down" /\ snapshot' = 0 /\ transaction' = tables
    /\ UNCHANGED <<installs, logRows, storedCommit, carries, tables>>

(* RawNode::new aborts on a commit index past the log; otherwise the node  *)
(* goes on with the tables as they are.                                    *)
RestartInstalled ==
    /\ installing = "down" /\ storedCommit <= LastRow
    /\ installing' = "idle"
    /\ UNCHANGED <<snapshot, installs, logRows, storedCommit, carries, tables, transaction>>

InstallNext ==
    \/ AppendRow \/ CommitRow
    \/ \E index \in 1..MaxInstalled, data \in BOOLEAN : ReceiveSnapshot(index, data)
    \/ SaveConfiguration \/ SaveSnapshotHardState
    \/ RestoreStringTable \/ RestoreBytesTable \/ RestoreU64Table \/ CommitTables
    \/ CompactLog
    \/ ApplyStringTable \/ ApplyBytesTable \/ ApplyU64Table \/ CommitAgain
    \/ CrashInstalling \/ RestartInstalled

----------------------------------------------------------------------------
(* Properties *)

(* The tables, those a crash leaves too, were all restored from the same   *)
(* snapshot: the helpers of each kind work in one transaction.             *)
TablesAgree == \A j, k \in Kinds : tables[j] = tables[k]
=============================================================================
