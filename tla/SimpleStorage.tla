--------------------------- MODULE SimpleStorage ---------------------------
(***************************************************************************)
(* RaftStorage (src/src/storage/simple.rs), the redb store of RaftNode,    *)
(* under the one caller it has, handle_ready of src/src/node.rs: the hard  *)
(* state, the entries and the snapshot of a Ready are three transactions.  *)
(* The process may crash between any two, and each of them, an entry and   *)
(* the restore of a snapshot may fail: handle_ready then returns without   *)
(* advance(), the run loop logs the error and goes on, and the library     *)
(* hands the same entries and snapshot out again with the next Ready.      *)
(***************************************************************************)
EXTENDS Integers

CONSTANT MaxIndex  \* bound on log indices

ASSUME StorageAssumption == MaxIndex \in Nat

VARIABLES
    rows,     \* RAFT_LOG_TABLE: the indices that have a row
    commit,   \* HARD_STATE_TABLE: the commit index; its term and vote do not matter here
    snap,     \* SNAPSHOT_TABLE: the index of the stored snapshot, 0 for none
    lib,      \* the raft library: its commit index, and its entries from..to and the
              \* snapshot that no advance() has told it are stored
    pc,       \* the next transaction of handle_ready, or "idle" or "down"
    settled,  \* history: the commit index of the last Ready that is stored whole
    awaited   \* history: the snapshot that stored entries were to follow and that is
              \* not stored, 0 for none

storageVars == <<rows, commit, snap, lib, pc, settled, awaited>>

Index == 1..MaxIndex

Larger(i, j) == IF i <= j THEN j ELSE i

(* A library that knows of nothing unsaved.                                *)
Saved(c) == [commit |-> c, from |-> 1, to |-> 0, snap |-> 0]

StorageInit ==
    /\ rows = {} /\ commit = 0 /\ snap = 0
    /\ lib = Saved(0) /\ pc = "idle" /\ settled = 0 /\ awaited = 0

---------------------------------------------------------------------------
(* Reads *)

(* The stored snapshot goes before the rows.                               *)
IsFirst(i) ==
    IF snap # 0 THEN i = snap + 1
    ELSE IF rows = {} THEN i = 1
    ELSE i \in rows /\ \A j \in rows : i <= j

(* A slip: the snapshot's own index. *)
SlipFirstIndex == IF snap # 0 THEN snap ELSE CHOOSE i \in 1..(MaxIndex + 1) : IsFirst(i)

FirstIndex == CHOOSE i \in 1..(MaxIndex + 1) : IsFirst(i)

(* The rows go before the stored snapshot.                                 *)
IsLast(i) ==
    IF rows = {} THEN i = snap
    ELSE i \in rows /\ \A j \in rows : j <= i

LastIndex == CHOOSE i \in 0..MaxIndex : IsLast(i)

(* What RawNode::new asks of initial_state, or it panics.                  *)
Loadable == FirstIndex - 1 <= commit /\ commit <= LastIndex

---------------------------------------------------------------------------
(* handle_ready *)

HasUnsaved == lib.from <= lib.to

(* last_index() of the library's log: what is unsaved goes before the store. *)
LibraryLast ==
    IF HasUnsaved THEN lib.to ELSE IF lib.snap # 0 THEN lib.snap ELSE LastIndex

(* A Ready after a message: entries follow what the library has, replace   *)
(* what it has behind them, and overwrite nothing committed.  The Ready    *)
(* holds all that is unsaved.  from = to + 1: no new entries.              *)
EntriesReady(from, to, c) ==
    /\ pc = "idle"
    /\ lib.commit < from /\ from <= LibraryLast + 1
    /\ from <= to \/ (from = LibraryLast + 1 /\ to = LibraryLast)
    /\ lib.commit <= c /\ c <= to
    /\ lib' = [lib EXCEPT !.commit = c, !.to = to,
                          !.from = IF HasUnsaved /\ @ <= from THEN @ ELSE from]
    /\ pc' = "hardstate"
    /\ UNCHANGED <<rows, commit, snap, settled, awaited>>

(* A snapshot of what is not committed here: the library's log is it.      *)
SnapshotReady(n) ==
    /\ pc = "idle" /\ lib.commit < n
    /\ lib' = [commit |-> n, from |-> n + 1, to |-> n, snap |-> n]
    /\ pc' = "hardstate"
    /\ UNCHANGED <<rows, commit, snap, settled, awaited>>

SaveHardState ==
    /\ pc = "hardstate"
    /\ commit' = lib.commit
    /\ pc' = "entries"
    /\ UNCHANGED <<rows, snap, lib, settled, awaited>>

(* append() inserts the entries and leaves the rows behind them.           *)
AppendEntries ==
    /\ pc = "entries"
    /\ rows' = rows \cup (lib.from..lib.to)
    /\ awaited' = IF HasUnsaved THEN Larger(awaited, lib.snap) ELSE awaited
    /\ pc' = "snapshot"
    /\ UNCHANGED <<commit, snap, lib, settled>>

(* A slip: the log starts again. *)
SlipApplySnapshot ==
    /\ pc = "snapshot"
    /\ rows' = IF lib.snap # 0 THEN {} ELSE rows
    /\ snap' = IF lib.snap # 0 THEN lib.snap ELSE snap
    /\ awaited' = IF awaited <= lib.snap THEN 0 ELSE awaited
    /\ settled' = lib.commit
    /\ pc' = "idle" /\ lib' = Saved(lib.commit)
    /\ UNCHANGED commit

(* One transaction removes the rows the snapshot covers and stores it, and *)
(* advance() tells the library that the Ready is stored.                   *)
ApplySnapshot ==
    /\ pc = "snapshot"
    /\ rows' = {i \in rows : i > lib.snap}
    /\ snap' = IF lib.snap # 0 THEN lib.snap ELSE snap
    /\ awaited' = IF awaited <= lib.snap THEN 0 ELSE awaited
    /\ settled' = lib.commit
    /\ pc' = "idle" /\ lib' = Saved(lib.commit)
    /\ UNCHANGED commit

(* A `?` of handle_ready: of a transaction, which then stores nothing, of  *)
(* apply_entry or of the restore of the state machine.                     *)
HandleReadyFails ==
    /\ pc \in {"hardstate", "entries", "snapshot"}
    /\ pc' = "idle"
    /\ UNCHANGED <<rows, commit, snap, lib, settled, awaited>>

Crash ==
    /\ pc # "down"
    /\ pc' = "down" /\ lib' = Saved(0)
    /\ UNCHANGED <<rows, commit, snap, settled, awaited>>

(* A store RawNode::new refuses stays down for good.                       *)
Restart ==
    /\ pc = "down" /\ Loadable
    /\ pc' = "idle" /\ lib' = Saved(commit)
    /\ UNCHANGED <<rows, commit, snap, settled, awaited>>

Compact(i) ==
    /\ rows' = {j \in rows : j >= i}
    /\ UNCHANGED <<commit, snap, lib, pc, settled, awaited>>

(* compact() asks nothing of its index and no code of the crate calls it:  *)
(* the caller that is assumed, at any moment, keeps to what is stored      *)
(* whole, and no row that follows the stored snapshot.                     *)
MayCompact(i) == pc # "down" /\ i <= settled /\ (snap # 0 => i <= snap + 1)

StorageNext ==
    \/ \E from \in 1..(MaxIndex + 1), to, c \in 0..MaxIndex : EntriesReady(from, to, c)
    \/ \E n \in Index : SnapshotReady(n)
    \/ SaveHardState \/ AppendEntries \/ ApplySnapshot \/ HandleReadyFails
    \/ Crash \/ Restart
    \/ \E i \in Index : MayCompact(i) /\ Compact(i)

---------------------------------------------------------------------------
(* Properties *)

(* What a Ready may cost that a crash or a failure cuts off between the    *)
(* three transactions of handle_ready is only that Ready.  In every state, *)
(* of a node that is down or half way through included, the stored commit  *)
(* index has not fallen behind the last Ready stored whole, the log still  *)
(* ends at that Ready's commit index or later, and it begins no later than *)
(* behind it, or behind the snapshot that the entries of the cut-off Ready *)
(* were to follow.                                                         *)
OnlyTheCutReadyIsLost ==
    /\ settled <= commit /\ settled <= LastIndex
    /\ FirstIndex - 1 <= Larger(settled, awaited)

(* Every entry between first_index and last_index can be read, in every    *)
(* state and whatever was overwritten, replaced by a snapshot or           *)
(* compacted.  The exception are the entries under a snapshot that is      *)
(* not stored and that entries were stored to follow.                      *)
ServesItsRange ==
    \A i \in FirstIndex..LastIndex : i > awaited => i \in rows
=============================================================================
