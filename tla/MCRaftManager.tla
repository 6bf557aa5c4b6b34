-------------------------- MODULE MCRaftManager --------------------------
(***************************************************************************)
(* RaftManager for TLC: nodes, proposals and bounds get their values in    *)
(* the RaftManager*.cfg files.                                             *)
(***************************************************************************)
EXTENDS RaftManager

(* A bound for the search that needs a compacted log first: the bootstrap  *)
(* node's log grows just long enough, and no node crashes before.          *)
CrashAfterCompaction ==
    IF restarts > 0 THEN FirstIndex(disk[Boot].log) > CompactMin
    ELSE LastLogIndex(raft[Boot], disk[Boot]) <= CompactMin + 1

(* The nodes take turns: what a handler of one does before it waits again  *)
(* touches nothing that the other reads but the network, where a message   *)
(* is received at any later time.                                          *)
AtRest(s) == pc[s] \in {"idle", "bootstrap", "stopped"}
InTurns == \A s, t \in Server : s = t \/ AtRest(s) \/ AtRest(t)
===========================================================================
