------------------------- MODULE RedbRaftStorage -------------------------
(***************************************************************************)
(* The redb tables behind one raft node (src/src/storage/redb.rs) and the  *)
(* operations RedbRaftStorage performs on them.  A disk is a record:       *)
(*   log          RAFT_LOG_TABLE: a row or NoEntry for every index         *)
(*   hs           RAFT_HARD_STATE_TABLE: term, vote, commit                *)
(*   conf         RAFT_CONF_STATE_TABLE: the voters the raft library reads *)
(*   clusterConf  CLUSTER_STATE_TABLE: the voters RaftConfigManager writes *)
(*   sm           what the state machine's tables hold: the indices of the *)
(*                commands applied to them, in order                       *)
(* Each operator below returns the disk one redb transaction leaves; a     *)
(* caller that makes several transactions takes several steps.             *)
(***************************************************************************)
EXTENDS Integers, FiniteSets, Sequences

CONSTANTS
    Server,    \* node ids; positive, 0 is the library's INVALID_ID
    Req,       \* proposal ids (entry contexts)
    NoReq,     \* the empty context
    MaxIndex,  \* bound on log indices
    MaxTerm    \* bound on terms

ASSUME ServerAssumption == Server \subseteq Nat \ {0} /\ IsFiniteSet(Server)
ASSUME ReqAssumption    == NoReq \notin Req
ASSUME BoundAssumption  == MaxIndex \in Nat \ {0} /\ MaxTerm \in Nat

Index == 1..MaxIndex
Term  == 0..MaxTerm

NoEntry == [term |-> 0, kind |-> "none", ctx |-> NoReq, node |-> 0]

Entry ==
    [term : Term, kind : {"none", "normal"}, ctx : Req \cup {NoReq}, node : {0}]
    \cup [term : Term, kind : {"add", "remove"}, ctx : {NoReq}, node : Server]

HardState == [term : Term, vote : Server \cup {0}, commit : 0..MaxIndex]

Disk == [log : [Index -> Entry], hs : HardState, conf : SUBSET Server,
         clusterConf : SUBSET Server, sm : Seq(Index)]

EmptyLog == [i \in Index |-> NoEntry]

NewDisk(conf) ==
    [log |-> EmptyLog, hs |-> [term |-> 0, vote |-> 0, commit |-> 0],
     conf |-> conf, clusterConf |-> {}, sm |-> << >>]

---------------------------------------------------------------------------
(* Reads.  A missing row makes term() answer Ok(0), which is NoEntry.term. *)

Rows(log) == {i \in Index : log[i] # NoEntry}

FirstIndex(log) ==
    IF Rows(log) = {} THEN 1 ELSE CHOOSE i \in Rows(log) : \A j \in Rows(log) : i <= j

LastIndex(log) ==
    IF Rows(log) = {} THEN 0 ELSE CHOOSE i \in Rows(log) : \A j \in Rows(log) : j <= i

---------------------------------------------------------------------------
(* Writes.  append inserts row by row and removes nothing. *)

AppendEntries(d, ents) ==
    [d EXCEPT !.log = [i \in Index |-> IF ents[i] # NoEntry THEN ents[i] ELSE d.log[i]]]

SaveHardState(d, hs) == [d EXCEPT !.hs = hs]

CompactLogBefore(d, index) ==
    [d EXCEPT !.log = [i \in Index |-> IF i < index THEN NoEntry ELSE d.log[i]]]

(* snapshot(request_index): its index is the smaller of the two. *)
SnapshotIndex(d, request) ==
    IF request <= LastIndex(d.log) THEN request ELSE LastIndex(d.log)
===========================================================================
