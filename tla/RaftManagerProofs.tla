------------------------ MODULE RaftManagerProofs ------------------------
(***************************************************************************)
(* Proofs about RaftManager, for every set of nodes and proposals and      *)
(* every bound.                                                            *)
(*                                                                         *)
(* TypeOK is inductive by itself.  SentTermIsStored is not: it needs to    *)
(* know, for every place a node can be at, how the term of its RawNode,    *)
(* of the last Ready and of the stored hard state relate (TermInv).        *)
(* Nor is AppliesOnce, which rests on Placed.                              *)
(* The upper bound of EveryCrashIsLoadable, and AcknowledgedIsStored, rest *)
(* on LogInv: how far the log reaches in the RawNode, in the Ready and on  *)
(* the disk.                                                               *)
(* AnsweredIsDurable rests on CoverInv: how the commit index on the disk,  *)
(* the one the library counts as announced and the entries in hand relate. *)
(* AppliedIsProcessed, PendingHasEntry and HandedOutIsStored rest on Alone *)
(* and hold of a node that no message reaches.                             *)
(***************************************************************************)
EXTENDS RaftManager, RawNodeProofs

LEMMA NoReadyType == NoReady \in Ready /\ NoReady.msgs = {}
BY EmptyLogType, IndexFacts DEF NoReady, Ready, HardState

LEMMA NewManagerType ==
    ASSUME NEW s \in Server
    PROVE  NewManager(s) \in Manager
BY BootAssumption, IndexFacts DEF NewManager, Manager

LEMMA FirstStepType == ASSUME NEW s PROVE FirstStep(s) \in {"bootstrap", "idle"}
BY DEF FirstStep

LEMMA InitType == Init => TypeOK
<1>. SUFFICES ASSUME Init PROVE TypeOK
  OBVIOUS
<1>1. disk \in [Server -> Disk]
  <2>1. \A s \in Server : (IF s = Boot THEN {s} ELSE {}) \in SUBSET Server
    OBVIOUS
  <2>. QED
    BY <2>1, NewDiskType DEF Init
<1>2. raft \in [Server -> RawNodeState]
  BY <1>1, NewRawNodeType DEF Init
<1>3. pc \in [Server -> Steps]
  BY FirstStepType DEF Init, Steps
<1>4. rd \in [Server -> Ready]
  BY NoReadyType DEF Init
<1>5. mgr \in [Server -> Manager]
  BY NewManagerType DEF Init
<1>6. /\ after \in [Server -> {"idle", "replicate", "emptyProposal"}]
      /\ net \subseteq Message /\ restarts \in 0..MaxRestarts
      /\ reply \in [Req -> {"new", "waiting", "ok", "error", "notLeader", "lost"}]
      /\ done \in [Server -> SUBSET Index]
  BY RestartAssumption DEF Init
<1>. QED
  BY <1>1, <1>2, <1>3, <1>4, <1>5, <1>6 DEF TypeOK

---------------------------------------------------------------------------
(* Type correctness, action by action *)

LEMMA PendingUpdate ==
    ASSUME TypeOK, NEW s \in Server, NEW P \in SUBSET Req
    PROVE  [mgr EXCEPT ![s].pending = P] \in [Server -> Manager]
<1>1. mgr \in [Server -> Manager]
  BY DEF TypeOK
<1>. QED
  BY <1>1 DEF Manager

LEMMA FlagUpdate ==
    ASSUME NEW M \in Manager, NEW b \in BOOLEAN
    PROVE  [M EXCEPT !.needsRepl = b] \in Manager
BY DEF Manager

LEMMA AbandonedType ==
    ASSUME TypeOK, NEW s \in Server
    PROVE  Abandoned(s) \in [Req -> {"new", "waiting", "ok", "error", "notLeader", "lost"}]
BY DEF Abandoned, TypeOK

LEMMA StopType == ASSUME TypeOK, NEW s \in Server, Stop(s) PROVE TypeOK'
<1>1. mgr' \in [Server -> Manager]
  BY PendingUpdate DEF Stop
<1>2. pc' \in [Server -> Steps]
  BY DEF Stop, Goto, TypeOK, Steps
<1>. QED
  BY <1>1, <1>2, AbandonedType DEF Stop, TypeOK

(* A step that replaces the RawNode of s and moves s.                      *)
LEMMA RaftStepType ==
    ASSUME TypeOK, NEW s \in Server, NEW r \in RawNodeState, SetRaft(s, r),
           pc' \in [Server -> Steps],
           after' \in [Server -> {"idle", "replicate", "emptyProposal"}],
           UNCHANGED <<disk, rd, mgr, net, reply, restarts, done>>
    PROVE  TypeOK'
BY DEF SetRaft, TypeOK

LEMMA OnReadyThenType ==
    ASSUME TypeOK, NEW s \in Server, NEW next \in {"idle", "replicate", "emptyProposal"},
           OnReadyThen(s, next)
    PROVE  /\ pc' \in [Server -> Steps]
           /\ after' \in [Server -> {"idle", "replicate", "emptyProposal"}]
BY DEF OnReadyThen, Goto, TypeOK, Steps

LEMMA TickedEvolves ==
    ASSUME TypeOK, NEW s \in Server, NEW r \in Ticked(s)
    PROVE  Evolves(raft[s], r, s)
<1>1. raft[s] \in RawNodeState /\ disk[s] \in Disk
  BY DEF TypeOK
<1>2. \/ r = raft[s]
      \/ r = Bcast(raft[s], disk[s], s)
      \/ CanCampaign(raft[s], disk[s], s) /\ r = Campaign(raft[s], disk[s], s)
  BY DEF Ticked
<1>. QED
  BY <1>1, <1>2, EvolvesRefl, BcastEvolves, CampaignEvolves

LEMMA BootstrapEvolves ==
    ASSUME TypeOK, NEW s \in Server
    PROVE  /\ BootstrapCampaign(s) => Evolves(raft[s], raft'[s], s)
           /\ BootstrapPropose(s) => Evolves(raft[s], raft'[s], s)
<1>1. raft[s] \in RawNodeState /\ disk[s] \in Disk
  BY DEF TypeOK
<1>2. ASSUME BootstrapCampaign(s) PROVE Evolves(raft[s], raft'[s], s)
  <2>1. \/ raft'[s] = raft[s]
        \/ CanCampaign(raft[s], disk[s], s) /\ raft'[s] = Campaign(raft[s], disk[s], s)
    BY <1>2 DEF BootstrapCampaign, SetRaft, TypeOK
  <2>. QED
    BY <1>1, <2>1, EvolvesRefl, CampaignEvolves
<1>3. ASSUME BootstrapPropose(s) PROVE Evolves(raft[s], raft'[s], s)
  <2>1. raft'[s] = raft[s] \/ raft'[s] = Propose(raft[s], disk[s], s, NoReq)
    BY <1>3 DEF BootstrapPropose, SetRaft, TypeOK
  <2>. QED
    BY <1>1, <2>1, EvolvesRefl, ProposeEvolves
<1>. QED
  BY <1>2, <1>3

LEMMA BootstrapType ==
    ASSUME TypeOK, NEW s \in Server, BootstrapCampaign(s) \/ BootstrapPropose(s)
    PROVE  TypeOK'
<1>1. raft'[s] \in RawNodeState
  BY BootstrapEvolves DEF Evolves
<1>2. raft' = [raft EXCEPT ![s] = raft'[s]]
  BY DEF BootstrapCampaign, BootstrapPropose, SetRaft, TypeOK
<1>3. /\ pc' \in [Server -> Steps]
      /\ after' \in [Server -> {"idle", "replicate", "emptyProposal"}]
  BY OnReadyThenType DEF BootstrapCampaign, BootstrapPropose
<1>. QED
  BY <1>1, <1>2, <1>3, RaftStepType DEF BootstrapCampaign, BootstrapPropose, SetRaft

LEMMA TickType == ASSUME TypeOK, NEW s \in Server, Tick(s) PROVE TypeOK'
<1>1. PICK r \in Ticked(s) : SetRaft(s, r)
  BY DEF Tick
<1>2. r \in RawNodeState
  BY TickedEvolves DEF Evolves
<1>. QED
  BY <1>1, <1>2, OnReadyThenType, RaftStepType DEF Tick

LEMMA TriggerReplicationType ==
    ASSUME TypeOK, NEW s \in Server, TriggerReplication(s)
    PROVE  TypeOK'
<1>1. mgr' \in [Server -> Manager]
  <2>1. mgr' = [mgr EXCEPT ![s].needsRepl = FALSE] /\ mgr \in [Server -> Manager]
    BY DEF TriggerReplication, TypeOK
  <2>2. [mgr[s] EXCEPT !.needsRepl = FALSE] \in Manager
    BY <2>1, FlagUpdate
  <2>. QED
    BY <2>1, <2>2
<1>2. CASE mgr[s].needsRepl /\ IsLeader(s)
  <2>0. /\ (\E r \in Ticked(s) : SetRaft(s, r)) /\ OnReadyThen(s, "idle")
        /\ UNCHANGED <<disk, rd, net, reply, restarts, done>>
    BY <1>2 DEF TriggerReplication
  <2>1. PICK r \in Ticked(s) : SetRaft(s, r)
    BY <2>0
  <2>2. r \in RawNodeState
    BY TickedEvolves DEF Evolves
  <2>3. /\ pc' \in [Server -> Steps]
        /\ after' \in [Server -> {"idle", "replicate", "emptyProposal"}]
    BY <2>0, OnReadyThenType
  <2>. QED
    BY <1>1, <2>0, <2>1, <2>2, <2>3 DEF SetRaft, TypeOK
<1>3. CASE ~(mgr[s].needsRepl /\ IsLeader(s))
  <2>1. pc' \in [Server -> Steps]
    BY <1>3 DEF TriggerReplication, Goto, TypeOK, Steps
  <2>2. UNCHANGED <<disk, raft, after, rd, net, reply, restarts, done>>
    BY <1>3 DEF TriggerReplication
  <2>. QED
    BY <1>1, <2>1, <2>2 DEF TypeOK
<1>. QED
  BY <1>2, <1>3

LEMMA ProposalType ==
    ASSUME TypeOK, NEW s \in Server, NEW q \in Req,
           HandleProposal(s, q) \/ RefuseProposal(s, q) \/ DropProposal(s, q)
    PROVE  TypeOK'
<1>1. CASE HandleProposal(s, q)
  <2>1. raft[s] \in RawNodeState /\ disk[s] \in Disk
    BY DEF TypeOK
  <2>2. Propose(raft[s], disk[s], s, q) \in RawNodeState
    BY <2>1, ProposeEvolves DEF Evolves
  <2>3. /\ pc' \in [Server -> Steps]
        /\ after' \in [Server -> {"idle", "replicate", "emptyProposal"}]
    BY <1>1, OnReadyThenType DEF HandleProposal
  <2>4. mgr' \in [Server -> Manager]
    <3>1. mgr' = [mgr EXCEPT ![s].pending = mgr[s].pending \cup {q}]
      BY <1>1 DEF HandleProposal
    <3>2. mgr[s].pending \cup {q} \in SUBSET Req
      BY DEF TypeOK, Manager
    <3>. QED
      BY <3>1, <3>2, PendingUpdate
  <2>. QED
    BY <1>1, <2>2, <2>3, <2>4 DEF HandleProposal, SetRaft, TypeOK
<1>2. CASE RefuseProposal(s, q)
  BY <1>2 DEF RefuseProposal, TypeOK
<1>3. CASE DropProposal(s, q)
  <2>1. reply' \in [Req -> {"new", "waiting", "ok", "error", "notLeader", "lost"}]
    BY <1>3, AbandonedType DEF DropProposal
  <2>2. mgr' \in [Server -> Manager]
    BY <1>3, PendingUpdate DEF DropProposal
  <2>3. pc' \in [Server -> Steps]
    BY <1>3 DEF DropProposal, Goto, TypeOK, Steps
  <2>. QED
    BY <1>3, <2>1, <2>2, <2>3 DEF DropProposal, TypeOK
<1>. QED
  BY <1>1, <1>2, <1>3

LEMMA HandleRaftMessageType ==
    ASSUME TypeOK, NEW s \in Server, NEW m \in net, HandleRaftMessage(s, m)
    PROVE  TypeOK'
<1>. DEFINE r == Step(raft[s], disk[s], s, m)
            d == disk[s]
<1>1. raft[s] \in RawNodeState /\ d \in Disk /\ m \in Message
  BY DEF TypeOK
<1>2. r \in RawNodeState
  BY <1>1, StepEvolves DEF Evolves
<1>3. CASE HasReady(r, d)
  <2>1. /\ rd' = [rd EXCEPT ![s] = ReadyOf(r, d, "inline")]
        /\ raft' = [raft EXCEPT ![s] = AfterReady(r, d)]
        /\ pc' = [pc EXCEPT ![s] = "save"]
        /\ after' = [after EXCEPT ![s] = "idle"]
        /\ UNCHANGED <<disk, mgr, net, reply, restarts, done>>
    BY <1>3 DEF HandleRaftMessage, SetRaft, Goto
  <2>. HIDE DEF r, d
  <2>2. ReadyOf(r, d, "inline") \in Ready /\ AfterReady(r, d) \in RawNodeState
    BY <1>1, <1>2, ReadyOfType, AfterReadyType
  <2>. QED
    BY <2>1, <2>2 DEF TypeOK, Steps
<1>4. CASE ~HasReady(r, d)
  <2>1. /\ SetRaft(s, r) /\ OnReadyThen(s, "idle")
        /\ UNCHANGED <<disk, rd, mgr, net, reply, restarts, done>>
    BY <1>4 DEF HandleRaftMessage
  <2>. HIDE DEF r, d
  <2>. QED
    BY <1>2, <2>1, OnReadyThenType, RaftStepType
<1>. QED
  BY <1>3, <1>4

LEMMA HandleConfChangeType ==
    ASSUME TypeOK, NEW s \in Server, NEW kind \in {"add", "remove"}, NEW f \in Server,
           HandleConfChange(s, kind, f)
    PROVE  TypeOK'
<1>1. raft[s] \in RawNodeState /\ disk[s] \in Disk /\ LastLogIndex(raft[s], disk[s]) < MaxIndex
  BY DEF HandleConfChange, CanPropose, TypeOK
<1>2. ProposeConfChange(raft[s], disk[s], s, kind, f) \in RawNodeState
  BY <1>1, ProposeConfChangeEvolves DEF Evolves
<1>3. mgr' \in [Server -> Manager]
  <2>1. /\ mgr' = [mgr EXCEPT ![s].peers = IF kind = "add" THEN mgr[s].peers \cup {f}
                                           ELSE mgr[s].peers]
        /\ mgr \in [Server -> Manager]
    BY DEF HandleConfChange, TypeOK
  <2>2. (IF kind = "add" THEN mgr[s].peers \cup {f} ELSE mgr[s].peers) \in SUBSET Server
    BY <2>1 DEF Manager
  <2>. QED
    BY <2>1, <2>2 DEF Manager
<1>. QED
  BY <1>2, <1>3 DEF HandleConfChange, SetRaft, TypeOK

---------------------------------------------------------------------------
(* on_ready *)

LEMMA TakeReadyType == ASSUME TypeOK, NEW s \in Server, TakeReady(s) PROVE TypeOK'
<1>1. raft[s] \in RawNodeState /\ disk[s] \in Disk
  BY DEF TypeOK
<1>2. ReadyOf(raft[s], disk[s], "ready") \in Ready /\ AfterReady(raft[s], disk[s]) \in RawNodeState
  BY <1>1, ReadyOfType, AfterReadyType
<1>3. pc' \in [Server -> Steps]
  BY DEF TakeReady, Goto, TypeOK, Steps
<1>4. rd' \in [Server -> Ready] /\ raft' \in [Server -> RawNodeState]
  BY <1>2 DEF TakeReady, SetRaft, TypeOK
<1>. QED
  BY <1>3, <1>4 DEF TakeReady, TypeOK

LEMMA SaveType ==
    ASSUME TypeOK, NEW s \in Server, SaveEntries(s) \/ SaveReadyHardState(s)
    PROVE  TypeOK'
<1>1. disk[s] \in Disk /\ rd[s].ents \in [Index -> Entry] /\ rd[s].hs \in HardState
  BY DEF TypeOK, Ready
<1>2. AppendEntries(disk[s], rd[s].ents) \in Disk /\ SaveHardState(disk[s], rd[s].hs) \in Disk
  BY <1>1, AppendEntriesType, SaveHardStateType
<1>3. disk' \in [Server -> Disk]
  BY <1>1, <1>2 DEF SaveEntries, SaveReadyHardState, TypeOK
<1>4. pc' \in [Server -> Steps]
  BY DEF SaveEntries, SaveReadyHardState, Goto, TypeOK, Steps
<1>. QED
  BY <1>3, <1>4 DEF SaveEntries, SaveReadyHardState, TypeOK

LEMMA SendMessagesType == ASSUME TypeOK, NEW s \in Server, SendMessages(s) PROVE TypeOK'
<1>1. Sendable(s) \subseteq Message
  BY DEF Sendable, TypeOK, Ready
<1>2. pc' \in [Server -> Steps]
  BY DEF SendMessages, Goto, TypeOK, Steps
<1>. QED
  BY <1>1, <1>2 DEF SendMessages, TypeOK

(* The entry in hand is stored, and another may follow.                    *)
LEMMA CurrentType ==
    ASSUME TypeOK, NEW s \in Server, More(s)
    PROVE  /\ rd[s].next \in Index /\ Current(s) \in Entry
           /\ [rd EXCEPT ![s].next = @ + 1] \in [Server -> Ready]
<1>1. rd \in [Server -> Ready] /\ rd[s] \in Ready
  BY DEF TypeOK
<1>2. rd[s].next \in 1..(MaxIndex + 1) /\ rd[s].last \in 0..MaxIndex /\ rd[s].next <= rd[s].last
  BY <1>1 DEF Ready, More
<1>3. rd[s].next \in Index
  BY <1>2, IndexFacts DEF Index
<1>4. rd[s].next + 1 \in 1..(MaxIndex + 1)
  BY <1>2, IndexFacts
<1>5. [rd[s] EXCEPT !.next = rd[s].next + 1] \in Ready
  BY <1>1, <1>4 DEF Ready
<1>6. disk[s].log \in [Index -> Entry]
  BY DEF TypeOK, Disk
<1>. QED
  BY <1>1, <1>3, <1>5, <1>6 DEF Current

LEMMA ApplyNormalType == ASSUME TypeOK, NEW s \in Server, ApplyNormal(s) PROVE TypeOK'
<1>1. rd[s].next \in Index
  BY CurrentType DEF ApplyNormal
<1>2. disk' \in [Server -> Disk]
  <2>1. disk[s] \in Disk /\ disk[s].sm \in Seq(Index)
    BY DEF TypeOK, Disk
  <2>2. Append(disk[s].sm, rd[s].next) \in Seq(Index)
    BY <1>1, <2>1
  <2>3. [disk[s] EXCEPT !.sm = Append(disk[s].sm, rd[s].next)] \in Disk
    BY <2>1, <2>2 DEF Disk
  <2>4. disk' = [disk EXCEPT ![s] = [disk[s] EXCEPT !.sm = Append(disk[s].sm, rd[s].next)]]
    BY DEF ApplyNormal, TypeOK
  <2>. QED
    BY <2>3, <2>4 DEF TypeOK
<1>3. done' \in [Server -> SUBSET Index]
  BY <1>1 DEF ApplyNormal, Processed, TypeOK
<1>4. pc' \in [Server -> Steps]
  BY DEF ApplyNormal, Goto, TypeOK, Steps
<1>. QED
  BY <1>2, <1>3, <1>4 DEF ApplyNormal, TypeOK

(* At "answer" the entry just applied is still in hand.                    *)
LEMMA NextEntryType ==
    ASSUME TypeOK, NEW s \in Server, More(s), NextEntry(s)
    PROVE  rd' \in [Server -> Ready]
BY CurrentType DEF NextEntry

LEMMA AnswerType ==
    ASSUME TypeOK, NEW s \in Server, Answer(s), More(s)
    PROVE  TypeOK'
<1>1. rd' \in [Server -> Ready]
  BY NextEntryType DEF Answer
<1>2. pc' \in [Server -> Steps]
  BY DEF Answer, Goto, TypeOK, Steps
<1>3. UNCHANGED <<disk, raft, after, net, restarts, done>>
  BY DEF Answer
<1>. DEFINE q == Current(s).ctx
<1>4. CASE q \in mgr[s].pending
  <2>1. /\ mgr' = [mgr EXCEPT ![s].pending = mgr[s].pending \ {q}]
        /\ reply' = [reply EXCEPT ![q] = "ok"]
    BY <1>4 DEF Answer
  <2>2. mgr[s].pending \ {q} \in SUBSET Req
    BY DEF TypeOK, Manager
  <2>3. mgr' \in [Server -> Manager]
    BY <2>1, <2>2, PendingUpdate
  <2>4. reply' \in [Req -> {"new", "waiting", "ok", "error", "notLeader", "lost"}]
    BY <2>1 DEF TypeOK
  <2>. QED
    BY <1>1, <1>2, <1>3, <2>3, <2>4 DEF TypeOK
<1>5. CASE q \notin mgr[s].pending
  <2>1. UNCHANGED <<mgr, reply>>
    BY <1>5 DEF Answer
  <2>. QED
    BY <1>1, <1>2, <1>3, <2>1 DEF TypeOK
<1>. QED
  BY <1>4, <1>5

LEMMA PassOverType ==
    ASSUME TypeOK, NEW s \in Server, PassOver(s)
    PROVE  TypeOK'
<1>1. rd' \in [Server -> Ready]
  BY NextEntryType DEF PassOver
<1>. QED
  BY <1>1 DEF PassOver, TypeOK

LEMMA RejectNormalType ==
    ASSUME TypeOK, NEW s \in Server, RejectNormal(s)
    PROVE  TypeOK'
<1>1. rd' \in [Server -> Ready] /\ rd[s].next \in Index
  BY NextEntryType, CurrentType DEF RejectNormal
<1>2. UNCHANGED <<disk, raft, pc, after, net, restarts>>
  BY DEF RejectNormal
<1>3. done' \in [Server -> SUBSET Index]
  BY <1>1 DEF RejectNormal, Processed, TypeOK
<1>. DEFINE q == Current(s).ctx
<1>4. CASE q \in mgr[s].pending
  <2>1. /\ mgr' = [mgr EXCEPT ![s].pending = mgr[s].pending \ {q}]
        /\ reply' = [reply EXCEPT ![q] = "error"]
    BY <1>4 DEF RejectNormal
  <2>2. mgr[s].pending \ {q} \in SUBSET Req
    BY DEF TypeOK, Manager
  <2>3. mgr' \in [Server -> Manager]
    BY <2>1, <2>2, PendingUpdate
  <2>4. reply' \in [Req -> {"new", "waiting", "ok", "error", "notLeader", "lost"}]
    BY <2>1 DEF TypeOK
  <2>. QED
    BY <1>1, <1>2, <1>3, <2>3, <2>4 DEF TypeOK
<1>5. CASE q \notin mgr[s].pending
  <2>1. UNCHANGED <<mgr, reply>>
    BY <1>5 DEF RejectNormal
  <2>. QED
    BY <1>1, <1>2, <1>3, <2>1 DEF TypeOK
<1>. QED
  BY <1>4, <1>5

LEMMA ApplyConfFacts ==
    ASSUME TypeOK, NEW s \in Server, ApplyConf(s)
    PROVE  /\ raft[s] \in RawNodeState /\ disk[s] \in Disk
           /\ Current(s) \in Entry /\ Current(s).kind \in {"add", "remove"}
           /\ LastLogIndex(raft[s], disk[s]) >= 1
           /\ raft' = [raft EXCEPT ![s] = ApplyConfChange(raft[s], disk[s], s, Current(s))]
<1>1. raft[s] \in RawNodeState /\ disk[s] \in Disk
  BY DEF TypeOK
<1>2. /\ rd[s].next \in Index /\ Current(s) \in Entry
      /\ Current(s).kind \in {"add", "remove"}
  BY CurrentType DEF ApplyConf
<1>3. rd[s].next \in Rows(disk[s].log)
  <2>1. NoEntry.kind = "none"
    BY DEF NoEntry
  <2>. QED
    BY <1>2, <2>1 DEF Rows, Current
<1>4. LastIndex(disk[s].log) >= 1
  BY <1>2, <1>3, LastIndexType, IndexFacts DEF Index
<1>5. Rows(raft[s].unst) # {} => LastIndex(raft[s].unst) >= 1
  BY LastIndexType DEF Rows, Index
<1>6. raft' = [raft EXCEPT ![s] = ApplyConfChange(raft[s], disk[s], s, Current(s))]
  BY DEF ApplyConf, SetRaft
<1>. QED
  BY <1>1, <1>2, <1>4, <1>5, <1>6 DEF LastLogIndex

LEMMA ApplyConfType == ASSUME TypeOK, NEW s \in Server, ApplyConf(s) PROVE TypeOK'
<1>. DEFINE e == Current(s)
            r == ApplyConfChange(raft[s], disk[s], s, e)
            peers == IF e.kind = "add" THEN mgr[s].peers \cup {e.node}
                     ELSE mgr[s].peers \ {e.node}
<1>1. r \in RawNodeState
  BY ApplyConfFacts, ApplyConfChangeEvolves DEF Evolves
<1>2. disk' \in [Server -> Disk]
  <2>1. disk' = [disk EXCEPT ![s].clusterConf = r.voters]
    BY DEF ApplyConf
  <2>2. r.voters \in SUBSET Server
    BY <1>1 DEF RawNodeState
  <2>. HIDE DEF r
  <2>3. disk \in [Server -> Disk] /\ disk[s] \in Disk
    BY DEF TypeOK
  <2>4. [disk[s] EXCEPT !.clusterConf = r.voters] \in Disk
    BY <2>2, <2>3 DEF Disk
  <2>. QED
    BY <2>1, <2>3, <2>4
<1>3. rd' \in [Server -> Ready]
  BY NextEntryType DEF ApplyConf
<1>4. mgr' \in [Server -> Manager]
  <2>1. mgr[s] \in Manager /\ mgr \in [Server -> Manager]
    BY DEF TypeOK
  <2>2. peers \in SUBSET Server
    BY <2>1, ApplyConfFacts, NewVotersType DEF Manager
  <2>3. mgr' = [mgr EXCEPT ![s] = [[mgr[s] EXCEPT !.peers = peers]
                                      EXCEPT !.needsRepl = mgr[s].needsRepl \/ e.kind = "add"]]
    BY <2>1 DEF ApplyConf, Manager
  <2>4. [mgr[s] EXCEPT !.peers = peers] \in Manager
    BY <2>1, <2>2 DEF Manager
  <2>. HIDE DEF peers, e
  <2>5. (mgr[s].needsRepl \/ e.kind = "add") \in BOOLEAN
    OBVIOUS
  <2>. QED
    BY <2>1, <2>3, <2>4, <2>5, FlagUpdate
<1>5. done' \in [Server -> SUBSET Index]
  BY CurrentType DEF ApplyConf, Processed, TypeOK
<1>6. raft' \in [Server -> RawNodeState]
  BY <1>1, ApplyConfFacts DEF TypeOK
<1>. QED
  BY <1>2, <1>3, <1>4, <1>5, <1>6 DEF ApplyConf, TypeOK

LEMMA InlineAdvanceType == ASSUME TypeOK, NEW s \in Server, InlineAdvance(s) PROVE TypeOK'
<1>1. Advance(raft[s], disk[s], s) \in RawNodeState
  BY AdvanceType DEF TypeOK
<1>2. /\ pc' \in [Server -> Steps]
      /\ after' \in [Server -> {"idle", "replicate", "emptyProposal"}]
  BY OnReadyThenType DEF InlineAdvance
<1>. QED
  BY <1>1, <1>2, NoReadyType DEF InlineAdvance, SetRaft, TypeOK

LEMMA AdvanceRaftType == ASSUME TypeOK, NEW s \in Server, AdvanceRaft(s) PROVE TypeOK'
<1>1. /\ Advance(raft[s], disk[s], s) \in RawNodeState
      /\ LightMsgs(raft[s], disk[s], s) \subseteq Message
  BY AdvanceType DEF TypeOK
<1>2. pc' \in [Server -> Steps]
  BY DEF AdvanceRaft, Goto, TypeOK, Steps
<1>. QED
  BY <1>1, <1>2 DEF AdvanceRaft, SetRaft, TypeOK

(* What a fetch from first finds: no row, or the rows up to last.          *)
Fetched(s, first, last) ==
    /\ last \in Index /\ first <= last /\ last <= raft[s].committed
    /\ disk[s].log[last] # NoEntry
    /\ \A i \in Index : last < i /\ i <= raft[s].committed => disk[s].log[i] = NoEntry
    /\ rd' = [rd EXCEPT ![s] = [rd[s] EXCEPT !.stage = "late", !.next = first, !.last = last]]
    /\ Goto(s, "apply")

LEMMA FetchFacts ==
    ASSUME TypeOK, NEW s \in Server, NEW first \in 1..(MaxIndex + 1), Fetch(s, first)
    PROVE  \/ /\ \A i \in Index : first <= i /\ i <= raft[s].committed => disk[s].log[i] = NoEntry
              /\ UNCHANGED rd /\ Goto(s, "compact")
           \/ \E last : Fetched(s, first, last)
<1>. DEFINE rows == {i \in first..raft[s].committed : disk[s].log[i] # NoEntry}
            last == CHOOSE i \in rows : \A j \in rows : j <= i
<1>1. raft[s].committed \in 0..MaxIndex /\ rd \in [Server -> Ready]
  BY DEF TypeOK, RawNodeState
<1>2. rows \subseteq Index /\ rows \subseteq 0..MaxIndex
  BY <1>1, IndexFacts DEF Index
<1>3. \A i \in Index : i \in rows \/ ~(first <= i /\ i <= raft[s].committed)
                       \/ disk[s].log[i] = NoEntry
  BY <1>1, IndexFacts DEF Index
<1>4. CASE rows = {}
  BY <1>3, <1>4 DEF Fetch
<1>5. CASE rows # {}
  <2>1. last \in rows /\ \A j \in rows : j <= last
    <3>1. \E i \in rows : \A j \in rows : j <= i
      BY <1>2, <1>5, IndexFacts, GreatestExists
    <3>. QED
      BY <3>1
  <2>2. /\ rd' = [rd EXCEPT ![s].stage = "late", ![s].next = first, ![s].last = last]
        /\ Goto(s, "apply")
    BY <1>5 DEF Fetch
  <2>. HIDE DEF last
  <2>3. /\ last \in Index /\ first <= last /\ last <= raft[s].committed
        /\ disk[s].log[last] # NoEntry
    BY <1>1, <1>2, <2>1
  <2>4. \A i \in Index : last < i /\ i <= raft[s].committed => disk[s].log[i] = NoEntry
    <3>. SUFFICES ASSUME NEW i \in Index, last < i, i <= raft[s].committed, i \in rows
                  PROVE  FALSE
      <4>. HIDE DEF rows
      <4>1. \A i \in Index : i \in Int
        BY IndexFacts
      <4>. QED
        BY <1>1, <1>3, <2>3, <4>1, IndexFacts
    <3>. QED
      BY <2>1, <2>3, IndexFacts
  <2>5. rd' = [rd EXCEPT ![s] = [rd[s] EXCEPT !.stage = "late", !.next = first, !.last = last]]
    BY <1>1, <2>2
  <2>6. Fetched(s, first, last)
    BY <2>2, <2>3, <2>4, <2>5 DEF Fetched
  <2>. QED
    BY <2>6
<1>. QED
  BY <1>4, <1>5

LEMMA SaveLightCommitType ==
    ASSUME TypeOK, NEW s \in Server, SaveLightCommit(s)
    PROVE  TypeOK'
<1>1. raft[s] \in RawNodeState /\ disk[s] \in Disk /\ rd[s] \in Ready
  BY DEF TypeOK
<1>2. disk' \in [Server -> Disk]
  BY <1>1, HardStateOfType, SaveHardStateType DEF SaveLightCommit, TypeOK
<1>3. pc' \in [Server -> Steps]
  BY DEF SaveLightCommit, Fetch, Goto, TypeOK, Steps
<1>4. rd' \in [Server -> Ready]
  <2>. DEFINE first == CurrentApplied(s) + 1
  <2>1. first \in 1..(MaxIndex + 1)
    BY <1>1, IndexFacts DEF CurrentApplied, RawNodeState, Ready
  <2>2. Fetch(s, first)
    BY DEF SaveLightCommit
  <2>. HIDE DEF first
  <2>3. CASE UNCHANGED rd
    BY <2>3 DEF TypeOK
  <2>4. ASSUME NEW last, Fetched(s, first, last) PROVE rd' \in [Server -> Ready]
    <3>1. last \in 0..MaxIndex
      BY <2>4, IndexFacts DEF Fetched
    <3>2. [rd[s] EXCEPT !.stage = "late", !.next = first, !.last = last] \in Ready
      BY <1>1, <2>1, <3>1 DEF Ready
    <3>. QED
      BY <2>4, <3>2 DEF Fetched, TypeOK
  <2>. QED
    BY <2>1, <2>2, <2>3, <2>4, FetchFacts
<1>. QED
  BY <1>2, <1>3, <1>4 DEF SaveLightCommit, TypeOK

(* Behind the light commit: no entry to process, or those up to last.      *)
LEMMA LightFetch ==
    ASSUME TypeOK, NEW s \in Server, SaveLightCommit(s)
    PROVE  \/ /\ \A i \in Index : CurrentApplied(s) < i /\ i <= raft[s].committed
                               => disk[s].log[i] = NoEntry
              /\ UNCHANGED rd /\ pc'[s] = "compact" /\ pc' = [pc EXCEPT ![s] = "compact"]
           \/ \E last \in Index :
                 /\ CurrentApplied(s) < last /\ last <= raft[s].committed
                 /\ disk[s].log[last] # NoEntry
                 /\ \A i \in Index : last < i /\ i <= raft[s].committed
                                  => disk[s].log[i] = NoEntry
                 /\ rd' = [rd EXCEPT ![s] = rd'[s]]
                 /\ rd'[s].stage = "late" /\ rd'[s].next = CurrentApplied(s) + 1
                 /\ rd'[s].last = last /\ rd'[s].msgs = rd[s].msgs
                 /\ pc'[s] = "apply" /\ pc' = [pc EXCEPT ![s] = "apply"]
<1>. DEFINE first == CurrentApplied(s) + 1
<1>1. /\ raft[s] \in RawNodeState /\ rd \in [Server -> Ready] /\ rd[s] \in Ready
      /\ pc \in [Server -> Steps]
  BY DEF TypeOK
<1>2. CurrentApplied(s) \in 0..MaxIndex
  BY <1>1, IndexFacts DEF CurrentApplied, RawNodeState, Ready
<1>3. first \in 1..(MaxIndex + 1) /\ \A i \in Int : first <= i <=> CurrentApplied(s) < i
  BY <1>2, IndexFacts
<1>4. Fetch(s, first)
  BY DEF SaveLightCommit
<1>5. \A i \in Index : i \in Int
  BY IndexFacts
<1>. DEFINE c == CurrentApplied(s)
<1>6. first = c + 1
  OBVIOUS
<1>. HIDE DEF first, c
<1>7. CASE /\ \A i \in Index : first <= i /\ i <= raft[s].committed => disk[s].log[i] = NoEntry
           /\ UNCHANGED rd /\ Goto(s, "compact")
  BY <1>1, <1>3, <1>5, <1>7 DEF Goto
<1>8. ASSUME NEW last, Fetched(s, first, last)
      PROVE  /\ last \in Index /\ CurrentApplied(s) < last /\ last <= raft[s].committed
             /\ disk[s].log[last] # NoEntry
             /\ \A i \in Index : last < i /\ i <= raft[s].committed => disk[s].log[i] = NoEntry
             /\ rd' = [rd EXCEPT ![s] = rd'[s]]
             /\ rd'[s].stage = "late" /\ rd'[s].next = first
             /\ rd'[s].last = last /\ rd'[s].msgs = rd[s].msgs
             /\ pc'[s] = "apply" /\ pc' = [pc EXCEPT ![s] = "apply"]
  <2>1. /\ last \in Index /\ CurrentApplied(s) < last /\ last <= raft[s].committed
        /\ disk[s].log[last] # NoEntry
        /\ \A i \in Index : last < i /\ i <= raft[s].committed => disk[s].log[i] = NoEntry
    BY <1>3, <1>5, <1>8 DEF Fetched
  <2>. DEFINE x == [rd[s] EXCEPT !.stage = "late", !.next = first, !.last = last]
  <2>2. rd' = [rd EXCEPT ![s] = x] /\ Goto(s, "apply")
    BY <1>8 DEF Fetched
  <2>3. x.stage = "late" /\ x.next = first /\ x.last = last /\ x.msgs = rd[s].msgs
    BY <1>1 DEF Ready
  <2>. HIDE DEF x
  <2>4. rd'[s] = x /\ pc'[s] = "apply" /\ pc' = [pc EXCEPT ![s] = "apply"]
    BY <1>1, <2>2 DEF Goto
  <2>. QED
    BY <2>1, <2>2, <2>3, <2>4
<1>. QED
  BY <1>3, <1>4, <1>6, <1>7, <1>8, FetchFacts DEF c, Goto

LEMMA FinishLateType == ASSUME TypeOK, NEW s \in Server, FinishLate(s) PROVE TypeOK'
<1>1. raft[s] \in RawNodeState /\ rd[s].last \in 0..MaxIndex
  BY DEF TypeOK, Ready
<1>2. [raft[s] EXCEPT !.applied = rd[s].last] \in RawNodeState
  BY <1>1 DEF RawNodeState
<1>3. pc' \in [Server -> Steps]
  BY DEF FinishLate, Goto, TypeOK, Steps
<1>. QED
  BY <1>2, <1>3 DEF FinishLate, SetRaft, TypeOK

LEMMA CompactStepType == ASSUME TypeOK, NEW s \in Server, Compact(s) PROVE TypeOK'
<1>. DEFINE upTo == SnapshotIndex(disk[s], raft[s].applied)
<1>1. disk[s] \in Disk /\ raft[s].applied \in 0..MaxIndex
  BY DEF TypeOK, RawNodeState
<1>2. upTo \in 0..MaxIndex
  BY <1>1, LastIndexType DEF SnapshotIndex
<1>3. disk' \in [Server -> Disk] /\ disk' = [disk EXCEPT ![s] = disk'[s]]
      /\ disk'[s].hs = disk[s].hs
  <2>1. disk' = disk \/ disk' = [disk EXCEPT ![s] = CompactLogBefore(disk[s], upTo)]
    BY DEF Compact
  <2>. QED
    BY <1>1, <2>1, CompactType DEF TypeOK
<1>4. mgr' \in [Server -> Manager]
  <2>1. mgr' = mgr \/ mgr' = [mgr EXCEPT ![s].lastCompact = upTo]
    BY DEF Compact
  <2>2. mgr \in [Server -> Manager]
    BY DEF TypeOK
  <2>. HIDE DEF upTo
  <2>. QED
    BY <1>2, <2>1, <2>2 DEF Manager
<1>5. pc' \in [Server -> Steps]
  BY DEF Compact, Goto, TypeOK, Steps
<1>6. rd' \in [Server -> Ready]
  BY NoReadyType DEF Compact, TypeOK
<1>. QED
  BY <1>3, <1>4, <1>5, <1>6 DEF Compact, TypeOK

LEMMA RestartType == ASSUME TypeOK, NEW s \in Server, Restart(s) PROVE TypeOK'
<1>1. NewRawNode(disk[s]) \in RawNodeState
  BY NewRawNodeType DEF TypeOK
<1>2. pc' \in [Server -> Steps]
  BY FirstStepType DEF Restart, Goto, TypeOK, Steps
<1>3. mgr' \in [Server -> Manager]
  BY NewManagerType DEF Restart, TypeOK
<1>4. restarts' \in 0..MaxRestarts
  BY RestartAssumption DEF Restart, TypeOK
<1>5. raft' \in [Server -> RawNodeState] /\ rd' \in [Server -> Ready]
  BY <1>1, NoReadyType DEF Restart, SetRaft, TypeOK
<1>6. done' \in [Server -> SUBSET Index]
  BY DEF Restart, TypeOK
<1>. QED
  BY <1>2, <1>3, <1>4, <1>5, <1>6, AbandonedType DEF Restart, TypeOK

---------------------------------------------------------------------------
(* The type invariant *)

(* While a proposal is answered, the entry that was applied is in hand.    *)
EntryInHand == \A s \in Server : pc[s] = "answer" => More(s)

TypeInv == TypeOK /\ EntryInHand

LEMMA StepType == TypeInv /\ [Next]_vars => TypeOK'
<1>. SUFFICES ASSUME TypeInv, [Next]_vars PROVE TypeOK'
  OBVIOUS
<1>1. TypeOK
  BY DEF TypeInv
<1>2. CASE UNCHANGED vars
  BY <1>1, <1>2 DEF TypeOK, vars
<1>3. ASSUME NEW s \in Server, Proceed(s) PROVE TypeOK'
  <2>1. CASE BootstrapCampaign(s) \/ BootstrapPropose(s) \/ Tick(s) \/ TriggerReplication(s)
    BY <1>1, <2>1, BootstrapType, TickType, TriggerReplicationType
  <2>2. CASE TakeReady(s) \/ SaveEntries(s) \/ SaveReadyHardState(s) \/ SendMessages(s)
    BY <1>1, <2>2, TakeReadyType, SaveType, SendMessagesType
  <2>3. CASE Answer(s)
    <3>1. More(s)
      BY <2>3 DEF Answer, TypeInv, EntryInHand
    <3>. QED
      BY <1>1, <2>3, <3>1, AnswerType
  <2>4. CASE ApplyNormal(s) \/ RejectNormal(s) \/ PassOver(s) \/ ApplyConf(s)
    BY <1>1, <2>4, ApplyNormalType, RejectNormalType, PassOverType, ApplyConfType
  <2>5. CASE FailConf(s)
    BY <1>1, <2>5, StopType DEF FailConf
  <2>6. CASE InlineAdvance(s) \/ AdvanceRaft(s) \/ SaveLightCommit(s) \/ FinishLate(s) \/ Compact(s)
    BY <1>1, <2>6, InlineAdvanceType, AdvanceRaftType, SaveLightCommitType, FinishLateType,
       CompactStepType
  <2>. QED
    BY <1>3, <2>1, <2>2, <2>3, <2>4, <2>5, <2>6 DEF Proceed, OnReady
<1>4. ASSUME NEW s \in Server, NEW q \in Req,
             HandleProposal(s, q) \/ RefuseProposal(s, q) \/ DropProposal(s, q)
      PROVE  TypeOK'
  BY <1>1, <1>4, ProposalType
<1>5. ASSUME NEW s \in Server, NEW m \in net, HandleRaftMessage(s, m) \/ RefuseRaftMessage(s, m)
      PROVE  TypeOK'
  BY <1>1, <1>5, HandleRaftMessageType, StopType DEF RefuseRaftMessage
<1>6. ASSUME NEW s \in Server, NEW f \in Server, AbortOnSnapshot(s, f) PROVE TypeOK'
  BY <1>1, <1>6, StopType DEF AbortOnSnapshot
<1>7. ASSUME NEW s \in Server,
             \/ \E f \in Addable : HandleConfChange(s, "add", f)
             \/ \E f \in Removable : HandleConfChange(s, "remove", f)
      PROVE  TypeOK'
  BY <1>1, <1>7, ChangeAssumption, HandleConfChangeType
<1>8. ASSUME NEW s \in Server, Restart(s) PROVE TypeOK'
  BY <1>1, <1>8, RestartType
<1>. QED
  BY <1>2, <1>3, <1>4, <1>5, <1>6, <1>7, <1>8 DEF Next, NodeStep

(* Only the node that takes a step moves.                                  *)
Untouched(t) == UNCHANGED <<disk[t], raft[t], pc[t], rd[t]>>

LEMMA StepIsLocal ==
    ASSUME TypeOK, NEW s \in Server, NEW t \in Server, t # s, NodeStep(s)
    PROVE  Untouched(t)
<1>. USE DEF Untouched, Goto, SetRaft, OnReadyThen
<1>0. /\ disk \in [Server -> Disk] /\ raft \in [Server -> RawNodeState]
      /\ pc \in [Server -> Steps] /\ rd \in [Server -> Ready]
  BY DEF TypeOK
<1>1. ASSUME Stop(s) PROVE Untouched(t)
  BY <1>0, <1>1 DEF Stop
<1>2. CASE BootstrapCampaign(s) \/ BootstrapPropose(s)
  BY <1>0, <1>2 DEF BootstrapCampaign, BootstrapPropose
<1>3. CASE Tick(s) \/ TriggerReplication(s)
  BY <1>0, <1>3 DEF Tick, TriggerReplication
<1>4. CASE TakeReady(s) \/ SaveEntries(s) \/ SaveReadyHardState(s) \/ SendMessages(s)
  BY <1>0, <1>4 DEF TakeReady, SaveEntries, SaveReadyHardState, SendMessages
<1>5. CASE ApplyNormal(s) \/ Answer(s) \/ RejectNormal(s) \/ PassOver(s)
  BY <1>0, <1>5 DEF ApplyNormal, Answer, RejectNormal, PassOver, NextEntry
<1>6. CASE ApplyConf(s)
  <2>1. \E r, x, n : /\ raft' = [raft EXCEPT ![s] = r] /\ disk' = [disk EXCEPT ![s] = x]
                     /\ rd' = [rd EXCEPT ![s] = n] /\ pc' = pc
    BY <1>6 DEF ApplyConf, NextEntry
  <2>. QED
    BY <1>0, <2>1
<1>7. CASE FailConf(s)
  BY <1>1, <1>7 DEF FailConf
<1>8. CASE InlineAdvance(s) \/ AdvanceRaft(s) \/ SaveLightCommit(s)
  BY <1>0, <1>8, LightFetch DEF InlineAdvance, AdvanceRaft, SaveLightCommit
<1>9. CASE FinishLate(s) \/ Compact(s)
  BY <1>0, <1>9 DEF FinishLate, Compact
<1>10. CASE \E q \in Req : HandleProposal(s, q) \/ RefuseProposal(s, q) \/ DropProposal(s, q)
  BY <1>0, <1>10 DEF HandleProposal, RefuseProposal, DropProposal
<1>11. CASE \E m \in net : HandleRaftMessage(s, m) \/ RefuseRaftMessage(s, m)
  BY <1>0, <1>1, <1>11 DEF HandleRaftMessage, RefuseRaftMessage
<1>12. CASE \E f \in Server : AbortOnSnapshot(s, f)
  BY <1>1, <1>12 DEF AbortOnSnapshot
<1>13. CASE \E f : HandleConfChange(s, "add", f) \/ HandleConfChange(s, "remove", f)
  BY <1>0, <1>13 DEF HandleConfChange
<1>14. CASE Restart(s)
  BY <1>0, <1>14 DEF Restart
<1>. QED
  BY <1>2, <1>3, <1>4, <1>5, <1>6, <1>7, <1>8, <1>9, <1>10, <1>11, <1>12, <1>13, <1>14
     DEF NodeStep, Proceed, OnReady

(* A node is at "answer" only behind a command it has just applied.        *)
LEMMA OnlyApplyAnswers ==
    ASSUME TypeOK, NEW s \in Server, NodeStep(s), pc'[s] = "answer"
    PROVE  ApplyNormal(s)
<1>. USE DEF Goto, OnReadyThen
<1>0. pc \in [Server -> Steps] /\ after[s] \in {"idle", "replicate", "emptyProposal"}
      /\ FirstStep(s) # "answer"
  BY FirstStepType DEF TypeOK
<1>1. ~Stop(s)
  BY <1>0 DEF Stop
<1>2. ~BootstrapCampaign(s) /\ ~BootstrapPropose(s) /\ ~Tick(s) /\ ~TriggerReplication(s)
  BY <1>0 DEF BootstrapCampaign, BootstrapPropose, Tick, TriggerReplication
<1>3. ~TakeReady(s) /\ ~SaveEntries(s) /\ ~SaveReadyHardState(s) /\ ~SendMessages(s)
  BY <1>0 DEF TakeReady, SaveEntries, SaveReadyHardState, SendMessages
<1>4. ~Answer(s) /\ ~RejectNormal(s) /\ ~PassOver(s) /\ ~ApplyConf(s)
  BY <1>0 DEF Answer, RejectNormal, PassOver, ApplyConf
<1>5. ~InlineAdvance(s) /\ ~AdvanceRaft(s) /\ ~SaveLightCommit(s) /\ ~FinishLate(s) /\ ~Compact(s)
  BY <1>0, LightFetch DEF InlineAdvance, AdvanceRaft, FinishLate, Compact
<1>6. ~\E q \in Req : HandleProposal(s, q) \/ RefuseProposal(s, q) \/ DropProposal(s, q)
  BY <1>0 DEF HandleProposal, RefuseProposal, DropProposal
<1>7. ~\E m \in net : HandleRaftMessage(s, m)
  BY <1>0 DEF HandleRaftMessage
<1>8. ~\E f : HandleConfChange(s, "add", f) \/ HandleConfChange(s, "remove", f)
  BY <1>0 DEF HandleConfChange
<1>9. ~Restart(s)
  BY <1>0 DEF Restart
<1>. QED
  BY <1>1, <1>2, <1>3, <1>4, <1>5, <1>6, <1>7, <1>8, <1>9
     DEF NodeStep, Proceed, OnReady, FailConf, RefuseRaftMessage, AbortOnSnapshot

LEMMA StepEntryInHand == TypeInv /\ [Next]_vars => EntryInHand'
<1>. SUFFICES ASSUME TypeInv, [Next]_vars, NEW t \in Server, pc'[t] = "answer"
              PROVE  More(t)'
  BY DEF EntryInHand
<1>1. CASE UNCHANGED vars
  BY <1>1 DEF vars, TypeInv, EntryInHand, More
<1>2. ASSUME NEW s \in Server, NodeStep(s), t # s PROVE More(t)'
  BY <1>2, StepIsLocal DEF Untouched, TypeInv, EntryInHand, More
<1>3. ASSUME NodeStep(t) PROVE More(t)'
  <2>1. ApplyNormal(t)
    BY <1>3, OnlyApplyAnswers DEF TypeInv
  <2>. QED
    BY <2>1 DEF ApplyNormal, More
<1>. QED
  BY <1>1, <1>2, <1>3 DEF Next

(* Whatever the nodes, the network, the clients and the crashes do, the    *)
(* driver, the library's state, the disks and the network stay well typed: *)
(* no counter leaves its range and no index its log.                       *)
THEOREM TypeInvariant == Spec => []TypeOK
<1>1. Init => TypeInv
  BY InitType DEF Init, TypeInv, EntryInHand, FirstStep
<1>2. TypeInv /\ [Next]_vars => TypeInv'
  BY StepType, StepEntryInHand DEF TypeInv
<1>3. Spec => []TypeInv
  BY <1>1, <1>2, PTL DEF Spec
<1>. QED
  BY <1>3, PTL DEF TypeInv

---------------------------------------------------------------------------
(* Terms.  What a node's RawNode r, Ready x and disk d know of its term    *)
(* when its task is at the step `at'.                                      *)

Quiet  == {"bootstrap", "emptyProposal", "idle", "replicate", "ready"}
Saving == {"save", "saveHs"}
Saved  == {"send", "apply", "answer", "lightHs", "compact"}

TermsOK(s, r, x, d, at) ==
    /\ r.prevHs.term <= r.term
    /\ r.msgs \subseteq Msgs(s, r.term) /\ x.msgs \subseteq Msgs(s, r.term)
    /\ at \in Quiet => r.prevHs.term = d.hs.term
    /\ at \in Saving => /\ r.prevHs.term = r.term /\ x.hs.term = r.term
                        /\ d.hs.term <= r.term
                        /\ ~x.hsChanged => d.hs.term = r.term
    /\ at \in Saved => r.prevHs.term = r.term /\ d.hs.term = r.term

TermInv == \A s \in Server : TermsOK(s, raft[s], rd[s], disk[s], pc[s])

LEMMA TermTypes ==
    /\ \A r \in RawNodeState : r.term \in Nat /\ r.term \in Term /\ r.prevHs.term \in Nat
    /\ \A d \in Disk : d.hs.term \in Nat
<1>1. Term \subseteq Nat
  BY BoundAssumption DEF Term
<1>2. ASSUME NEW r \in RawNodeState
      PROVE  r.term \in Nat /\ r.term \in Term /\ r.prevHs.term \in Nat
  BY <1>1 DEF RawNodeState, HardState
<1>3. ASSUME NEW d \in Disk PROVE d.hs.term \in Nat
  BY <1>1 DEF Disk, HardState
<1>. QED
  BY <1>2, <1>3

(* While no Ready is in hand the library may move on by itself.            *)
LEMMA QuietTerms ==
    ASSUME NEW s \in Server, NEW r \in RawNodeState, NEW q, NEW x, NEW d \in Disk,
           NEW at \in Quiet, NEW to \in Quiet, TermsOK(s, r, x, d, at), Evolves(r, q, s)
    PROVE  TermsOK(s, q, x, d, to)
<1>1. q \in RawNodeState /\ q.term >= r.term /\ q.prevHs = r.prevHs
      /\ q.msgs \subseteq r.msgs \cup Msgs(s, q.term)
  BY DEF Evolves
<1>2. Msgs(s, r.term) \subseteq Msgs(s, q.term)
  BY <1>1, TermTypes, TermsAreOrdered
<1>3. q.prevHs.term <= q.term
  BY <1>1, TermTypes DEF TermsOK
<1>. QED
  BY <1>1, <1>2, <1>3 DEF TermsOK, Quiet, Saving, Saved

(* ready(): the hard state of the Ready says all there is to save.         *)
LEMMA ReadyTerms ==
    ASSUME NEW s \in Server, NEW r \in RawNodeState, NEW q, NEW x, NEW d \in Disk,
           NEW at \in Quiet, TermsOK(s, r, x, d, at), Evolves(r, q, s),
           NEW stage \in {"inline", "ready"}
    PROVE  TermsOK(s, AfterReady(q, d), ReadyOf(q, d, stage), d, "save")
<1>. DEFINE a == AfterReady(q, d)
            y == ReadyOf(q, d, stage)
<1>1. /\ q \in RawNodeState /\ TermsOK(s, q, x, d, at)
      /\ q.prevHs.term = d.hs.term /\ q.prevHs.term <= q.term
      /\ q.msgs \subseteq Msgs(s, q.term)
  BY QuietTerms DEF Evolves, TermsOK
<1>2. a \in RawNodeState /\ a.term = q.term /\ a.prevHs = HardStateOf(q) /\ a.msgs = {}
  BY <1>1, AfterReadyType
<1>3. /\ y.hs = HardStateOf(q) /\ y.msgs = q.msgs
      /\ y.hsChanged = (HardStateOf(q) # q.prevHs)
  BY <1>1, ReadyOfType
<1>4. HardStateOf(q).term = q.term
  BY <1>1, HardStateOfType
<1>5. ~y.hsChanged => d.hs.term = q.term
  BY <1>1, <1>3, <1>4
<1>. HIDE DEF a, y
<1>6. d.hs.term <= q.term /\ a.prevHs.term = a.term /\ a.prevHs.term <= a.term
  BY <1>1, <1>2, <1>4, TermTypes
<1>7. a.msgs \subseteq Msgs(s, a.term) /\ y.msgs \subseteq Msgs(s, a.term)
  BY <1>1, <1>2, <1>3
<1>8. y.hs.term = a.term /\ d.hs.term <= a.term
  BY <1>2, <1>3, <1>4, <1>6
<1>9. ~y.hsChanged => d.hs.term = a.term
  BY <1>2, <1>5
<1>10. "save" \in Saving /\ "save" \notin Quiet /\ "save" \notin Saved
  BY DEF Quiet, Saving, Saved
<1>11. TermsOK(s, a, y, d, "save")
  BY <1>6, <1>7, <1>8, <1>9, <1>10 DEF TermsOK
<1>. QED
  BY <1>11 DEF a, y

LEMMA SaveHsTerms ==
    ASSUME NEW s \in Server, NEW r \in RawNodeState, NEW x \in Ready, NEW d \in Disk,
           TermsOK(s, r, x, d, "saveHs")
    PROVE  LET e == IF x.hsChanged THEN SaveHardState(d, x.hs) ELSE d
           IN  TermsOK(s, r, x, e, "send") /\ e.hs.term >= d.hs.term
<1>. DEFINE e == IF x.hsChanged THEN SaveHardState(d, x.hs) ELSE d
<1>1. /\ r.prevHs.term = r.term /\ x.hs.term = r.term /\ d.hs.term <= r.term
      /\ ~x.hsChanged => d.hs.term = r.term
      /\ r.msgs \subseteq Msgs(s, r.term) /\ x.msgs \subseteq Msgs(s, r.term)
      /\ r.prevHs.term <= r.term
  BY DEF TermsOK, Saving
<1>2. x.hs \in HardState
  BY DEF Ready
<1>3. e.hs.term = r.term
  BY <1>1, <1>2, SaveHardStateType
<1>. HIDE DEF e
<1>4. TermsOK(s, r, x, e, "send")
  BY <1>1, <1>3 DEF TermsOK, Quiet, Saving, Saved
<1>5. e.hs.term >= d.hs.term
  BY <1>1, <1>3, TermTypes
<1>. QED
  BY <1>4, <1>5 DEF e

(* Behind the save no step changes a term before the next Ready.           *)
LEMMA SavedTerms ==
    ASSUME NEW s \in Server, NEW r \in RawNodeState, NEW q, NEW x, NEW y,
           NEW d \in Disk, NEW e \in Disk, NEW at \in Saved, NEW to \in Saved \cup Quiet,
           TermsOK(s, r, x, d, at),
           q.term = r.term, q.prevHs.term = r.prevHs.term, e.hs.term = d.hs.term,
           q.msgs \subseteq r.msgs \cup Msgs(s, r.term), y.msgs \subseteq x.msgs
    PROVE  TermsOK(s, q, y, e, to)
BY DEF TermsOK, Quiet, Saving, Saved

LEMMA StoppedTerms ==
    ASSUME NEW s, NEW r, NEW x, NEW d, NEW at, TermsOK(s, r, x, d, at)
    PROVE  TermsOK(s, r, x, d, "stopped")
BY DEF TermsOK, Quiet, Saving, Saved

LEMMA FreshTerms ==
    ASSUME NEW s \in Server, NEW d \in Disk
    PROVE  TermsOK(s, NewRawNode(d), NoReady, d, FirstStep(s))
<1>1. NewRawNode(d).term = d.hs.term /\ NewRawNode(d).prevHs = d.hs /\ NewRawNode(d).msgs = {}
  BY NewRawNodeType
<1>2. d.hs.term <= d.hs.term
  BY TermTypes
<1>3. FirstStep(s) \in {"bootstrap", "idle"}
  BY FirstStepType
<1>. QED
  BY <1>1, <1>2, <1>3, NoReadyType DEF TermsOK, Quiet, Saving, Saved

(* What a step of s owes: the terms of s stay related, its stored term     *)
(* does not fall, and a message it sends carries no later one.             *)
Here(s) == TermsOK(s, raft[s], rd[s], disk[s], pc[s])

Keeps(s) ==
    /\ TermsOK(s, raft'[s], rd'[s], disk'[s], pc'[s])
    /\ disk'[s].hs.term >= disk[s].hs.term
    /\ net' \subseteq net \cup Msgs(s, disk[s].hs.term)

LEMMA QuietKeeps ==
    ASSUME TypeOK, NEW s \in Server, Here(s), pc[s] \in Quiet, pc'[s] \in Quiet,
           Evolves(raft[s], raft'[s], s), UNCHANGED <<disk, rd, net>>
    PROVE  Keeps(s)
<1>1. raft[s] \in RawNodeState /\ disk[s] \in Disk
  BY DEF TypeOK
<1>2. TermsOK(s, raft'[s], rd[s], disk[s], pc'[s])
  BY <1>1, QuietTerms DEF Here
<1>3. disk[s].hs.term >= disk[s].hs.term
  BY <1>1, TermTypes
<1>. QED
  BY <1>2, <1>3 DEF Keeps

LEMMA ReadyKeeps ==
    ASSUME TypeOK, NEW s \in Server, Here(s), pc[s] \in Quiet,
           NEW r, Evolves(raft[s], r, s), NEW stage \in {"inline", "ready"},
           pc'[s] = "save", raft'[s] = AfterReady(r, disk[s]),
           rd'[s] = ReadyOf(r, disk[s], stage), UNCHANGED <<disk, net>>
    PROVE  Keeps(s)
<1>1. raft[s] \in RawNodeState /\ disk[s] \in Disk
  BY DEF TypeOK
<1>2. TermsOK(s, AfterReady(r, disk[s]), ReadyOf(r, disk[s], stage), disk[s], "save")
  BY <1>1, ReadyTerms DEF Here
<1>3. disk[s].hs.term >= disk[s].hs.term
  BY <1>1, TermTypes
<1>. QED
  BY <1>2, <1>3 DEF Keeps

LEMMA SavedKeeps ==
    ASSUME TypeOK, NEW s \in Server, Here(s), pc[s] \in Saved, pc'[s] \in Saved \cup Quiet,
           disk'[s] \in Disk, disk'[s].hs.term = disk[s].hs.term,
           raft'[s].term = raft[s].term, raft'[s].prevHs.term = raft[s].prevHs.term,
           raft'[s].msgs \subseteq raft[s].msgs \cup Msgs(s, raft[s].term),
           rd'[s].msgs \subseteq rd[s].msgs,
           net' \subseteq net \cup Msgs(s, raft[s].term)
    PROVE  Keeps(s)
<1>1. raft[s] \in RawNodeState /\ disk[s] \in Disk
  BY DEF TypeOK
<1>2. TermsOK(s, raft'[s], rd'[s], disk'[s], pc'[s])
  BY <1>1, SavedTerms DEF Here
<1>3. disk'[s].hs.term >= disk[s].hs.term
  BY <1>1, TermTypes
<1>4. raft[s].term = disk[s].hs.term
  BY DEF Here, TermsOK
<1>. QED
  BY <1>2, <1>3, <1>4 DEF Keeps

LEMMA StopKeeps == ASSUME TypeOK, NEW s \in Server, Here(s), pc' = [pc EXCEPT ![s] = "stopped"],
                          UNCHANGED <<disk, raft, rd, net>>
                   PROVE  Keeps(s)
<1>1. disk[s] \in Disk /\ pc'[s] = "stopped"
  BY DEF TypeOK
<1>2. TermsOK(s, raft[s], rd[s], disk[s], "stopped")
  BY StoppedTerms DEF Here
<1>3. disk[s].hs.term >= disk[s].hs.term
  BY <1>1, TermTypes
<1>. QED
  BY <1>1, <1>2, <1>3 DEF Keeps

LEMMA TickKeeps ==
    ASSUME TypeOK, NEW s \in Server, Here(s), Tick(s) \/ TriggerReplication(s)
    PROVE  Keeps(s)
<1>1. raft[s] \in RawNodeState /\ raft \in [Server -> RawNodeState] /\ pc \in [Server -> Steps]
  BY DEF TypeOK
<1>2. pc[s] \in Quiet /\ pc'[s] \in Quiet /\ UNCHANGED <<disk, rd, net>>
  BY <1>1 DEF Tick, TriggerReplication, OnReadyThen, Goto, Quiet
<1>3. Evolves(raft[s], raft'[s], s)
  <2>1. CASE UNCHANGED raft
    BY <1>1, <2>1, EvolvesRefl
  <2>2. CASE \E r \in Ticked(s) : SetRaft(s, r)
    BY <1>1, <2>2, TickedEvolves DEF SetRaft
  <2>. QED
    BY <2>1, <2>2 DEF Tick, TriggerReplication
<1>. QED
  BY <1>2, <1>3, QuietKeeps

LEMMA BootstrapKeeps ==
    ASSUME TypeOK, NEW s \in Server, Here(s), BootstrapCampaign(s) \/ BootstrapPropose(s)
    PROVE  Keeps(s)
<1>1. pc \in [Server -> Steps]
  BY DEF TypeOK
<1>2. pc[s] \in Quiet /\ pc'[s] \in Quiet /\ UNCHANGED <<disk, rd, net>>
  BY <1>1 DEF BootstrapCampaign, BootstrapPropose, OnReadyThen, Goto, Quiet
<1>. QED
  BY <1>2, BootstrapEvolves, QuietKeeps

LEMMA ProposalKeeps ==
    ASSUME TypeOK, NEW s \in Server, Here(s), NEW q \in Req,
           HandleProposal(s, q) \/ RefuseProposal(s, q)
    PROVE  Keeps(s)
<1>1. /\ raft[s] \in RawNodeState /\ disk[s] \in Disk
      /\ raft \in [Server -> RawNodeState] /\ pc \in [Server -> Steps]
  BY DEF TypeOK
<1>2. pc[s] \in Quiet /\ pc'[s] \in Quiet /\ UNCHANGED <<disk, rd, net>>
  BY <1>1 DEF HandleProposal, RefuseProposal, OnReadyThen, Goto, Quiet
<1>3. raft'[s] = raft[s] \/ raft'[s] = Propose(raft[s], disk[s], s, q)
  BY <1>1 DEF HandleProposal, RefuseProposal, SetRaft
<1>4. Evolves(raft[s], raft'[s], s)
  BY <1>1, <1>3, EvolvesRefl, ProposeEvolves
<1>. QED
  BY <1>2, <1>4, QuietKeeps

LEMMA ConfChangeKeeps ==
    ASSUME TypeOK, NEW s \in Server, Here(s), NEW kind \in {"add", "remove"}, NEW f \in Server,
           HandleConfChange(s, kind, f)
    PROVE  Keeps(s)
<1>1. /\ raft[s] \in RawNodeState /\ disk[s] \in Disk
      /\ raft \in [Server -> RawNodeState]
  BY DEF TypeOK
<1>2. pc[s] \in Quiet /\ pc'[s] \in Quiet /\ UNCHANGED <<disk, rd, net>>
  BY DEF HandleConfChange, Quiet
<1>3. /\ raft'[s] = ProposeConfChange(raft[s], disk[s], s, kind, f)
      /\ LastLogIndex(raft[s], disk[s]) < MaxIndex
  BY <1>1 DEF HandleConfChange, CanPropose, SetRaft
<1>4. Evolves(raft[s], raft'[s], s)
  BY <1>1, <1>3, ProposeConfChangeEvolves
<1>. QED
  BY <1>2, <1>4, QuietKeeps

LEMMA MessageKeeps ==
    ASSUME TypeOK, NEW s \in Server, Here(s), NEW m \in net, HandleRaftMessage(s, m)
    PROVE  Keeps(s)
<1>. DEFINE r == Step(raft[s], disk[s], s, m)
<1>1. /\ raft[s] \in RawNodeState /\ disk[s] \in Disk /\ m \in Message
      /\ raft \in [Server -> RawNodeState] /\ pc \in [Server -> Steps] /\ rd \in [Server -> Ready]
  BY DEF TypeOK
<1>2. Evolves(raft[s], r, s)
  BY <1>1, StepEvolves
<1>3. pc[s] \in Quiet /\ UNCHANGED <<disk, net>>
  BY DEF HandleRaftMessage, Quiet
<1>4. CASE HasReady(r, disk[s])
  <2>1. /\ raft'[s] = AfterReady(r, disk[s]) /\ rd'[s] = ReadyOf(r, disk[s], "inline")
        /\ pc'[s] = "save"
    BY <1>1, <1>4 DEF HandleRaftMessage, SetRaft, Goto
  <2>. HIDE DEF r
  <2>. QED
    BY <1>2, <1>3, <2>1, ReadyKeeps
<1>5. CASE ~HasReady(r, disk[s])
  <2>1. SetRaft(s, r) /\ OnReadyThen(s, "idle") /\ UNCHANGED rd
    BY <1>5 DEF HandleRaftMessage
  <2>. HIDE DEF r
  <2>2. raft'[s] = r /\ pc'[s] \in Quiet
    BY <1>1, <2>1 DEF SetRaft, OnReadyThen, Goto, Quiet
  <2>. QED
    BY <1>2, <1>3, <2>1, <2>2, QuietKeeps
<1>. QED
  BY <1>4, <1>5

LEMMA TakeReadyKeeps ==
    ASSUME TypeOK, NEW s \in Server, Here(s), TakeReady(s)
    PROVE  Keeps(s)
<1>1. /\ raft[s] \in RawNodeState /\ raft \in [Server -> RawNodeState]
      /\ pc \in [Server -> Steps] /\ rd \in [Server -> Ready]
      /\ after[s] \in {"idle", "replicate", "emptyProposal"}
  BY DEF TypeOK
<1>2. pc[s] \in Quiet /\ UNCHANGED <<disk, net>> /\ Evolves(raft[s], raft[s], s)
  BY <1>1, EvolvesRefl DEF TakeReady, Quiet
<1>3. CASE HasReady(raft[s], disk[s])
  <2>1. /\ raft'[s] = AfterReady(raft[s], disk[s])
        /\ rd'[s] = ReadyOf(raft[s], disk[s], "ready")
        /\ pc'[s] = "save"
    BY <1>1, <1>3 DEF TakeReady, SetRaft, Goto
  <2>. QED
    BY <1>2, <2>1, ReadyKeeps
<1>4. CASE ~HasReady(raft[s], disk[s])
  <2>1. pc'[s] = after[s] /\ UNCHANGED <<raft, rd>>
    BY <1>1, <1>4 DEF TakeReady, Goto
  <2>2. pc'[s] \in Quiet
    BY <1>1, <2>1 DEF Quiet
  <2>. QED
    BY <1>2, <2>1, <2>2, QuietKeeps
<1>. QED
  BY <1>3, <1>4

LEMMA SaveKeeps ==
    ASSUME TypeOK, NEW s \in Server, Here(s), SaveEntries(s) \/ SaveReadyHardState(s)
    PROVE  Keeps(s)
<1>1. /\ raft[s] \in RawNodeState /\ disk[s] \in Disk /\ rd[s] \in Ready
      /\ disk \in [Server -> Disk] /\ pc \in [Server -> Steps]
  BY DEF TypeOK
<1>2. UNCHANGED <<raft, rd, net>>
  BY DEF SaveEntries, SaveReadyHardState
<1>3. CASE SaveEntries(s)
  <2>1. disk'[s] = AppendEntries(disk[s], rd[s].ents) /\ pc[s] = "save" /\ pc'[s] = "saveHs"
    BY <1>1, <1>3 DEF SaveEntries, Goto
  <2>2. disk'[s].hs = disk[s].hs
    BY <1>1, <2>1, AppendEntriesType DEF Ready
  <2>3. TermsOK(s, raft[s], rd[s], disk'[s], "saveHs")
    BY <2>1, <2>2 DEF Here, TermsOK, Quiet, Saving, Saved
  <2>4. disk'[s].hs.term >= disk[s].hs.term
    BY <1>1, <2>2, TermTypes
  <2>. QED
    BY <1>2, <2>1, <2>3, <2>4 DEF Keeps
<1>4. CASE SaveReadyHardState(s)
  <2>1. /\ disk'[s] = (IF rd[s].hsChanged THEN SaveHardState(disk[s], rd[s].hs) ELSE disk[s])
        /\ pc[s] = "saveHs" /\ pc'[s] = "send"
    BY <1>1, <1>4 DEF SaveReadyHardState, Goto
  <2>2. TermsOK(s, raft[s], rd[s], disk'[s], "send") /\ disk'[s].hs.term >= disk[s].hs.term
    BY <1>1, <2>1, SaveHsTerms DEF Here
  <2>. QED
    BY <1>2, <2>1, <2>2 DEF Keeps
<1>. QED
  BY <1>3, <1>4

LEMMA SendKeeps == ASSUME TypeOK, NEW s \in Server, Here(s), SendMessages(s) PROVE Keeps(s)
<1>1. disk[s] \in Disk /\ pc \in [Server -> Steps]
  BY DEF TypeOK
<1>2. /\ pc[s] \in Saved /\ pc'[s] \in Saved /\ UNCHANGED <<disk, raft, rd>>
      /\ net' = net \cup Sendable(s)
  BY <1>1 DEF SendMessages, Goto, Saved
<1>3. Sendable(s) \subseteq Msgs(s, raft[s].term)
  BY DEF Sendable, Here, TermsOK
<1>. QED
  BY <1>1, <1>2, <1>3, SavedKeeps

LEMMA ApplyKeeps ==
    ASSUME TypeOK, NEW s \in Server, Here(s),
           ApplyNormal(s) \/ Answer(s) \/ RejectNormal(s) \/ PassOver(s)
    PROVE  Keeps(s)
<1>1. /\ disk[s] \in Disk /\ pc \in [Server -> Steps] /\ rd \in [Server -> Ready]
      /\ rd[s] \in Ready /\ disk \in [Server -> Disk]
  BY DEF TypeOK
<1>2. pc[s] \in Saved /\ pc'[s] \in Saved /\ UNCHANGED <<raft, net>>
  BY <1>1 DEF ApplyNormal, Answer, RejectNormal, PassOver, Goto, Saved
<1>3. rd'[s].msgs = rd[s].msgs
  BY <1>1 DEF ApplyNormal, Answer, RejectNormal, PassOver, NextEntry, Ready
<1>4. disk'[s].hs = disk[s].hs
  BY <1>1 DEF ApplyNormal, Answer, RejectNormal, PassOver, Disk
<1>5. disk'[s] \in Disk
  <2>1. ApplyNormal(s) => TypeOK'
    BY ApplyNormalType
  <2>. QED
    BY <1>1, <2>1 DEF ApplyNormal, Answer, RejectNormal, PassOver, TypeOK
<1>. QED
  BY <1>2, <1>3, <1>4, <1>5, SavedKeeps

LEMMA ApplyConfKeeps ==
    ASSUME TypeOK, NEW s \in Server, Here(s), ApplyConf(s)
    PROVE  Keeps(s)
<1>. DEFINE r == ApplyConfChange(raft[s], disk[s], s, Current(s))
<1>1. /\ disk[s] \in Disk /\ rd \in [Server -> Ready] /\ rd[s] \in Ready
      /\ disk \in [Server -> Disk] /\ raft \in [Server -> RawNodeState]
  BY DEF TypeOK
<1>2. disk'[s] \in Disk /\ disk'[s].hs = disk[s].hs
  <2>1. disk'[s] \in Disk
    BY ApplyConfType DEF TypeOK
  <2>2. \E v : disk' = [disk EXCEPT ![s].clusterConf = v]
    BY DEF ApplyConf
  <2>. QED
    BY <1>1, <2>1, <2>2 DEF Disk
<1>3. pc[s] \in Saved /\ UNCHANGED <<pc, net>>
  BY DEF ApplyConf, Saved
<1>4. Evolves(raft[s], r, s) /\ r.term = raft[s].term /\ raft' = [raft EXCEPT ![s] = r]
  BY ApplyConfFacts, ApplyConfChangeEvolves
<1>5. NextEntry(s)
  BY DEF ApplyConf
<1>6. rd'[s].msgs = rd[s].msgs
  BY <1>1, <1>5 DEF NextEntry, Ready
<1>. HIDE DEF r
<1>7. /\ raft'[s].term = raft[s].term /\ raft'[s].prevHs.term = raft[s].prevHs.term
      /\ raft'[s].msgs \subseteq raft[s].msgs \cup Msgs(s, raft[s].term)
  BY <1>1, <1>4 DEF Evolves
<1>. QED
  BY <1>2, <1>3, <1>6, <1>7, SavedKeeps

LEMMA AdvanceKeeps ==
    ASSUME TypeOK, NEW s \in Server, Here(s), InlineAdvance(s) \/ AdvanceRaft(s)
    PROVE  Keeps(s)
<1>. DEFINE r == Advance(raft[s], disk[s], s)
<1>1. /\ disk[s] \in Disk /\ raft[s] \in RawNodeState /\ pc \in [Server -> Steps]
      /\ rd \in [Server -> Ready] /\ raft \in [Server -> RawNodeState]
  BY DEF TypeOK
<1>2. /\ r.term = raft[s].term /\ r.prevHs.term = raft[s].prevHs.term /\ r.msgs = {}
      /\ LightMsgs(raft[s], disk[s], s) \subseteq raft[s].msgs \cup Msgs(s, raft[s].term)
  BY <1>1, AdvanceType
<1>3. raft[s].msgs \subseteq Msgs(s, raft[s].term)
  BY DEF Here, TermsOK
<1>4. raft'[s] = r /\ UNCHANGED disk
  BY <1>1 DEF InlineAdvance, AdvanceRaft, SetRaft
<1>. HIDE DEF r
<1>5. pc[s] \in Saved /\ pc'[s] \in Saved \cup Quiet
  BY <1>1 DEF InlineAdvance, AdvanceRaft, OnReadyThen, Goto, Saved, Quiet
<1>6. rd'[s].msgs \subseteq rd[s].msgs
  BY <1>1, NoReadyType DEF InlineAdvance, AdvanceRaft
<1>7. net' \subseteq net \cup Msgs(s, raft[s].term)
  BY <1>2, <1>3 DEF InlineAdvance, AdvanceRaft
<1>. QED
  BY <1>1, <1>2, <1>4, <1>5, <1>6, <1>7, SavedKeeps

LEMMA LightCommitKeeps ==
    ASSUME TypeOK, NEW s \in Server, Here(s), SaveLightCommit(s)
    PROVE  Keeps(s)
<1>1. /\ disk[s] \in Disk /\ raft[s] \in RawNodeState /\ pc \in [Server -> Steps]
      /\ rd \in [Server -> Ready] /\ rd[s] \in Ready /\ disk \in [Server -> Disk]
  BY DEF TypeOK
<1>2. /\ disk'[s] = SaveHardState(disk[s], HardStateOf(raft[s]))
      /\ pc[s] \in Saved /\ pc'[s] \in Saved /\ UNCHANGED <<raft, net>>
  BY <1>1, LightFetch DEF SaveLightCommit, Saved
<1>3. disk'[s] \in Disk /\ disk'[s].hs.term = raft[s].term
  BY <1>1, <1>2, HardStateOfType, SaveHardStateType
<1>4. raft[s].term = disk[s].hs.term
  BY <1>2 DEF Here, TermsOK
<1>5. rd'[s].msgs = rd[s].msgs
  BY LightFetch
<1>. QED
  BY <1>2, <1>3, <1>4, <1>5, SavedKeeps

LEMMA EndKeeps ==
    ASSUME TypeOK, NEW s \in Server, Here(s), FinishLate(s) \/ Compact(s)
    PROVE  Keeps(s)
<1>1. /\ disk[s] \in Disk /\ raft[s] \in RawNodeState /\ pc \in [Server -> Steps]
      /\ rd \in [Server -> Ready] /\ disk \in [Server -> Disk]
      /\ raft \in [Server -> RawNodeState] /\ after[s] \in {"idle", "replicate", "emptyProposal"}
  BY DEF TypeOK
<1>2. pc[s] \in Saved /\ pc'[s] \in Saved \cup Quiet /\ UNCHANGED net
  BY <1>1 DEF FinishLate, Compact, Goto, Saved, Quiet
<1>3. disk'[s] \in Disk /\ disk'[s].hs = disk[s].hs
  <2>1. \/ disk' = disk
        \/ \E i : disk' = [disk EXCEPT ![s] = CompactLogBefore(disk[s], i)]
    BY DEF FinishLate, Compact
  <2>. QED
    BY <1>1, <2>1, CompactType
<1>4. /\ raft'[s].term = raft[s].term /\ raft'[s].prevHs = raft[s].prevHs
      /\ raft'[s].msgs = raft[s].msgs
  BY <1>1 DEF FinishLate, Compact, SetRaft, RawNodeState
<1>5. rd'[s].msgs \subseteq rd[s].msgs
  BY <1>1, NoReadyType DEF FinishLate, Compact
<1>. QED
  BY <1>2, <1>3, <1>4, <1>5, SavedKeeps

LEMMA RestartKeeps == ASSUME TypeOK, NEW s \in Server, Here(s), Restart(s) PROVE Keeps(s)
<1>1. disk[s] \in Disk /\ raft \in [Server -> RawNodeState]
      /\ pc \in [Server -> Steps] /\ rd \in [Server -> Ready]
  BY DEF TypeOK
<1>2. /\ raft'[s] = NewRawNode(disk[s]) /\ rd'[s] = NoReady /\ pc'[s] = FirstStep(s)
      /\ UNCHANGED <<disk, net>>
  BY <1>1 DEF Restart, SetRaft, Goto
<1>3. disk[s].hs.term >= disk[s].hs.term
  BY <1>1, TermTypes
<1>. QED
  BY <1>1, <1>2, <1>3, FreshTerms DEF Keeps

LEMMA StepKeeps ==
    ASSUME TypeInv, NEW s \in Server, Here(s), NodeStep(s)
    PROVE  Keeps(s)
<1>1. TypeOK
  BY DEF TypeInv
<1>2. ASSUME Stop(s) PROVE Keeps(s)
  BY <1>1, <1>2, StopKeeps DEF Stop, Goto
<1>3. CASE Proceed(s)
  <2>1. CASE BootstrapCampaign(s) \/ BootstrapPropose(s) \/ Tick(s) \/ TriggerReplication(s)
    BY <1>1, <2>1, BootstrapKeeps, TickKeeps
  <2>2. CASE TakeReady(s) \/ SaveEntries(s) \/ SaveReadyHardState(s) \/ SendMessages(s)
    BY <1>1, <2>2, TakeReadyKeeps, SaveKeeps, SendKeeps
  <2>3. CASE ApplyNormal(s) \/ Answer(s) \/ RejectNormal(s) \/ PassOver(s) \/ ApplyConf(s)
    BY <1>1, <2>3, ApplyKeeps, ApplyConfKeeps
  <2>4. CASE FailConf(s)
    BY <1>2, <2>4 DEF FailConf
  <2>5. CASE InlineAdvance(s) \/ AdvanceRaft(s) \/ SaveLightCommit(s) \/ FinishLate(s) \/ Compact(s)
    BY <1>1, <2>5, AdvanceKeeps, LightCommitKeeps, EndKeeps
  <2>. QED
    BY <1>3, <2>1, <2>2, <2>3, <2>4, <2>5 DEF Proceed, OnReady
<1>4. ASSUME NEW q \in Req, DropProposal(s, q) PROVE Keeps(s)
  BY <1>1, <1>4, StopKeeps DEF DropProposal, Goto
<1>5. CASE \E q \in Req : HandleProposal(s, q) \/ RefuseProposal(s, q) \/ DropProposal(s, q)
  BY <1>1, <1>4, <1>5, ProposalKeeps
<1>6. CASE \E m \in net : HandleRaftMessage(s, m) \/ RefuseRaftMessage(s, m)
  BY <1>1, <1>2, <1>6, MessageKeeps DEF RefuseRaftMessage
<1>7. CASE \E f \in Server : AbortOnSnapshot(s, f)
  BY <1>2, <1>7 DEF AbortOnSnapshot
<1>8. CASE \/ \E f \in Addable : HandleConfChange(s, "add", f)
           \/ \E f \in Removable : HandleConfChange(s, "remove", f)
  BY <1>1, <1>8, ChangeAssumption, ConfChangeKeeps
<1>9. CASE Restart(s)
  BY <1>1, <1>9, RestartKeeps
<1>. QED
  BY <1>3, <1>5, <1>6, <1>7, <1>8, <1>9 DEF NodeStep

LEMMA InitTerms == Init => TermInv
<1>. SUFFICES ASSUME Init, NEW s \in Server PROVE TermsOK(s, raft[s], rd[s], disk[s], pc[s])
  BY DEF TermInv
<1>1. disk[s] \in Disk
  BY InitType DEF TypeOK
<1>2. raft[s] = NewRawNode(disk[s]) /\ rd[s] = NoReady /\ pc[s] = FirstStep(s)
  BY DEF Init
<1>. QED
  BY <1>1, <1>2, FreshTerms

LEMMA StepTerms == TypeInv /\ TermInv /\ [Next]_vars => TermInv'
<1>. SUFFICES ASSUME TypeInv, TermInv, [Next]_vars, NEW t \in Server
              PROVE  TermsOK(t, raft'[t], rd'[t], disk'[t], pc'[t])
  BY DEF TermInv
<1>1. \A s \in Server : Here(s)
  BY DEF TermInv, Here
<1>2. CASE UNCHANGED vars
  BY <1>1, <1>2 DEF vars, Here
<1>3. ASSUME NEW s \in Server, NodeStep(s), t # s
      PROVE  TermsOK(t, raft'[t], rd'[t], disk'[t], pc'[t])
  BY <1>1, <1>3, StepIsLocal DEF Untouched, TypeInv, Here
<1>4. ASSUME NodeStep(t) PROVE TermsOK(t, raft'[t], rd'[t], disk'[t], pc'[t])
  BY <1>1, <1>4, StepKeeps DEF Keeps
<1>. QED
  BY <1>2, <1>3, <1>4 DEF Next

(* No stored term falls, and what a step adds to the network the sender    *)
(* has stored.                                                             *)
LEMMA StepSends ==
    ASSUME TypeInv, TermInv, SentTermIsStored, [Next]_vars
    PROVE  SentTermIsStored'
<1>1. TypeOK /\ TypeOK'
  BY StepType DEF TypeInv
<1>2. CASE UNCHANGED vars
  BY <1>2 DEF vars, SentTermIsStored
<1>3. CASE Next
  <2>1. PICK s \in Server : NodeStep(s)
    BY <1>3 DEF Next
  <2>2. Keeps(s)
    BY <2>1, StepKeeps DEF TermInv, Here
  <2>3. \A t \in Server : disk[t].hs.term \in Nat /\ disk'[t].hs.term \in Nat
    BY <1>1, TermTypes DEF TypeOK
  <2>4. \A t \in Server : disk'[t].hs.term >= disk[t].hs.term
    <3>1. ASSUME NEW t \in Server, t # s PROVE disk'[t] = disk[t]
      BY <1>1, <2>1, <3>1, StepIsLocal DEF Untouched
    <3>. QED
      BY <2>2, <2>3, <3>1 DEF Keeps
  <2>. SUFFICES ASSUME NEW m \in net' PROVE m.term <= disk'[m.from].hs.term
    BY DEF SentTermIsStored
  <2>5. m \in Message /\ m.term \in Nat /\ m.from \in Server
    BY <1>1, MessageTermType, BoundAssumption DEF TypeOK, Term
  <2>6. m.term <= disk[m.from].hs.term
    <3>1. m \in net \/ m \in Msgs(s, disk[s].hs.term)
      BY <2>2 DEF Keeps
    <3>. QED
      BY <3>1 DEF SentTermIsStored, Msgs
  <2>. QED
    BY <2>3, <2>4, <2>5, <2>6
<1>. QED
  BY <1>2, <1>3

(* For every set of nodes, with any crashes and any delays: no message     *)
(* carries a term its sender could forget, since both paths save a Ready's *)
(* hard state before they hand a message of it to the transport.           *)
THEOREM SentTerms == Spec => []SentTermIsStored
<1>. DEFINE Inv == TypeInv /\ TermInv /\ SentTermIsStored
<1>1. Init => Inv
  <2>1. Init => TypeInv
    BY InitType DEF Init, TypeInv, EntryInHand, FirstStep
  <2>2. Init => SentTermIsStored
    BY DEF Init, SentTermIsStored
  <2>. QED
    BY <2>1, <2>2, InitTerms
<1>2. Inv /\ [Next]_vars => Inv'
  <2>1. TypeInv /\ [Next]_vars => TypeInv'
    BY StepType, StepEntryInHand DEF TypeInv
  <2>. QED
    BY <2>1, StepTerms, StepSends
<1>. QED
  BY <1>1, <1>2, PTL DEF Spec

---------------------------------------------------------------------------
(* AppliesOnce.  One on_ready() takes committed entries from two places:   *)
(* the Ready hands out those up to commit_since_index, and behind          *)
(* advance() handle_newly_committed_entries fetches more from the storage. *)
(* The invariant Placed says, for every step a node can be at, that what   *)
(* it has processed lies behind the entry in hand, and that the entries    *)
(* fetched are ones the library counts as handed out.                      *)

(* No committed entries are in hand.                                       *)
Rest == Quiet \cup {"compact", "stopped"}

(* The entry in hand is the next to process.                               *)
Handing == {"save", "saveHs", "send", "apply"}

(* The entries of the Ready are stored, advance() is still to come.        *)
Stored == {"saveHs", "send", "apply", "answer"}

(* Everything processed was handed out, and lies behind what is in hand.   *)
Behind(r, x, D, at) ==
    /\ \A i \in D : i <= r.csi
    /\ at \in Handing /\ x.next <= x.last => \A i \in D : i < x.next
    /\ at = "answer" => x.next <= x.last /\ \A i \in D : i <= x.next

(* What is in hand ends where the library counts entries as handed out.    *)
Bounded(r, x, d, at) ==
    at \in Handing \cup {"answer"} =>
        IF x.stage = "late" THEN x.last <= r.csi ELSE x.last \in {0, r.csi}

(* Until advance() a new commit index is one the storage has reached.      *)
Committed(r, x, d, at) ==
    /\ at = "save" => r.unst = x.ents /\ r.committed = r.prevHs.commit
    /\ at \in Stored /\ x.stage # "late" =>
          /\ Rows(r.unst) \subseteq Rows(d.log)
          /\ r.committed = r.prevHs.commit \/ r.committed <= LastIndex(d.log)

(* Behind advance(): where the fetch begins and ends.                      *)
Fetching(r, x, d, D, at) ==
    at = "lightHs" =>
        /\ x.last \in {0, r.applied} /\ r.applied <= r.csi
        /\ \A i \in D : i <= r.applied
        /\ r.committed <= r.csi \/ r.committed < FirstIndex(d.log)

Placed(r, x, d, D, at) ==
    /\ Behind(r, x, D, at)
    /\ Bounded(r, x, d, at)
    /\ Committed(r, x, d, at)
    /\ Fetching(r, x, d, D, at)

Now(s)  == Placed(raft[s], rd[s], disk[s], done[s], pc[s])
Then(s) == Placed(raft'[s], rd'[s], disk'[s], done'[s], pc'[s])

AllPlaced == \A s \in Server : Now(s)

---------------------------------------------------------------------------
(* Numbers and places *)

LEMMA Numbers ==
    /\ \A i \in 0..MaxIndex : i \in Int /\ i >= 0 /\ i <= MaxIndex
    /\ \A i \in Index : i \in Int /\ i >= 1 /\ i <= MaxIndex
    /\ \A r \in RawNodeState : /\ r.csi \in Int /\ r.csi >= 0
                               /\ r.applied \in Int /\ r.applied >= 0
                               /\ r.committed \in Int /\ r.committed >= 0
                               /\ r.committed <= MaxIndex
                               /\ r.prevHs.commit \in Int
    /\ \A x \in Ready : /\ x.next \in Int /\ x.next >= 1
                        /\ x.last \in Int /\ x.last >= 0 /\ x.last <= MaxIndex
<1>1. MaxIndex \in Int
  BY IndexFacts
<1>2. \A i \in 0..MaxIndex : i \in Int /\ i >= 0 /\ i <= MaxIndex
  BY <1>1
<1>3. \A i \in Index : i \in Int /\ i >= 1 /\ i <= MaxIndex
  BY <1>1 DEF Index
<1>4. ASSUME NEW r \in RawNodeState
      PROVE  r.csi \in 0..MaxIndex /\ r.applied \in 0..MaxIndex /\ r.committed \in 0..MaxIndex
             /\ r.prevHs.commit \in 0..MaxIndex
  BY DEF RawNodeState, HardState
<1>5. ASSUME NEW x \in Ready PROVE x.next \in 1..(MaxIndex + 1) /\ x.last \in 0..MaxIndex
  BY DEF Ready
<1>. QED
  BY <1>1, <1>2, <1>3, <1>4, <1>5

LEMMA NodeTypes ==
    ASSUME TypeOK, NEW s \in Server
    PROVE  /\ raft[s] \in RawNodeState /\ rd[s] \in Ready /\ disk[s] \in Disk
           /\ pc[s] \in Steps /\ done[s] \subseteq Index
           /\ after[s] \in {"idle", "replicate", "emptyProposal"}
           /\ raft \in [Server -> RawNodeState] /\ rd \in [Server -> Ready]
           /\ disk \in [Server -> Disk] /\ pc \in [Server -> Steps]
           /\ done \in [Server -> SUBSET Index]
BY DEF TypeOK

LEMMA PlacedAtRest ==
    ASSUME NEW r, NEW x, NEW d, NEW D, NEW at \in Rest, \A i \in D : i <= r.csi
    PROVE  Placed(r, x, d, D, at)
<1>1. /\ at \notin Handing /\ at \notin Stored
      /\ at # "answer" /\ at # "save" /\ at # "lightHs" /\ at # "apply"
  BY DEF Rest, Quiet, Handing, Stored
<1>. QED
  BY <1>1 DEF Placed, Behind, Bounded, Committed, Fetching

(* A step that ends with nothing in hand has only to keep the count.       *)
LEMMA RestPlaced ==
    ASSUME TypeOK, NEW s \in Server, Now(s), pc'[s] \in Rest, done'[s] = done[s],
           raft'[s].csi \in Int, raft'[s].csi >= raft[s].csi
    PROVE  Then(s)
<1>1. raft[s] \in RawNodeState /\ done[s] \subseteq Index
  BY NodeTypes
<1>2. \A i \in done[s] : i \in Int /\ i <= raft[s].csi
  BY <1>1, Numbers DEF Now, Placed, Behind
<1>3. \A i \in done'[s] : i <= raft'[s].csi
  BY <1>1, <1>2, Numbers
<1>. QED
  BY <1>3, PlacedAtRest DEF Then

(* A Ready hands out entries from behind commit_since_index on.            *)
LEMMA HandOutBounds ==
    ASSUME NEW r \in RawNodeState, NEW d
    PROVE  /\ FirstToHandOut(r, d) \in Int /\ HandOut(r, d) \in Int
           /\ FirstToHandOut(r, d) > r.csi
           /\ FirstToHandOut(r, d) \in {r.csi + 1, FirstIndex(d.log)}
           /\ HasEntriesToHandOut(r, d) => HandOut(r, d) >= FirstToHandOut(r, d)
           /\ AfterHandOut(r, d).csi \in Int /\ AfterHandOut(r, d).csi >= r.csi
<1>1. /\ FirstIndex(d.log) \in Int /\ r.csi \in Int /\ HandOut(r, d) \in Int
      /\ FirstToHandOut(r, d) \in Int
  BY FirstIndexType, HandOutType, IndexFacts, Numbers
<1>2. FirstToHandOut(r, d) > r.csi /\ FirstToHandOut(r, d) \in {r.csi + 1, FirstIndex(d.log)}
  BY <1>1 DEF FirstToHandOut
<1>3. HasEntriesToHandOut(r, d) => HandOut(r, d) >= FirstToHandOut(r, d)
  BY DEF HasEntriesToHandOut
<1>4. AfterHandOut(r, d).csi = IF HasEntriesToHandOut(r, d) THEN HandOut(r, d) ELSE r.csi
  BY AfterHandOutType
<1>. QED
  BY <1>1, <1>2, <1>3, <1>4

---------------------------------------------------------------------------
(* ready(), in on_ready or inline *)

LEMMA ReadyPlaced ==
    ASSUME NEW r \in RawNodeState, NEW d \in Disk, NEW D \in SUBSET Index,
           NEW stage \in {"inline", "ready"}, \A i \in D : i <= r.csi
    PROVE  Placed(AfterReady(r, d), ReadyOf(r, d, stage), d, D, "save")
<1>. DEFINE a == AfterReady(r, d)
            x == ReadyOf(r, d, stage)
            has == HasEntriesToHandOut(r, d)
<1>1. /\ a.unst = r.unst /\ a.committed = r.committed /\ a.prevHs = HardStateOf(r)
      /\ a.csi = IF has THEN HandOut(r, d) ELSE r.csi
  BY AfterReadyType
<1>2. /\ x.stage = stage /\ x.ents = r.unst
      /\ x.next = IF has THEN FirstToHandOut(r, d) ELSE 1
      /\ x.last = IF has THEN HandOut(r, d) ELSE 0
  BY DEF ReadyOf
<1>3. HardStateOf(r).commit = r.committed
  BY DEF HardStateOf
<1>4. /\ FirstToHandOut(r, d) \in Int /\ HandOut(r, d) \in Int /\ r.csi \in Int
      /\ FirstToHandOut(r, d) > r.csi /\ (has => HandOut(r, d) >= FirstToHandOut(r, d))
  BY HandOutBounds, Numbers
<1>5. \A i \in D : i \in Int /\ i <= r.csi
  BY Numbers
<1>. HIDE DEF a, x, has
<1>6. Behind(a, x, D, "save")
  <2>1. \A i \in D : i <= a.csi
    BY <1>1, <1>4, <1>5
  <2>2. x.next <= x.last => \A i \in D : i < x.next
    BY <1>2, <1>4, <1>5
  <2>. QED
    BY <2>1, <2>2 DEF Behind
<1>7. Bounded(a, x, d, "save")
  BY <1>1, <1>2 DEF Bounded
<1>8. Committed(a, x, d, "save")
  BY <1>1, <1>2, <1>3 DEF Committed, Stored
<1>9. Fetching(a, x, d, D, "save")
  BY DEF Fetching
<1>. QED
  BY <1>6, <1>7, <1>8, <1>9 DEF Placed, a, x

---------------------------------------------------------------------------
(* The steps of a node *)

(* A step of the library that leaves nothing in hand.                      *)
LEMMA QuietPlaced ==
    ASSUME TypeOK, NEW s \in Server, Now(s), pc'[s] \in Rest,
           Evolves(raft[s], raft'[s], s), UNCHANGED done
    PROVE  Then(s)
<1>1. raft[s] \in RawNodeState /\ raft[s].csi \in Int /\ raft'[s].csi = raft[s].csi
  BY NodeTypes, Numbers DEF Evolves
<1>. QED
  BY <1>1, RestPlaced

LEMMA StopPlaced ==
    ASSUME TypeOK, NEW s \in Server, Now(s), pc' = [pc EXCEPT ![s] = "stopped"],
           UNCHANGED <<raft, done>>
    PROVE  Then(s)
<1>1. raft[s] \in RawNodeState /\ pc'[s] \in Rest
  BY NodeTypes DEF Rest
<1>. QED
  BY <1>1, QuietPlaced, EvolvesRefl

LEMMA TickPlaced ==
    ASSUME TypeOK, NEW s \in Server, Now(s), Tick(s) \/ TriggerReplication(s)
    PROVE  Then(s)
<1>1. pc'[s] \in Rest /\ UNCHANGED done
  BY NodeTypes DEF Tick, TriggerReplication, OnReadyThen, Goto, Rest, Quiet
<1>2. Evolves(raft[s], raft'[s], s)
  <2>1. CASE UNCHANGED raft
    BY <2>1, NodeTypes, EvolvesRefl
  <2>2. CASE \E r \in Ticked(s) : SetRaft(s, r)
    BY <2>2, NodeTypes, TickedEvolves DEF SetRaft
  <2>. QED
    BY <2>1, <2>2 DEF Tick, TriggerReplication
<1>. QED
  BY <1>1, <1>2, QuietPlaced

LEMMA BootstrapPlaced ==
    ASSUME TypeOK, NEW s \in Server, Now(s), BootstrapCampaign(s) \/ BootstrapPropose(s)
    PROVE  Then(s)
<1>1. pc'[s] \in Rest /\ UNCHANGED done
  BY NodeTypes DEF BootstrapCampaign, BootstrapPropose, OnReadyThen, Goto, Rest, Quiet
<1>. QED
  BY <1>1, BootstrapEvolves, QuietPlaced

LEMMA ProposalPlaced ==
    ASSUME TypeOK, NEW s \in Server, Now(s), NEW q \in Req,
           HandleProposal(s, q) \/ RefuseProposal(s, q)
    PROVE  Then(s)
<1>1. pc'[s] \in Rest /\ UNCHANGED done
  BY NodeTypes DEF HandleProposal, RefuseProposal, OnReadyThen, Goto, Rest, Quiet
<1>2. raft'[s] = raft[s] \/ raft'[s] = Propose(raft[s], disk[s], s, q)
  BY NodeTypes DEF HandleProposal, RefuseProposal, SetRaft
<1>. QED
  BY <1>1, <1>2, NodeTypes, EvolvesRefl, ProposeEvolves, QuietPlaced

LEMMA ConfChangePlaced ==
    ASSUME TypeOK, NEW s \in Server, Now(s), NEW kind \in {"add", "remove"}, NEW f \in Server,
           HandleConfChange(s, kind, f)
    PROVE  Then(s)
<1>1. pc'[s] \in Rest /\ UNCHANGED done
  BY NodeTypes DEF HandleConfChange, Rest, Quiet
<1>2. /\ raft'[s] = ProposeConfChange(raft[s], disk[s], s, kind, f)
      /\ LastLogIndex(raft[s], disk[s]) < MaxIndex
  BY NodeTypes DEF HandleConfChange, CanPropose, SetRaft
<1>. QED
  BY <1>1, <1>2, NodeTypes, ProposeConfChangeEvolves, QuietPlaced

LEMMA MessagePlaced ==
    ASSUME TypeOK, NEW s \in Server, Now(s), NEW m \in net, HandleRaftMessage(s, m)
    PROVE  Then(s)
<1>. DEFINE r == Step(raft[s], disk[s], s, m)
<1>1. /\ raft[s] \in RawNodeState /\ disk[s] \in Disk /\ m \in Message
      /\ done[s] \in SUBSET Index /\ UNCHANGED <<disk, done>>
  BY NodeTypes DEF TypeOK, HandleRaftMessage
<1>2. Evolves(raft[s], r, s)
  BY <1>1, StepEvolves
<1>3. r \in RawNodeState /\ r.csi = raft[s].csi /\ \A i \in done[s] : i <= r.csi
  BY <1>2 DEF Evolves, Now, Placed, Behind
<1>4. CASE HasReady(r, disk[s])
  <2>1. /\ raft'[s] = AfterReady(r, disk[s]) /\ rd'[s] = ReadyOf(r, disk[s], "inline")
        /\ pc'[s] = "save"
    BY <1>4, NodeTypes DEF HandleRaftMessage, SetRaft, Goto
  <2>. HIDE DEF r
  <2>2. Placed(AfterReady(r, disk[s]), ReadyOf(r, disk[s], "inline"), disk[s], done[s], "save")
    BY <1>1, <1>3, ReadyPlaced
  <2>. QED
    BY <1>1, <2>1, <2>2 DEF Then
<1>5. CASE ~HasReady(r, disk[s])
  <2>1. SetRaft(s, r) /\ OnReadyThen(s, "idle")
    BY <1>5 DEF HandleRaftMessage
  <2>. HIDE DEF r
  <2>2. raft'[s] = r /\ pc'[s] \in Rest
    BY <2>1, NodeTypes DEF SetRaft, OnReadyThen, Goto, Rest, Quiet
  <2>. QED
    BY <1>1, <1>2, <2>2, QuietPlaced
<1>. QED
  BY <1>4, <1>5

LEMMA TakeReadyPlaced ==
    ASSUME TypeOK, NEW s \in Server, Now(s), TakeReady(s)
    PROVE  Then(s)
<1>1. /\ raft[s] \in RawNodeState /\ disk[s] \in Disk /\ done[s] \in SUBSET Index
      /\ UNCHANGED <<disk, done>> /\ \A i \in done[s] : i <= raft[s].csi
  BY NodeTypes DEF TakeReady, Now, Placed, Behind
<1>2. CASE HasReady(raft[s], disk[s])
  <2>1. /\ raft'[s] = AfterReady(raft[s], disk[s])
        /\ rd'[s] = ReadyOf(raft[s], disk[s], "ready") /\ pc'[s] = "save"
    BY <1>2, NodeTypes DEF TakeReady, SetRaft, Goto
  <2>. QED
    BY <1>1, <2>1, ReadyPlaced DEF Then
<1>3. CASE ~HasReady(raft[s], disk[s])
  <2>1. UNCHANGED raft /\ pc'[s] \in Rest
    BY <1>3, NodeTypes DEF TakeReady, Goto, Rest, Quiet
  <2>. QED
    BY <1>1, <2>1, EvolvesRefl, QuietPlaced
<1>. QED
  BY <1>2, <1>3

(* The Ready is saved and sent: the entries in hand stay, the log grows by *)
(* those of the Ready.                                                     *)
LEMMA SavePlaced ==
    ASSUME TypeOK, NEW s \in Server, Now(s), SaveEntries(s)
    PROVE  Then(s)
<1>. DEFINE r == raft[s]
            x == rd[s]
            d == disk'[s]
<1>1. /\ r \in RawNodeState /\ x \in Ready /\ disk[s] \in Disk
      /\ pc[s] = "save" /\ pc'[s] = "saveHs" /\ d = AppendEntries(disk[s], x.ents)
      /\ UNCHANGED <<raft, rd, done>>
  BY NodeTypes DEF SaveEntries, Goto
<1>2. \A i \in Index : d.log[i] = IF x.ents[i] # NoEntry THEN x.ents[i] ELSE disk[s].log[i]
  BY <1>1 DEF AppendEntries, Disk
<1>3. Rows(x.ents) \subseteq Rows(d.log)
  BY <1>2 DEF Rows
<1>. HIDE DEF r, x, d
<1>4. /\ Behind(r, x, done[s], "save") /\ Bounded(r, x, disk[s], "save")
      /\ Committed(r, x, disk[s], "save")
  BY <1>1 DEF Now, Placed, r, x
<1>5. Behind(r, x, done[s], "saveHs") /\ Bounded(r, x, d, "saveHs")
  BY <1>4 DEF Behind, Bounded, Handing
<1>6. Committed(r, x, d, "saveHs")
  BY <1>3, <1>4 DEF Committed, Stored
<1>7. Placed(r, x, d, done[s], "saveHs")
  BY <1>5, <1>6 DEF Placed, Fetching
<1>. QED
  BY <1>1, <1>7 DEF Then, r, x, d

LEMMA SendPlaced ==
    ASSUME TypeOK, NEW s \in Server, Now(s), SaveReadyHardState(s) \/ SendMessages(s)
    PROVE  Then(s)
<1>. DEFINE r == raft[s]
            x == rd[s]
            d == disk[s]
            e == disk'[s]
<1>1. x \in Ready /\ d \in Disk /\ x.hs \in HardState
  BY NodeTypes DEF Ready
<1>2. /\ pc[s] \in {"saveHs", "send"} /\ pc'[s] \in {"send", "apply"}
      /\ UNCHANGED <<raft, rd, done>>
  BY NodeTypes DEF SaveReadyHardState, SendMessages, Goto
<1>3. e.log = d.log
  <2>1. e = d \/ e = SaveHardState(d, x.hs)
    BY NodeTypes DEF SaveReadyHardState, SendMessages
  <2>. QED
    BY <1>1, <2>1 DEF SaveHardState, Disk
<1>. HIDE DEF r, x, d, e
<1>4. /\ Behind(r, x, done[s], pc[s]) /\ Bounded(r, x, d, pc[s])
      /\ Committed(r, x, d, pc[s])
  BY DEF Now, Placed, r, x, d
<1>5. Behind(r, x, done[s], pc'[s])
  BY <1>2, <1>4 DEF Behind, Handing
<1>6. Bounded(r, x, e, pc'[s])
  BY <1>2, <1>4 DEF Bounded, Handing
<1>7. Committed(r, x, e, pc'[s])
  BY <1>2, <1>3, <1>4 DEF Committed, Stored
<1>8. Fetching(r, x, e, done[s], pc'[s])
  BY <1>2 DEF Fetching
<1>9. Placed(r, x, e, done[s], pc'[s])
  BY <1>5, <1>6, <1>7, <1>8 DEF Placed
<1>. QED
  BY <1>2, <1>9 DEF Then, r, x, e

---------------------------------------------------------------------------
(* Processing an entry *)

(* An entry in hand was handed out.                                        *)
LEMMA InHand ==
    ASSUME TypeOK, NEW s \in Server, Now(s), pc[s] = "apply", More(s)
    PROVE  /\ rd[s].next \in Index /\ rd[s].next <= raft[s].csi
           /\ \A i \in done[s] : i < rd[s].next
           /\ rd[s].stage = "late" => rd[s].last <= raft[s].csi
           /\ rd[s].stage # "late" => rd[s].last = raft[s].csi
<1>. DEFINE r == raft[s]
            x == rd[s]
<1>1. /\ r \in RawNodeState /\ x \in Ready /\ x.next <= x.last /\ x.next \in Index
  BY NodeTypes, CurrentType DEF More
<1>3. r.csi \in Int /\ x.next \in Int /\ x.last \in Int /\ x.next >= 1
  BY <1>1, Numbers
<1>. HIDE DEF r, x
<1>4. Behind(r, x, done[s], "apply") /\ Bounded(r, x, disk[s], "apply")
  BY DEF Now, Placed, r, x
<1>5. \A i \in done[s] : i < x.next
  BY <1>1, <1>4 DEF Behind, Handing
<1>6. IF x.stage = "late" THEN x.last <= r.csi ELSE x.last \in {0, r.csi}
  BY <1>4 DEF Bounded, Handing
<1>7. x.stage # "late" => x.last = r.csi
  BY <1>1, <1>3, <1>6
<1>8. x.next <= r.csi
  BY <1>1, <1>3, <1>6, <1>7
<1>. QED
  BY <1>1, <1>5, <1>6, <1>7, <1>8 DEF r, x

(* On to the next entry.                                                   *)
LEMMA NextPlaced ==
    ASSUME NEW r \in RawNodeState, NEW q, NEW x \in Ready, NEW y, NEW d, NEW e,
           NEW D \in SUBSET Index,
           q.csi = r.csi, q.unst = r.unst, q.prevHs = r.prevHs, e.log = d.log,
           q.committed = r.committed \/ q.committed <= LastIndex(d.log)
                                     \/ x.stage = "late",
           y.next = x.next + 1, y.last = x.last, y.stage = x.stage,
           \A i \in D : i <= r.csi /\ i <= x.next,
           x.stage = "late" => x.last <= r.csi,
           x.stage # "late" => x.last \in {0, r.csi},
           Committed(r, x, d, "apply")
    PROVE  Placed(q, y, e, D, "apply")
<1>1. x.next \in Int /\ \A i \in D : i \in Int
  BY Numbers
<1>2. \A i \in D : i < y.next
  BY <1>1
<1>3. Behind(q, y, D, "apply")
  BY <1>2 DEF Behind
<1>4. Bounded(q, y, e, "apply")
  BY DEF Bounded
<1>5. Committed(q, y, e, "apply")
  <2>1. y.stage # "late" =>
          /\ Rows(r.unst) \subseteq Rows(d.log)
          /\ r.committed = r.prevHs.commit \/ r.committed <= LastIndex(d.log)
    BY DEF Committed, Stored
  <2>2. y.stage # "late" =>
          q.committed = q.prevHs.commit \/ q.committed <= LastIndex(e.log)
    BY <2>1
  <2>. QED
    BY <2>1, <2>2 DEF Committed
<1>6. Fetching(q, y, e, D, "apply")
  BY DEF Fetching
<1>. QED
  BY <1>3, <1>4, <1>5, <1>6 DEF Placed

LEMMA NextReady ==
    ASSUME TypeOK, NEW s \in Server, NextEntry(s)
    PROVE  /\ rd'[s].next = rd[s].next + 1 /\ rd'[s].last = rd[s].last
           /\ rd'[s].stage = rd[s].stage
BY NodeTypes DEF NextEntry, Ready

LEMMA ApplyNormalPlaced ==
    ASSUME TypeOK, NEW s \in Server, Now(s), ApplyNormal(s)
    PROVE  Then(s)
<1>. DEFINE r == raft[s]
            x == rd[s]
            d == disk[s]
            e == disk'[s]
            D == done'[s]
<1>1. /\ r \in RawNodeState /\ x \in Ready /\ d \in Disk /\ done[s] \subseteq Index
      /\ D = done[s] \cup {x.next} /\ pc[s] = "apply" /\ pc'[s] = "answer"
      /\ x.next <= x.last /\ UNCHANGED <<raft, rd>>
  BY NodeTypes DEF ApplyNormal, Processed, More, Goto
<1>2. e.log = d.log
  BY NodeTypes DEF ApplyNormal, Disk
<1>3. /\ x.next \in Index /\ x.next <= r.csi
      /\ \A i \in done[s] : i < x.next
      /\ x.stage = "late" => x.last <= r.csi
      /\ x.stage # "late" => x.last = r.csi
  BY InHand DEF ApplyNormal
<1>4. Committed(r, x, d, "apply") /\ Behind(r, x, done[s], "apply")
  BY <1>1 DEF Now, Placed
<1>5. x.next \in Int /\ \A i \in done[s] : i \in Int
  BY <1>1, <1>3, Numbers
<1>. HIDE DEF r, x, d, e, D
<1>6. Behind(r, x, D, "answer")
  <2>1. \A i \in D : i <= r.csi /\ i <= x.next
    BY <1>1, <1>3, <1>4, <1>5 DEF Behind
  <2>. QED
    BY <1>1, <2>1 DEF Behind, Handing
<1>7. Bounded(r, x, e, "answer")
  BY <1>3 DEF Bounded
<1>8. Committed(r, x, e, "answer")
  BY <1>2, <1>4 DEF Committed, Stored
<1>9. Placed(r, x, e, D, "answer")
  BY <1>6, <1>7, <1>8 DEF Placed, Fetching
<1>. QED
  BY <1>1, <1>9 DEF Then, r, x, e, D

LEMMA AnswerPlaced ==
    ASSUME TypeOK, NEW s \in Server, Now(s), Answer(s)
    PROVE  Then(s)
<1>1. /\ raft[s] \in RawNodeState /\ rd[s] \in Ready /\ done[s] \in SUBSET Index
      /\ pc[s] = "answer" /\ pc'[s] = "apply" /\ NextEntry(s)
      /\ UNCHANGED <<raft, disk, done>>
  BY NodeTypes DEF Answer, Goto
<1>2. /\ Behind(raft[s], rd[s], done[s], "answer")
      /\ Bounded(raft[s], rd[s], disk[s], "answer")
      /\ Committed(raft[s], rd[s], disk[s], "answer")
  BY <1>1 DEF Now, Placed
<1>3. \A i \in done[s] : i <= raft[s].csi /\ i <= rd[s].next
  BY <1>2 DEF Behind
<1>4. /\ rd[s].stage = "late" => rd[s].last <= raft[s].csi
      /\ rd[s].stage # "late" => rd[s].last \in {0, raft[s].csi}
  BY <1>2 DEF Bounded
<1>5. Committed(raft[s], rd[s], disk[s], "apply")
  BY <1>2 DEF Committed, Stored
<1>6. Placed(raft[s], rd'[s], disk[s], done[s], "apply")
  BY <1>1, <1>3, <1>4, <1>5, NextReady, NextPlaced
<1>. QED
  BY <1>1, <1>6 DEF Then

LEMMA PassOverPlaced ==
    ASSUME TypeOK, NEW s \in Server, Now(s), PassOver(s)
    PROVE  Then(s)
<1>1. /\ raft[s] \in RawNodeState /\ rd[s] \in Ready /\ done[s] \in SUBSET Index
      /\ pc[s] = "apply" /\ pc'[s] = "apply" /\ NextEntry(s)
      /\ UNCHANGED <<raft, disk, done>>
  BY NodeTypes DEF PassOver
<1>2. /\ Behind(raft[s], rd[s], done[s], "apply")
      /\ Committed(raft[s], rd[s], disk[s], "apply")
  BY <1>1 DEF Now, Placed
<1>3. /\ rd[s].next \in Index
      /\ \A i \in done[s] : i < rd[s].next
      /\ rd[s].stage = "late" => rd[s].last <= raft[s].csi
      /\ rd[s].stage # "late" => rd[s].last = raft[s].csi
  BY InHand DEF PassOver
<1>4. \A i \in done[s] : i <= raft[s].csi /\ i <= rd[s].next
  BY <1>1, <1>2, <1>3, Numbers DEF Behind
<1>5. Placed(raft[s], rd'[s], disk[s], done[s], "apply")
  BY <1>1, <1>2, <1>3, <1>4, NextReady, NextPlaced
<1>. QED
  BY <1>1, <1>5 DEF Then

LEMMA RejectNormalPlaced ==
    ASSUME TypeOK, NEW s \in Server, Now(s), RejectNormal(s)
    PROVE  Then(s)
<1>. DEFINE D == done'[s]
<1>1. /\ raft[s] \in RawNodeState /\ rd[s] \in Ready /\ done[s] \subseteq Index
      /\ pc[s] = "apply" /\ pc'[s] = "apply" /\ NextEntry(s) /\ D = done[s] \cup {rd[s].next}
      /\ UNCHANGED <<raft, disk>>
  BY NodeTypes DEF RejectNormal, Processed
<1>2. /\ Behind(raft[s], rd[s], done[s], "apply")
      /\ Committed(raft[s], rd[s], disk[s], "apply")
  BY <1>1 DEF Now, Placed
<1>3. /\ rd[s].next \in Index /\ rd[s].next <= raft[s].csi
      /\ \A i \in done[s] : i < rd[s].next
      /\ rd[s].stage = "late" => rd[s].last <= raft[s].csi
      /\ rd[s].stage # "late" => rd[s].last = raft[s].csi
  BY InHand DEF RejectNormal
<1>4. D \subseteq Index /\ rd[s].next \in Int /\ \A i \in done[s] : i \in Int
  BY <1>1, <1>3, Numbers
<1>. HIDE DEF D
<1>5. \A i \in D : i <= raft[s].csi /\ i <= rd[s].next
  BY <1>1, <1>2, <1>3, <1>4 DEF Behind
<1>6. Placed(raft[s], rd'[s], disk[s], D, "apply")
  BY <1>1, <1>2, <1>3, <1>4, <1>5, NextReady, NextPlaced
<1>. QED
  BY <1>1, <1>6 DEF Then, D

(* A configuration change may commit further entries, stored ones.         *)
LEMMA ApplyConfPlaced ==
    ASSUME TypeOK, NEW s \in Server, Now(s), ApplyConf(s)
    PROVE  Then(s)
<1>. DEFINE r == raft[s]
            q == raft'[s]
            x == rd[s]
            d == disk[s]
            D == done'[s]
<1>1. /\ r \in RawNodeState /\ x \in Ready /\ d \in Disk /\ done[s] \in SUBSET Index
      /\ D = done[s] \cup {x.next} /\ pc[s] = "apply" /\ pc'[s] = "apply"
      /\ NextEntry(s) /\ Current(s) \in Entry
  BY NodeTypes, CurrentType DEF ApplyConf, Processed
<1>2. disk'[s].log = d.log
  <2>1. \E v : disk' = [disk EXCEPT ![s].clusterConf = v]
    BY DEF ApplyConf
  <2>. QED
    BY <2>1, NodeTypes DEF Disk
<1>3. /\ x.next \in Index /\ x.next <= r.csi
      /\ \A i \in done[s] : i < x.next
      /\ x.stage = "late" => x.last <= r.csi
      /\ x.stage # "late" => x.last = r.csi
  BY InHand DEF ApplyConf
<1>4. Committed(r, x, d, "apply") /\ Behind(r, x, done[s], "apply")
  BY <1>1 DEF Now, Placed
<1>5. x.next \in Int /\ \A i \in done[s] : i \in Int
  BY <1>1, <1>3, Numbers
<1>6. /\ q \in RawNodeState
      /\ q.csi = r.csi /\ q.prevHs = r.prevHs /\ q.unst = r.unst
      /\ q.committed = r.committed \/ q.committed <= LastLogIndex(r, d)
  <2>1. q = ApplyConfChange(r, d, s, Current(s))
    BY NodeTypes, ApplyConfFacts
  <2>. QED
    BY <1>1, <2>1, ApplyConfFacts, ApplyConfChangeEvolves DEF Evolves, Commits
<1>7. D \in SUBSET Index /\ \A i \in D : i <= r.csi /\ i <= x.next
  BY <1>1, <1>3, <1>4, <1>5 DEF Behind
<1>. HIDE DEF r, q, x, d, D
<1>8. q.committed = r.committed \/ q.committed <= LastIndex(d.log) \/ x.stage = "late"
  <2>1. CASE Rows(r.unst) = {}
    BY <1>6, <2>1 DEF LastLogIndex
  <2>2. CASE Rows(r.unst) # {} /\ x.stage # "late"
    <3>1. LastLogIndex(r, d) <= LastIndex(d.log) /\ LastLogIndex(r, d) \in Int
      <4>1. Rows(r.unst) \subseteq Rows(d.log)
        BY <1>4, <2>2 DEF Committed, Stored
      <4>2. LastIndex(r.unst) \in Rows(r.unst)
        BY <2>2, LastIndexType
      <4>3. LastIndex(r.unst) <= LastIndex(d.log)
        BY <4>1, <4>2, LastIndexType
      <4>. QED
        BY <2>2, <4>2, <4>3, Numbers DEF LastLogIndex, Rows
    <3>2. q.committed \in Int /\ LastIndex(d.log) \in Int
      BY <1>6, LastIndexType, Numbers
    <3>. QED
      BY <1>6, <3>1, <3>2
  <2>. QED
    BY <2>1, <2>2
<1>9. /\ rd'[s].next = x.next + 1 /\ rd'[s].last = x.last /\ rd'[s].stage = x.stage
  BY <1>1, NextReady DEF x
<1>10. Placed(q, rd'[s], disk'[s], D, "apply")
  BY <1>1, <1>2, <1>3, <1>4, <1>6, <1>7, <1>8, <1>9, NextPlaced
<1>. QED
  BY <1>1, <1>10 DEF Then, q, D

---------------------------------------------------------------------------
(* advance() and what follows it *)

LEMMA PersistedFacts ==
    ASSUME NEW r \in RawNodeState, NEW d \in Disk, NEW s \in Server
    PROVE  /\ Persisted(r, d, s) \in RawNodeState /\ Persisted(r, d, s).csi = r.csi
           /\ Advance(r, d, s) \in RawNodeState
           /\ Advance(r, d, s).csi >= r.csi
<1>. DEFINE p == Persisted(r, d, s)
<1>1. p \in RawNodeState /\ p.csi = r.csi
  BY PersistedEvolves DEF Evolves
<1>2. Advance(r, d, s) \in RawNodeState /\ Advance(r, d, s).csi = AfterHandOut(p, d).csi
  BY AdvanceType
<1>. HIDE DEF p
<1>3. AfterHandOut(p, d).csi >= p.csi
  BY <1>1, HandOutBounds
<1>4. Advance(r, d, s).csi >= r.csi
  BY <1>1, <1>2, <1>3
<1>. QED
  BY <1>1, <1>2, <1>4 DEF p

(* No row comes before the first.                                          *)
LEMMA FirstRow ==
    ASSUME NEW log, NEW i \in Rows(log)
    PROVE  ~(i < FirstIndex(log))
<1>1. FirstIndex(log) <= i /\ i \in Int /\ FirstIndex(log) \in Int
  BY FirstIndexLeast, FirstIndexType, Numbers, IndexFacts DEF Rows
<1>. QED
  BY <1>1

(* When advance() commits entries, they are all handed out by it, or lie   *)
(* before the first row.                                                   *)
LEMMA LightEntries ==
    ASSUME NEW r \in RawNodeState, NEW d \in Disk, NEW s \in Server,
           r.committed = r.prevHs.commit \/ r.committed <= LastIndex(d.log),
           LightCommit(r, d, s)
    PROVE  LET a == Advance(r, d, s) IN a.committed <= a.csi \/ a.committed < FirstIndex(d.log)
<1>. DEFINE p == Persisted(r, d, s)
            a == Advance(r, d, s)
<1>1. /\ p \in RawNodeState /\ p.csi = r.csi
      /\ p.committed = r.committed \/ p.committed <= LastIndex(d.log)
      /\ a.committed = p.committed /\ a.csi = AfterHandOut(p, d).csi
  BY PersistedFacts, PersistedEvolves, AdvanceType
<1>2. p.committed > r.prevHs.commit
  BY DEF LightCommit
<1>. HIDE DEF p, a
<1>3. /\ p.committed \in Int /\ p.csi \in Int /\ r.prevHs.commit \in Int /\ r.committed \in Int
      /\ LastIndex(d.log) \in Int /\ FirstIndex(d.log) \in Int
  BY <1>1, Numbers, LastIndexType, FirstIndexType, IndexFacts
<1>4. p.committed <= LastIndex(d.log)
  BY <1>1, <1>2, <1>3
<1>5. HandOut(p, d) = p.committed
  BY <1>3, <1>4 DEF HandOut
<1>6. CASE HasEntriesToHandOut(p, d)
  <2>1. a.csi = p.committed
    BY <1>1, <1>5, <1>6, AfterHandOutType
  <2>. QED
    BY <1>1, <1>3, <2>1 DEF a
<1>7. CASE ~HasEntriesToHandOut(p, d)
  <2>1. p.committed < FirstToHandOut(p, d)
    <3>1. FirstToHandOut(p, d) \in Int
      BY <1>1, HandOutBounds
    <3>. QED
      BY <1>3, <1>5, <1>7, <3>1 DEF HasEntriesToHandOut
  <2>2. FirstToHandOut(p, d) = p.csi + 1 \/ FirstToHandOut(p, d) = FirstIndex(d.log)
    BY <1>1, HandOutBounds
  <2>3. p.committed <= p.csi \/ p.committed < FirstIndex(d.log)
    BY <1>3, <2>1, <2>2
  <2>4. a.csi = p.csi
    BY <1>1, <1>7, AfterHandOutType
  <2>. QED
    BY <1>1, <2>3, <2>4 DEF a
<1>. QED
  BY <1>6, <1>7

LEMMA InlineAdvancePlaced ==
    ASSUME TypeOK, NEW s \in Server, Now(s), InlineAdvance(s)
    PROVE  Then(s)
<1>1. /\ raft[s] \in RawNodeState /\ disk[s] \in Disk
      /\ raft'[s] = Advance(raft[s], disk[s], s) /\ pc'[s] \in Rest /\ UNCHANGED done
  BY NodeTypes DEF InlineAdvance, SetRaft, OnReadyThen, Goto, Rest, Quiet
<1>2. raft'[s].csi >= raft[s].csi /\ raft'[s].csi \in Int
  BY <1>1, PersistedFacts, Numbers
<1>. QED
  BY <1>1, <1>2, RestPlaced

LEMMA AdvanceRaftPlaced ==
    ASSUME TypeOK, NEW s \in Server, Now(s), AdvanceRaft(s)
    PROVE  Then(s)
<1>. DEFINE r == raft[s]
            a == raft'[s]
            x == rd[s]
            d == disk[s]
<1>1. /\ r \in RawNodeState /\ x \in Ready /\ d \in Disk /\ done[s] \subseteq Index
      /\ a = Advance(r, d, s) /\ pc[s] = "apply" /\ x.stage = "ready"
      /\ UNCHANGED <<disk, rd, done>>
      /\ pc'[s] = IF LightCommit(r, d, s) THEN "lightHs" ELSE "compact"
  BY NodeTypes DEF AdvanceRaft, SetRaft, Goto
<1>2. a \in RawNodeState /\ a.csi >= r.csi /\ a.applied = r.csi
  BY <1>1, PersistedFacts, AdvanceType
<1>3. a.csi \in Int /\ r.csi \in Int
  BY <1>1, <1>2, Numbers
<1>4. /\ Behind(r, x, done[s], "apply") /\ Bounded(r, x, d, "apply")
      /\ Committed(r, x, d, "apply")
  BY <1>1 DEF Now, Placed
<1>5. CASE ~LightCommit(r, d, s)
  <2>1. pc'[s] \in Rest
    BY <1>1, <1>5 DEF Rest
  <2>. QED
    BY <1>1, <1>2, <1>3, <2>1, RestPlaced
<1>6. CASE LightCommit(r, d, s)
  <2>. HIDE DEF r, a, x, d
  <2>1. r.committed = r.prevHs.commit \/ r.committed <= LastIndex(d.log)
    BY <1>1, <1>4 DEF Committed, Stored
  <2>2. a.committed <= a.csi \/ a.committed < FirstIndex(d.log)
    BY <1>1, <1>6, <2>1, LightEntries
  <2>3. x.last \in {0, a.applied} /\ a.applied <= a.csi
    BY <1>1, <1>2, <1>3, <1>4 DEF Bounded, Handing
  <2>4. \A i \in done[s] : i <= a.applied
    BY <1>2, <1>4 DEF Behind
  <2>5. \A i \in done[s] : i <= a.csi
    BY <1>1, <1>2, <1>3, <2>4, Numbers
  <2>6. Behind(a, x, done[s], "lightHs")
    BY <2>5 DEF Behind, Handing
  <2>7. Fetching(a, x, d, done[s], "lightHs")
    BY <2>2, <2>3, <2>4 DEF Fetching
  <2>8. Bounded(a, x, d, "lightHs") /\ Committed(a, x, d, "lightHs")
    BY DEF Bounded, Committed, Handing, Stored
  <2>9. Placed(a, x, d, done[s], "lightHs")
    BY <2>6, <2>7, <2>8 DEF Placed
  <2>. QED
    BY <1>1, <1>6, <2>9 DEF Then, a, x, d
<1>. QED
  BY <1>5, <1>6

(* handle_newly_committed_entries: the fetch begins behind what is         *)
(* processed.                                                              *)
LEMMA LightCommitPlaced ==
    ASSUME TypeOK, NEW s \in Server, Now(s), SaveLightCommit(s)
    PROVE  Then(s)
<1>. DEFINE r == raft[s]
            x == rd[s]
            y == rd'[s]
            d == disk[s]
            e == disk'[s]
<1>1. /\ r \in RawNodeState /\ x \in Ready /\ d \in Disk /\ done[s] \subseteq Index
      /\ pc[s] = "lightHs" /\ UNCHANGED <<raft, done>>
  BY NodeTypes DEF SaveLightCommit
<1>2. e.log = d.log
  BY NodeTypes DEF SaveLightCommit, SaveHardState, Disk
<1>3. CASE pc'[s] = "compact"
  <2>1. pc'[s] \in Rest
    BY <1>3 DEF Rest
  <2>2. r.csi \in Int /\ r.csi >= r.csi
    BY <1>1, Numbers
  <2>. QED
    BY <1>1, <2>1, <2>2, RestPlaced
<1>4. CASE pc'[s] # "compact"
  <2>1. /\ y.stage = "late" /\ y.next = CurrentApplied(s) + 1 /\ y.last \in Index
        /\ CurrentApplied(s) < y.last /\ y.last <= r.committed /\ d.log[y.last] # NoEntry
        /\ pc'[s] = "apply"
    BY <1>4, LightFetch
  <2>2. CurrentApplied(s) = r.applied
    <3>1. x.last \in {0, r.applied}
      BY <1>1 DEF Now, Placed, Fetching
    <3>. QED
      BY <1>1, <3>1, Numbers DEF CurrentApplied
  <2>3. /\ Behind(r, x, done[s], "lightHs") /\ Fetching(r, x, d, done[s], "lightHs")
    BY <1>1 DEF Now, Placed
  <2>. HIDE DEF r, x, y, d, e
  <2>4. /\ r.applied \in Int /\ r.applied >= 0 /\ r.committed \in Int /\ r.csi \in Int
        /\ r.committed <= MaxIndex /\ y.last \in Int /\ \A i \in done[s] : i \in Int
    BY <1>1, <2>1, Numbers
  <2>5. /\ \A i \in done[s] : i <= r.applied /\ i <= r.csi
        /\ r.committed <= r.csi \/ r.committed < FirstIndex(d.log)
    BY <2>3 DEF Behind, Fetching
  <2>6. Behind(r, y, done[s], "apply")
    BY <2>1, <2>2, <2>4, <2>5 DEF Behind
  <2>7. ~(r.committed < FirstIndex(d.log))
    <3>. SUFFICES ASSUME r.committed < FirstIndex(d.log) PROVE FALSE
      OBVIOUS
    <3>1. FirstIndex(d.log) \in Int
      BY <1>1, FirstIndexType, IndexFacts
    <3>2. y.last < FirstIndex(d.log)
      BY <2>1, <2>4, <3>1
    <3>3. y.last \notin Rows(d.log)
      BY <2>1, <3>2, FirstRow
    <3>. QED
      BY <2>1, <3>3 DEF Rows
  <2>8. y.last <= r.csi
    BY <2>1, <2>4, <2>5, <2>7
  <2>9. Bounded(r, y, e, "apply")
    BY <2>1, <2>8 DEF Bounded
  <2>10. Committed(r, y, e, "apply") /\ Fetching(r, y, e, done[s], "apply")
    BY <2>1 DEF Committed, Fetching
  <2>11. Placed(r, y, e, done[s], "apply")
    BY <2>6, <2>9, <2>10 DEF Placed
  <2>. QED
    BY <1>1, <2>1, <2>11 DEF Then, r, y, e
<1>. QED
  BY <1>3, <1>4

LEMMA EndPlaced ==
    ASSUME TypeOK, NEW s \in Server, Now(s), FinishLate(s) \/ Compact(s)
    PROVE  Then(s)
<1>1. pc'[s] \in Rest /\ UNCHANGED done
  BY NodeTypes DEF FinishLate, Compact, Goto, Rest, Quiet
<1>2. raft[s] \in RawNodeState /\ raft'[s].csi = raft[s].csi
  <2>1. raft[s] \in RawNodeState /\ raft \in [Server -> RawNodeState]
    BY NodeTypes
  <2>2. FinishLate(s) => raft' = [raft EXCEPT ![s] = [raft[s] EXCEPT !.applied = rd[s].last]]
    BY DEF FinishLate, SetRaft
  <2>3. [raft[s] EXCEPT !.applied = rd[s].last].csi = raft[s].csi
    BY <2>1 DEF RawNodeState
  <2>4. Compact(s) => raft' = raft
    BY DEF Compact
  <2>. QED
    BY <2>1, <2>2, <2>3, <2>4
<1>3. raft'[s].csi \in Int /\ raft'[s].csi >= raft[s].csi
  BY <1>2, Numbers
<1>. QED
  BY <1>1, <1>3, RestPlaced

(* A new life has processed nothing yet.                                   *)
LEMMA RestartPlaced ==
    ASSUME TypeOK, NEW s \in Server, Restart(s)
    PROVE  Then(s)
<1>1. pc'[s] \in Rest /\ done'[s] = {}
  BY NodeTypes, FirstStepType DEF Restart, Goto, Rest, Quiet
<1>. QED
  BY <1>1, PlacedAtRest DEF Then

---------------------------------------------------------------------------
(* The invariant and the theorem *)

LEMMA StepPlaced ==
    ASSUME TypeInv, NEW s \in Server, Now(s), NodeStep(s)
    PROVE  Then(s)
<1>1. TypeOK
  BY DEF TypeInv
<1>2. ASSUME Stop(s) PROVE Then(s)
  BY <1>1, <1>2, StopPlaced DEF Stop, Goto
<1>3. CASE Proceed(s)
  <2>1. CASE BootstrapCampaign(s) \/ BootstrapPropose(s) \/ Tick(s) \/ TriggerReplication(s)
    BY <1>1, <2>1, BootstrapPlaced, TickPlaced
  <2>2. CASE TakeReady(s) \/ SaveEntries(s) \/ SaveReadyHardState(s) \/ SendMessages(s)
    BY <1>1, <2>2, TakeReadyPlaced, SavePlaced, SendPlaced
  <2>3. CASE ApplyNormal(s) \/ Answer(s) \/ RejectNormal(s) \/ PassOver(s) \/ ApplyConf(s)
    BY <1>1, <2>3, ApplyNormalPlaced, AnswerPlaced, RejectNormalPlaced, PassOverPlaced,
       ApplyConfPlaced
  <2>4. CASE FailConf(s)
    BY <1>2, <2>4 DEF FailConf
  <2>5. CASE InlineAdvance(s) \/ AdvanceRaft(s) \/ SaveLightCommit(s) \/ FinishLate(s) \/ Compact(s)
    BY <1>1, <2>5, InlineAdvancePlaced, AdvanceRaftPlaced, LightCommitPlaced, EndPlaced
  <2>. QED
    BY <1>3, <2>1, <2>2, <2>3, <2>4, <2>5 DEF Proceed, OnReady
<1>4. ASSUME NEW q \in Req, DropProposal(s, q) PROVE Then(s)
  BY <1>1, <1>4, StopPlaced DEF DropProposal, Goto
<1>5. CASE \E q \in Req : HandleProposal(s, q) \/ RefuseProposal(s, q) \/ DropProposal(s, q)
  BY <1>1, <1>4, <1>5, ProposalPlaced
<1>6. CASE \E m \in net : HandleRaftMessage(s, m) \/ RefuseRaftMessage(s, m)
  BY <1>1, <1>2, <1>6, MessagePlaced DEF RefuseRaftMessage
<1>7. CASE \E f \in Server : AbortOnSnapshot(s, f)
  BY <1>2, <1>7 DEF AbortOnSnapshot
<1>8. CASE \/ \E f \in Addable : HandleConfChange(s, "add", f)
           \/ \E f \in Removable : HandleConfChange(s, "remove", f)
  BY <1>1, <1>8, ChangeAssumption, ConfChangePlaced
<1>9. CASE Restart(s)
  BY <1>1, <1>9, RestartPlaced
<1>. QED
  BY <1>3, <1>5, <1>6, <1>7, <1>8, <1>9 DEF NodeStep

(* Nor does a step of one node count for another.                          *)
LEMMA CountIsLocal ==
    ASSUME TypeOK, NEW s \in Server, NEW t \in Server, t # s, NodeStep(s)
    PROVE  done'[t] = done[t]
<1>. USE NodeTypes
<1>1. ASSUME Stop(s) PROVE done'[t] = done[t]
  BY <1>1 DEF Stop
<1>2. CASE Proceed(s)
  <2>1. CASE ApplyNormal(s) \/ RejectNormal(s) \/ ApplyConf(s)
    BY <2>1 DEF ApplyNormal, RejectNormal, ApplyConf, Processed
  <2>2. CASE FailConf(s)
    BY <1>1, <2>2 DEF FailConf
  <2>3. CASE \/ BootstrapCampaign(s) \/ BootstrapPropose(s) \/ Tick(s) \/ TriggerReplication(s)
             \/ TakeReady(s) \/ SaveEntries(s) \/ SaveReadyHardState(s) \/ SendMessages(s)
             \/ Answer(s) \/ PassOver(s) \/ InlineAdvance(s) \/ AdvanceRaft(s)
             \/ SaveLightCommit(s) \/ FinishLate(s) \/ Compact(s)
    BY <2>3 DEF BootstrapCampaign, BootstrapPropose, Tick, TriggerReplication, TakeReady,
       SaveEntries, SaveReadyHardState, SendMessages, Answer, PassOver, InlineAdvance,
       AdvanceRaft, SaveLightCommit, FinishLate, Compact
  <2>. QED
    BY <1>2, <2>1, <2>2, <2>3 DEF Proceed, OnReady
<1>3. CASE \E q \in Req : HandleProposal(s, q) \/ RefuseProposal(s, q) \/ DropProposal(s, q)
  BY <1>3 DEF HandleProposal, RefuseProposal, DropProposal
<1>4. CASE \E m \in net : HandleRaftMessage(s, m) \/ RefuseRaftMessage(s, m)
  BY <1>1, <1>4 DEF HandleRaftMessage, RefuseRaftMessage
<1>5. CASE \E f \in Server : AbortOnSnapshot(s, f)
  BY <1>1, <1>5 DEF AbortOnSnapshot
<1>6. CASE \E f : HandleConfChange(s, "add", f) \/ HandleConfChange(s, "remove", f)
  BY <1>6 DEF HandleConfChange
<1>7. CASE Restart(s)
  BY <1>7 DEF Restart
<1>. QED
  BY <1>2, <1>3, <1>4, <1>5, <1>6, <1>7 DEF NodeStep

LEMMA StepAllPlaced == TypeInv /\ AllPlaced /\ [Next]_vars => AllPlaced'
<1>. SUFFICES ASSUME TypeInv, AllPlaced, [Next]_vars, NEW t \in Server
              PROVE  Placed(raft'[t], rd'[t], disk'[t], done'[t], pc'[t])
  BY DEF AllPlaced, Now
<1>1. TypeOK /\ Now(t)
  BY DEF TypeInv, AllPlaced
<1>2. CASE UNCHANGED vars
  BY <1>1, <1>2 DEF vars, Now
<1>3. ASSUME NEW s \in Server, NodeStep(s), t # s
      PROVE  Placed(raft'[t], rd'[t], disk'[t], done'[t], pc'[t])
  <2>1. Untouched(t) /\ done'[t] = done[t]
    BY <1>1, <1>3, StepIsLocal, CountIsLocal
  <2>. QED
    BY <1>1, <2>1 DEF Untouched, Now
<1>4. ASSUME NodeStep(t) PROVE Placed(raft'[t], rd'[t], disk'[t], done'[t], pc'[t])
  BY <1>1, <1>4, StepPlaced DEF Then
<1>. QED
  BY <1>2, <1>3, <1>4 DEF Next

(* No write of the storage reaches the state machine's tables.             *)
LEMMA WritesKeepMachine ==
    ASSUME NEW d \in Disk, NEW ents, NEW hs, NEW i
    PROVE  /\ AppendEntries(d, ents).sm = d.sm /\ SaveHardState(d, hs).sm = d.sm
           /\ CompactLogBefore(d, i).sm = d.sm
BY DEF AppendEntries, SaveHardState, CompactLogBefore, Disk

(* Only apply_entry reaches it.                                            *)
LEMMA OnlyApplyReaches ==
    ASSUME TypeOK, NEW s \in Server, NodeStep(s), disk'[s].sm # disk[s].sm
    PROVE  ApplyNormal(s)
<1>. USE NodeTypes
<1>1. ~Stop(s)
  BY DEF Stop
<1>2. /\ ~BootstrapCampaign(s) /\ ~BootstrapPropose(s) /\ ~Tick(s) /\ ~TriggerReplication(s)
      /\ ~TakeReady(s) /\ ~SendMessages(s) /\ ~Answer(s) /\ ~RejectNormal(s) /\ ~PassOver(s)
      /\ ~InlineAdvance(s) /\ ~AdvanceRaft(s) /\ ~FinishLate(s)
  BY DEF BootstrapCampaign, BootstrapPropose, Tick, TriggerReplication, TakeReady,
     SendMessages, Answer, RejectNormal, PassOver, InlineAdvance, AdvanceRaft, FinishLate
<1>. USE WritesKeepMachine
<1>3. ~SaveEntries(s)
  BY DEF SaveEntries
<1>4. ~SaveReadyHardState(s) /\ ~SaveLightCommit(s)
  BY SMTT(30) DEF SaveReadyHardState, SaveLightCommit
<1>5. ~ApplyConf(s)
  <2>. SUFFICES ASSUME ApplyConf(s) PROVE FALSE
    OBVIOUS
  <2>. DEFINE e == [disk[s] EXCEPT !.clusterConf = raft'[s].voters]
  <2>1. disk' = [disk EXCEPT ![s] = e]
    BY DEF ApplyConf, SetRaft
  <2>2. e.sm = disk[s].sm
    BY DEF Disk
  <2>. HIDE DEF e
  <2>. QED
    BY <2>1, <2>2
<1>6. ~Compact(s)
  <2>1. Compact(s) => disk' = disk \/ \E i : disk' = [disk EXCEPT ![s] = CompactLogBefore(disk[s], i)]
    BY DEF Compact
  <2>. QED
    BY <2>1
<1>7. ~\E q \in Req : HandleProposal(s, q) \/ RefuseProposal(s, q) \/ DropProposal(s, q)
  BY DEF HandleProposal, RefuseProposal, DropProposal
<1>8. ~\E m \in net : HandleRaftMessage(s, m)
  BY DEF HandleRaftMessage
<1>9. ~\E f : HandleConfChange(s, "add", f) \/ HandleConfChange(s, "remove", f)
  BY DEF HandleConfChange
<1>10. ~Restart(s)
  BY DEF Restart
<1>. QED
  BY <1>1, <1>2, <1>3, <1>4, <1>5, <1>6, <1>7, <1>8, <1>9, <1>10
     DEF NodeStep, Proceed, OnReady, FailConf, RefuseRaftMessage, AbortOnSnapshot

LEMMA StepAppliesOnce ==
    ASSUME TypeInv, AllPlaced, [Next]_vars, NEW t \in Server, disk'[t].sm # disk[t].sm
    PROVE  rd[t].next \notin done[t]
<1>1. TypeOK /\ Now(t)
  BY DEF TypeInv, AllPlaced
<1>2. ~UNCHANGED vars
  BY DEF vars
<1>3. NodeStep(t)
  <2>1. ASSUME NEW s \in Server, NodeStep(s), t # s PROVE FALSE
    BY <1>1, <2>1, StepIsLocal DEF Untouched
  <2>. QED
    BY <1>2, <2>1 DEF Next
<1>4. ApplyNormal(t)
  BY <1>1, <1>3, OnlyApplyReaches
<1>5. rd[t].next \in Index /\ \A i \in done[t] : i < rd[t].next
  BY <1>1, <1>4, InHand DEF ApplyNormal
<1>6. rd[t].next \in Int /\ ~(rd[t].next < rd[t].next)
  BY <1>5, Numbers
<1>. QED
  BY <1>5, <1>6

(* For every set of nodes, with any crashes and any delays: in one life of *)
(* a node no command reaches the state machine twice, although an          *)
(* on_ready() takes entries from the Ready and from the storage.           *)
THEOREM OnceEach == Spec => AppliesOnce
<1>. DEFINE Inv == TypeInv /\ AllPlaced
<1>1. Init => Inv
  <2>1. Init => TypeInv
    BY InitType DEF Init, TypeInv, EntryInHand, FirstStep
  <2>2. ASSUME Init, NEW s \in Server PROVE Now(s)
    <3>1. pc[s] \in Rest /\ done[s] = {}
      BY <2>2, FirstStepType DEF Init, Rest, Quiet
    <3>. QED
      BY <3>1, PlacedAtRest DEF Now
  <2>. QED
    BY <2>1, <2>2 DEF AllPlaced
<1>2. Inv /\ [Next]_vars => Inv'
  <2>1. TypeInv /\ [Next]_vars => TypeInv'
    BY StepType, StepEntryInHand DEF TypeInv
  <2>. QED
    BY <2>1, StepAllPlaced
<1>3. Inv /\ [Next]_vars =>
        [\A s \in Server : disk'[s].sm # disk[s].sm => rd[s].next \notin done[s]]_vars
  BY StepAppliesOnce
<1>. QED
  BY <1>1, <1>2, <1>3, PTL DEF Spec, AppliesOnce

---------------------------------------------------------------------------
(* The upper bound of EveryCrashIsLoadable, and AcknowledgedIsStored.      *)
(* Neither needs to know how the logs of two nodes agree; both need to     *)
(* know how far a log reaches, in the RawNode, in the Ready and on the     *)
(* disk, at every step.                                                    *)

(* On the disk behind "save" and not yet taken over by advance().          *)
Kept == {"saveHs", "send", "apply", "answer", "lightHs", "compact"}

(* A Ready whose messages have not left yet.                               *)
Unsent == {"save", "saveHs", "send"}

LastStored(d) == LastIndex(d.log)

Ends(r, x, d, H, at) ==
    /\ Sound(r, d, H, -1)
    /\ CommitStored(d)
    /\ at \in Quiet => LastStored(d) <= LastLogIndex(r, d)
    /\ at = "save" => /\ x.ents = r.unst
                      /\ x.hs.commit <= LastLogIndex(r, d)
                      /\ Honest(x.msgs, H, LastLogIndex(r, d))
    /\ at \in Kept => LastIndex(r.unst) <= LastStored(d)
    /\ at = "saveHs" => x.hs.commit <= LastStored(d)
    /\ at \in {"saveHs", "send"} => Honest(x.msgs, H, LastStored(d))
    /\ at \in Unsent => x.stage # "late"
    /\ at \in {"lightHs", "compact"} \/ (at \in {"apply", "answer"} /\ x.stage = "late")
          => Rows(r.unst) = {}

(* What a step of s starts from and owes, for the heights H before it.     *)
Reaches(s, H) == H[s] = LastStored(disk[s]) /\ Ends(raft[s], rd[s], disk[s], H, pc[s])

Extends(s, H) ==
    /\ Ends(raft'[s], rd'[s], disk'[s], H, pc'[s])
    /\ LastStored(disk[s]) <= LastStored(disk'[s])
    /\ Honest(net' \ net, H, LastStored(disk[s]))

LEMMA Ordered == \A d : LastStored(d) \in Nat /\ LastStored(d) \in 0..MaxIndex /\ LastStored(d) <= LastStored(d) /\ -1 <= LastStored(d)
BY LastIndexType, IndexFacts DEF LastStored

LEMMA NothingSaid == ASSUME NEW H, NEW n, net' \subseteq net PROVE Honest(net' \ net, H, n)
BY DEF Honest

(* What is known of the last log index.                                    *)
LEMMA Lasts ==
    ASSUME NEW r, NEW d
    PROVE  /\ LastLogIndex(r, d) \in Int /\ LastIndex(r.unst) \in Int
           /\ Rows(r.unst) = {} => LastLogIndex(r, d) = LastStored(d) /\ LastIndex(r.unst) <= LastStored(d)
           /\ LastIndex(r.unst) <= LastStored(d) => LastLogIndex(r, d) <= LastStored(d)
BY LastIndexType, LastLogIndexType, IndexFacts, Ordered DEF LastLogIndex, LastStored, LastIndex

LEMMA QuietExtends ==
    ASSUME TypeOK, NEW s \in Server, NEW H, Reaches(s, H), pc[s] \in Quiet, pc'[s] \in Quiet,
           Grows(raft[s], raft'[s], disk[s], H, -1), UNCHANGED <<disk, rd, net>>
    PROVE  Extends(s, H)
<1>1. LastStored(disk[s]) <= LastLogIndex(raft'[s], disk[s])
  BY Lasts, Ordered DEF Reaches, Ends, Grows
<1>2. Ends(raft'[s], rd[s], disk[s], H, pc'[s])
  BY <1>1 DEF Reaches, Ends, Grows, Quiet, Kept, Unsent
<1>. QED
  BY <1>2, Ordered, NothingSaid DEF Extends

LEMMA StopExtends ==
    ASSUME TypeOK, NEW s \in Server, NEW H, Reaches(s, H), pc' = [pc EXCEPT ![s] = "stopped"],
           UNCHANGED <<disk, raft, rd, net>>
    PROVE  Extends(s, H)
<1>1. pc'[s] = "stopped"
  BY NodeTypes
<1>2. Ends(raft[s], rd[s], disk[s], H, "stopped")
  BY DEF Reaches, Ends, Quiet, Kept, Unsent
<1>. QED
  BY <1>1, <1>2, Ordered, NothingSaid DEF Extends

LEMMA TickExtends ==
    ASSUME TypeOK, NEW s \in Server, NEW H \in Heights, Reaches(s, H),
           Tick(s) \/ TriggerReplication(s)
    PROVE  Extends(s, H)
<1>1. /\ raft[s] \in RawNodeState /\ disk[s] \in Disk
      /\ pc[s] \in Quiet /\ pc'[s] \in Quiet /\ UNCHANGED <<disk, rd, net>>
  BY NodeTypes DEF Tick, TriggerReplication, OnReadyThen, Goto, Quiet
<1>2. Sound(raft[s], disk[s], H, -1)
  BY DEF Reaches, Ends
<1>3. \/ raft'[s] = raft[s]
      \/ raft[s].role = "leader" /\ raft'[s] = Bcast(raft[s], disk[s], s)
      \/ CanCampaign(raft[s], disk[s], s) /\ raft'[s] = Campaign(raft[s], disk[s], s)
  <2>1. CASE UNCHANGED raft
    BY <2>1
  <2>2. CASE \E r \in Ticked(s) : SetRaft(s, r)
    <3>1. PICK r \in Ticked(s) : raft'[s] = r
      BY <2>2, NodeTypes DEF SetRaft
    <3>. QED
      BY <3>1 DEF Ticked, IsLeader
  <2>. QED
    BY <2>1, <2>2 DEF Tick, TriggerReplication
<1>4. Grows(raft[s], raft'[s], disk[s], H, -1)
  BY <1>1, <1>2, <1>3, GrowsRefl, BcastSound, CampaignSound
<1>. QED
  BY <1>1, <1>4, QuietExtends

LEMMA BootstrapExtends ==
    ASSUME TypeOK, NEW s \in Server, NEW H \in Heights, Reaches(s, H),
           BootstrapCampaign(s) \/ BootstrapPropose(s)
    PROVE  Extends(s, H)
<1>1. /\ raft[s] \in RawNodeState /\ disk[s] \in Disk
      /\ pc[s] \in Quiet /\ pc'[s] \in Quiet /\ UNCHANGED <<disk, rd, net>>
  BY NodeTypes DEF BootstrapCampaign, BootstrapPropose, OnReadyThen, Goto, Quiet
<1>2. Sound(raft[s], disk[s], H, -1)
  BY DEF Reaches, Ends
<1>3. \/ raft'[s] = raft[s]
      \/ raft[s].role = "leader" /\ raft'[s] = Propose(raft[s], disk[s], s, NoReq)
      \/ CanCampaign(raft[s], disk[s], s) /\ raft'[s] = Campaign(raft[s], disk[s], s)
  BY NodeTypes DEF BootstrapCampaign, BootstrapPropose, SetRaft, CanPropose, IsLeader
<1>4. Grows(raft[s], raft'[s], disk[s], H, -1)
  BY <1>1, <1>2, <1>3, GrowsRefl, ProposeSound, CampaignSound
<1>. QED
  BY <1>1, <1>4, QuietExtends

LEMMA ProposalExtends ==
    ASSUME TypeOK, NEW s \in Server, NEW H \in Heights, Reaches(s, H), NEW q \in Req,
           HandleProposal(s, q) \/ RefuseProposal(s, q)
    PROVE  Extends(s, H)
<1>1. /\ raft[s] \in RawNodeState /\ disk[s] \in Disk
      /\ pc[s] \in Quiet /\ pc'[s] \in Quiet /\ UNCHANGED <<disk, rd, net>>
  BY NodeTypes DEF HandleProposal, RefuseProposal, OnReadyThen, Goto, Quiet
<1>2. Sound(raft[s], disk[s], H, -1)
  BY DEF Reaches, Ends
<1>3. \/ raft'[s] = raft[s]
      \/ raft[s].role = "leader" /\ raft'[s] = Propose(raft[s], disk[s], s, q)
  BY NodeTypes DEF HandleProposal, RefuseProposal, SetRaft, CanPropose, IsLeader
<1>4. Grows(raft[s], raft'[s], disk[s], H, -1)
  BY <1>1, <1>2, <1>3, GrowsRefl, ProposeSound
<1>. QED
  BY <1>1, <1>4, QuietExtends

LEMMA ConfChangeExtends ==
    ASSUME TypeOK, NEW s \in Server, NEW H \in Heights, Reaches(s, H),
           NEW kind \in {"add", "remove"}, NEW f \in Server, HandleConfChange(s, kind, f)
    PROVE  Extends(s, H)
<1>1. /\ raft[s] \in RawNodeState /\ disk[s] \in Disk
      /\ pc[s] \in Quiet /\ pc'[s] \in Quiet /\ UNCHANGED <<disk, rd, net>>
  BY NodeTypes DEF HandleConfChange, Quiet
<1>2. Sound(raft[s], disk[s], H, -1)
  BY DEF Reaches, Ends
<1>3. /\ raft[s].role = "leader" /\ LastLogIndex(raft[s], disk[s]) < MaxIndex
      /\ raft'[s] = ProposeConfChange(raft[s], disk[s], s, kind, f)
  BY NodeTypes DEF HandleConfChange, SetRaft, CanPropose, IsLeader
<1>4. Grows(raft[s], raft'[s], disk[s], H, -1)
  BY <1>1, <1>2, <1>3, ProposeConfChangeSound
<1>. QED
  BY <1>1, <1>4, QuietExtends

(* ready(): the Ready promises no more than the log behind it holds.       *)
LEMMA ReadyEnds ==
    ASSUME NEW r \in RawNodeState, NEW d \in Disk, NEW H, NEW stage \in {"inline", "ready"},
           Sound(r, d, H, LastLogIndex(r, d)), CommitStored(d)
    PROVE  Ends(AfterReady(r, d), ReadyOf(r, d, stage), d, H, "save")
<1>. DEFINE q == AfterReady(r, d)
            x == ReadyOf(r, d, stage)
<1>1. /\ Sound(q, d, H, -1) /\ LastLogIndex(q, d) = LastLogIndex(r, d) /\ q.unst = r.unst
  BY AfterReadySound, AfterReadyType
<1>2. x.ents = r.unst /\ x.hs.commit = r.committed /\ x.msgs = r.msgs /\ x.stage = stage
  BY DEF ReadyOf, HardStateOf
<1>. HIDE DEF q, x
<1>3. stage # "late"
  OBVIOUS
<1>4. Ends(q, x, d, H, "save")
  BY <1>1, <1>2, <1>3 DEF Ends, Sound, Quiet, Kept, Unsent
<1>. QED
  BY <1>4 DEF q, x

LEMMA ReadyExtends ==
    ASSUME TypeOK, NEW s \in Server, NEW H, Reaches(s, H), NEW r \in RawNodeState,
           NEW stage \in {"inline", "ready"}, Sound(r, disk[s], H, LastLogIndex(r, disk[s])),
           pc'[s] = "save", raft'[s] = AfterReady(r, disk[s]),
           rd'[s] = ReadyOf(r, disk[s], stage), UNCHANGED <<disk, net>>
    PROVE  Extends(s, H)
<1>1. Ends(AfterReady(r, disk[s]), ReadyOf(r, disk[s], stage), disk[s], H, "save")
  BY NodeTypes, ReadyEnds DEF Reaches, Ends
<1>. QED
  BY <1>1, Ordered, NothingSaid DEF Extends

(* What the messages in the network promise.                               *)
Told(H) == \A m \in net : /\ m.type = "append" => Anchored(m, H)
                          /\ m.type = "appendResp" => m.index <= H[m.from]

LEMMA MessageExtends ==
    ASSUME TypeOK, NEW s \in Server, NEW H \in Heights, Reaches(s, H), Told(H),
           NEW m \in net, HandleRaftMessage(s, m)
    PROVE  Extends(s, H)
<1>. DEFINE r == Step(raft[s], disk[s], s, m)
            d == disk[s]
<1>1. /\ raft[s] \in RawNodeState /\ d \in Disk /\ m \in Message
      /\ pc[s] \in Quiet /\ UNCHANGED <<disk, net>> /\ m.to = s
  BY NodeTypes DEF HandleRaftMessage, Quiet, TypeOK
<1>2. /\ Sound(raft[s], d, H, -1) /\ H[s] <= LastLogIndex(raft[s], d) /\ CommitStored(d)
  BY <1>1 DEF Reaches, Ends
<1>3. /\ m.type = "append" => Anchored(m, H)
      /\ m.type = "appendResp" => m.index <= H[m.from]
  BY DEF Told
<1>4. r \in RawNodeState /\ Sound(r, d, H, LastLogIndex(r, d))
  BY <1>1, <1>2, <1>3, StepSound, StepEvolves DEF Evolves
<1>5. CASE HasReady(r, d)
  <2>1. /\ raft'[s] = AfterReady(r, d) /\ rd'[s] = ReadyOf(r, d, "inline")
        /\ pc'[s] = "save"
    BY <1>5, NodeTypes DEF HandleRaftMessage, SetRaft, Goto
  <2>. HIDE DEF r
  <2>. QED
    BY <1>1, <1>4, <2>1, ReadyExtends
<1>6. CASE ~HasReady(r, d)
  <2>1. SetRaft(s, r) /\ OnReadyThen(s, "idle") /\ UNCHANGED rd
    BY <1>6 DEF HandleRaftMessage
  <2>. HIDE DEF r
  <2>2. raft'[s] = r /\ pc'[s] = "ready"
    BY <2>1, NodeTypes DEF SetRaft, OnReadyThen, Goto
  <2>3. r.msgs = {} /\ Rows(r.unst) = {}
    BY <1>6 DEF HasReady
  <2>4. Sound(r, d, H, -1)
    BY <1>4, <2>3 DEF Sound, Honest
  <2>5. LastStored(d) <= LastLogIndex(r, d)
    BY <2>3, Lasts, Ordered
  <2>6. Ends(r, rd[s], d, H, "ready")
    BY <1>2, <2>4, <2>5 DEF Ends, Quiet, Kept, Unsent
  <2>. QED
    BY <1>1, <2>1, <2>2, <2>6, Ordered, NothingSaid DEF Extends
<1>. QED
  BY <1>5, <1>6

LEMMA TakeReadyExtends ==
    ASSUME TypeOK, NEW s \in Server, NEW H \in Heights, Reaches(s, H), TakeReady(s)
    PROVE  Extends(s, H)
<1>1. /\ raft[s] \in RawNodeState /\ disk[s] \in Disk
      /\ pc[s] \in Quiet /\ UNCHANGED <<disk, net>>
  BY NodeTypes DEF TakeReady, Quiet
<1>2. Sound(raft[s], disk[s], H, -1) /\ Sound(raft[s], disk[s], H, LastLogIndex(raft[s], disk[s]))
  BY <1>1, SoundAtItsEnd DEF Reaches, Ends
<1>3. CASE HasReady(raft[s], disk[s])
  <2>1. /\ raft'[s] = AfterReady(raft[s], disk[s])
        /\ rd'[s] = ReadyOf(raft[s], disk[s], "ready") /\ pc'[s] = "save"
    BY <1>3, NodeTypes DEF TakeReady, SetRaft, Goto
  <2>. QED
    BY <1>1, <1>2, <2>1, ReadyExtends
<1>4. CASE ~HasReady(raft[s], disk[s])
  <2>1. UNCHANGED <<raft, rd>> /\ pc'[s] \in Quiet
    BY <1>4, NodeTypes DEF TakeReady, Goto, Quiet
  <2>. QED
    BY <1>1, <1>2, <2>1, GrowsRefl, QuietExtends
<1>. QED
  BY <1>3, <1>4

(* A step that leaves the log, the hard state and the RawNode alone.       *)
LEMMA SameLogExtends ==
    ASSUME TypeOK, NEW s \in Server, NEW H, Reaches(s, H),
           disk'[s].log = disk[s].log, disk'[s].hs = disk[s].hs,
           raft'[s] = raft[s], pc[s] \in {"apply", "answer"}, pc'[s] \in {"apply", "answer"},
           rd'[s].stage = rd[s].stage, UNCHANGED net
    PROVE  Extends(s, H)
<1>1. /\ LastStored(disk'[s]) = LastStored(disk[s])
      /\ LastLogIndex(raft[s], disk'[s]) = LastLogIndex(raft[s], disk[s])
  BY DEF LastStored, LastLogIndex
<1>2. Sound(raft[s], disk'[s], H, -1) /\ CommitStored(disk'[s])
  BY <1>1 DEF Reaches, Ends, Sound, CommitStored
<1>3. Ends(raft[s], rd'[s], disk'[s], H, pc'[s])
  BY <1>1, <1>2 DEF Reaches, Ends, Quiet, Kept, Unsent
<1>. QED
  BY <1>1, <1>3, Ordered, NothingSaid DEF Extends

LEMMA SaveExtends ==
    ASSUME TypeOK, NEW s \in Server, NEW H \in Heights, Reaches(s, H), SaveEntries(s)
    PROVE  Extends(s, H)
<1>. DEFINE r == raft[s]
            x == rd[s]
            d == disk[s]
            e == disk'[s]
<1>1. /\ r \in RawNodeState /\ x \in Ready /\ d \in Disk /\ pc[s] = "save" /\ pc'[s] = "saveHs"
      /\ e = AppendEntries(d, x.ents) /\ UNCHANGED <<raft, rd, net>>
  BY NodeTypes DEF SaveEntries, Goto
<1>2. /\ Sound(r, d, H, -1) /\ CommitStored(d) /\ x.ents = r.unst
      /\ x.hs.commit <= LastLogIndex(r, d) /\ Honest(x.msgs, H, LastLogIndex(r, d))
      /\ x.stage # "late"
  BY <1>1 DEF Reaches, Ends, Unsent
<1>. HIDE DEF e
<1>3. /\ Written(e.log) /\ e.hs = d.hs /\ LastStored(d) <= LastStored(e) /\ LastIndex(r.unst) <= LastStored(e)
  BY <1>1, <1>2, StoreReaches DEF Sound, LastStored
<1>. HIDE DEF r, x, d
<1>4. Sound(r, e, H, -1)
  BY <1>1, <1>2, <1>3, DiskSound DEF LastStored
<1>5. LastLogIndex(r, d) <= LastStored(e) /\ LastLogIndex(r, d) \in Int /\ LastStored(e) \in Int
  BY <1>3, Ordered, LastLogIndexType DEF LastLogIndex, LastStored
<1>6. x.hs.commit \in Int /\ d.hs.commit \in Int /\ LastStored(d) \in Int
  BY <1>1, Ordered, IndexFacts DEF Ready, Disk, HardState
<1>7. x.hs.commit <= LastStored(e) /\ CommitStored(e)
  BY <1>2, <1>3, <1>5, <1>6 DEF CommitStored, LastStored
<1>8. Honest(x.msgs, H, LastStored(e))
  <2>1. x.msgs \subseteq Message /\ \A f \in Server : H[f] <= H[f]
    BY <1>1 DEF Ready, Heights
  <2>. QED
    BY <1>2, <1>5, <2>1, HonestMore
<1>9. Ends(r, x, e, H, "saveHs")
  BY <1>2, <1>3, <1>4, <1>7, <1>8 DEF Ends, Quiet, Kept, Unsent
<1>. QED
  BY <1>1, <1>3, <1>9, NothingSaid DEF Extends, r, x, d, e

LEMMA SaveHsExtends ==
    ASSUME TypeOK, NEW s \in Server, NEW H \in Heights, Reaches(s, H), SaveReadyHardState(s)
    PROVE  Extends(s, H)
<1>. DEFINE r == raft[s]
            x == rd[s]
            d == disk[s]
            e == disk'[s]
<1>1. /\ r \in RawNodeState /\ x \in Ready /\ d \in Disk /\ pc[s] = "saveHs" /\ pc'[s] = "send"
      /\ e = d \/ e = SaveHardState(d, x.hs)
      /\ UNCHANGED <<raft, rd, net>>
  BY NodeTypes DEF SaveReadyHardState, Goto
<1>2. /\ Sound(r, d, H, -1) /\ CommitStored(d) /\ x.hs.commit <= LastStored(d)
      /\ LastIndex(r.unst) <= LastStored(d) /\ Honest(x.msgs, H, LastStored(d)) /\ x.stage # "late"
  BY <1>1 DEF Reaches, Ends, Kept, Unsent
<1>. HIDE DEF r, x, d, e
<1>3. e.log = d.log /\ (e.hs = d.hs \/ e.hs = x.hs)
  BY <1>1 DEF SaveHardState, Disk
<1>4. LastStored(e) = LastStored(d) /\ CommitStored(e) /\ LastLogIndex(r, e) = LastLogIndex(r, d)
  BY <1>2, <1>3 DEF LastStored, CommitStored, LastLogIndex
<1>5. Sound(r, e, H, -1)
  BY <1>2, <1>3, <1>4 DEF Sound
<1>6. Ends(r, x, e, H, "send")
  BY <1>2, <1>4, <1>5 DEF Ends, Quiet, Kept, Unsent
<1>. QED
  BY <1>1, <1>4, <1>6, Ordered, NothingSaid DEF Extends, r, x, d, e

LEMMA SendExtends ==
    ASSUME TypeOK, NEW s \in Server, NEW H, Reaches(s, H), SendMessages(s)
    PROVE  Extends(s, H)
<1>1. /\ pc[s] = "send" /\ pc'[s] = "apply" /\ UNCHANGED <<disk, raft, rd>>
      /\ net' = net \cup Sendable(s)
  BY NodeTypes DEF SendMessages, Goto
<1>2. Honest(rd[s].msgs, H, LastStored(disk[s])) /\ rd[s].stage # "late"
  BY <1>1 DEF Reaches, Ends, Unsent
<1>3. Honest(net' \ net, H, LastStored(disk[s]))
  BY <1>1, <1>2 DEF Honest, Sendable
<1>4. Ends(raft[s], rd[s], disk[s], H, "apply")
  BY <1>1, <1>2 DEF Reaches, Ends, Quiet, Kept, Unsent
<1>. QED
  BY <1>1, <1>3, <1>4, Ordered DEF Extends

LEMMA ApplyExtends ==
    ASSUME TypeOK, NEW s \in Server, NEW H, Reaches(s, H),
           ApplyNormal(s) \/ Answer(s) \/ RejectNormal(s) \/ PassOver(s)
    PROVE  Extends(s, H)
<1>1. /\ pc[s] \in {"apply", "answer"} /\ pc'[s] \in {"apply", "answer"} /\ UNCHANGED <<raft, net>>
  BY NodeTypes DEF ApplyNormal, Answer, RejectNormal, PassOver, Goto
<1>2. rd'[s].stage = rd[s].stage
  <2>1. rd \in [Server -> Ready]
    BY NodeTypes
  <2>2. NextEntry(s) => rd'[s].stage = rd[s].stage
    BY <2>1 DEF NextEntry, Ready
  <2>3. UNCHANGED rd \/ NextEntry(s)
    BY DEF ApplyNormal, Answer, RejectNormal, PassOver
  <2>. QED
    BY <2>2, <2>3
<1>3. disk'[s].hs = disk[s].hs /\ disk'[s].log = disk[s].log
  <2>1. CASE ApplyNormal(s)
    BY <2>1, NodeTypes, SMTT(30) DEF ApplyNormal, Disk
  <2>2. CASE Answer(s) \/ RejectNormal(s) \/ PassOver(s)
    BY <2>2 DEF Answer, RejectNormal, PassOver
  <2>. QED
    BY <2>1, <2>2
<1>. QED
  BY <1>1, <1>2, <1>3, SameLogExtends

LEMMA ApplyConfExtends ==
    ASSUME TypeOK, NEW s \in Server, NEW H \in Heights, Reaches(s, H), ApplyConf(s)
    PROVE  Extends(s, H)
<1>. DEFINE r == raft[s]
            q == ApplyConfChange(r, disk[s], s, Current(s))
            x == rd'[s]
            d == disk[s]
            e == disk'[s]
<1>1. /\ r \in RawNodeState /\ d \in Disk /\ pc[s] = "apply" /\ UNCHANGED <<pc, net>>
      /\ NextEntry(s)
  BY NodeTypes DEF ApplyConf
<1>2. e.log = d.log /\ e.hs = d.hs
  <2>1. \E v : disk' = [disk EXCEPT ![s].clusterConf = v]
    BY DEF ApplyConf
  <2>. QED
    BY <2>1, NodeTypes DEF Disk
<1>3. x.stage = rd[s].stage
  BY <1>1, NodeTypes DEF NextEntry, Ready
<1>4. Sound(r, d, H, -1) /\ CommitStored(d) /\ LastIndex(r.unst) <= LastStored(d)
      /\ (x.stage = "late" => Rows(r.unst) = {})
  BY <1>1, <1>3 DEF Reaches, Ends, Kept
<1>5. raft'[s] = q
  BY NodeTypes, ApplyConfFacts
<1>6. Sound(q, d, H, -1) /\ q.unst = r.unst
  BY <1>1, <1>4, ApplyConfFacts, ApplyConfChangeSound, ApplyConfChangeEvolves DEF Grows, Commits
<1>. HIDE DEF r, q, x, d, e
<1>7. LastStored(e) = LastStored(d) /\ CommitStored(e) /\ LastLogIndex(q, e) = LastLogIndex(q, d)
  BY <1>2, <1>4 DEF LastStored, CommitStored, LastLogIndex
<1>8. Sound(q, e, H, -1)
  BY <1>2, <1>6, <1>7 DEF Sound
<1>9. Ends(q, x, e, H, "apply")
  BY <1>4, <1>6, <1>7, <1>8 DEF Ends, Quiet, Kept, Unsent
<1>. QED
  BY <1>1, <1>5, <1>7, <1>9, Ordered, NothingSaid DEF Extends, x, d, e

LEMMA AdvanceExtends ==
    ASSUME TypeOK, NEW s \in Server, NEW H \in Heights, Reaches(s, H),
           InlineAdvance(s) \/ AdvanceRaft(s)
    PROVE  Extends(s, H)
<1>. DEFINE r == raft[s]
            q == Advance(r, disk[s], s)
            d == disk[s]
            light == LightMsgs(r, d, s)
<1>1. /\ r \in RawNodeState /\ d \in Disk /\ pc[s] = "apply" /\ UNCHANGED disk /\ raft'[s] = q
      /\ pc'[s] \in {"ready", "lightHs", "compact"} /\ net' \subseteq net \cup light
  BY NodeTypes DEF InlineAdvance, AdvanceRaft, SetRaft, OnReadyThen, Goto
<1>2. Sound(r, d, H, -1) /\ CommitStored(d) /\ LastIndex(r.unst) <= LastStored(d)
  BY <1>1 DEF Reaches, Ends, Kept
<1>3. Sound(q, d, H, -1) /\ Honest(light, H, -1) /\ Rows(q.unst) = {}
  BY <1>1, <1>2, AdvanceSound, EmptyLogType DEF LastStored
<1>4. light \subseteq Message
  BY <1>1, AdvanceType
<1>. HIDE DEF r, q, d, light
<1>5. Honest(net' \ net, H, LastStored(d))
  <2>1. Honest(light, H, LastStored(d))
    <3>1. -1 \in Int /\ LastStored(d) \in Int /\ -1 <= LastStored(d) /\ \A f \in Server : H[f] <= H[f]
      BY Ordered DEF Heights
    <3>. QED
      BY <1>3, <1>4, <3>1, HonestMore
  <2>. QED
    BY <1>1, <2>1 DEF Honest
<1>6. LastStored(d) <= LastLogIndex(q, d) /\ LastIndex(q.unst) <= LastStored(d)
  BY <1>3, Lasts, Ordered
<1>7. Ends(q, rd'[s], d, H, pc'[s])
  BY <1>1, <1>2, <1>3, <1>6 DEF Ends, Quiet, Kept, Unsent
<1>. QED
  BY <1>1, <1>5, <1>7, Ordered DEF Extends, d

LEMMA LightCommitExtends ==
    ASSUME TypeOK, NEW s \in Server, NEW H \in Heights, Reaches(s, H), SaveLightCommit(s)
    PROVE  Extends(s, H)
<1>. DEFINE r == raft[s]
            d == disk[s]
            e == disk'[s]
<1>1. /\ r \in RawNodeState /\ d \in Disk /\ pc[s] = "lightHs" /\ UNCHANGED <<raft, net>>
      /\ e = SaveHardState(d, HardStateOf(r)) /\ pc'[s] \in {"apply", "compact"}
  BY NodeTypes, LightFetch DEF SaveLightCommit
<1>2. Sound(r, d, H, -1) /\ Rows(r.unst) = {}
  BY <1>1 DEF Reaches, Ends
<1>. HIDE DEF r, d, e
<1>3. e.log = d.log /\ e.hs.commit = r.committed
  BY <1>1 DEF SaveHardState, HardStateOf, Disk
<1>4. /\ LastStored(e) = LastStored(d) /\ LastLogIndex(r, e) = LastLogIndex(r, d)
      /\ LastLogIndex(r, d) = LastStored(d) /\ LastIndex(r.unst) <= LastStored(d)
  BY <1>2, <1>3, Lasts DEF LastStored, LastLogIndex
<1>5. CommitStored(e) /\ Sound(r, e, H, -1)
  BY <1>2, <1>3, <1>4 DEF CommitStored, Sound, LastStored
<1>6. Ends(r, rd'[s], e, H, pc'[s])
  BY <1>1, <1>2, <1>4, <1>5 DEF Ends, Quiet, Kept, Unsent
<1>. QED
  BY <1>1, <1>4, <1>6, Ordered, NothingSaid DEF Extends, r, d, e

LEMMA FinishLateExtends ==
    ASSUME TypeOK, NEW s \in Server, NEW H \in Heights, Reaches(s, H), FinishLate(s)
    PROVE  Extends(s, H)
<1>. DEFINE r == raft[s]
            q == raft'[s]
            d == disk[s]
<1>1. /\ r \in RawNodeState /\ pc[s] = "apply" /\ pc'[s] = "compact" /\ UNCHANGED <<disk, rd, net>>
      /\ rd[s].stage = "late" /\ \E i : q = [r EXCEPT !.applied = i]
  BY NodeTypes DEF FinishLate, Goto, SetRaft
<1>2. Sound(r, d, H, -1) /\ CommitStored(d) /\ Rows(r.unst) = {}
  BY <1>1 DEF Reaches, Ends
<1>. HIDE DEF r, q, d
<1>3. /\ q.unst = r.unst /\ q.committed = r.committed /\ q.msgs = r.msgs
      /\ q.role = r.role /\ q.term = r.term /\ q.next = r.next
  BY <1>1 DEF RawNodeState
<1>4. Sound(q, d, H, -1)
  BY <1>2, <1>3, SameSound DEF Sound, Grows
<1>5. LastIndex(q.unst) <= LastStored(d) /\ Rows(q.unst) = {}
  BY <1>2, <1>3, Lasts
<1>6. Ends(q, rd[s], d, H, "compact")
  BY <1>2, <1>4, <1>5 DEF Ends, Quiet, Kept, Unsent
<1>. QED
  BY <1>1, <1>6, Ordered, NothingSaid DEF Extends, q, d

LEMMA CompactExtends ==
    ASSUME TypeOK, NEW s \in Server, NEW H \in Heights, Reaches(s, H), Compact(s)
    PROVE  Extends(s, H)
<1>. DEFINE r == raft[s]
            d == disk[s]
            e == disk'[s]
<1>1. /\ r \in RawNodeState /\ d \in Disk /\ pc[s] = "compact" /\ UNCHANGED <<raft, net>>
      /\ e = d \/ e = CompactLogBefore(d, SnapshotIndex(d, r.applied))
      /\ pc'[s] \in Quiet /\ r.applied \in 0..MaxIndex
  BY NodeTypes DEF Compact, Goto, Quiet, RawNodeState
<1>2. Sound(r, d, H, -1) /\ CommitStored(d) /\ Rows(r.unst) = {}
  BY <1>1 DEF Reaches, Ends
<1>. HIDE DEF r, d, e
<1>3. Written(e.log) /\ e.hs = d.hs /\ LastIndex(e.log) = LastIndex(d.log)
  BY <1>1, <1>2, CompactReaches DEF Sound
<1>4. LastStored(e) = LastStored(d) /\ CommitStored(e)
  BY <1>2, <1>3 DEF LastStored, CommitStored
<1>5. Sound(r, e, H, -1)
  BY <1>1, <1>2, <1>3, <1>4, Ordered, DiskSound DEF LastStored
<1>6. LastStored(e) <= LastLogIndex(r, e)
  BY <1>2, Lasts, Ordered
<1>7. Ends(r, rd'[s], e, H, pc'[s])
  BY <1>1, <1>4, <1>5, <1>6 DEF Ends, Quiet, Kept, Unsent
<1>. QED
  BY <1>1, <1>4, <1>7, Ordered, NothingSaid DEF Extends, r, d, e

(* What a restart begins with.                                             *)
LEMMA FreshEnds ==
    ASSUME NEW s, NEW d \in Disk, NEW H, NEW x, Written(d.log), CommitStored(d)
    PROVE  Ends(NewRawNode(d), x, d, H, FirstStep(s))
<1>1. /\ Sound(NewRawNode(d), d, H, -1) /\ LastLogIndex(NewRawNode(d), d) = LastStored(d)
  BY NewRawNodeSound DEF CommitStored, LastStored
<1>2. FirstStep(s) \in {"bootstrap", "idle"}
  BY FirstStepType
<1>3. LastStored(d) <= LastLogIndex(NewRawNode(d), d)
  BY <1>1, Ordered
<1>. QED
  BY <1>1, <1>2, <1>3 DEF Ends, Quiet, Kept, Unsent

LEMMA RestartExtends ==
    ASSUME TypeOK, NEW s \in Server, NEW H, Reaches(s, H), Restart(s)
    PROVE  Extends(s, H)
<1>1. /\ disk[s] \in Disk /\ CommitStored(disk[s]) /\ UNCHANGED <<disk, net>>
      /\ raft'[s] = NewRawNode(disk[s]) /\ pc'[s] = FirstStep(s)
  BY NodeTypes DEF Restart, Loadable, SetRaft, Goto
<1>2. Written(disk[s].log)
  BY DEF Reaches, Ends, Sound
<1>3. Ends(NewRawNode(disk[s]), rd'[s], disk[s], H, FirstStep(s))
  BY <1>1, <1>2, FreshEnds
<1>. QED
  BY <1>1, <1>3, Ordered, NothingSaid DEF Extends

LEMMA StepExtends ==
    ASSUME TypeOK, NEW s \in Server, NEW H \in Heights, Reaches(s, H), Told(H), NodeStep(s)
    PROVE  Extends(s, H)
<1>1. ASSUME Stop(s) PROVE Extends(s, H)
  BY <1>1, StopExtends DEF Stop, Goto
<1>2. CASE Proceed(s)
  <2>1. CASE BootstrapCampaign(s) \/ BootstrapPropose(s) \/ Tick(s) \/ TriggerReplication(s)
    BY <2>1, BootstrapExtends, TickExtends
  <2>2. CASE TakeReady(s) \/ SaveEntries(s) \/ SaveReadyHardState(s) \/ SendMessages(s)
    BY <2>2, TakeReadyExtends, SaveExtends, SaveHsExtends, SendExtends
  <2>3. CASE ApplyNormal(s) \/ Answer(s) \/ RejectNormal(s) \/ PassOver(s) \/ ApplyConf(s)
    BY <2>3, ApplyExtends, ApplyConfExtends
  <2>4. CASE FailConf(s)
    BY <1>1, <2>4 DEF FailConf
  <2>5. CASE InlineAdvance(s) \/ AdvanceRaft(s) \/ SaveLightCommit(s) \/ FinishLate(s) \/ Compact(s)
    BY <2>5, AdvanceExtends, LightCommitExtends, FinishLateExtends, CompactExtends
  <2>. QED
    BY <1>2, <2>1, <2>2, <2>3, <2>4, <2>5 DEF Proceed, OnReady
<1>3. ASSUME NEW q \in Req, DropProposal(s, q) PROVE Extends(s, H)
  BY <1>3, StopExtends DEF DropProposal, Goto
<1>4. CASE \E q \in Req : HandleProposal(s, q) \/ RefuseProposal(s, q) \/ DropProposal(s, q)
  BY <1>3, <1>4, ProposalExtends
<1>5. CASE \E m \in net : HandleRaftMessage(s, m) \/ RefuseRaftMessage(s, m)
  BY <1>1, <1>5, MessageExtends DEF RefuseRaftMessage
<1>6. CASE \E f \in Server : AbortOnSnapshot(s, f)
  BY <1>1, <1>6 DEF AbortOnSnapshot
<1>7. CASE \/ \E f \in Addable : HandleConfChange(s, "add", f)
           \/ \E f \in Removable : HandleConfChange(s, "remove", f)
  BY <1>7, ChangeAssumption, ConfChangeExtends
<1>8. CASE Restart(s)
  BY <1>8, RestartExtends
<1>. QED
  BY <1>2, <1>4, <1>5, <1>6, <1>7, <1>8 DEF NodeStep

---------------------------------------------------------------------------
(* All nodes and the network *)

(* The last index on every disk.                                           *)
Reached == [s \in Server |-> LastStored(disk[s])]

LogInv ==
    /\ \A s \in Server : Ends(raft[s], rd[s], disk[s], Reached, pc[s])
    /\ Told(Reached)

LEMMA ReachedType == Reached \in Heights /\ \A s \in Server : Reached[s] = LastStored(disk[s])
BY Ordered DEF Reached, Heights

(* Disks reach further: what a node knows of them stays true.              *)
LEMMA EndsHigher ==
    ASSUME NEW r \in RawNodeState, NEW x \in Ready, NEW d, NEW at, NEW H \in Heights,
           NEW K \in Heights, \A f \in Server : H[f] <= K[f], Ends(r, x, d, H, at)
    PROVE  Ends(r, x, d, K, at)
<1>1. -1 \in Int /\ -1 <= -1
  OBVIOUS
<1>2. Sound(r, d, K, -1)
  BY <1>1, MoreSound DEF Ends
<1>3. /\ x.msgs \subseteq Message /\ LastLogIndex(r, d) \in Int /\ LastStored(d) \in Int
      /\ LastLogIndex(r, d) <= LastLogIndex(r, d) /\ LastStored(d) <= LastStored(d)
  BY Lasts, Ordered DEF Ready
<1>4. Honest(x.msgs, H, LastLogIndex(r, d)) => Honest(x.msgs, K, LastLogIndex(r, d))
  BY <1>3, HonestMore
<1>5. Honest(x.msgs, H, LastStored(d)) => Honest(x.msgs, K, LastStored(d))
  BY <1>3, HonestMore
<1>. QED
  BY <1>2, <1>4, <1>5 DEF Ends

LEMMA InitLog == Init => LogInv
<1>. SUFFICES ASSUME Init, NEW s \in Server
              PROVE  Ends(raft[s], rd[s], disk[s], Reached, pc[s])
  BY DEF LogInv, Told, Init
<1>1. disk[s] \in Disk /\ \E v : disk[s] = NewDisk(v)
  BY InitType DEF TypeOK, Init
<1>2. disk[s].log = EmptyLog /\ disk[s].hs.commit = 0
  BY <1>1 DEF NewDisk
<1>3. Written(disk[s].log) /\ CommitStored(disk[s])
  BY <1>2, Ordered, EmptyLogType DEF Written, EmptyLog, CommitStored, LastIndex
<1>4. raft[s] = NewRawNode(disk[s]) /\ pc[s] = FirstStep(s)
  BY DEF Init
<1>. QED
  BY <1>1, <1>3, <1>4, FreshEnds

LEMMA StepLog == TypeInv /\ TermInv /\ LogInv /\ [Next]_vars => LogInv'
<1>. SUFFICES ASSUME TypeInv, TermInv, LogInv, [Next]_vars PROVE LogInv'
  OBVIOUS
<1>1. TypeOK /\ TypeOK'
  BY StepType DEF TypeInv
<1>2. CASE UNCHANGED vars
  BY <1>2 DEF vars, LogInv, Reached, Told
<1>3. CASE Next
  <2>1. PICK s \in Server : NodeStep(s)
    BY <1>3 DEF Next
  <2>2. PICK H \in Heights : H = Reached
    BY ReachedType
  <2>3. PICK K \in Heights : K = Reached'
    BY Ordered DEF Reached, Heights
  <2>4. /\ \A t \in Server : H[t] = LastStored(disk[t]) /\ K[t] = LastStored(disk'[t])
        /\ \A t \in Server : Ends(raft[t], rd[t], disk[t], H, pc[t])
        /\ Told(H)
    BY <2>2, <2>3 DEF Reached, LogInv
  <2>5. Extends(s, H)
    BY <1>1, <2>1, <2>4, StepExtends DEF Reaches
  <2>6. \A t \in Server : t # s => disk'[t] = disk[t] /\ raft'[t] = raft[t]
                                   /\ pc'[t] = pc[t] /\ rd'[t] = rd[t]
    BY <1>1, <2>1, StepIsLocal DEF Untouched
  <2>7. \A t \in Server : H[t] <= K[t]
    BY <2>4, <2>5, <2>6, Ordered DEF Extends
  <2>8. ASSUME NEW t \in Server PROVE Ends(raft'[t], rd'[t], disk'[t], K, pc'[t])
    <3>1. Ends(raft'[t], rd'[t], disk'[t], H, pc'[t])
      BY <2>4, <2>5, <2>6 DEF Extends
    <3>2. raft'[t] \in RawNodeState /\ rd'[t] \in Ready
      BY <1>1 DEF TypeOK
    <3>. QED
      BY <2>7, <3>1, <3>2, EndsHigher
  <2>9. ASSUME NEW m \in net'
        PROVE  /\ m.type = "append" => Anchored(m, K)
               /\ m.type = "appendResp" => m.index <= K[m.from]
    <3>1. m \in Message /\ LastStored(disk[s]) \in Int
      BY <1>1, Ordered DEF TypeOK
    <3>2. /\ m.type = "append" => Anchored(m, H)
          /\ m.type = "appendResp" => m.index <= H[m.from]
      <4>1. CASE m \in net
        BY <2>4, <4>1 DEF Told
      <4>2. CASE m \notin net
        <5>1. Honest(net' \ net, H, LastStored(disk[s]))
          BY <2>5 DEF Extends
        <5>2. m.from = s
          <6>1. Keeps(s)
            BY <2>1, StepKeeps DEF TermInv, Here
          <6>. QED
            BY <4>2, <6>1 DEF Keeps, Msgs
        <5>. QED
          BY <2>4, <4>2, <5>1, <5>2 DEF Honest
      <4>. QED
        BY <4>1, <4>2
    <3>3. {m} \subseteq Message /\ m.from \in Server
      BY <3>1, MessageTermType
    <3>4. H[m.from] \in Int /\ K[m.from] \in Int /\ H[m.from] <= K[m.from]
      BY <2>7, <3>3, IndexFacts DEF Heights
    <3>5. Honest({m}, H, H[m.from])
      BY <3>2 DEF Honest
    <3>6. Honest({m}, K, K[m.from])
      BY <2>7, <3>3, <3>4, <3>5, HonestMore
    <3>. QED
      BY <3>6 DEF Honest
  <2>. QED
    BY <2>3, <2>8, <2>9 DEF LogInv, Told
<1>. QED
  BY <1>2, <1>3

LEMMA LogHolds == Spec => [](TypeInv /\ TermInv /\ LogInv)
<1>. DEFINE Inv == TypeInv /\ TermInv /\ LogInv
<1>1. Init => Inv
  <2>1. Init => TypeInv
    BY InitType DEF Init, TypeInv, EntryInHand, FirstStep
  <2>. QED
    BY <2>1, InitTerms, InitLog
<1>2. Inv /\ [Next]_vars => Inv'
  <2>1. TypeInv /\ [Next]_vars => TypeInv'
    BY StepType, StepEntryInHand DEF TypeInv
  <2>. QED
    BY <2>1, StepTerms, StepLog
<1>. QED
  BY <1>1, <1>2, PTL DEF Spec

CommitsStored == \A s \in Server : CommitStored(disk[s])

(* Whatever is lost, repeated or reordered, and wherever a crash falls:    *)
(* the stored commit index is within the stored log.  Every path saves the *)
(* entries of a Ready before its hard state, and no commit index passes    *)
(* the end of the log it came with.                                        *)
THEOREM CommitsReachNoFurther == Spec => []CommitsStored
<1>1. LogInv => CommitsStored
  BY DEF LogInv, Ends, CommitsStored
<1>. QED
  BY <1>1, LogHolds, PTL

(* And what an append response acknowledges its sender has stored, and     *)
(* keeps: neither compaction nor a later append shortens the stored log.   *)
THEOREM AcknowledgedStays == Spec => []AcknowledgedIsStored
<1>1. TypeInv /\ LogInv => AcknowledgedIsStored
  <2>. SUFFICES ASSUME TypeOK, LogInv, NEW m \in net, m.type = "appendResp"
                PROVE  m.index <= LastIndex(disk[m.from].log)
    BY DEF AcknowledgedIsStored, TypeInv
  <2>1. m.from \in Server
    BY MessageTermType DEF TypeOK
  <2>2. m.index <= Reached[m.from]
    BY DEF LogInv, Told
  <2>. QED
    BY <2>1, <2>2, ReachedType DEF LastStored
<1>. QED
  BY <1>1, LogHolds, PTL

---------------------------------------------------------------------------
(* AnsweredIsDurable.  An answered command is behind the commit index its  *)
(* node has stored, and stays there: what a node saves later lies past     *)
(* that index, so no row an applied index names is overwritten.  The       *)
(* delicate part is the inline path, which drops the LightReady: the       *)
(* library then takes a commit index for announced that no disk holds.     *)
(* It does no harm because all the entries below it have been handed out   *)
(* too, so no later Ready can bring them to the state machine (Lag).       *)

Applied(d) == {d.sm[k] : k \in 1..Len(d.sm)}

Counted(r, d) ==
    /\ d.hs.commit <= r.prevHs.commit /\ r.prevHs.commit <= r.committed
    /\ \A i \in Applied(d) : i <= d.hs.commit

(* The library may be ahead of the stored commit index, but with nothing   *)
(* left to hand out below its own.                                         *)
Lag(r, d) == r.prevHs.commit <= d.hs.commit \/ r.prevHs.commit < FirstToHandOut(r, d)

Calm(r, d) ==
    /\ Counted(r, d) /\ Lag(r, d)
    /\ \A i \in Rows(r.unst) : i > r.prevHs.commit

(* The commit index the disk will hold when the entries in hand are        *)
(* processed.                                                              *)
Promised(x, d, at) == IF at \in Saving /\ x.hsChanged THEN x.hs.commit ELSE d.hs.commit

(* The entries in hand are within it.                                      *)
Held(r, x, d, at) ==
    /\ at \in Saving => x.hs.commit = r.prevHs.commit
    /\ at = "save" => \A i \in Rows(x.ents) : i > d.hs.commit
    /\ at \in Handing \cup {"answer"} /\ x.next <= x.last => x.last <= Promised(x, d, at)
    /\ at = "answer" => x.next \in Applied(d)
    /\ at \in {"apply", "answer"} /\ x.stage = "late" => r.prevHs.commit <= d.hs.commit

Covered(r, x, d, at) ==
    /\ Counted(r, d)
    /\ at \in Quiet => Calm(r, d)
    /\ at = "compact" => Lag(r, d)
    /\ at = "lightHs" => r.prevHs.commit = r.committed
    /\ Held(r, x, d, at)

(* What a step of s may do to a disk that holds applied commands.          *)
Lasting(d, e) ==
    /\ d.hs.commit <= e.hs.commit
    /\ Applied(d) \subseteq Applied(e)
    /\ \A i \in Applied(d) : e.log[i] \in {d.log[i], NoEntry}

Covers(s) == Covered(raft[s], rd[s], disk[s], pc[s])

Secures(s) ==
    /\ Covered(raft'[s], rd'[s], disk'[s], pc'[s])
    /\ Lasting(disk[s], disk'[s])

LEMMA Commitments ==
    /\ \A d \in Disk : /\ d.hs.commit \in Int /\ d.hs.commit <= d.hs.commit
                        /\ Applied(d) \subseteq Index /\ Applied(d) \subseteq Int
    /\ \A r \in RawNodeState : r.prevHs.commit \in Int /\ r.committed \in Int
    /\ \A x \in Ready : x.hs.commit \in Int /\ x.next \in Int /\ x.last \in Int
<1>1. ASSUME NEW d \in Disk PROVE Applied(d) \subseteq Index /\ Applied(d) \subseteq Int
  <2>1. d.sm \in Seq(Index)
    BY DEF Disk
  <2>2. Applied(d) \subseteq Index
    BY <2>1, ElementOfSeq DEF Applied
  <2>. QED
    BY <2>2, Places
<1>2. \A h \in HardState : h.commit \in Int
  BY IndexFacts DEF HardState
<1>3. \A x \in Ready : x.hs \in HardState
  BY DEF Ready
<1>4. \A d \in Disk : d.hs \in HardState
  BY DEF Disk
<1>. QED
  BY <1>1, <1>2, <1>3, <1>4, Numbers

LEMMA SameLasts == ASSUME NEW d \in Disk PROVE Lasting(d, d)
BY Commitments DEF Lasting

LEMMA CalmCovers ==
    ASSUME NEW r, NEW d, NEW x, NEW at \in Quiet, Calm(r, d)
    PROVE  Covered(r, x, d, at)
BY DEF Covered, Calm, Held, Quiet, Saving, Handing

LEMMA CalmStays ==
    ASSUME NEW r \in RawNodeState, NEW d \in Disk, NEW q, NEW s,
           Calm(r, d), Evolves(r, q, s), Adds(r, q)
    PROVE  Calm(q, d)
<1>1. q \in RawNodeState /\ q.prevHs = r.prevHs /\ q.csi = r.csi
  BY DEF Evolves
<1>2. r.committed \in Int /\ q.committed \in Int /\ r.prevHs.commit \in Int
  BY <1>1, Commitments
<1>3. Rows(r.unst) \subseteq Int /\ Rows(q.unst) \subseteq Int
  BY Places
<1>4. Counted(q, d)
  BY <1>1, <1>2 DEF Calm, Counted, Adds
<1>5. Lag(q, d)
  BY <1>1 DEF Calm, Lag, FirstToHandOut
<1>6. \A i \in Rows(q.unst) : i > q.prevHs.commit
  BY <1>1, <1>2, <1>3 DEF Calm, Counted, Adds
<1>. QED
  BY <1>4, <1>5, <1>6 DEF Calm

LEMMA QuietSecures ==
    ASSUME TypeOK, NEW s \in Server, Covers(s), pc[s] \in Quiet, pc'[s] \in Quiet,
           Evolves(raft[s], raft'[s], s), Adds(raft[s], raft'[s]), UNCHANGED disk
    PROVE  Secures(s)
<1>1. raft[s] \in RawNodeState /\ disk[s] \in Disk
  BY NodeTypes
<1>2. Calm(raft'[s], disk[s])
  BY <1>1, CalmStays DEF Covers, Covered
<1>. QED
  BY <1>1, <1>2, CalmCovers, SameLasts DEF Secures

LEMMA StopSecures ==
    ASSUME TypeOK, NEW s \in Server, Covers(s), pc' = [pc EXCEPT ![s] = "stopped"],
           UNCHANGED <<disk, raft>>
    PROVE  Secures(s)
<1>1. pc'[s] = "stopped" /\ disk[s] \in Disk
  BY NodeTypes
<1>2. Covered(raft[s], rd'[s], disk[s], "stopped")
  BY DEF Covers, Covered, Held, Quiet, Saving, Handing
<1>. QED
  BY <1>1, <1>2, SameLasts DEF Secures

(* What the other invariant says of the log of s.                          *)
Sized(s) ==
    /\ raft[s].committed <= LastLogIndex(raft[s], disk[s])
    /\ pc[s] = "compact" => Rows(raft[s].unst) = {}

LEMMA TickSecures ==
    ASSUME TypeOK, NEW s \in Server, Covers(s), Sized(s), Tick(s) \/ TriggerReplication(s)
    PROVE  Secures(s)
<1>1. /\ raft[s] \in RawNodeState /\ disk[s] \in Disk
      /\ pc[s] \in Quiet /\ pc'[s] \in Quiet /\ UNCHANGED disk
  BY NodeTypes DEF Tick, TriggerReplication, OnReadyThen, Goto, Quiet
<1>2. \/ raft'[s] = raft[s]
      \/ raft'[s] = Bcast(raft[s], disk[s], s)
      \/ CanCampaign(raft[s], disk[s], s) /\ raft'[s] = Campaign(raft[s], disk[s], s)
  <2>1. CASE UNCHANGED raft
    BY <2>1
  <2>2. CASE \E r \in Ticked(s) : SetRaft(s, r)
    <3>1. PICK r \in Ticked(s) : raft'[s] = r
      BY <2>2, NodeTypes DEF SetRaft
    <3>. QED
      BY <3>1 DEF Ticked, IsLeader
  <2>. QED
    BY <2>1, <2>2 DEF Tick, TriggerReplication
<1>3. Evolves(raft[s], raft'[s], s)
  BY <1>1, <1>2, EvolvesRefl, BcastEvolves, CampaignEvolves
<1>4. Adds(raft[s], raft'[s])
  BY <1>1, <1>2, SameAdds, BcastEvolves, CampaignAdds DEF Sized
<1>. QED
  BY <1>1, <1>3, <1>4, QuietSecures

LEMMA BootstrapSecures ==
    ASSUME TypeOK, NEW s \in Server, Covers(s), Sized(s),
           BootstrapCampaign(s) \/ BootstrapPropose(s)
    PROVE  Secures(s)
<1>1. /\ raft[s] \in RawNodeState /\ disk[s] \in Disk
      /\ pc[s] \in Quiet /\ pc'[s] \in Quiet /\ UNCHANGED disk
  BY NodeTypes DEF BootstrapCampaign, BootstrapPropose, OnReadyThen, Goto, Quiet
<1>2. \/ raft'[s] = raft[s]
      \/ raft'[s] = Propose(raft[s], disk[s], s, NoReq)
      \/ CanCampaign(raft[s], disk[s], s) /\ raft'[s] = Campaign(raft[s], disk[s], s)
  BY NodeTypes DEF BootstrapCampaign, BootstrapPropose, SetRaft
<1>3. Evolves(raft[s], raft'[s], s)
  BY <1>1, <1>2, EvolvesRefl, ProposeEvolves, CampaignEvolves
<1>4. Adds(raft[s], raft'[s])
  BY <1>1, <1>2, SameAdds, ProposeAdds, CampaignAdds DEF Sized
<1>. QED
  BY <1>1, <1>3, <1>4, QuietSecures

LEMMA ProposalSecures ==
    ASSUME TypeOK, NEW s \in Server, Covers(s), Sized(s), NEW q \in Req,
           HandleProposal(s, q) \/ RefuseProposal(s, q)
    PROVE  Secures(s)
<1>1. /\ raft[s] \in RawNodeState /\ disk[s] \in Disk
      /\ pc[s] \in Quiet /\ pc'[s] \in Quiet /\ UNCHANGED disk
  BY NodeTypes DEF HandleProposal, RefuseProposal, OnReadyThen, Goto, Quiet
<1>2. raft'[s] = raft[s] \/ raft'[s] = Propose(raft[s], disk[s], s, q)
  BY NodeTypes DEF HandleProposal, RefuseProposal, SetRaft
<1>3. Evolves(raft[s], raft'[s], s)
  BY <1>1, <1>2, EvolvesRefl, ProposeEvolves
<1>4. Adds(raft[s], raft'[s])
  BY <1>1, <1>2, SameAdds, ProposeAdds DEF Sized
<1>. QED
  BY <1>1, <1>3, <1>4, QuietSecures

LEMMA ConfChangeSecures ==
    ASSUME TypeOK, NEW s \in Server, Covers(s), Sized(s),
           NEW kind \in {"add", "remove"}, NEW f \in Server, HandleConfChange(s, kind, f)
    PROVE  Secures(s)
<1>1. /\ raft[s] \in RawNodeState /\ disk[s] \in Disk
      /\ pc[s] \in Quiet /\ pc'[s] \in Quiet /\ UNCHANGED disk
  BY NodeTypes DEF HandleConfChange, Quiet
<1>2. /\ LastLogIndex(raft[s], disk[s]) < MaxIndex
      /\ raft'[s] = ProposeConfChange(raft[s], disk[s], s, kind, f)
  BY NodeTypes DEF HandleConfChange, SetRaft, CanPropose
<1>3. Evolves(raft[s], raft'[s], s)
  BY <1>1, <1>2, ProposeConfChangeEvolves
<1>4. Adds(raft[s], raft'[s])
  BY <1>1, <1>2, ProposeConfChangeAdds DEF Sized
<1>. QED
  BY <1>1, <1>3, <1>4, QuietSecures

(* ready(): a Ready without a new hard state hands out nothing past the    *)
(* stored commit index.                                                    *)
LEMMA ReadyCovered ==
    ASSUME NEW r \in RawNodeState, NEW d \in Disk, NEW stage \in {"inline", "ready"}, Calm(r, d)
    PROVE  Covered(AfterReady(r, d), ReadyOf(r, d, stage), d, "save")
<1>. DEFINE a == AfterReady(r, d)
            x == ReadyOf(r, d, stage)
            has == HasEntriesToHandOut(r, d)
<1>1. a.committed = r.committed /\ a.prevHs = HardStateOf(r) /\ HardStateOf(r).commit = r.committed
  BY AfterReadyType DEF HardStateOf
<1>2. /\ x.stage = stage /\ x.ents = r.unst /\ x.hs = HardStateOf(r)
      /\ x.hsChanged = (HardStateOf(r) # r.prevHs)
      /\ x.next = IF has THEN FirstToHandOut(r, d) ELSE 1
      /\ x.last = IF has THEN HandOut(r, d) ELSE 0
  BY DEF ReadyOf
<1>3. /\ r.committed \in Int /\ r.prevHs.commit \in Int /\ d.hs.commit \in Int
      /\ FirstToHandOut(r, d) \in Int /\ HandOut(r, d) \in Int
      /\ (has => HandOut(r, d) >= FirstToHandOut(r, d))
      /\ Rows(r.unst) \subseteq Int /\ Applied(d) \subseteq Int
  BY Commitments, HandOutBounds, Places
<1>4. HandOut(r, d) <= r.committed
  BY <1>3, LastIndexType, IndexFacts DEF HandOut
<1>. HIDE DEF a, x, has
<1>5. Counted(a, d)
  BY <1>1, <1>3 DEF Calm, Counted
<1>6. \A i \in Rows(x.ents) : i > d.hs.commit
  BY <1>2, <1>3 DEF Calm, Counted
<1>7. ASSUME x.next <= x.last PROVE x.last <= Promised(x, d, "save")
  <2>1. has
    BY <1>2, <1>7
  <2>2. x.last <= r.committed /\ FirstToHandOut(r, d) <= r.committed
    BY <1>2, <1>3, <1>4, <2>1
  <2>3. CASE x.hsChanged
    BY <1>1, <1>2, <2>2, <2>3 DEF Promised, Saving
  <2>4. CASE ~x.hsChanged
    <3>1. r.prevHs.commit = r.committed
      BY <1>1, <1>2, <2>4
    <3>2. r.committed <= d.hs.commit
      BY <1>3, <2>2, <3>1 DEF Calm, Lag
    <3>3. x.last <= d.hs.commit
      BY <1>2, <1>3, <2>1, <2>2, <3>2
    <3>. QED
      BY <2>4, <3>3 DEF Promised
  <2>. QED
    BY <2>3, <2>4
<1>8. Held(a, x, d, "save")
  BY <1>1, <1>2, <1>6, <1>7 DEF Held, Saving
<1>9. Covered(a, x, d, "save")
  BY <1>5, <1>8 DEF Covered, Quiet
<1>. QED
  BY <1>9 DEF a, x

LEMMA MessageSecures ==
    ASSUME TypeOK, NEW s \in Server, Covers(s), Sized(s), NEW m \in net, NEW H, Told(H),
           HandleRaftMessage(s, m)
    PROVE  Secures(s)
<1>. DEFINE r == Step(raft[s], disk[s], s, m)
<1>1. /\ raft[s] \in RawNodeState /\ disk[s] \in Disk /\ m \in Message
      /\ pc[s] \in Quiet /\ UNCHANGED disk
  BY NodeTypes DEF HandleRaftMessage, Quiet, TypeOK
<1>2. m.type = "append" => \A i \in Rows(m.ents) : i > m.prev
  BY DEF Told, Anchored
<1>3. Evolves(raft[s], r, s) /\ Adds(raft[s], r)
  BY <1>1, <1>2, StepEvolves, StepAdds DEF Sized
<1>4. CASE HasReady(r, disk[s])
  <2>1. /\ raft'[s] = AfterReady(r, disk[s]) /\ rd'[s] = ReadyOf(r, disk[s], "inline")
        /\ pc'[s] = "save"
    BY <1>4, NodeTypes DEF HandleRaftMessage, SetRaft, Goto
  <2>. HIDE DEF r
  <2>2. Calm(r, disk[s]) /\ r \in RawNodeState
    BY <1>1, <1>3, CalmStays DEF Covers, Covered, Evolves
  <2>. QED
    BY <1>1, <2>1, <2>2, ReadyCovered, SameLasts DEF Secures
<1>5. CASE ~HasReady(r, disk[s])
  <2>1. SetRaft(s, r) /\ OnReadyThen(s, "idle")
    BY <1>5 DEF HandleRaftMessage
  <2>. HIDE DEF r
  <2>2. raft'[s] = r /\ pc'[s] \in Quiet
    BY <2>1, NodeTypes DEF SetRaft, OnReadyThen, Goto, Quiet
  <2>. QED
    BY <1>1, <1>3, <2>2, QuietSecures
<1>. QED
  BY <1>4, <1>5

LEMMA TakeReadySecures ==
    ASSUME TypeOK, NEW s \in Server, Covers(s), TakeReady(s)
    PROVE  Secures(s)
<1>1. /\ raft[s] \in RawNodeState /\ disk[s] \in Disk
      /\ pc[s] \in Quiet /\ UNCHANGED disk
  BY NodeTypes DEF TakeReady, Quiet
<1>2. Calm(raft[s], disk[s])
  BY <1>1 DEF Covers, Covered
<1>3. CASE HasReady(raft[s], disk[s])
  <2>1. /\ raft'[s] = AfterReady(raft[s], disk[s])
        /\ rd'[s] = ReadyOf(raft[s], disk[s], "ready") /\ pc'[s] = "save"
    BY <1>3, NodeTypes DEF TakeReady, SetRaft, Goto
  <2>. QED
    BY <1>1, <1>2, <2>1, ReadyCovered, SameLasts DEF Secures
<1>4. CASE ~HasReady(raft[s], disk[s])
  <2>1. UNCHANGED raft /\ pc'[s] \in Quiet
    BY <1>4, NodeTypes DEF TakeReady, Goto, Quiet
  <2>. QED
    BY <1>1, <1>2, <2>1, CalmCovers, SameLasts DEF Secures
<1>. QED
  BY <1>3, <1>4

---------------------------------------------------------------------------
(* The writes *)

LEMMA SaveSecures ==
    ASSUME TypeOK, NEW s \in Server, Covers(s), SaveEntries(s)
    PROVE  Secures(s)
<1>. DEFINE r == raft[s]
            x == rd[s]
            d == disk[s]
            e == disk'[s]
<1>1. /\ r \in RawNodeState /\ x \in Ready /\ d \in Disk /\ pc[s] = "save" /\ pc'[s] = "saveHs"
      /\ e = AppendEntries(d, x.ents) /\ UNCHANGED <<raft, rd>>
  BY NodeTypes DEF SaveEntries, Goto
<1>2. /\ e.hs = d.hs /\ e.sm = d.sm
      /\ \A i \in Index : e.log[i] = IF x.ents[i] # NoEntry THEN x.ents[i] ELSE d.log[i]
  BY <1>1 DEF AppendEntries, Disk
<1>3. Counted(r, d) /\ Held(r, x, d, "save")
  BY <1>1 DEF Covers, Covered
<1>. HIDE DEF r, x, d, e
<1>4. /\ Applied(e) = Applied(d) /\ d.hs.commit \in Int
      /\ Applied(d) \subseteq Index /\ Applied(d) \subseteq Int
  <2>1. Applied(e) = Applied(d)
    BY <1>2 DEF Applied
  <2>. QED
    BY <1>1, <2>1, Commitments
<1>5. ASSUME NEW i \in Applied(d) PROVE e.log[i] = d.log[i]
  <2>1. i \in Index /\ i \in Int /\ i <= d.hs.commit
    BY <1>3, <1>4 DEF Counted
  <2>2. i \notin Rows(x.ents)
    BY <1>3, <1>4, <2>1 DEF Held
  <2>. QED
    BY <1>2, <2>1, <2>2 DEF Rows
<1>6. Lasting(d, e)
  BY <1>2, <1>4, <1>5 DEF Lasting
<1>7. Covered(r, x, e, "saveHs")
  BY <1>2, <1>3, <1>4 DEF Covered, Counted, Held, Promised, Quiet, Saving, Handing
<1>. QED
  BY <1>1, <1>6, <1>7 DEF Secures, r, x, d, e

LEMMA SaveHsSecures ==
    ASSUME TypeOK, NEW s \in Server, Covers(s), SaveReadyHardState(s)
    PROVE  Secures(s)
<1>. DEFINE r == raft[s]
            x == rd[s]
            d == disk[s]
            e == disk'[s]
<1>1. /\ r \in RawNodeState /\ x \in Ready /\ d \in Disk /\ pc[s] = "saveHs" /\ pc'[s] = "send"
      /\ e = IF x.hsChanged THEN SaveHardState(d, x.hs) ELSE d
      /\ UNCHANGED <<raft, rd>>
  BY NodeTypes DEF SaveReadyHardState, Goto
<1>2. e.log = d.log /\ e.sm = d.sm /\ e.hs = IF x.hsChanged THEN x.hs ELSE d.hs
  BY <1>1 DEF SaveHardState, Disk
<1>3. Counted(r, d) /\ Held(r, x, d, "saveHs")
  BY <1>1 DEF Covers, Covered
<1>. HIDE DEF r, x, d, e
<1>4. /\ Applied(e) = Applied(d) /\ d.hs.commit \in Int /\ Applied(d) \subseteq Int
      /\ x.hs.commit \in Int /\ r.prevHs.commit \in Int
  <2>1. Applied(e) = Applied(d)
    BY <1>2 DEF Applied
  <2>. QED
    BY <1>1, <2>1, Commitments
<1>5. /\ x.hs.commit = r.prevHs.commit /\ d.hs.commit <= r.prevHs.commit
      /\ r.prevHs.commit <= r.committed
      /\ x.next <= x.last => x.last <= IF x.hsChanged THEN x.hs.commit ELSE d.hs.commit
  BY <1>3 DEF Counted, Held, Promised, Saving, Handing
<1>6. d.hs.commit <= e.hs.commit /\ e.hs.commit <= r.prevHs.commit
  BY <1>2, <1>4, <1>5
<1>7. \A i \in Applied(e) : i <= e.hs.commit
  BY <1>2, <1>3, <1>4, <1>6 DEF Counted
<1>8. Lasting(d, e)
  BY <1>2, <1>4, <1>6 DEF Lasting
<1>9. Counted(r, e)
  BY <1>5, <1>6, <1>7 DEF Counted
<1>10. x.next <= x.last => x.last <= e.hs.commit
  BY <1>2, <1>5
<1>11. Held(r, x, e, "send")
  BY <1>10 DEF Held, Promised, Saving, Handing
<1>12. Covered(r, x, e, "send")
  BY <1>9, <1>11 DEF Covered, Quiet
<1>. QED
  BY <1>1, <1>8, <1>12 DEF Secures, r, x, d, e
(* A Ready on its way to be sent is not a fetch.                           *)
LEMMA SendSecures ==
    ASSUME TypeOK, NEW s \in Server, Covers(s), rd[s].stage # "late", SendMessages(s)
    PROVE  Secures(s)
<1>1. /\ pc[s] = "send" /\ pc'[s] = "apply" /\ UNCHANGED <<disk, raft, rd>> /\ disk[s] \in Disk
  BY NodeTypes DEF SendMessages, Goto
<1>2. Counted(raft[s], disk[s]) /\ Held(raft[s], rd[s], disk[s], "send")
  BY <1>1 DEF Covers, Covered
<1>3. Held(raft[s], rd[s], disk[s], "apply")
  BY <1>2 DEF Held, Promised, Saving, Handing
<1>4. Covered(raft[s], rd[s], disk[s], "apply")
  BY <1>2, <1>3 DEF Covered, Quiet
<1>. QED
  BY <1>1, <1>4, SameLasts DEF Secures

LEMMA ApplyNormalSecures ==
    ASSUME TypeOK, NEW s \in Server, Covers(s), ApplyNormal(s)
    PROVE  Secures(s)
<1>. DEFINE r == raft[s]
            x == rd[s]
            d == disk[s]
            e == disk'[s]
<1>1. /\ x \in Ready /\ d \in Disk /\ pc[s] = "apply" /\ pc'[s] = "answer" /\ x.next <= x.last
      /\ UNCHANGED <<raft, rd>> /\ e = [d EXCEPT !.sm = Append(d.sm, x.next)]
  BY NodeTypes DEF ApplyNormal, Goto, More
<1>2. Counted(r, d) /\ Held(r, x, d, "apply")
  BY <1>1 DEF Covers, Covered
<1>3. e.hs = d.hs /\ e.log = d.log /\ e.sm = Append(d.sm, x.next) /\ d.sm \in Seq(Index)
  BY <1>1 DEF Disk
<1>. HIDE DEF r, x, d, e
<1>4. Applied(e) = Applied(d) \cup {x.next}
  <2>1. x.next \in Index
    BY CurrentType DEF ApplyNormal, x
  <2>2. /\ Len(e.sm) = Len(d.sm) + 1 /\ Len(d.sm) \in Nat /\ e.sm[Len(d.sm) + 1] = x.next
        /\ \A k \in 1..Len(d.sm) : e.sm[k] = d.sm[k]
    BY <1>3, <2>1
  <2>3. 1..Len(e.sm) = 1..Len(d.sm) \cup {Len(d.sm) + 1}
    BY <2>2
  <2>. QED
    BY <2>2, <2>3 DEF Applied
<1>5. x.next <= d.hs.commit /\ x.last <= d.hs.commit
  <2>1. x.last <= d.hs.commit
    BY <1>1, <1>2 DEF Held, Promised, Saving, Handing
  <2>. QED
    BY <1>1, <2>1, Commitments
<1>6. Counted(r, e)
  BY <1>2, <1>3, <1>4, <1>5 DEF Counted
<1>7. Held(r, x, e, "answer")
  BY <1>2, <1>3, <1>4, <1>5 DEF Held, Promised, Saving
<1>8. Covered(r, x, e, "answer")
  BY <1>6, <1>7 DEF Covered, Quiet
<1>9. Lasting(d, e)
  <2>1. e.hs = d.hs /\ e.log = d.log /\ d.hs.commit \in Int
    BY <1>1, <1>3, Commitments
  <2>. QED
    BY <1>4, <2>1 DEF Lasting
<1>. QED
  BY <1>1, <1>8, <1>9 DEF Secures, r, x, d, e

(* On to the next entry, perhaps with a configuration change applied.      *)
LEMMA NextSecures ==
    ASSUME TypeOK, NEW s \in Server, Covers(s), NextEntry(s),
           pc[s] \in {"apply", "answer"}, pc'[s] = "apply",
           raft'[s].prevHs = raft[s].prevHs, raft'[s].committed >= raft[s].committed,
           raft'[s] \in RawNodeState,
           disk'[s].log = disk[s].log, disk'[s].hs = disk[s].hs, disk'[s].sm = disk[s].sm
    PROVE  Secures(s)
<1>. DEFINE r == raft[s]
            q == raft'[s]
            x == rd[s]
            y == rd'[s]
            d == disk[s]
            e == disk'[s]
<1>1. r \in RawNodeState /\ x \in Ready /\ d \in Disk /\ q \in RawNodeState
  BY NodeTypes
<1>2. y.next = x.next + 1 /\ y.last = x.last /\ y.stage = x.stage
  BY NodeTypes, NextReady
<1>3. Counted(r, d) /\ Held(r, x, d, pc[s])
  BY DEF Covers, Covered
<1>4. Applied(e) = Applied(d)
  BY DEF Applied
<1>5. y.next <= y.last => y.last <= e.hs.commit
  <2>. SUFFICES ASSUME y.next <= y.last PROVE y.last <= e.hs.commit
    OBVIOUS
  <2>1. x.next <= x.last
    BY <1>1, <1>2, Commitments
  <2>2. x.last <= Promised(x, d, pc[s])
    BY <1>3, <2>1 DEF Held, Handing
  <2>. QED
    BY <1>2, <2>2 DEF Promised, Saving
<1>6. Counted(q, e)
  BY <1>1, <1>3, <1>4, Commitments DEF Counted
<1>7. Held(q, y, e, "apply")
  BY <1>2, <1>3, <1>5 DEF Held, Promised, Saving
<1>8. Covered(q, y, e, "apply")
  BY <1>6, <1>7 DEF Covered, Quiet
<1>9. Lasting(d, e)
  BY <1>1, <1>4, Commitments DEF Lasting
<1>. QED
  BY <1>8, <1>9 DEF Secures

LEMMA PassSecures ==
    ASSUME TypeOK, NEW s \in Server, Covers(s), Answer(s) \/ RejectNormal(s) \/ PassOver(s)
    PROVE  Secures(s)
<1>1. /\ pc[s] \in {"apply", "answer"} /\ pc'[s] = "apply" /\ UNCHANGED <<disk, raft>>
      /\ NextEntry(s)
  BY NodeTypes DEF Answer, RejectNormal, PassOver, Goto
<1>2. raft[s] \in RawNodeState /\ raft[s].committed >= raft[s].committed
  BY NodeTypes, Commitments
<1>. QED
  BY <1>1, <1>2, NextSecures

LEMMA ApplyConfSecures ==
    ASSUME TypeOK, NEW s \in Server, Covers(s), ApplyConf(s)
    PROVE  Secures(s)
<1>. DEFINE q == ApplyConfChange(raft[s], disk[s], s, Current(s))
<1>1. /\ raft[s] \in RawNodeState /\ disk[s] \in Disk /\ pc[s] = "apply" /\ pc'[s] = "apply"
      /\ NextEntry(s)
  BY NodeTypes DEF ApplyConf
<1>2. raft'[s] = q
  BY NodeTypes, ApplyConfFacts
<1>3. Evolves(raft[s], q, s) /\ Adds(raft[s], q)
  BY ApplyConfFacts, ApplyConfChangeEvolves, ApplyConfChangeAdds
<1>. HIDE DEF q
<1>4. /\ raft'[s] \in RawNodeState /\ raft'[s].prevHs = raft[s].prevHs
      /\ raft'[s].committed >= raft[s].committed
  BY <1>2, <1>3 DEF Evolves, Adds
<1>5. disk'[s].log = disk[s].log /\ disk'[s].hs = disk[s].hs /\ disk'[s].sm = disk[s].sm
  <2>1. \E v : disk' = [disk EXCEPT ![s].clusterConf = v]
    BY DEF ApplyConf
  <2>. QED
    BY <2>1, NodeTypes DEF Disk
<1>. QED
  BY <1>1, <1>4, <1>5, NextSecures

(* advance(): what it commits it hands out, dropped or not.                *)
LEMMA AdvanceSecures ==
    ASSUME TypeOK, NEW s \in Server, Covers(s), InlineAdvance(s) \/ AdvanceRaft(s),
           Advance(raft[s], disk[s], s).committed <= LastIndex(disk[s].log),
           Rows(Advance(raft[s], disk[s], s).unst) = {}
    PROVE  Secures(s)
<1>. DEFINE r == raft[s]
            d == disk[s]
            a == Advance(r, d, s)
<1>1. /\ r \in RawNodeState /\ d \in Disk /\ pc[s] = "apply" /\ UNCHANGED disk /\ raft'[s] = a
      /\ pc'[s] \in {"ready", "lightHs", "compact"}
  BY NodeTypes DEF InlineAdvance, AdvanceRaft, SetRaft, OnReadyThen, Goto
<1>2. a \in RawNodeState
  BY <1>1, AdvanceType
<1>3. /\ a.prevHs.commit = a.committed /\ r.committed <= a.committed
      /\ a.committed < FirstToHandOut(a, d)
  BY <1>1, CaughtUp
<1>4. Counted(r, d)
  BY DEF Covers, Covered
<1>5. Rows(a.unst) = {}
  OBVIOUS
<1>. HIDE DEF r, d, a
<1>6. Counted(a, d)
  BY <1>1, <1>2, <1>3, <1>4, Commitments DEF Counted
<1>7. Calm(a, d)
  BY <1>3, <1>5, <1>6 DEF Calm, Lag
<1>8. Covered(a, rd'[s], d, pc'[s])
  BY <1>1, <1>3, <1>7 DEF Covered, Calm, Held, Saving, Handing
<1>. QED
  BY <1>1, <1>8, SameLasts DEF Secures, d

LEMMA LightCommitSecures ==
    ASSUME TypeOK, NEW s \in Server, Covers(s), SaveLightCommit(s)
    PROVE  Secures(s)
<1>. DEFINE r == raft[s]
            d == disk[s]
            e == disk'[s]
            y == rd'[s]
<1>1. /\ r \in RawNodeState /\ d \in Disk /\ pc[s] = "lightHs" /\ UNCHANGED raft
      /\ e = SaveHardState(d, HardStateOf(r)) /\ pc'[s] \in {"apply", "compact"}
      /\ pc'[s] = "apply" => y.last <= r.committed /\ y.last \in Index
  BY NodeTypes, LightFetch DEF SaveLightCommit
<1>2. Counted(r, d) /\ r.prevHs.commit = r.committed
  BY <1>1 DEF Covers, Covered
<1>3. e.log = d.log /\ e.sm = d.sm /\ e.hs.commit = r.committed
  BY <1>1 DEF SaveHardState, HardStateOf, Disk
<1>. HIDE DEF r, d, e, y
<1>4. /\ Applied(e) = Applied(d) /\ Applied(d) \subseteq Int
      /\ d.hs.commit \in Int /\ r.committed \in Int
  <2>1. Applied(e) = Applied(d)
    BY <1>3 DEF Applied
  <2>. QED
    BY <1>1, <2>1, Commitments
<1>5. Counted(r, e)
  BY <1>2, <1>3, <1>4 DEF Counted
<1>6. Lag(r, e) /\ Held(r, y, e, pc'[s])
  BY <1>1, <1>2, <1>3, <1>4 DEF Lag, Held, Promised, Saving, Handing
<1>7. Covered(r, y, e, pc'[s])
  BY <1>1, <1>5, <1>6 DEF Covered, Quiet
<1>8. Lasting(d, e)
  BY <1>2, <1>3, <1>4 DEF Lasting, Counted
<1>. QED
  BY <1>1, <1>7, <1>8 DEF Secures, r, d, e, y

LEMMA FinishLateSecures ==
    ASSUME TypeOK, NEW s \in Server, Covers(s), FinishLate(s)
    PROVE  Secures(s)
<1>. DEFINE r == raft[s]
            q == raft'[s]
            d == disk[s]
<1>1. /\ r \in RawNodeState /\ d \in Disk /\ pc[s] = "apply" /\ pc'[s] = "compact"
      /\ UNCHANGED <<disk, rd>> /\ rd[s].stage = "late" /\ q = [r EXCEPT !.applied = rd[s].last]
  BY NodeTypes DEF FinishLate, Goto, SetRaft
<1>2. q.prevHs = r.prevHs /\ q.committed = r.committed
  BY <1>1 DEF RawNodeState
<1>3. Counted(r, d) /\ r.prevHs.commit <= d.hs.commit
  BY <1>1 DEF Covers, Covered, Held
<1>. HIDE DEF r, q, d
<1>4. Counted(q, d) /\ Lag(q, d)
  BY <1>2, <1>3 DEF Counted, Lag
<1>5. Covered(q, rd[s], d, "compact")
  BY <1>4 DEF Covered, Held, Quiet, Saving, Handing
<1>. QED
  BY <1>1, <1>5, SameLasts DEF Secures, q, d

LEMMA CompactSecures ==
    ASSUME TypeOK, NEW s \in Server, Covers(s), Sized(s), Compact(s)
    PROVE  Secures(s)
<1>. DEFINE r == raft[s]
            d == disk[s]
            e == disk'[s]
            upTo == SnapshotIndex(d, r.applied)
<1>1. /\ r \in RawNodeState /\ d \in Disk /\ pc[s] = "compact" /\ UNCHANGED raft
      /\ e = d \/ e = CompactLogBefore(d, upTo)
      /\ pc'[s] \in Quiet /\ r.applied \in 0..MaxIndex
  BY NodeTypes DEF Compact, Goto, Quiet, RawNodeState
<1>2. Counted(r, d) /\ Lag(r, d) /\ Rows(r.unst) = {}
  BY <1>1 DEF Covers, Covered, Sized
<1>3. FirstIndex(d.log) <= FirstIndex(e.log)
  BY <1>1, FirstRises, FirstIndexType, IndexFacts
<1>4. e.hs = d.hs /\ e.sm = d.sm /\ \A i \in Index : e.log[i] \in {d.log[i], NoEntry}
  BY <1>1 DEF CompactLogBefore, Disk
<1>. HIDE DEF r, d, e, upTo
<1>5. Applied(e) = Applied(d) /\ Applied(d) \subseteq Index /\ d.hs.commit \in Int
  <2>1. Applied(e) = Applied(d)
    BY <1>4 DEF Applied
  <2>. QED
    BY <1>1, <2>1, Commitments
<1>6. Lag(r, e)
  <2>1. /\ FirstIndex(d.log) \in Int /\ FirstIndex(e.log) \in Int /\ r.csi \in Int
        /\ r.prevHs.commit \in Int
    BY <1>1, FirstIndexType, Numbers
  <2>. QED
    BY <1>2, <1>3, <1>4, <2>1 DEF Lag, FirstToHandOut
<1>7. Calm(r, e)
  BY <1>2, <1>4, <1>5, <1>6 DEF Calm, Counted
<1>8. Lasting(d, e)
  BY <1>4, <1>5 DEF Lasting
<1>. QED
  BY <1>1, <1>7, <1>8, CalmCovers DEF Secures, r, d, e

(* A restart announces what the disk holds.                                *)
LEMMA FreshCovered ==
    ASSUME NEW s, NEW d \in Disk, NEW x, \A i \in Applied(d) : i <= d.hs.commit
    PROVE  Covered(NewRawNode(d), x, d, FirstStep(s))
<1>. DEFINE q == NewRawNode(d)
<1>1. q.prevHs = d.hs /\ q.committed = d.hs.commit /\ Rows(q.unst) = {}
  BY EmptyLogType DEF NewRawNode
<1>. HIDE DEF q
<1>2. d.hs.commit <= d.hs.commit
  BY Commitments
<1>3. Calm(q, d)
  BY <1>1, <1>2 DEF Calm, Counted, Lag
<1>4. FirstStep(s) \in Quiet
  BY FirstStepType DEF Quiet
<1>. QED
  BY <1>3, <1>4, CalmCovers DEF q

LEMMA RestartSecures ==
    ASSUME TypeOK, NEW s \in Server, Covers(s), Restart(s)
    PROVE  Secures(s)
<1>1. /\ disk[s] \in Disk /\ UNCHANGED disk
      /\ raft'[s] = NewRawNode(disk[s]) /\ pc'[s] = FirstStep(s)
  BY NodeTypes DEF Restart, SetRaft, Goto
<1>2. \A i \in Applied(disk[s]) : i <= disk[s].hs.commit
  BY DEF Covers, Covered, Counted
<1>. QED
  BY <1>1, <1>2, FreshCovered, SameLasts DEF Secures

LEMMA StepSecures ==
    ASSUME TypeOK, NEW s \in Server, NEW H \in Heights, Reaches(s, H), Told(H), Covers(s),
           NodeStep(s)
    PROVE  Secures(s)
<1>0. Sized(s)
  BY DEF Reaches, Ends, Sound, Sized
<1>1. ASSUME Stop(s) PROVE Secures(s)
  BY <1>1, StopSecures DEF Stop, Goto
<1>2. CASE Proceed(s)
  <2>1. CASE BootstrapCampaign(s) \/ BootstrapPropose(s) \/ Tick(s) \/ TriggerReplication(s)
    BY <1>0, <2>1, BootstrapSecures, TickSecures
  <2>2. CASE TakeReady(s) \/ SaveEntries(s) \/ SaveReadyHardState(s)
    BY <2>2, TakeReadySecures, SaveSecures, SaveHsSecures
  <2>3. CASE SendMessages(s)
    <3>1. pc[s] = "send"
      BY <2>3 DEF SendMessages
    <3>2. rd[s].stage # "late"
      BY <3>1 DEF Reaches, Ends, Unsent
    <3>. QED
      BY <2>3, <3>2, SendSecures
  <2>4. CASE ApplyNormal(s) \/ Answer(s) \/ RejectNormal(s) \/ PassOver(s) \/ ApplyConf(s)
    BY <2>4, ApplyNormalSecures, PassSecures, ApplyConfSecures
  <2>5. CASE FailConf(s)
    BY <1>1, <2>5 DEF FailConf
  <2>6. CASE InlineAdvance(s) \/ AdvanceRaft(s)
    <3>. DEFINE a == Advance(raft[s], disk[s], s)
    <3>1. /\ raft[s] \in RawNodeState /\ disk[s] \in Disk /\ pc[s] = "apply"
      BY <2>6, NodeTypes DEF InlineAdvance, AdvanceRaft
    <3>2. Sound(raft[s], disk[s], H, -1) /\ LastIndex(raft[s].unst) <= LastIndex(disk[s].log)
      BY <3>1 DEF Reaches, Ends, Kept, LastStored
    <3>3. Sound(a, disk[s], H, -1) /\ Rows(a.unst) = {}
      BY <3>1, <3>2, AdvanceSound, EmptyLogType
    <3>. HIDE DEF a
    <3>4. a.committed <= LastIndex(disk[s].log)
      BY <3>3 DEF Sound, LastLogIndex
    <3>. QED
      BY <2>6, <3>3, <3>4, AdvanceSecures DEF a
  <2>7. CASE SaveLightCommit(s) \/ FinishLate(s) \/ Compact(s)
    BY <1>0, <2>7, LightCommitSecures, FinishLateSecures, CompactSecures
  <2>. QED
    BY <1>2, <2>1, <2>2, <2>3, <2>4, <2>5, <2>6, <2>7 DEF Proceed, OnReady
<1>3. ASSUME NEW q \in Req, DropProposal(s, q) PROVE Secures(s)
  BY <1>3, StopSecures DEF DropProposal, Goto
<1>4. CASE \E q \in Req : HandleProposal(s, q) \/ RefuseProposal(s, q) \/ DropProposal(s, q)
  BY <1>0, <1>3, <1>4, ProposalSecures
<1>5. CASE \E m \in net : HandleRaftMessage(s, m) \/ RefuseRaftMessage(s, m)
  BY <1>0, <1>1, <1>5, MessageSecures DEF RefuseRaftMessage
<1>6. CASE \E f \in Server : AbortOnSnapshot(s, f)
  BY <1>1, <1>6 DEF AbortOnSnapshot
<1>7. CASE \/ \E f \in Addable : HandleConfChange(s, "add", f)
           \/ \E f \in Removable : HandleConfChange(s, "remove", f)
  BY <1>0, <1>7, ChangeAssumption, ConfChangeSecures
<1>8. CASE Restart(s)
  BY <1>8, RestartSecures
<1>. QED
  BY <1>2, <1>4, <1>5, <1>6, <1>7, <1>8 DEF NodeStep

---------------------------------------------------------------------------
(* All nodes and their clients *)

CoverInv == \A s \in Server : Covers(s)

(* What an answered client relies on, on the disk of s.                    *)
Durable(q, d) ==
    \E i \in Applied(d) : i <= d.hs.commit /\ (d.log[i] = NoEntry \/ d.log[i].ctx = q)

LEMMA DurableLasts ==
    ASSUME NEW q, NEW d \in Disk, NEW e \in Disk, Lasting(d, e), Durable(q, d)
    PROVE  Durable(q, e)
<1>1. PICK i \in Applied(d) : i <= d.hs.commit /\ (d.log[i] = NoEntry \/ d.log[i].ctx = q)
  BY DEF Durable
<1>2. i \in Int /\ d.hs.commit \in Int /\ e.hs.commit \in Int
  BY <1>1, Commitments
<1>3. i \in Applied(e) /\ i <= e.hs.commit /\ e.log[i] \in {d.log[i], NoEntry}
  BY <1>1, <1>2 DEF Lasting
<1>. QED
  BY <1>1, <1>3 DEF Durable

LEMMA DurableIs ==
    \A q, d : Durable(q, d) <=> \E k \in 1..Len(d.sm) :
                  /\ d.sm[k] <= d.hs.commit
                  /\ LET e == d.log[d.sm[k]] IN e = NoEntry \/ e.ctx = q
BY DEF Durable, Applied

(* Only process_normal_entry tells a client Ok, and only the client whose  *)
(* proposal it has just applied.                                           *)
LEMMA OnlyAnswerReplies ==
    ASSUME TypeOK, NEW s \in Server, NodeStep(s), NEW q \in Req, reply'[q] = "ok", reply[q] # "ok"
    PROVE  Answer(s) /\ q = Current(s).ctx
<1>0. reply \in [Req -> {"new", "waiting", "ok", "error", "notLeader", "lost"}]
  BY DEF TypeOK
<1>1. Abandoned(s)[q] # "ok"
  BY DEF Abandoned
<1>2. ~Stop(s)
  BY <1>1 DEF Stop
<1>3. ~UNCHANGED reply
  OBVIOUS
<1>4. /\ ~BootstrapCampaign(s) /\ ~BootstrapPropose(s) /\ ~Tick(s) /\ ~TriggerReplication(s)
      /\ ~TakeReady(s) /\ ~SaveEntries(s) /\ ~SaveReadyHardState(s) /\ ~SendMessages(s)
      /\ ~ApplyNormal(s) /\ ~PassOver(s) /\ ~ApplyConf(s)
      /\ ~InlineAdvance(s) /\ ~AdvanceRaft(s) /\ ~SaveLightCommit(s) /\ ~FinishLate(s)
      /\ ~Compact(s)
  BY <1>3 DEF BootstrapCampaign, BootstrapPropose, Tick, TriggerReplication,
     TakeReady, SaveEntries, SaveReadyHardState, SendMessages, ApplyNormal, PassOver,
     ApplyConf, InlineAdvance, AdvanceRaft, SaveLightCommit, FinishLate, Compact
<1>5. ASSUME NEW p \in Req PROVE ~HandleProposal(s, p) /\ ~RefuseProposal(s, p)
  BY <1>0 DEF HandleProposal, RefuseProposal
<1>6. ASSUME NEW p \in Req PROVE ~DropProposal(s, p)
  <2>. SUFFICES ASSUME DropProposal(s, p) PROVE FALSE
    OBVIOUS
  <2>1. reply' = [Abandoned(s) EXCEPT ![p] = "lost"] /\ Abandoned(s) = [r \in Req |-> Abandoned(s)[r]]
    BY DEF DropProposal, Abandoned
  <2>2. reply'[q] = IF q = p THEN "lost" ELSE Abandoned(s)[q]
    BY <2>1
  <2>. QED
    BY <1>1, <2>2
<1>7. ~\E m \in net : HandleRaftMessage(s, m)
  BY <1>3 DEF HandleRaftMessage
<1>8. ~\E f : HandleConfChange(s, "add", f) \/ HandleConfChange(s, "remove", f)
  BY <1>3 DEF HandleConfChange
<1>9. ~Restart(s)
  BY <1>1 DEF Restart
<1>10. ~RejectNormal(s)
  <2>. SUFFICES ASSUME RejectNormal(s) PROVE FALSE
    OBVIOUS
  <2>1. reply' = [reply EXCEPT ![Current(s).ctx] = "error"]
    BY <1>3 DEF RejectNormal
  <2>. QED
    BY <1>0, <2>1
<1>11. Answer(s)
  BY <1>2, <1>4, <1>5, <1>6, <1>7, <1>8, <1>9, <1>10
     DEF NodeStep, Proceed, OnReady, FailConf, RefuseRaftMessage, AbortOnSnapshot
<1>12. q = Current(s).ctx
  BY <1>0, <1>3, <1>11 DEF Answer
<1>. QED
  BY <1>11, <1>12

LEMMA InitCovers == Init => CoverInv
<1>. SUFFICES ASSUME Init, NEW s \in Server PROVE Covers(s)
  BY DEF CoverInv
<1>1. disk[s] \in Disk /\ \E v : disk[s] = NewDisk(v)
  BY InitType DEF TypeOK, Init
<1>2. disk[s].sm = << >>
  BY <1>1 DEF NewDisk
<1>3. Applied(disk[s]) = {}
  BY <1>2 DEF Applied
<1>4. raft[s] = NewRawNode(disk[s]) /\ pc[s] = FirstStep(s)
  BY DEF Init
<1>. QED
  BY <1>1, <1>3, <1>4, FreshCovered DEF Covers

LEMMA StepCovers == TypeInv /\ LogInv /\ CoverInv /\ [Next]_vars => CoverInv'
<1>. SUFFICES ASSUME TypeInv, LogInv, CoverInv, [Next]_vars, NEW t \in Server PROVE Covers(t)'
  BY DEF CoverInv
<1>1. CASE UNCHANGED vars
  BY <1>1 DEF vars, CoverInv, Covers
<1>2. ASSUME NEW s \in Server, NodeStep(s), t # s PROVE Covers(t)'
  BY <1>2, StepIsLocal DEF Untouched, TypeInv, CoverInv, Covers
<1>3. ASSUME NodeStep(t) PROVE Covers(t)'
  <2>1. PICK H \in Heights : H = Reached
    BY ReachedType
  <2>2. Reaches(t, H) /\ Told(H)
    BY <2>1, ReachedType DEF Reaches, LogInv
  <2>3. Secures(t)
    BY <1>3, <2>2, StepSecures DEF TypeInv, CoverInv
  <2>. QED
    BY <2>3 DEF Secures, Covers
<1>. QED
  BY <1>1, <1>2, <1>3 DEF Next

LEMMA CoverHolds == Spec => [](TypeInv /\ LogInv /\ CoverInv)
BY InitCovers, StepCovers, LogHolds, PTL DEF Spec

LEMMA StepAnswers ==
    TypeInv /\ LogInv /\ CoverInv /\ AnsweredIsDurable /\ [Next]_vars => AnsweredIsDurable'
<1>. SUFFICES ASSUME TypeInv, LogInv, CoverInv, AnsweredIsDurable, [Next]_vars
              PROVE  AnsweredIsDurable'
  OBVIOUS
<1>1. \A q \in Req : reply[q] = "ok" => \E s \in Server : Durable(q, disk[s])
  BY DurableIs DEF AnsweredIsDurable
<1>2. ASSUME NEW q \in Req, reply'[q] = "ok" PROVE \E s \in Server : Durable(q, disk'[s])
  <2>1. CASE UNCHANGED vars
    BY <1>1, <1>2, <2>1 DEF vars
  <2>2. CASE Next
    <3>1. PICK s \in Server : NodeStep(s)
      BY <2>2 DEF Next
    <3>2. disk \in [Server -> Disk] /\ disk' \in [Server -> Disk]
      BY StepType DEF TypeInv, TypeOK
    <3>3. Lasting(disk[s], disk'[s])
      <4>1. PICK H \in Heights : H = Reached
        BY ReachedType
      <4>2. Reaches(s, H) /\ Told(H)
        BY <4>1, ReachedType DEF Reaches, LogInv
      <4>. QED
        BY <3>1, <4>2, StepSecures DEF TypeInv, CoverInv, Secures
    <3>4. CASE reply[q] = "ok"
      <4>1. PICK t \in Server : Durable(q, disk[t])
        BY <1>1, <3>4
      <4>2. CASE t = s
        BY <3>2, <3>3, <4>1, <4>2, DurableLasts
      <4>3. CASE t # s
        <5>1. disk'[t] = disk[t]
          BY <3>1, <4>3, StepIsLocal DEF Untouched, TypeInv
        <5>. QED
          BY <4>1, <5>1
      <4>. QED
        BY <4>2, <4>3
    <3>5. CASE reply[q] # "ok"
      <4>1. Answer(s) /\ q = Current(s).ctx
        BY <1>2, <3>1, <3>5, OnlyAnswerReplies DEF TypeInv
      <4>2. pc[s] = "answer" /\ disk' = disk
        BY <4>1 DEF Answer
      <4>3. Counted(raft[s], disk[s]) /\ rd[s].next \in Applied(disk[s])
        BY <4>2 DEF CoverInv, Covers, Covered, Held
      <4>4. rd[s].next <= disk[s].hs.commit /\ disk[s].log[rd[s].next].ctx = q
        BY <4>1, <4>3 DEF Counted, Current
      <4>. QED
        BY <4>2, <4>3, <4>4 DEF Durable
    <3>. QED
      BY <3>4, <3>5
  <2>. QED
    BY <2>1, <2>2
<1>. QED
  BY <1>2, DurableIs DEF AnsweredIsDurable

(* Whatever crashes, and however the messages of the others arrive: a      *)
(* client that was told Ok has its command in the state machine of the     *)
(* node that told it, behind the commit index that node has stored, and    *)
(* the row it came from holds it or has been compacted away.  The          *)
(* hard state is saved before an entry of the Ready is applied, and        *)
(* nothing saved later reaches below the stored commit index.              *)
THEOREM AnswersStay == Spec => []AnsweredIsDurable
<1>1. Init => CoverInv /\ AnsweredIsDurable
  <2>1. Init => \A q \in Req : reply[q] = "new"
    BY DEF Init
  <2>. QED
    BY <2>1, InitCovers DEF AnsweredIsDurable
<1>2. CoverInv /\ AnsweredIsDurable /\ TypeInv /\ LogInv /\ [Next]_vars
        => (CoverInv /\ AnsweredIsDurable)'
  BY StepCovers, StepAnswers
<1>. QED
  BY <1>1, <1>2, LogHolds, PTL DEF Spec

---------------------------------------------------------------------------
(* A node that no message reaches.  Between two Readys its log goes on     *)
(* from the storage without a gap (Joined); what the library counts as     *)
(* announced, as handed out and as applied agree with the stored hard      *)
(* state and the entries in hand (Tallied); what was handed out is         *)
(* processed or in hand (Worked); and what a client waits for is in hand   *)
(* or still to be handed out (Awaited).                                    *)

(* How far the library counts entries as handed out, and those in hand.    *)
Given(r, at) == IF at = "lightHs" THEN r.applied ELSE r.csi
Hand(x, at)  == IF at \in Handing \cup {"answer"} THEN x.next..x.last ELSE {}

(* All a restart needs of the disk.                                        *)
Rooted(d) == Gapless(d.log) /\ (FirstIndex(d.log) = 1 \/ FirstIndex(d.log) <= d.hs.commit)

(* The entries in hand are stored, and the last that are handed out.       *)
InTurn(r, x, d) ==
    /\ x.next..x.last \subseteq Rows(d.log)
    /\ \/ /\ x.stage = "ready" /\ x.last \in {0, r.csi}
          /\ r.csi = r.prevHs.commit /\ FirstIndex(d.log) <= r.csi + 1
       \/ x.stage = "late" /\ x.last = r.csi

(* advance() has counted entries that are still to be fetched.             *)
ToFetch(r, x, d) ==
    /\ r.csi = r.committed /\ r.prevHs.commit = r.committed
    /\ r.applied < r.committed /\ x.last \in {0, r.applied}
    /\ FirstIndex(d.log) <= r.applied + 1

Tallied(r, x, d, at) ==
    /\ r.csi <= r.prevHs.commit /\ r.prevHs.commit <= r.committed
    /\ r.applied <= r.csi \/ r.applied < FirstIndex(d.log)
    /\ at # "lightHs" => r.prevHs.commit = Promised(x, d, at)
    /\ at \in Handing \cup {"answer"} => InTurn(r, x, d)
    /\ at = "lightHs" => ToFetch(r, x, d)

Joined(r, d, at) ==
    /\ at \in Quiet \cup {"save"} => JoinsOn(r, d)
    /\ at \in Kept => InStorage(r, d)

(* What was handed out is processed or in hand.                            *)
Worked(r, x, d, D, at) ==
    /\ \A i \in FirstIndex(d.log)..Given(r, at) : i \in D \/ i \in Hand(x, at)
    /\ at = "answer" => x.next \in D

(* What is pending is in hand or still to be handed out.                   *)
Awaited(r, x, d, P, at) ==
    \A p \in P : \E i \in Index : /\ EntryAt(r, d, i).ctx = p
                                  /\ i > Given(r, at) \/ i \in Hand(x, at)

Going(s, r, x, d, D, P, at) ==
    /\ Own(r, d, s) /\ Joined(r, d, at) /\ Tallied(r, x, d, at)
    /\ Worked(r, x, d, D, at) /\ Awaited(r, x, d, P, at)
    /\ \A m \in r.msgs \cup x.msgs : m.to # s

Alone(s, r, x, d, D, P, at) ==
    Rooted(d) /\ (at # "stopped" => Going(s, r, x, d, D, P, at))

LEMMA EntryOfReq ==
    ASSUME NEW e, e.ctx \in Req
    PROVE  e # NoEntry
BY ReqAssumption DEF NoEntry

(* A call of the library between two Readys.                               *)
LEMMA QuietGoes ==
    ASSUME NEW s \in Server, NEW r \in RawNodeState, NEW q, NEW x, NEW d \in Disk, NEW D,
           NEW P \in SUBSET Req, NEW P2 \in SUBSET Req, NEW at \in Quiet, NEW to \in Quiet,
           Going(s, r, x, d, D, P, at), Continues(r, q, d, s),
           \A p \in P2 : p \in P \/ \E i \in Index : i > LastLogIndex(r, d) /\ EntryAt(q, d, i).ctx = p
    PROVE  Going(s, q, x, d, D, P2, to)
<1>1. /\ at \notin Handing /\ at # "answer" /\ at # "lightHs" /\ at \notin Saving /\ at \notin Kept
      /\ to \notin Handing /\ to # "answer" /\ to # "lightHs" /\ to \notin Saving /\ to \notin Kept
  BY DEF Quiet, Handing, Saving, Kept
<1>2. /\ q \in RawNodeState /\ Own(q, d, s)
      /\ q.csi = r.csi /\ q.applied = r.applied /\ q.prevHs = r.prevHs
      /\ q.committed >= r.committed
      /\ \A m \in q.msgs : m \in r.msgs \/ m.to # s
  BY DEF Continues
<1>3. Own(r, d, s) /\ JoinsOn(r, d) /\ Tallied(r, x, d, at) /\ Worked(r, x, d, D, at)
      /\ Awaited(r, x, d, P, at) /\ \A m \in r.msgs \cup x.msgs : m.to # s
  BY DEF Going, Joined
<1>4. /\ r.csi \in Int /\ r.prevHs.commit \in Int /\ r.committed \in Int /\ q.committed \in Int
      /\ LastIndex(d.log) \in Int /\ LastLogIndex(r, d) \in Int
  BY <1>2, Numbers, LastIndexType, LastLogIndexType
<1>5. JoinsOn(q, d) /\ \A i \in Index : EntryAt(r, d, i) # NoEntry => EntryAt(q, d, i) = EntryAt(r, d, i)
  BY <1>3, JoinsContinue
<1>6. r.csi <= r.prevHs.commit /\ r.prevHs.commit <= r.committed
  BY <1>3 DEF Tallied
<1>7. Tallied(q, x, d, to)
  <2>1. r.prevHs.commit <= q.committed
    BY <1>2, <1>4, <1>6
  <2>2. Promised(x, d, at) = d.hs.commit /\ Promised(x, d, to) = d.hs.commit
    BY <1>1 DEF Promised
  <2>. QED
    BY <1>1, <1>2, <1>3, <2>1, <2>2 DEF Tallied
<1>8. Given(r, at) = r.csi /\ Given(q, to) = r.csi /\ Hand(x, at) = {} /\ Hand(x, to) = {}
  BY <1>1, <1>2 DEF Given, Hand
<1>9. Worked(q, x, d, D, to)
  BY <1>1, <1>3, <1>8 DEF Worked
<1>10. Awaited(q, x, d, P2, to)
  <2>. SUFFICES ASSUME NEW p \in P2
                PROVE  \E i \in Index : EntryAt(q, d, i).ctx = p /\ i > r.csi
    BY <1>8 DEF Awaited
  <2>1. CASE p \in P
    <3>1. PICK i \in Index : EntryAt(r, d, i).ctx = p /\ i > r.csi
      BY <1>3, <1>8, <2>1 DEF Awaited
    <3>2. EntryAt(r, d, i) # NoEntry
      BY <2>1, <3>1, EntryOfReq
    <3>. QED
      BY <1>5, <3>1, <3>2
  <2>2. CASE \E i \in Index : i > LastLogIndex(r, d) /\ EntryAt(q, d, i).ctx = p
    <3>1. PICK i \in Index : i > LastLogIndex(r, d) /\ EntryAt(q, d, i).ctx = p
      BY <2>2
    <3>2. r.csi <= LastLogIndex(r, d)
      <4>1. r.committed <= LastIndex(d.log) /\ LastIndex(d.log) <= LastLogIndex(r, d)
        BY <1>3, JoinedLast DEF Own
      <4>. QED
        BY <1>4, <1>6, <4>1
    <3>3. i \in Int
      BY Places
    <3>. QED
      BY <1>4, <3>1, <3>2, <3>3
  <2>. QED
    BY <2>1, <2>2
<1>11. Joined(q, d, to)
  BY <1>1, <1>5 DEF Joined
<1>12. \A m \in q.msgs \cup x.msgs : m.to # s
  BY <1>2, <1>3
<1>. QED
  BY <1>2, <1>7, <1>9, <1>10, <1>11, <1>12 DEF Going

(* ready(): everything committed is processed, or now in hand.             *)
LEMMA TakeGoes ==
    ASSUME NEW s \in Server, NEW r \in RawNodeState, NEW x, NEW d \in Disk, NEW D,
           NEW P \in SUBSET Req, NEW at \in Quiet,
           Rooted(d), Going(s, r, x, d, D, P, at)
    PROVE  Going(s, AfterReady(r, d), ReadyOf(r, d, "ready"), d, D, P, "save")
<1>. DEFINE q == AfterReady(r, d)
            y == ReadyOf(r, d, "ready")
            first == FirstIndex(d.log)
<1>1. /\ at \notin Handing /\ at # "answer" /\ at # "lightHs" /\ at \notin Saving
  BY DEF Quiet, Handing, Saving
<1>2. Own(r, d, s) /\ JoinsOn(r, d) /\ Tallied(r, x, d, at) /\ Worked(r, x, d, D, at)
      /\ Awaited(r, x, d, P, at) /\ \A m \in r.msgs \cup x.msgs : m.to # s
  BY DEF Going, Joined
<1>3. Promised(x, d, at) = d.hs.commit /\ Given(r, at) = r.csi /\ Hand(x, at) = {}
  BY <1>1 DEF Promised, Given, Hand
<1>4. /\ r.csi <= r.prevHs.commit /\ r.prevHs.commit <= r.committed
      /\ r.prevHs.commit = d.hs.commit /\ (r.applied <= r.csi \/ r.applied < first)
  BY <1>1, <1>2, <1>3 DEF Tallied
<1>5. Gapless(d.log) /\ (first = 1 \/ first <= r.prevHs.commit)
  BY <1>4 DEF Rooted
<1>6. /\ q \in RawNodeState /\ q.msgs = {} /\ q.unst = r.unst /\ q.committed = r.committed
      /\ q.prevHs = HardStateOf(r) /\ q.csi = r.committed
      /\ y.last \in {0, r.committed} /\ first <= r.committed + 1
      /\ y.next..y.last \subseteq Rows(d.log)
      /\ \A i \in first..r.committed : i <= r.csi \/ i \in y.next..y.last
  BY <1>2, <1>4, <1>5, AfterReadyType, HandsOutAll
<1>7. q.applied = r.applied /\ q.match = r.match
  BY DEF AfterReady, AfterHandOut, RawNodeState
<1>8. /\ y.stage = "ready" /\ y.msgs = r.msgs /\ y.hs = HardStateOf(r)
      /\ y.hsChanged = (HardStateOf(r) # r.prevHs)
  BY DEF ReadyOf
<1>. HIDE DEF q, y
<1>9. HardStateOf(r).commit = r.committed
  BY DEF HardStateOf
<1>10. /\ r.csi \in Int /\ r.applied \in Int /\ r.committed \in Int /\ first \in Int
       /\ LastIndex(d.log) \in Int
  BY Numbers, FirstIndexType, LastIndexType
<1>11. Given(q, "save") = r.committed /\ Hand(y, "save") = y.next..y.last
  BY <1>6 DEF Given, Hand, Handing
<1>12. Promised(y, d, "save") = r.committed
  <2>1. CASE y.hsChanged
    BY <1>8, <1>9, <2>1 DEF Promised, Saving
  <2>2. CASE ~y.hsChanged
    BY <1>4, <1>8, <1>9, <2>2 DEF Promised
  <2>. QED
    BY <2>1, <2>2
<1>13. Own(q, d, s)
  BY <1>2, <1>6, <1>7 DEF Own
<1>14. Joined(q, d, "save")
  <2>1. JoinsOn(q, d)
    BY <1>2, <1>6 DEF JoinsOn, LastLogIndex
  <2>. QED
    BY <2>1 DEF Joined, Kept
<1>15. Tallied(q, y, d, "save")
  <2>1. InTurn(q, y, d)
    BY <1>6, <1>8, <1>9 DEF InTurn
  <2>2. q.csi <= q.prevHs.commit /\ q.prevHs.commit <= q.committed
    BY <1>6, <1>9, <1>10
  <2>3. q.applied <= q.csi \/ q.applied < first
    BY <1>4, <1>6, <1>7, <1>10, Numbers
  <2>. QED
    BY <1>6, <1>9, <1>12, <2>1, <2>2, <2>3 DEF Tallied
<1>16. Worked(q, y, d, D, "save")
  <2>. SUFFICES ASSUME NEW i \in first..r.committed, i \notin y.next..y.last PROVE i \in D
    BY <1>11 DEF Worked
  <2>1. i \in first..r.csi
    BY <1>6, <1>10
  <2>. QED
    BY <1>2, <1>3, <2>1 DEF Worked
<1>17. Awaited(q, y, d, P, "save")
  <2>. SUFFICES ASSUME NEW p \in P
                PROVE  \E i \in Index : /\ EntryAt(q, d, i).ctx = p
                                        /\ i > r.committed \/ i \in y.next..y.last
    BY <1>11 DEF Awaited
  <2>1. PICK i \in Index : EntryAt(r, d, i).ctx = p /\ i > r.csi
    BY <1>2, <1>3 DEF Awaited
  <2>2. EntryAt(q, d, i) = EntryAt(r, d, i)
    BY <1>6 DEF EntryAt, LastLogIndex
  <2>3. EntryAt(r, d, i) # NoEntry
    BY <2>1, EntryOfReq
  <2>4. i \in Rows(r.unst) \/ i \in Rows(d.log)
    BY <2>3, EntryIsRow
  <2>5. i \in Int
    BY Places
  <2>6. CASE i > r.committed
    BY <2>1, <2>2, <2>6
  <2>7. CASE ~(i > r.committed)
    <3>1. i \in Rows(d.log)
      <4>1. i <= LastIndex(d.log)
        BY <1>2, <1>10, <2>5, <2>7 DEF Own
      <4>2. i \notin Rows(r.unst)
        BY <1>2, <1>10, <2>5, <4>1 DEF JoinsOn
      <4>. QED
        BY <2>4, <4>2
    <3>2. first <= i
      BY <3>1, FirstIndexLeast
    <3>3. i \in first..r.committed
      BY <1>10, <2>5, <2>7, <3>2
    <3>4. i \in y.next..y.last
      BY <1>6, <1>10, <2>1, <2>5, <3>3
    <3>. QED
      BY <2>1, <2>2, <3>4
  <2>. QED
    BY <2>6, <2>7
<1>18. \A m \in q.msgs \cup y.msgs : m.to # s
  BY <1>2, <1>6, <1>8
<1>. QED
  BY <1>13, <1>14, <1>15, <1>16, <1>17, <1>18 DEF Going, q, y

(* The log grows by the entries of the Ready.                              *)
LEMMA SaveGoes ==
    ASSUME NEW s \in Server, NEW r \in RawNodeState, NEW x \in Ready, NEW d \in Disk, NEW D, NEW P,
           Rooted(d), Going(s, r, x, d, D, P, "save"), x.ents = r.unst
    PROVE  LET e == AppendEntries(d, x.ents)
           IN  Rooted(e) /\ Going(s, r, x, e, D, P, "saveHs")
<1>. DEFINE e == AppendEntries(d, x.ents)
<1>1. Own(r, d, s) /\ JoinsOn(r, d) /\ Tallied(r, x, d, "save") /\ Worked(r, x, d, D, "save")
      /\ Awaited(r, x, d, P, "save") /\ \A m \in r.msgs \cup x.msgs : m.to # s
  BY DEF Going, Joined
<1>2. /\ Gapless(e.log) /\ InStorage(r, e)
      /\ FirstIndex(e.log) = FirstIndex(d.log) /\ LastIndex(d.log) <= LastIndex(e.log)
      /\ Rows(d.log) \subseteq Rows(e.log)
      /\ \A i \in Index : EntryAt(r, e, i) = EntryAt(r, d, i)
  BY <1>1, SaveJoins DEF Rooted
<1>3. e.hs = d.hs
  BY DEF AppendEntries, Disk
<1>. HIDE DEF e
<1>4. /\ r.match[s] \in Int /\ r.committed \in Int
      /\ LastIndex(d.log) \in Int /\ LastIndex(e.log) \in Int
  BY Numbers, LastIndexType, IndexFacts DEF RawNodeState
<1>5. Rooted(e)
  BY <1>2, <1>3 DEF Rooted
<1>6. Own(r, e, s)
  BY <1>1, <1>2, <1>4 DEF Own
<1>7. Promised(x, e, "saveHs") = Promised(x, d, "save") /\ Hand(x, "saveHs") = Hand(x, "save")
      /\ Given(r, "saveHs") = Given(r, "save")
  BY <1>3 DEF Promised, Saving, Hand, Handing, Given
<1>8. InTurn(r, x, d)
  BY <1>1 DEF Tallied, Handing
<1>9. InTurn(r, x, e)
  BY <1>2, <1>8 DEF InTurn
<1>10. Tallied(r, x, e, "saveHs")
  BY <1>1, <1>2, <1>7, <1>9 DEF Tallied
<1>11. Joined(r, e, "saveHs")
  BY <1>2 DEF Joined, Quiet
<1>12. Worked(r, x, e, D, "saveHs") /\ Awaited(r, x, e, P, "saveHs")
  BY <1>1, <1>2, <1>7 DEF Worked, Awaited
<1>. QED
  BY <1>1, <1>5, <1>6, <1>10, <1>11, <1>12 DEF Going, e

(* From the entries saved to a command applied the log stays, and so does  *)
(* what is in hand.                                                        *)
LEMMA StoredGoes ==
    ASSUME NEW s, NEW r, NEW x, NEW d, NEW e, NEW D, NEW D2, NEW P,
           NEW at \in Stored, NEW to \in Stored, Going(s, r, x, d, D, P, at), e.log = d.log,
           Promised(x, e, to) = Promised(x, d, at), D \subseteq D2, to = "answer" => x.next \in D2
    PROVE  Going(s, r, x, e, D2, P, to)
<1>1. /\ at \notin Quiet \cup {"save"} /\ to \notin Quiet \cup {"save"} /\ at \in Kept /\ to \in Kept
      /\ at # "lightHs" /\ to # "lightHs"
      /\ at \in Handing \cup {"answer"} /\ to \in Handing \cup {"answer"}
  BY DEF Stored, Quiet, Kept, Handing
<1>2. Own(r, d, s) /\ InStorage(r, d) /\ Tallied(r, x, d, at) /\ Worked(r, x, d, D, at)
      /\ Awaited(r, x, d, P, at) /\ \A m \in r.msgs \cup x.msgs : m.to # s
  BY <1>1 DEF Going, Joined
<1>3. LastLogIndex(r, e) = LastLogIndex(r, d) /\ \A i : EntryAt(r, e, i) = EntryAt(r, d, i)
  BY DEF LastLogIndex, EntryAt
<1>4. Own(r, e, s) /\ InStorage(r, e) /\ InTurn(r, x, e)
  BY <1>1, <1>2, <1>3 DEF Own, InStorage, Tallied, InTurn
<1>5. Tallied(r, x, e, to)
  BY <1>1, <1>2, <1>4 DEF Tallied
<1>6. Hand(x, to) = Hand(x, at) /\ Given(r, to) = Given(r, at)
  BY <1>1 DEF Hand, Given
<1>7. Worked(r, x, e, D2, to) /\ Awaited(r, x, e, P, to)
  BY <1>2, <1>3, <1>6 DEF Worked, Awaited
<1>. QED
  BY <1>1, <1>2, <1>4, <1>5, <1>7 DEF Going, Joined

(* The hard state of the Ready, if it has one, is what was promised.       *)
LEMMA SaveHsGoes ==
    ASSUME NEW s \in Server, NEW r \in RawNodeState, NEW x \in Ready, NEW d \in Disk, NEW D, NEW P,
           Rooted(d), Going(s, r, x, d, D, P, "saveHs"),
           x.hs.commit = r.prevHs.commit, d.hs.commit <= r.prevHs.commit
    PROVE  LET e == IF x.hsChanged THEN SaveHardState(d, x.hs) ELSE d
           IN  Rooted(e) /\ Going(s, r, x, e, D, P, "send")
<1>. DEFINE e == IF x.hsChanged THEN SaveHardState(d, x.hs) ELSE d
<1>1. /\ e.log = d.log /\ e.hs.commit = IF x.hsChanged THEN x.hs.commit ELSE d.hs.commit
  BY DEF SaveHardState, Disk
<1>. HIDE DEF e
<1>2. d.hs.commit \in Int /\ r.prevHs.commit \in Int /\ FirstIndex(d.log) \in Int
  BY Commitments, FirstIndexType
<1>3. Rooted(e)
  BY <1>1, <1>2 DEF Rooted
<1>4. Promised(x, e, "send") = Promised(x, d, "saveHs")
  BY <1>1 DEF Promised, Saving
<1>5. Going(s, r, x, e, D, P, "send")
  BY <1>1, <1>4, StoredGoes DEF Stored
<1>. QED
  BY <1>3, <1>5 DEF e

(* On to the next entry: the one in hand is processed, and nobody waits    *)
(* for it any longer.                                                      *)
LEMMA NextGoes ==
    ASSUME NEW s \in Server, NEW r \in RawNodeState, NEW q, NEW x \in Ready, NEW y,
           NEW d \in Disk, NEW e, NEW D, NEW D2, NEW P \in SUBSET Req, NEW P2 \in SUBSET P,
           NEW at \in {"apply", "answer"}, Going(s, r, x, d, D, P, at), x.next <= x.last,
           Continues(r, q, d, s), q.unst = r.unst, e.log = d.log, e.hs = d.hs,
           y.next = x.next + 1, y.last = x.last, y.stage = x.stage, y.msgs = x.msgs,
           D \subseteq D2, x.next \in D2, d.log[x.next].ctx \notin P2
    PROVE  Going(s, q, y, e, D2, P2, "apply")
<1>1. Own(r, d, s) /\ InStorage(r, d) /\ Tallied(r, x, d, at) /\ Worked(r, x, d, D, at)
      /\ Awaited(r, x, d, P, at) /\ \A m \in r.msgs \cup x.msgs : m.to # s
  BY DEF Going, Joined, Kept
<1>2. /\ q \in RawNodeState /\ Own(q, d, s)
      /\ q.csi = r.csi /\ q.applied = r.applied /\ q.prevHs = r.prevHs
      /\ q.committed >= r.committed
      /\ \A m \in q.msgs : m \in r.msgs \/ m.to # s
  BY DEF Continues
<1>3. LastLogIndex(q, e) = LastLogIndex(r, d) /\ \A i : EntryAt(q, e, i) = EntryAt(r, d, i)
  BY DEF LastLogIndex, EntryAt
<1>4. /\ x.next \in Int /\ x.last \in Int
      /\ r.prevHs.commit \in Int /\ r.committed \in Int /\ q.committed \in Int
  BY <1>2, Numbers
<1>5. InTurn(r, x, d)
  BY <1>1 DEF Tallied, Handing
<1>6. y.next..y.last = (x.next..x.last) \ {x.next} /\ x.next \in x.next..x.last
  BY <1>4
<1>7. Own(q, e, s) /\ InStorage(q, e)
  BY <1>1, <1>2, <1>3 DEF Own, InStorage
<1>8. InTurn(q, y, e)
  BY <1>2, <1>5, <1>6 DEF InTurn
<1>9. Promised(y, e, "apply") = Promised(x, d, at)
  BY DEF Promised, Saving
<1>10. Tallied(q, y, e, "apply")
  <2>1. r.csi <= r.prevHs.commit /\ r.prevHs.commit <= r.committed
        /\ r.prevHs.commit = Promised(x, d, at)
        /\ (r.applied <= r.csi \/ r.applied < FirstIndex(d.log))
    BY <1>1 DEF Tallied
  <2>2. r.prevHs.commit <= q.committed
    BY <1>2, <1>4, <2>1
  <2>. QED
    BY <1>2, <1>8, <1>9, <2>1, <2>2 DEF Tallied
<1>11. /\ Hand(x, at) = x.next..x.last /\ Hand(y, "apply") = (x.next..x.last) \ {x.next}
       /\ Given(r, at) = r.csi /\ Given(q, "apply") = r.csi
  BY <1>2, <1>6 DEF Hand, Handing, Given
<1>12. Worked(q, y, e, D2, "apply")
  BY <1>1, <1>11 DEF Worked
<1>13. Awaited(q, y, e, P2, "apply")
  <2>. SUFFICES ASSUME NEW p \in P2
                PROVE  \E i \in Index : /\ EntryAt(r, d, i).ctx = p
                                        /\ i > r.csi \/ i \in (x.next..x.last) \ {x.next}
    BY <1>3, <1>11 DEF Awaited
  <2>1. PICK i \in Index : EntryAt(r, d, i).ctx = p /\ (i > r.csi \/ i \in x.next..x.last)
    BY <1>1, <1>11 DEF Awaited
  <2>2. i # x.next
    <3>. SUFFICES ASSUME i = x.next PROVE FALSE
      OBVIOUS
    <3>1. i \in Rows(d.log)
      BY <1>5, <1>6 DEF InTurn
    <3>2. EntryAt(r, d, i) # NoEntry
      BY <2>1, EntryOfReq
    <3>3. EntryAt(r, d, i) = d.log[i]
      BY <1>1, <3>2, EntryIsRow DEF InStorage, Rows
    <3>. QED
      BY <2>1, <3>3
  <2>. QED
    BY <2>1, <2>2
<1>14. \A m \in q.msgs \cup y.msgs : m.to # s
  BY <1>1, <1>2
<1>. QED
  BY <1>7, <1>10, <1>12, <1>13, <1>14 DEF Going, Joined, Kept, Quiet

(* advance(): what it commits by itself is to be fetched.                  *)
LEMMA AdvanceGoes ==
    ASSUME NEW s \in Server, NEW r \in RawNodeState, NEW x \in Ready, NEW d \in Disk, NEW D,
           NEW P \in SUBSET Req, NEW to, Going(s, r, x, d, D, P, "apply"),
           ~(x.next <= x.last), x.stage = "ready",
           to = IF LightCommit(r, d, s) THEN "lightHs" ELSE "compact"
    PROVE  /\ Going(s, Advance(r, d, s), x, d, D, P, to)
           /\ \A m \in LightMsgs(r, d, s) : m.to # s
<1>. DEFINE q == Advance(r, d, s)
            first == FirstIndex(d.log)
<1>1. Own(r, d, s) /\ InStorage(r, d) /\ Tallied(r, x, d, "apply") /\ Worked(r, x, d, D, "apply")
      /\ Awaited(r, x, d, P, "apply") /\ \A m \in r.msgs \cup x.msgs : m.to # s
  BY DEF Going, Joined, Kept
<1>2. InTurn(r, x, d) /\ r.prevHs.commit = d.hs.commit /\ r.prevHs.commit <= r.committed
  BY <1>1 DEF Tallied, Handing, Promised, Saving
<1>3. x.last \in {0, r.csi} /\ r.csi = r.prevHs.commit /\ first <= r.csi + 1
  BY <1>2 DEF InTurn
<1>4. r.csi <= r.committed
  BY <1>2, <1>3
<1>5. /\ q \in RawNodeState /\ Own(q, d, s) /\ q.unst = EmptyLog /\ q.msgs = {}
      /\ q.applied = r.csi /\ q.csi = q.committed /\ q.prevHs.commit = q.committed
      /\ r.csi <= q.committed
      /\ LightCommit(r, d, s) <=> q.committed > r.csi
      /\ \A m \in LightMsgs(r, d, s) : m \in r.msgs \/ m.to # s
  BY <1>1, <1>3, <1>4, AdvanceContinues
<1>. HIDE DEF q
<1>6. /\ r.csi \in Int /\ q.committed \in Int /\ first \in Int /\ x.next \in Int /\ x.last \in Int
  BY <1>5, Numbers, FirstIndexType
<1>7. LastLogIndex(q, d) = LastIndex(d.log) /\ LastLogIndex(r, d) = LastIndex(d.log)
  BY <1>1, <1>5, EmptyLogType DEF LastLogIndex, InStorage
<1>8. Joined(q, d, to)
  <2>1. InStorage(q, d)
    BY <1>5, <1>7, EmptyLogType DEF InStorage
  <2>. QED
    BY <2>1 DEF Joined, Quiet
<1>9. Given(q, to) = r.csi /\ Hand(x, to) = {} /\ Given(r, "apply") = r.csi
      /\ Hand(x, "apply") = {}
  <2>1. x.next..x.last = {}
    BY <1>6
  <2>2. to = "compact" => q.csi = r.csi
    BY <1>5, <1>6
  <2>. QED
    BY <1>5, <2>1, <2>2 DEF Given, Hand, Handing
<1>10. Tallied(q, x, d, to)
  <2>1. CASE to = "lightHs"
    <3>1. ToFetch(q, x, d)
      BY <1>3, <1>5, <1>6, <2>1 DEF ToFetch
    <3>2. q.applied <= q.csi /\ q.csi <= q.prevHs.commit /\ q.prevHs.commit <= q.committed
      BY <1>5, <1>6
    <3>. QED
      BY <2>1, <3>1, <3>2 DEF Tallied, Handing
  <2>2. CASE to = "compact"
    <3>1. q.prevHs.commit = d.hs.commit
      BY <1>2, <1>3, <1>5, <1>6, <2>2
    <3>2. q.applied <= q.csi /\ q.csi <= q.prevHs.commit /\ q.prevHs.commit <= q.committed
      BY <1>5, <1>6
    <3>. QED
      BY <2>2, <3>1, <3>2 DEF Tallied, Handing, Promised, Saving
  <2>. QED
    BY <2>1, <2>2
<1>11. Worked(q, x, d, D, to)
  BY <1>1, <1>9 DEF Worked
<1>12. Awaited(q, x, d, P, to)
  <2>. SUFFICES ASSUME NEW p \in P
                PROVE  \E i \in Index : EntryAt(q, d, i).ctx = p /\ i > r.csi
    BY <1>9 DEF Awaited
  <2>1. PICK i \in Index : EntryAt(r, d, i).ctx = p /\ i > r.csi
    BY <1>1, <1>9 DEF Awaited
  <2>2. EntryAt(r, d, i) # NoEntry
    BY <2>1, EntryOfReq
  <2>3. i <= LastIndex(d.log) /\ EntryAt(r, d, i) = d.log[i]
    BY <1>1, <1>7, <2>2, EntryIsRow DEF InStorage, Rows
  <2>4. q.unst[i] = NoEntry
    BY <1>5 DEF EmptyLog
  <2>5. EntryAt(q, d, i) = d.log[i]
    BY <1>7, <2>3, <2>4, EntryIs
  <2>. QED
    BY <2>1, <2>3, <2>5
<1>13. \A m \in q.msgs \cup x.msgs : m.to # s
  BY <1>1, <1>5
<1>14. \A m \in LightMsgs(r, d, s) : m.to # s
  BY <1>1, <1>5
<1>. QED
  BY <1>5, <1>8, <1>10, <1>11, <1>12, <1>13, <1>14 DEF Going, q

(* The fetch behind advance() begins where the Ready ended.                *)
LEMMA FetchGoes ==
    ASSUME NEW s \in Server, NEW r \in RawNodeState, NEW x \in Ready, NEW y \in Ready,
           NEW d \in Disk, NEW D, NEW P,
           Rooted(d), Going(s, r, x, d, D, P, "lightHs"), d.hs.commit <= r.prevHs.commit,
           y.stage = "late", y.next = r.applied + 1, y.last = r.committed, y.msgs = x.msgs
    PROVE  LET e == SaveHardState(d, HardStateOf(r))
           IN  Rooted(e) /\ Going(s, r, y, e, D, P, "apply")
<1>. DEFINE e == SaveHardState(d, HardStateOf(r))
            first == FirstIndex(d.log)
<1>1. Own(r, d, s) /\ InStorage(r, d) /\ Tallied(r, x, d, "lightHs") /\ Worked(r, x, d, D, "lightHs")
      /\ Awaited(r, x, d, P, "lightHs") /\ \A m \in r.msgs \cup x.msgs : m.to # s
  BY DEF Going, Joined, Kept
<1>2. /\ r.csi = r.committed /\ r.prevHs.commit = r.committed /\ r.applied < r.committed
      /\ first <= r.applied + 1
  BY <1>1 DEF Tallied, ToFetch
<1>3. e.log = d.log /\ e.hs.commit = r.committed
  BY DEF SaveHardState, HardStateOf, Disk
<1>. HIDE DEF e
<1>4. /\ r.csi \in Int /\ r.applied \in Int /\ r.committed \in Int /\ d.hs.commit \in Int
      /\ first \in Int /\ first >= 1 /\ LastIndex(d.log) \in Int
      /\ LastIndex(d.log) <= MaxIndex /\ MaxIndex \in Int
  BY Numbers, Commitments, FirstIndexType, LastIndexType, IndexFacts
<1>5. Rooted(e)
  BY <1>2, <1>3, <1>4 DEF Rooted
<1>6. LastLogIndex(r, e) = LastLogIndex(r, d) /\ \A i : EntryAt(r, e, i) = EntryAt(r, d, i)
  BY <1>3 DEF LastLogIndex, EntryAt
<1>7. Own(r, e, s) /\ InStorage(r, e)
  BY <1>1, <1>3, <1>6 DEF Own, InStorage
<1>8. InTurn(r, y, e)
  <2>1. ASSUME NEW i \in y.next..y.last PROVE i \in Rows(d.log)
    <3>1. r.committed <= LastIndex(d.log)
      BY <1>1 DEF Own
    <3>2. i \in Int /\ first <= i /\ i <= LastIndex(d.log) /\ i >= 1 /\ i <= MaxIndex
      BY <1>2, <1>4, <3>1
    <3>3. i \in Index
      BY <1>4, <3>2 DEF Index
    <3>. QED
      BY <3>2, <3>3, RowsAre DEF Rooted
  <2>. QED
    BY <1>2, <1>3, <2>1 DEF InTurn
<1>9. Tallied(r, y, e, "apply")
  <2>1. r.applied <= r.csi
    BY <1>2, <1>4
  <2>2. r.csi <= r.prevHs.commit /\ r.prevHs.commit <= r.committed
    BY <1>2, <1>4
  <2>. QED
    BY <1>2, <1>3, <1>8, <2>1, <2>2 DEF Tallied, Promised, Saving
<1>10. /\ Given(r, "lightHs") = r.applied /\ Hand(x, "lightHs") = {}
       /\ Given(r, "apply") = r.csi /\ Hand(y, "apply") = (r.applied + 1)..r.csi
  BY <1>2 DEF Given, Hand, Handing
<1>11. Worked(r, y, e, D, "apply")
  <2>. SUFFICES ASSUME NEW i \in first..r.csi, i \notin (r.applied + 1)..r.csi PROVE i \in D
    BY <1>3, <1>10 DEF Worked
  <2>1. i \in first..r.applied
    BY <1>4
  <2>. QED
    BY <1>1, <1>10, <2>1 DEF Worked
<1>12. Awaited(r, y, e, P, "apply")
  <2>. SUFFICES ASSUME NEW p \in P
                PROVE  \E i \in Index : /\ EntryAt(r, d, i).ctx = p
                                        /\ i > r.csi \/ i \in (r.applied + 1)..r.csi
    BY <1>6, <1>10 DEF Awaited
  <2>1. PICK i \in Index : EntryAt(r, d, i).ctx = p /\ i > r.applied
    BY <1>1, <1>10 DEF Awaited
  <2>2. i \in Int
    BY Places
  <2>3. i > r.csi \/ i \in (r.applied + 1)..r.csi
    BY <1>4, <2>1, <2>2
  <2>. QED
    BY <2>1, <2>3
<1>13. \A m \in r.msgs \cup y.msgs : m.to # s
  BY <1>1
<1>. QED
  BY <1>5, <1>7, <1>9, <1>11, <1>12, <1>13 DEF Going, Joined, Quiet, e

(* advance_apply_to() behind the fetch.                                    *)
LEMMA FinishGoes ==
    ASSUME NEW s \in Server, NEW r \in RawNodeState, NEW x \in Ready, NEW d \in Disk, NEW D, NEW P,
           Going(s, r, x, d, D, P, "apply"), ~(x.next <= x.last), x.stage = "late"
    PROVE  Going(s, [r EXCEPT !.applied = x.last], x, d, D, P, "compact")
<1>. DEFINE q == [r EXCEPT !.applied = x.last]
<1>1. Own(r, d, s) /\ InStorage(r, d) /\ Tallied(r, x, d, "apply") /\ Worked(r, x, d, D, "apply")
      /\ Awaited(r, x, d, P, "apply") /\ \A m \in r.msgs \cup x.msgs : m.to # s
  BY DEF Going, Joined, Kept
<1>2. /\ q.applied = x.last /\ q.csi = r.csi /\ q.prevHs = r.prevHs /\ q.committed = r.committed
      /\ q.unst = r.unst /\ q.match = r.match /\ q.msgs = r.msgs
  BY DEF RawNodeState
<1>. HIDE DEF q
<1>3. x.last = r.csi
  BY <1>1 DEF Tallied, Handing, InTurn
<1>4. r.csi \in Int /\ x.next \in Int /\ x.last \in Int
  BY Numbers
<1>5. LastLogIndex(q, d) = LastLogIndex(r, d) /\ \A i : EntryAt(q, d, i) = EntryAt(r, d, i)
  BY <1>2 DEF LastLogIndex, EntryAt
<1>6. Own(q, d, s) /\ InStorage(q, d)
  BY <1>1, <1>2, <1>5 DEF Own, InStorage
<1>7. Tallied(q, x, d, "compact")
  <2>1. q.applied <= q.csi
    BY <1>2, <1>3, <1>4
  <2>. QED
    BY <1>1, <1>2, <2>1 DEF Tallied, Promised, Saving, Handing
<1>8. /\ Given(q, "compact") = r.csi /\ Given(r, "apply") = r.csi
      /\ Hand(x, "compact") = {} /\ Hand(x, "apply") = {}
  <2>1. x.next..x.last = {}
    BY <1>4
  <2>. QED
    BY <1>2, <2>1 DEF Given, Hand, Handing
<1>9. Worked(q, x, d, D, "compact") /\ Awaited(q, x, d, P, "compact")
  BY <1>1, <1>5, <1>8 DEF Worked, Awaited
<1>. QED
  BY <1>1, <1>2, <1>6, <1>7, <1>9 DEF Going, Joined, Quiet, q

(* Compaction takes rows that are behind everything that is waited for.    *)
LEMMA CompactGoes ==
    ASSUME NEW s \in Server, NEW r \in RawNodeState, NEW x, NEW d \in Disk, NEW e, NEW D,
           NEW P \in SUBSET Req, NEW to \in Quiet,
           Rooted(d), Going(s, r, x, d, D, P, "compact"), Rows(r.unst) = {},
           e = d \/ e = CompactLogBefore(d, SnapshotIndex(d, r.applied))
    PROVE  Rooted(e) /\ Going(s, r, NoReady, e, D, P, to)
<1>. DEFINE first == FirstIndex(d.log)
            begin == FirstIndex(e.log)
            last  == LastIndex(d.log)
<1>1. Own(r, d, s) /\ InStorage(r, d) /\ Tallied(r, x, d, "compact") /\ Worked(r, x, d, D, "compact")
      /\ Awaited(r, x, d, P, "compact") /\ \A m \in r.msgs \cup x.msgs : m.to # s
  BY DEF Going, Joined, Kept
<1>2. /\ r.csi <= r.prevHs.commit /\ r.prevHs.commit <= r.committed
      /\ r.prevHs.commit = d.hs.commit /\ (r.applied <= r.csi \/ r.applied < first)
  BY <1>1 DEF Tallied, Promised, Saving
<1>3. r.applied \in 0..MaxIndex
  BY DEF RawNodeState
<1>4. /\ r.applied \in Int /\ r.csi \in Int /\ r.prevHs.commit \in Int /\ first \in Int
      /\ begin \in Int /\ last \in Int
  BY Numbers, FirstIndexType, LastIndexType
<1>5. /\ Gapless(e.log) /\ e.hs = d.hs /\ LastIndex(e.log) = last
      /\ begin = first \/ begin <= r.applied
      /\ \A i \in Index : i >= r.applied => e.log[i] = d.log[i]
      /\ \A i \in Rows(d.log) : r.applied < first => e.log[i] = d.log[i]
  <2>1. CASE e = d
    BY <2>1 DEF Rooted
  <2>2. CASE e = CompactLogBefore(d, SnapshotIndex(d, r.applied))
    BY <1>3, <2>2, CompactKeeps DEF Rooted
  <2>. QED
    BY <2>1, <2>2
<1>6. first <= begin
  <2>1. CASE e = d
    BY <1>4, <2>1
  <2>2. CASE e = CompactLogBefore(d, SnapshotIndex(d, r.applied))
    BY <1>3, <2>2, FirstRises
  <2>. QED
    BY <2>1, <2>2
<1>. HIDE DEF first, begin, last
<1>7. begin = first \/ (r.applied <= r.csi /\ begin <= r.csi)
  BY <1>2, <1>4, <1>5, <1>6
<1>8. Rooted(e)
  <2>1. first = 1 \/ first <= d.hs.commit
    BY DEF Rooted, first
  <2>2. begin = 1 \/ begin <= d.hs.commit
    BY <1>2, <1>4, <1>7, <2>1
  <2>. QED
    BY <1>5, <2>2 DEF Rooted, begin
<1>9. LastLogIndex(r, d) = last /\ LastLogIndex(r, e) = last
  BY <1>5 DEF LastLogIndex, last
<1>10. Own(r, e, s)
  BY <1>1, <1>5 DEF Own, last
<1>11. JoinsOn(r, e)
  <2>1. \A i \in Index : ~(last < i /\ i <= last)
    BY <1>4, Places
  <2>. QED
    BY <1>5, <1>9, <2>1 DEF JoinsOn
<1>12. /\ to \notin Handing /\ to # "answer" /\ to # "lightHs" /\ to \notin Saving /\ to \notin Kept
  BY DEF Quiet, Handing, Saving, Kept
<1>13. Tallied(r, NoReady, e, to)
  <2>1. Promised(NoReady, e, to) = d.hs.commit
    BY <1>5, <1>12 DEF Promised
  <2>2. r.applied <= r.csi \/ r.applied < begin
    BY <1>2, <1>4, <1>6
  <2>. QED
    BY <1>2, <1>12, <2>1, <2>2 DEF Tallied, begin
<1>14. /\ Given(r, "compact") = r.csi /\ Given(r, to) = r.csi
       /\ Hand(x, "compact") = {} /\ Hand(NoReady, to) = {}
  BY <1>12 DEF Given, Hand, Handing
<1>15. Worked(r, NoReady, e, D, to)
  <2>1. \A i \in first..r.csi : i \in D
    BY <1>1, <1>14 DEF Worked, first
  <2>2. \A i \in begin..r.csi : i \in first..r.csi
    BY <1>4, <1>6
  <2>. QED
    BY <1>12, <1>14, <2>1, <2>2 DEF Worked, begin
<1>16. Awaited(r, NoReady, e, P, to)
  <2>. SUFFICES ASSUME NEW p \in P
                PROVE  \E i \in Index : EntryAt(r, e, i).ctx = p /\ i > r.csi
    BY <1>14 DEF Awaited
  <2>1. PICK i \in Index : EntryAt(r, d, i).ctx = p /\ i > r.csi
    BY <1>1, <1>14 DEF Awaited
  <2>2. EntryAt(r, d, i) # NoEntry
    BY <2>1, EntryOfReq
  <2>3. /\ i <= last /\ i \in Rows(d.log)
        /\ EntryAt(r, d, i) = IF r.unst[i] # NoEntry THEN r.unst[i] ELSE d.log[i]
    BY <1>9, <2>2, EntryIsRow
  <2>4. e.log[i] = d.log[i]
    <3>1. i \in Int
      BY Places
    <3>2. i >= r.applied \/ r.applied < first
      BY <1>2, <1>4, <2>1, <3>1
    <3>. QED
      BY <1>5, <2>3, <3>2 DEF first
  <2>5. EntryAt(r, e, i) = IF r.unst[i] # NoEntry THEN r.unst[i] ELSE e.log[i]
    BY <1>9, <2>3, EntryIs
  <2>. QED
    BY <2>1, <2>3, <2>4, <2>5
<1>17. \A m \in r.msgs \cup NoReady.msgs : m.to # s
  BY <1>1, NoReadyType
<1>. QED
  BY <1>8, <1>10, <1>11, <1>12, <1>13, <1>15, <1>16, <1>17 DEF Going, Joined

(* A start begins with the rows the disk holds.                            *)
LEMMA FreshGoes ==
    ASSUME NEW s \in Server, NEW d \in Disk, Rooted(d), CommitStored(d), NEW to \in Quiet
    PROVE  Going(s, NewRawNode(d), NoReady, d, {}, {}, to)
<1>. DEFINE r == NewRawNode(d)
            first == FirstIndex(d.log)
<1>1. /\ r.csi = 0 /\ r.applied = first - 1 /\ r.committed = d.hs.commit /\ r.prevHs = d.hs
      /\ r.unst = EmptyLog /\ r.msgs = {} /\ \A f \in Server : r.match[f] = 0
  BY DEF NewRawNode
<1>. HIDE DEF r
<1>2. /\ d.hs.commit \in 0..MaxIndex
  BY DEF Disk, HardState
<1>3. /\ d.hs.commit \in Int /\ 0 <= d.hs.commit /\ first \in Int /\ first >= 1
      /\ LastIndex(d.log) \in Int /\ 0 <= LastIndex(d.log) /\ Rows(EmptyLog) = {}
  BY <1>2, FirstIndexType, LastIndexType, IndexFacts, EmptyLogType
<1>4. Own(r, d, s)
  BY <1>1, <1>3 DEF Own, CommitStored
<1>5. JoinsOn(r, d)
  <2>1. LastLogIndex(r, d) = LastIndex(d.log)
    BY <1>1, <1>3 DEF LastLogIndex
  <2>2. \A i \in Index : ~(LastIndex(d.log) < i /\ i <= LastIndex(d.log))
    BY <1>3, Places
  <2>. QED
    BY <1>1, <1>3, <2>1, <2>2 DEF JoinsOn
<1>6. /\ to \notin Handing /\ to # "answer" /\ to # "lightHs" /\ to \notin Saving /\ to \notin Kept
  BY DEF Quiet, Handing, Saving, Kept
<1>7. Tallied(r, NoReady, d, to)
  <2>1. Promised(NoReady, d, to) = d.hs.commit
    BY <1>6 DEF Promised
  <2>2. r.applied < first /\ d.hs.commit <= d.hs.commit
    BY <1>1, <1>3
  <2>. QED
    BY <1>1, <1>3, <1>6, <2>1, <2>2 DEF Tallied
<1>8. Worked(r, NoReady, d, {}, to) /\ Awaited(r, NoReady, d, {}, to)
  <2>1. first..Given(r, to) = {}
    BY <1>1, <1>3, <1>6 DEF Given
  <2>. QED
    BY <1>6, <2>1 DEF Worked, Awaited
<1>9. \A m \in r.msgs \cup NoReady.msgs : m.to # s
  BY <1>1, NoReadyType
<1>. QED
  BY <1>4, <1>5, <1>6, <1>7, <1>8, <1>9 DEF Going, Joined, r

---------------------------------------------------------------------------
(* The node s, action by action *)

Lone(s)    == Alone(s, raft[s], rd[s], disk[s], done[s], mgr[s].pending, pc[s])
Follows(s) == Alone(s, raft'[s], rd'[s], disk'[s], done'[s], mgr'[s].pending, pc'[s])

LEMMA LoneTypes ==
    ASSUME TypeOK, NEW s \in Server
    PROVE  mgr \in [Server -> Manager] /\ mgr[s].pending \in SUBSET Req
BY DEF TypeOK, Manager

LEMMA StopFollows ==
    ASSUME TypeOK, NEW s \in Server, Lone(s), pc' = [pc EXCEPT ![s] = "stopped"], UNCHANGED disk
    PROVE  Follows(s)
<1>1. pc'[s] = "stopped" /\ Rooted(disk'[s])
  BY NodeTypes DEF Lone, Alone
<1>. QED
  BY <1>1 DEF Follows, Alone

(* The library may be called while no Ready is in hand.                    *)
LEMMA QuietFollows ==
    ASSUME TypeOK, NEW s \in Server, Lone(s), pc[s] \in Quiet, pc'[s] \in Quiet,
           UNCHANGED <<disk, rd, done>>, mgr'[s].pending = mgr[s].pending,
           Continues(raft[s], raft'[s], disk[s], s)
    PROVE  Follows(s)
<1>1. pc[s] # "stopped"
  BY DEF Quiet
<1>2. Rooted(disk[s]) /\ Going(s, raft[s], rd[s], disk[s], done[s], mgr[s].pending, pc[s])
  BY <1>1 DEF Lone, Alone
<1>3. raft[s] \in RawNodeState /\ disk[s] \in Disk /\ mgr[s].pending \in SUBSET Req
  BY NodeTypes, LoneTypes
<1>4. Going(s, raft'[s], rd[s], disk[s], done[s], mgr[s].pending, pc'[s])
  BY <1>2, <1>3, QuietGoes
<1>. QED
  BY <1>2, <1>4 DEF Follows, Alone

LEMMA Owned ==
    ASSUME TypeOK, NEW s \in Server, Lone(s), pc[s] # "stopped"
    PROVE  /\ Own(raft[s], disk[s], s) /\ raft[s] \in RawNodeState /\ disk[s] \in Disk
           /\ Continues(raft[s], raft[s], disk[s], s)
<1>1. Own(raft[s], disk[s], s)
  BY DEF Lone, Alone, Going
<1>2. raft[s] \in RawNodeState /\ disk[s] \in Disk
  BY NodeTypes
<1>. QED
  BY <1>1, <1>2, SameContinues

LEMMA TickedContinues ==
    ASSUME TypeOK, NEW s \in Server, Lone(s), pc[s] # "stopped", NEW r \in Ticked(s)
    PROVE  Continues(raft[s], r, disk[s], s)
<1>1. /\ Own(raft[s], disk[s], s) /\ raft[s] \in RawNodeState /\ disk[s] \in Disk
      /\ Continues(raft[s], raft[s], disk[s], s)
  BY Owned
<1>2. \/ r = raft[s]
      \/ r = Bcast(raft[s], disk[s], s)
      \/ CanCampaign(raft[s], disk[s], s) /\ r = Campaign(raft[s], disk[s], s)
  BY DEF Ticked
<1>. QED
  BY <1>1, <1>2, BcastContinues, CampaignContinues

LEMMA TickFollows ==
    ASSUME TypeOK, NEW s \in Server, Lone(s), Tick(s) \/ TriggerReplication(s)
    PROVE  Follows(s)
<1>1. pc[s] \in Quiet /\ pc'[s] \in Quiet /\ UNCHANGED <<disk, rd, done>> /\ pc[s] # "stopped"
  BY NodeTypes DEF Tick, TriggerReplication, OnReadyThen, Goto, Quiet
<1>2. mgr'[s].pending = mgr[s].pending
  BY LoneTypes DEF Tick, TriggerReplication, Manager
<1>3. Continues(raft[s], raft'[s], disk[s], s)
  <2>1. CASE UNCHANGED raft
    BY <1>1, <2>1, Owned
  <2>2. CASE \E r \in Ticked(s) : SetRaft(s, r)
    <3>1. raft'[s] \in Ticked(s)
      BY <2>2, NodeTypes DEF SetRaft
    <3>. QED
      BY <1>1, <3>1, TickedContinues
  <2>. QED
    BY <2>1, <2>2 DEF Tick, TriggerReplication
<1>. QED
  BY <1>1, <1>2, <1>3, QuietFollows

LEMMA BootstrapFollows ==
    ASSUME TypeOK, NEW s \in Server, Lone(s), BootstrapCampaign(s) \/ BootstrapPropose(s)
    PROVE  Follows(s)
<1>1. pc[s] \in Quiet /\ pc'[s] \in Quiet /\ UNCHANGED <<disk, rd, done, mgr>> /\ pc[s] # "stopped"
  BY NodeTypes DEF BootstrapCampaign, BootstrapPropose, OnReadyThen, Goto, Quiet
<1>2. \/ raft'[s] = raft[s]
      \/ /\ CanCampaign(raft[s], disk[s], s)
         /\ raft'[s] = Campaign(raft[s], disk[s], s)
      \/ /\ LastLogIndex(raft[s], disk[s]) < MaxIndex
         /\ raft'[s] = Propose(raft[s], disk[s], s, NoReq)
  BY NodeTypes DEF BootstrapCampaign, BootstrapPropose, CanPropose, SetRaft
<1>3. Continues(raft[s], raft'[s], disk[s], s)
  BY <1>1, <1>2, Owned, CampaignContinues, ProposeContinues
<1>. QED
  BY <1>1, <1>3, QuietFollows

LEMMA ConfChangeFollows ==
    ASSUME TypeOK, NEW s \in Server, Lone(s), NEW kind \in {"add", "remove"}, NEW f \in Server,
           HandleConfChange(s, kind, f)
    PROVE  Follows(s)
<1>1. pc[s] \in Quiet /\ pc'[s] \in Quiet /\ UNCHANGED <<disk, rd, done>> /\ pc[s] # "stopped"
  BY NodeTypes DEF HandleConfChange, Quiet
<1>2. mgr'[s].pending = mgr[s].pending
  BY LoneTypes DEF HandleConfChange, Manager
<1>3. /\ raft'[s] = ProposeConfChange(raft[s], disk[s], s, kind, f)
      /\ LastLogIndex(raft[s], disk[s]) < MaxIndex
  BY NodeTypes DEF HandleConfChange, CanPropose, SetRaft
<1>4. Continues(raft[s], raft'[s], disk[s], s)
  BY <1>1, <1>3, Owned, ProposeConfChangeContinues
<1>. QED
  BY <1>1, <1>2, <1>4, QuietFollows

(* The command of an accepted proposal is the last of the log.             *)
LEMMA ProposalFollows ==
    ASSUME TypeOK, NEW s \in Server, Lone(s), NEW q \in Req, HandleProposal(s, q)
    PROVE  Follows(s)
<1>. DEFINE r == raft[s]
            d == disk[s]
            p == raft'[s]
            n == LastLogIndex(r, d)
<1>1. /\ pc[s] \in Quiet /\ pc'[s] \in Quiet /\ UNCHANGED <<disk, rd, done>> /\ pc[s] # "stopped"
  BY NodeTypes DEF HandleProposal, OnReadyThen, Goto, Quiet
<1>2. mgr'[s].pending = mgr[s].pending \cup {q}
  BY LoneTypes DEF HandleProposal, Manager
<1>3. p = Propose(r, d, s, q) /\ n < MaxIndex
  BY NodeTypes DEF HandleProposal, CanPropose, SetRaft
<1>4. Rooted(d) /\ Going(s, r, rd[s], d, done[s], mgr[s].pending, pc[s])
  BY <1>1 DEF Lone, Alone
<1>5. /\ r \in RawNodeState /\ d \in Disk /\ Own(r, d, s) /\ JoinsOn(r, d)
      /\ mgr[s].pending \in SUBSET Req
  BY <1>1, <1>4, Owned, LoneTypes DEF Going, Joined
<1>6. Continues(r, p, d, s) /\ \E e \in Entry \ {NoEntry} : e.ctx = q /\ p.unst = [r.unst EXCEPT ![n + 1] = e]
  BY <1>3, <1>5, ProposeContinues
<1>. HIDE DEF r, d, p, n
<1>7. PICK e \in Entry \ {NoEntry} : e.ctx = q /\ p.unst = [r.unst EXCEPT ![n + 1] = e]
  BY <1>6
<1>8. n \in Int /\ n >= 0 /\ n + 1 \in Index
  BY <1>3, LastLogIndexType, IndexFacts DEF Index, n
<1>9. p.unst[n + 1] = e /\ n + 1 \in Rows(p.unst)
  <2>1. r.unst \in [Index -> Entry]
    BY <1>5 DEF RawNodeState
  <2>. QED
    BY <1>7, <1>8, <2>1 DEF Rows
<1>10. n + 1 <= LastLogIndex(p, d)
  BY <1>9, LastIndexType DEF LastLogIndex
<1>11. EntryAt(p, d, n + 1).ctx = q
  <2>1. EntryAt(p, d, n + 1) = IF p.unst[n + 1] # NoEntry THEN p.unst[n + 1] ELSE d.log[n + 1]
    BY <1>8, <1>10, EntryIs
  <2>2. EntryAt(p, d, n + 1) = e
    BY <1>9, <2>1
  <2>. QED
    BY <1>7, <2>2
<1>12. \A z \in mgr[s].pending \cup {q} :
          z \in mgr[s].pending \/ \E i \in Index : i > n /\ EntryAt(p, d, i).ctx = z
  <2>1. n + 1 > n
    BY <1>8
  <2>. QED
    BY <1>8, <1>11, <2>1
<1>13. Going(s, p, rd[s], d, done[s], mgr[s].pending \cup {q}, pc'[s])
  <2>1. mgr[s].pending \cup {q} \in SUBSET Req
    BY <1>5
  <2>2. \A z \in mgr[s].pending \cup {q} :
           z \in mgr[s].pending \/ \E i \in Index : i > LastLogIndex(r, d) /\ EntryAt(p, d, i).ctx = z
    BY <1>12 DEF n
  <2>. QED
    BY <1>1, <1>4, <1>5, <1>6, <2>1, <2>2, QuietGoes
<1>. QED
  BY <1>1, <1>2, <1>4, <1>13 DEF Follows, Alone, d, p

LEMMA TakeFollows ==
    ASSUME TypeOK, NEW s \in Server, Lone(s), TakeReady(s)
    PROVE  Follows(s)
<1>1. pc[s] \in Quiet /\ pc[s] # "stopped" /\ UNCHANGED <<disk, done, mgr>>
  BY DEF TakeReady, Quiet
<1>2. CASE HasReady(raft[s], disk[s])
  <2>1. /\ raft'[s] = AfterReady(raft[s], disk[s])
        /\ rd'[s] = ReadyOf(raft[s], disk[s], "ready") /\ pc'[s] = "save"
    BY <1>2, NodeTypes DEF TakeReady, SetRaft, Goto
  <2>2. Rooted(disk[s]) /\ Going(s, raft[s], rd[s], disk[s], done[s], mgr[s].pending, pc[s])
    BY <1>1 DEF Lone, Alone
  <2>3. raft[s] \in RawNodeState /\ disk[s] \in Disk /\ mgr[s].pending \in SUBSET Req
    BY NodeTypes, LoneTypes
  <2>4. Going(s, AfterReady(raft[s], disk[s]), ReadyOf(raft[s], disk[s], "ready"), disk[s],
              done[s], mgr[s].pending, "save")
    BY <1>1, <2>2, <2>3, TakeGoes
  <2>. QED
    BY <1>1, <2>1, <2>2, <2>4 DEF Follows, Alone
<1>3. CASE ~HasReady(raft[s], disk[s])
  <2>1. UNCHANGED <<raft, rd>> /\ pc'[s] \in Quiet
    BY <1>3, NodeTypes DEF TakeReady, Goto, Quiet
  <2>2. Continues(raft[s], raft'[s], disk[s], s)
    BY <1>1, <2>1, Owned
  <2>. QED
    BY <1>1, <2>1, <2>2, QuietFollows
<1>. QED
  BY <1>2, <1>3

LEMMA SaveFollows ==
    ASSUME TypeOK, NEW s \in Server, Lone(s), SaveEntries(s), rd[s].ents = raft[s].unst
    PROVE  Follows(s)
<1>1. /\ pc[s] = "save" /\ pc'[s] = "saveHs" /\ UNCHANGED <<raft, rd, done, mgr>>
      /\ disk'[s] = AppendEntries(disk[s], rd[s].ents)
  BY NodeTypes DEF SaveEntries, Goto
<1>2. /\ Rooted(disk[s])
      /\ Going(s, raft[s], rd[s], disk[s], done[s], mgr[s].pending, "save")
  BY <1>1 DEF Lone, Alone
<1>3. raft[s] \in RawNodeState /\ disk[s] \in Disk /\ rd[s] \in Ready
  BY NodeTypes
<1>4. LET e == AppendEntries(disk[s], rd[s].ents)
      IN  Rooted(e) /\ Going(s, raft[s], rd[s], e, done[s], mgr[s].pending, "saveHs")
  BY <1>2, <1>3, SaveGoes
<1>. QED
  BY <1>1, <1>4 DEF Follows, Alone

LEMMA SaveHsFollows ==
    ASSUME TypeOK, NEW s \in Server, Lone(s), Covers(s), SaveReadyHardState(s)
    PROVE  Follows(s)
<1>1. /\ pc[s] = "saveHs" /\ pc'[s] = "send" /\ UNCHANGED <<raft, rd, done, mgr>>
      /\ disk'[s] = IF rd[s].hsChanged THEN SaveHardState(disk[s], rd[s].hs) ELSE disk[s]
  BY NodeTypes DEF SaveReadyHardState, Goto
<1>2. /\ Rooted(disk[s])
      /\ Going(s, raft[s], rd[s], disk[s], done[s], mgr[s].pending, "saveHs")
  BY <1>1 DEF Lone, Alone
<1>3. raft[s] \in RawNodeState /\ disk[s] \in Disk /\ rd[s] \in Ready
  BY NodeTypes
<1>4. rd[s].hs.commit = raft[s].prevHs.commit /\ disk[s].hs.commit <= raft[s].prevHs.commit
  BY <1>1 DEF Covers, Covered, Counted, Held, Saving
<1>5. LET e == IF rd[s].hsChanged THEN SaveHardState(disk[s], rd[s].hs) ELSE disk[s]
      IN  Rooted(e) /\ Going(s, raft[s], rd[s], e, done[s], mgr[s].pending, "send")
  BY <1>2, <1>3, <1>4, SaveHsGoes
<1>. QED
  BY <1>1, <1>5 DEF Follows, Alone

LEMMA SendFollows ==
    ASSUME TypeOK, NEW s \in Server, Lone(s), SendMessages(s)
    PROVE  Follows(s)
<1>1. pc[s] = "send" /\ pc'[s] = "apply" /\ UNCHANGED <<disk, raft, rd, done, mgr>>
  BY NodeTypes DEF SendMessages, Goto
<1>2. /\ Rooted(disk[s])
      /\ Going(s, raft[s], rd[s], disk[s], done[s], mgr[s].pending, "send")
  BY <1>1 DEF Lone, Alone
<1>3. Promised(rd[s], disk[s], "apply") = Promised(rd[s], disk[s], "send")
  BY DEF Promised, Saving
<1>4. "send" \in Stored /\ "apply" \in Stored /\ done[s] \subseteq done[s]
  BY DEF Stored
<1>5. Going(s, raft[s], rd[s], disk[s], done[s], mgr[s].pending, "apply")
  BY <1>2, <1>3, <1>4, StoredGoes
<1>. QED
  BY <1>1, <1>2, <1>5 DEF Follows, Alone

LEMMA ApplyNormalFollows ==
    ASSUME TypeOK, NEW s \in Server, Lone(s), ApplyNormal(s)
    PROVE  Follows(s)
<1>. DEFINE x == rd[s]
            d == disk[s]
            e == disk'[s]
            D == done'[s]
<1>1. /\ pc[s] = "apply" /\ pc'[s] = "answer" /\ UNCHANGED <<raft, rd, mgr>> /\ d \in Disk
      /\ e = [d EXCEPT !.sm = Append(d.sm, x.next)] /\ D = done[s] \cup {x.next}
  BY NodeTypes DEF ApplyNormal, Processed, Goto
<1>2. Rooted(d) /\ Going(s, raft[s], x, d, done[s], mgr[s].pending, "apply")
  BY <1>1 DEF Lone, Alone
<1>3. e.log = d.log /\ e.hs = d.hs
  BY <1>1 DEF Disk
<1>. HIDE DEF x, d, e, D
<1>4. Promised(x, e, "answer") = Promised(x, d, "apply")
  BY <1>3 DEF Promised, Saving
<1>5. "answer" \in Stored /\ "apply" \in Stored /\ done[s] \subseteq D /\ x.next \in D
  BY <1>1 DEF Stored
<1>6. Going(s, raft[s], x, e, D, mgr[s].pending, "answer")
  BY <1>2, <1>3, <1>4, <1>5, StoredGoes
<1>7. Rooted(e)
  BY <1>2, <1>3 DEF Rooted
<1>. QED
  BY <1>1, <1>6, <1>7 DEF Follows, Alone, x, e, D

LEMMA NextReadyMsgs ==
    ASSUME TypeOK, NEW s \in Server, NextEntry(s)
    PROVE  rd'[s].msgs = rd[s].msgs
BY NodeTypes DEF NextEntry, Ready

LEMMA AnswerFollows ==
    ASSUME TypeOK, NEW s \in Server, Lone(s), More(s), Answer(s)
    PROVE  Follows(s)
<1>. DEFINE x == rd[s]
            y == rd'[s]
            d == disk[s]
            P == mgr[s].pending
            P2 == mgr'[s].pending
<1>1. /\ pc[s] = "answer" /\ pc'[s] = "apply" /\ UNCHANGED <<raft, disk, done>> /\ NextEntry(s)
  BY NodeTypes DEF Answer, Goto
<1>2. Rooted(d) /\ Going(s, raft[s], x, d, done[s], P, "answer")
  BY <1>1 DEF Lone, Alone
<1>3. /\ raft[s] \in RawNodeState /\ x \in Ready /\ d \in Disk /\ P \in SUBSET Req
      /\ Continues(raft[s], raft[s], d, s) /\ x.next <= x.last
  BY <1>1, Owned, NodeTypes, LoneTypes DEF More
<1>4. P2 = P \ {d.log[x.next].ctx}
  <2>1. Current(s) = d.log[x.next] /\ mgr \in [Server -> Manager] /\ mgr[s] \in Manager
    BY LoneTypes DEF Current
  <2>2. CASE Current(s).ctx \in P
    <3>1. mgr' = [mgr EXCEPT ![s].pending = mgr[s].pending \ {Current(s).ctx}]
      BY <2>2 DEF Answer
    <3>. QED
      BY <2>1, <3>1 DEF Manager
  <2>3. CASE Current(s).ctx \notin P
    <3>1. mgr' = mgr
      BY <2>3 DEF Answer
    <3>. QED
      BY <2>1, <2>3, <3>1
  <2>. QED
    BY <2>2, <2>3
<1>5. y.next = x.next + 1 /\ y.last = x.last /\ y.stage = x.stage /\ y.msgs = x.msgs
  BY <1>1, NextReady, NextReadyMsgs
<1>6. x.next \in done[s]
  BY <1>2 DEF Going, Worked
<1>. HIDE DEF x, y, d, P, P2
<1>7. P2 \in SUBSET P /\ d.log[x.next].ctx \notin P2 /\ done[s] \subseteq done[s]
  BY <1>4
<1>8. Going(s, raft[s], y, d, done[s], P2, "apply")
  BY <1>2, <1>3, <1>5, <1>6, <1>7, NextGoes
<1>. QED
  BY <1>1, <1>2, <1>8 DEF Follows, Alone, d, y, P2

LEMMA ApplyConfFollows ==
    ASSUME TypeOK, NEW s \in Server, Lone(s), ApplyConf(s)
    PROVE  Follows(s)
<1>. DEFINE r == raft[s]
            q == raft'[s]
            x == rd[s]
            y == rd'[s]
            d == disk[s]
            e == disk'[s]
            P == mgr[s].pending
<1>1. /\ pc[s] = "apply" /\ pc'[s] = "apply" /\ NextEntry(s) /\ x.next <= x.last
      /\ done'[s] = done[s] \cup {x.next}
  BY NodeTypes DEF ApplyConf, More, Processed
<1>2. Rooted(d) /\ Going(s, r, x, d, done[s], P, "apply")
  BY <1>1 DEF Lone, Alone
<1>3. /\ r \in RawNodeState /\ x \in Ready /\ d \in Disk /\ P \in SUBSET Req /\ Own(r, d, s)
  BY <1>1, Owned, NodeTypes, LoneTypes
<1>4. Continues(r, q, d, s) /\ q.unst = r.unst
  <2>1. q = ApplyConfChange(r, d, s, Current(s))
    BY NodeTypes, ApplyConfFacts
  <2>. QED
    BY <1>3, <2>1, ApplyConfFacts, ApplyConfChangeContinues
<1>5. e.log = d.log /\ e.hs = d.hs
  <2>1. \E v : disk' = [disk EXCEPT ![s].clusterConf = v]
    BY DEF ApplyConf
  <2>. QED
    BY <2>1, NodeTypes DEF Disk
<1>6. mgr'[s].pending = P
  <2>1. \E a, b : mgr' = [mgr EXCEPT ![s] = [mgr[s] EXCEPT !.peers = a, !.needsRepl = b]]
    BY LoneTypes DEF ApplyConf
  <2>. QED
    BY <2>1, LoneTypes DEF Manager
<1>7. y.next = x.next + 1 /\ y.last = x.last /\ y.stage = x.stage /\ y.msgs = x.msgs
  BY <1>1, NextReady, NextReadyMsgs
<1>8. d.log[x.next].ctx \notin P
  <2>1. Current(s) \in Entry /\ Current(s).kind \in {"add", "remove"} /\ Current(s) = d.log[x.next]
    BY ApplyConfFacts DEF Current
  <2>2. Current(s).ctx = NoReq
    BY <2>1 DEF Entry
  <2>. QED
    BY <1>3, <2>1, <2>2, ReqAssumption
<1>. HIDE DEF r, q, x, y, d, e, P
<1>9. done[s] \subseteq done'[s] /\ x.next \in done'[s] /\ P \in SUBSET P
  BY <1>1
<1>10. Going(s, q, y, e, done'[s], P, "apply")
  BY <1>1, <1>2, <1>3, <1>4, <1>5, <1>7, <1>8, <1>9, NextGoes
<1>11. Rooted(e)
  BY <1>2, <1>5 DEF Rooted
<1>. QED
  BY <1>1, <1>6, <1>10, <1>11 DEF Follows, Alone, e, y, q

(* No Ready of a message is in hand, and no entry in hand is missing.      *)
LEMMA NeverInline ==
    ASSUME NEW s, Lone(s), pc[s] = "apply"
    PROVE  rd[s].stage # "inline"
BY DEF Lone, Alone, Going, Tallied, Handing, InTurn

LEMMA NeverPassed ==
    ASSUME TypeOK, NEW s \in Server, Lone(s)
    PROVE  ~PassOver(s)
<1>. SUFFICES ASSUME PassOver(s) PROVE FALSE
  OBVIOUS
<1>1. pc[s] = "apply" /\ rd[s].stage # "inline"
  BY NeverInline DEF PassOver
<1>2. rd[s].next..rd[s].last \subseteq Rows(disk[s].log)
  BY <1>1 DEF Lone, Alone, Going, Tallied, Handing, InTurn
<1>3. rd[s].next \in rd[s].next..rd[s].last
  BY NodeTypes, Numbers DEF PassOver, More
<1>4. Current(s) # NoEntry
  BY <1>2, <1>3 DEF Rows, Current
<1>. QED
  BY <1>1, <1>4 DEF PassOver

LEMMA RejectNormalFollows ==
    ASSUME TypeOK, NEW s \in Server, Lone(s), RejectNormal(s)
    PROVE  Follows(s)
<1>. DEFINE x == rd[s]
            y == rd'[s]
            d == disk[s]
            P == mgr[s].pending
            P2 == mgr'[s].pending
<1>1. /\ pc[s] = "apply" /\ pc'[s] = "apply" /\ UNCHANGED <<raft, disk>> /\ NextEntry(s)
      /\ x.next <= x.last /\ done'[s] = done[s] \cup {x.next}
  BY NodeTypes DEF RejectNormal, More, Processed
<1>2. Rooted(d) /\ Going(s, raft[s], x, d, done[s], P, "apply")
  BY <1>1 DEF Lone, Alone
<1>3. /\ raft[s] \in RawNodeState /\ x \in Ready /\ d \in Disk /\ P \in SUBSET Req
      /\ Continues(raft[s], raft[s], d, s)
  BY <1>1, Owned, NodeTypes, LoneTypes
<1>4. P2 = P \ {d.log[x.next].ctx}
  <2>1. Current(s) = d.log[x.next] /\ mgr \in [Server -> Manager] /\ mgr[s] \in Manager
    BY LoneTypes DEF Current
  <2>2. CASE Current(s).ctx \in P
    <3>1. mgr' = [mgr EXCEPT ![s].pending = mgr[s].pending \ {Current(s).ctx}]
      BY <2>2 DEF RejectNormal
    <3>. QED
      BY <2>1, <3>1 DEF Manager
  <2>3. CASE Current(s).ctx \notin P
    <3>1. mgr' = mgr
      BY <2>3 DEF RejectNormal
    <3>. QED
      BY <2>1, <2>3, <3>1
  <2>. QED
    BY <2>2, <2>3
<1>5. y.next = x.next + 1 /\ y.last = x.last /\ y.stage = x.stage /\ y.msgs = x.msgs
  BY <1>1, NextReady, NextReadyMsgs
<1>. HIDE DEF x, y, d, P, P2
<1>6. /\ P2 \in SUBSET P /\ d.log[x.next].ctx \notin P2
      /\ done[s] \subseteq done'[s] /\ x.next \in done'[s]
  BY <1>1, <1>4
<1>7. Going(s, raft[s], y, d, done'[s], P2, "apply")
  BY <1>1, <1>2, <1>3, <1>5, <1>6, NextGoes
<1>. QED
  BY <1>1, <1>2, <1>7 DEF Follows, Alone, d, y, P2

LEMMA AdvanceFollows ==
    ASSUME TypeOK, NEW s \in Server, Lone(s), AdvanceRaft(s)
    PROVE  Follows(s) /\ \A m \in net' \ net : m.to # s
<1>. DEFINE r == raft[s]
            d == disk[s]
            to == IF LightCommit(r, d, s) THEN "lightHs" ELSE "compact"
<1>1. /\ pc[s] = "apply" /\ pc'[s] = to /\ UNCHANGED <<disk, rd, done, mgr>>
      /\ raft'[s] = Advance(r, d, s) /\ net' = net \cup LightMsgs(r, d, s)
      /\ ~(rd[s].next <= rd[s].last) /\ rd[s].stage = "ready"
  BY NodeTypes DEF AdvanceRaft, SetRaft, Goto, More
<1>2. Rooted(d) /\ Going(s, r, rd[s], d, done[s], mgr[s].pending, "apply")
  BY <1>1 DEF Lone, Alone
<1>3. r \in RawNodeState /\ d \in Disk /\ rd[s] \in Ready /\ mgr[s].pending \in SUBSET Req
  BY NodeTypes, LoneTypes
<1>. HIDE DEF to
<1>4. to = IF LightCommit(r, d, s) THEN "lightHs" ELSE "compact"
  BY DEF to
<1>5. /\ Going(s, Advance(r, d, s), rd[s], d, done[s], mgr[s].pending, to)
      /\ \A m \in LightMsgs(r, d, s) : m.to # s
  BY <1>1, <1>2, <1>3, <1>4, AdvanceGoes
<1>. QED
  BY <1>1, <1>2, <1>5 DEF Follows, Alone

LEMMA LightFollows ==
    ASSUME TypeOK, NEW s \in Server, Lone(s), Covers(s), SaveLightCommit(s)
    PROVE  Follows(s)
<1>. DEFINE r == raft[s]
            x == rd[s]
            y == rd'[s]
            d == disk[s]
<1>1. /\ pc[s] = "lightHs" /\ UNCHANGED <<raft, done, mgr>>
      /\ disk'[s] = SaveHardState(d, HardStateOf(r))
  BY NodeTypes DEF SaveLightCommit
<1>2. Rooted(d) /\ Going(s, r, x, d, done[s], mgr[s].pending, "lightHs")
  BY <1>1 DEF Lone, Alone
<1>3. r \in RawNodeState /\ d \in Disk /\ x \in Ready
  BY NodeTypes
<1>4. x.last \in {0, r.applied} /\ r.applied < r.committed
  BY <1>2 DEF Going, Tallied, ToFetch
<1>5. r.applied \in Int /\ r.committed \in Int /\ r.applied >= 0
  BY <1>3, Numbers
<1>6. CurrentApplied(s) = r.applied
  BY <1>4, <1>5 DEF CurrentApplied
<1>7. r.committed \in Index /\ d.log[r.committed] # NoEntry
  <2>1. r.committed <= LastIndex(d.log) /\ FirstIndex(d.log) <= r.applied + 1 /\ Gapless(d.log)
    BY <1>2 DEF Going, Own, Tallied, ToFetch, Rooted
  <2>2. /\ FirstIndex(d.log) \in Int /\ r.committed <= MaxIndex /\ r.committed >= 1
        /\ FirstIndex(d.log) <= r.committed
    BY <1>3, <1>4, <1>5, <2>1, FirstIndexType, Numbers, IndexFacts
  <2>3. r.committed \in Index
    BY <1>5, <2>2, IndexFacts DEF Index
  <2>4. r.committed \in Rows(d.log)
    BY <1>3, <2>1, <2>2, <2>3, RowsAre
  <2>. QED
    BY <2>3, <2>4 DEF Rows
<1>8. /\ y.stage = "late" /\ y.next = r.applied + 1 /\ y.last = r.committed /\ y.msgs = x.msgs
      /\ pc'[s] = "apply"
  <2>1. CurrentApplied(s) < r.committed /\ r.committed <= r.committed
    BY <1>4, <1>5, <1>6
  <2>2. \A i \in Index : i <= r.committed /\ ~(i < r.committed) => i = r.committed
    BY <1>5, Numbers
  <2>. QED
    BY <1>6, <1>7, <2>1, <2>2, LightFetch
<1>9. y \in Ready
  BY SaveLightCommitType DEF TypeOK
<1>10. d.hs.commit <= r.prevHs.commit
  BY DEF Covers, Covered, Counted
<1>. HIDE DEF r, x, y, d
<1>11. LET e == SaveHardState(d, HardStateOf(r))
       IN  Rooted(e) /\ Going(s, r, y, e, done[s], mgr[s].pending, "apply")
  BY <1>2, <1>3, <1>8, <1>9, <1>10, FetchGoes
<1>. QED
  BY <1>1, <1>8, <1>11 DEF Follows, Alone, r, y

LEMMA FinishFollows ==
    ASSUME TypeOK, NEW s \in Server, Lone(s), FinishLate(s)
    PROVE  Follows(s)
<1>1. /\ pc[s] = "apply" /\ pc'[s] = "compact" /\ UNCHANGED <<disk, rd, done, mgr>>
      /\ raft'[s] = [raft[s] EXCEPT !.applied = rd[s].last]
      /\ ~(rd[s].next <= rd[s].last) /\ rd[s].stage = "late"
  BY NodeTypes DEF FinishLate, SetRaft, Goto, More
<1>2. /\ Rooted(disk[s])
      /\ Going(s, raft[s], rd[s], disk[s], done[s], mgr[s].pending, "apply")
  BY <1>1 DEF Lone, Alone
<1>3. raft[s] \in RawNodeState /\ disk[s] \in Disk /\ rd[s] \in Ready
  BY NodeTypes
<1>4. Going(s, [raft[s] EXCEPT !.applied = rd[s].last], rd[s], disk[s], done[s],
            mgr[s].pending, "compact")
  BY <1>1, <1>2, <1>3, FinishGoes
<1>. QED
  BY <1>1, <1>2, <1>4 DEF Follows, Alone

LEMMA CompactFollows ==
    ASSUME TypeOK, NEW s \in Server, Lone(s), Rows(raft[s].unst) = {}, Compact(s)
    PROVE  Follows(s)
<1>. DEFINE r == raft[s]
            d == disk[s]
            e == disk'[s]
            P == mgr[s].pending
<1>1. /\ pc[s] = "compact" /\ pc'[s] \in Quiet /\ UNCHANGED <<raft, done>> /\ rd'[s] = NoReady
      /\ e = d \/ e = CompactLogBefore(d, SnapshotIndex(d, r.applied))
  BY NodeTypes DEF Compact, Goto, Quiet
<1>2. mgr'[s].pending = P
  BY LoneTypes DEF Compact, Manager
<1>3. Rooted(d) /\ Going(s, r, rd[s], d, done[s], P, "compact")
  BY <1>1 DEF Lone, Alone
<1>4. r \in RawNodeState /\ d \in Disk /\ P \in SUBSET Req
  BY NodeTypes, LoneTypes
<1>. HIDE DEF r, d, e, P
<1>5. Rows(r.unst) = {}
  BY DEF r
<1>6. Rooted(e) /\ Going(s, r, NoReady, e, done[s], P, pc'[s])
  BY <1>1, <1>3, <1>4, <1>5, CompactGoes
<1>. QED
  BY <1>1, <1>2, <1>6 DEF Follows, Alone, r, e

LEMMA RestartFollows ==
    ASSUME TypeOK, NEW s \in Server, Lone(s), Restart(s)
    PROVE  Follows(s)
<1>1. /\ pc'[s] \in Quiet /\ UNCHANGED disk /\ raft'[s] = NewRawNode(disk[s])
      /\ rd'[s] = NoReady /\ done'[s] = {} /\ CommitStored(disk[s])
  BY NodeTypes, FirstStepType DEF Restart, Loadable, SetRaft, Goto, Quiet
<1>2. mgr'[s].pending = {}
  BY LoneTypes DEF Restart, NewManager
<1>3. Rooted(disk[s]) /\ disk[s] \in Disk
  BY NodeTypes DEF Lone, Alone
<1>4. Going(s, NewRawNode(disk[s]), NoReady, disk[s], {}, {}, pc'[s])
  BY <1>1, <1>3, FreshGoes
<1>. QED
  BY <1>1, <1>2, <1>3, <1>4 DEF Follows, Alone

---------------------------------------------------------------------------
(* The invariant *)

(* No message reaches the node s.                                          *)
Unreached(s) == \A m \in net : ~HandleRaftMessage(s, m)

LEMMA StepFollows ==
    ASSUME TypeInv, LogInv, CoverInv, NEW s \in Server, Lone(s), NodeStep(s), Unreached(s)
    PROVE  Follows(s)
<1>0. /\ TypeOK /\ Covers(s) /\ Ends(raft[s], rd[s], disk[s], Reached, pc[s])
  BY DEF TypeInv, LogInv, CoverInv, Reaches
<1>1. ASSUME Stop(s) PROVE Follows(s)
  BY <1>0, <1>1, StopFollows DEF Stop, Goto
<1>2. CASE Proceed(s)
  <2>1. CASE BootstrapCampaign(s) \/ BootstrapPropose(s) \/ Tick(s) \/ TriggerReplication(s)
    BY <1>0, <2>1, BootstrapFollows, TickFollows
  <2>2. CASE SaveEntries(s)
    <3>1. rd[s].ents = raft[s].unst
      BY <1>0, <2>2 DEF SaveEntries, Ends
    <3>. QED
      BY <1>0, <2>2, <3>1, SaveFollows
  <2>3. CASE TakeReady(s) \/ SaveReadyHardState(s) \/ SendMessages(s)
    BY <1>0, <2>3, TakeFollows, SaveHsFollows, SendFollows
  <2>4. CASE Answer(s)
    <3>1. More(s)
      BY <2>4 DEF Answer, TypeInv, EntryInHand
    <3>. QED
      BY <1>0, <2>4, <3>1, AnswerFollows
  <2>5. CASE ApplyNormal(s) \/ RejectNormal(s) \/ ApplyConf(s)
    BY <1>0, <2>5, ApplyNormalFollows, RejectNormalFollows, ApplyConfFollows
  <2>6. CASE FailConf(s)
    BY <1>1, <2>6 DEF FailConf
  <2>7. CASE PassOver(s) \/ InlineAdvance(s)
    BY <1>0, <2>7, NeverInline, NeverPassed DEF InlineAdvance
  <2>8. CASE AdvanceRaft(s) \/ SaveLightCommit(s) \/ FinishLate(s)
    BY <1>0, <2>8, AdvanceFollows, LightFollows, FinishFollows
  <2>9. CASE Compact(s)
    <3>1. Rows(raft[s].unst) = {}
      BY <1>0, <2>9 DEF Compact, Ends
    <3>. QED
      BY <1>0, <2>9, <3>1, CompactFollows
  <2>. QED
    BY <1>2, <2>1, <2>2, <2>3, <2>4, <2>5, <2>6, <2>7, <2>8, <2>9 DEF Proceed, OnReady
<1>3. ASSUME NEW q \in Req, HandleProposal(s, q) \/ RefuseProposal(s, q) \/ DropProposal(s, q)
      PROVE  Follows(s)
  <2>1. CASE HandleProposal(s, q)
    BY <1>0, <2>1, ProposalFollows
  <2>2. CASE RefuseProposal(s, q)
    BY <2>2 DEF RefuseProposal, Lone, Follows
  <2>3. CASE DropProposal(s, q)
    BY <1>0, <2>3, StopFollows DEF DropProposal, Goto
  <2>. QED
    BY <1>3, <2>1, <2>2, <2>3
<1>4. ASSUME NEW m \in net, HandleRaftMessage(s, m) \/ RefuseRaftMessage(s, m)
      PROVE  Follows(s)
  BY <1>1, <1>4 DEF RefuseRaftMessage, Unreached
<1>5. CASE \E f \in Server : AbortOnSnapshot(s, f)
  BY <1>1, <1>5 DEF AbortOnSnapshot
<1>6. CASE \/ \E f \in Addable : HandleConfChange(s, "add", f)
           \/ \E f \in Removable : HandleConfChange(s, "remove", f)
  BY <1>0, <1>6, ChangeAssumption, ConfChangeFollows
<1>7. CASE Restart(s)
  BY <1>0, <1>7, RestartFollows
<1>. QED
  BY <1>2, <1>3, <1>4, <1>5, <1>6, <1>7 DEF NodeStep

(* Nor does a step of one node move another's own fields.                  *)
LEMMA ManagerIsLocal ==
    ASSUME TypeOK, NEW s \in Server, NEW t \in Server, t # s, NodeStep(s)
    PROVE  mgr'[t] = mgr[t]
<1>0. mgr \in [Server -> Manager]
  BY DEF TypeOK
<1>1. ASSUME Stop(s) PROVE mgr'[t] = mgr[t]
  BY <1>0, <1>1 DEF Stop
<1>2. CASE Proceed(s)
  <2>1. CASE ApplyConf(s)
    BY <1>0, <2>1 DEF ApplyConf
  <2>2. CASE FailConf(s)
    BY <1>1, <2>2 DEF FailConf
  <2>3. CASE TriggerReplication(s) \/ Answer(s) \/ RejectNormal(s) \/ Compact(s)
    BY <1>0, <2>3 DEF TriggerReplication, Answer, RejectNormal, Compact
  <2>4. CASE \/ BootstrapCampaign(s) \/ BootstrapPropose(s) \/ Tick(s)
             \/ TakeReady(s) \/ SaveEntries(s) \/ SaveReadyHardState(s) \/ SendMessages(s)
             \/ ApplyNormal(s) \/ PassOver(s) \/ InlineAdvance(s) \/ AdvanceRaft(s)
             \/ SaveLightCommit(s) \/ FinishLate(s)
    BY <2>4 DEF BootstrapCampaign, BootstrapPropose, Tick, TakeReady,
       SaveEntries, SaveReadyHardState, SendMessages, ApplyNormal, PassOver,
       InlineAdvance, AdvanceRaft, SaveLightCommit, FinishLate
  <2>. QED
    BY <1>2, <2>1, <2>2, <2>3, <2>4 DEF Proceed, OnReady
<1>3. CASE \E q \in Req : HandleProposal(s, q) \/ RefuseProposal(s, q) \/ DropProposal(s, q)
  BY <1>0, <1>3 DEF HandleProposal, RefuseProposal, DropProposal
<1>4. CASE \E m \in net : HandleRaftMessage(s, m) \/ RefuseRaftMessage(s, m)
  BY <1>1, <1>4 DEF HandleRaftMessage, RefuseRaftMessage
<1>5. CASE \E f \in Server : AbortOnSnapshot(s, f)
  BY <1>1, <1>5 DEF AbortOnSnapshot
<1>6. CASE \E f : HandleConfChange(s, "add", f) \/ HandleConfChange(s, "remove", f)
  BY <1>0, <1>6 DEF HandleConfChange
<1>7. CASE Restart(s)
  BY <1>0, <1>7 DEF Restart
<1>. QED
  BY <1>2, <1>3, <1>4, <1>5, <1>6, <1>7 DEF NodeStep

LEMMA StepLone ==
    ASSUME NEW t \in Server
    PROVE  TypeInv /\ LogInv /\ CoverInv /\ Lone(t) /\ [Next]_vars /\ [Unreached(t)]_vars
             => Lone(t)'
<1>. SUFFICES ASSUME TypeInv, LogInv, CoverInv, Lone(t), [Next]_vars, [Unreached(t)]_vars
              PROVE  Follows(t)
  BY DEF Lone, Follows
<1>1. CASE UNCHANGED vars
  BY <1>1 DEF vars, Lone, Follows
<1>2. ASSUME NEW s \in Server, NodeStep(s), t # s PROVE Follows(t)
  <2>1. Untouched(t) /\ done'[t] = done[t] /\ mgr'[t] = mgr[t]
    BY <1>2, StepIsLocal, CountIsLocal, ManagerIsLocal DEF TypeInv
  <2>. QED
    BY <2>1 DEF Untouched, Lone, Follows
<1>3. CASE NodeStep(t) /\ Unreached(t)
  BY <1>3, StepFollows
<1>. QED
  BY <1>1, <1>2, <1>3 DEF Next

LEMMA InitLone == ASSUME NEW s \in Server PROVE Init => Lone(s)
<1>. SUFFICES ASSUME Init PROVE Lone(s)
  OBVIOUS
<1>1. /\ disk[s] \in Disk /\ \E v : disk[s] = NewDisk(v)
      /\ raft[s] = NewRawNode(disk[s]) /\ pc[s] = FirstStep(s) /\ rd[s] = NoReady
      /\ done[s] = {} /\ mgr[s].pending = {}
  BY InitType DEF TypeOK, Init, NewManager
<1>2. disk[s].log = EmptyLog /\ disk[s].hs.commit = 0
  BY <1>1 DEF NewDisk
<1>3. Rows(EmptyLog) = {}
  BY EmptyLogType
<1>4. Gapless(disk[s].log) /\ FirstIndex(disk[s].log) = 1 /\ LastIndex(disk[s].log) = 0
  BY <1>2, <1>3 DEF Gapless, FirstIndex, LastIndex
<1>5. Rooted(disk[s]) /\ CommitStored(disk[s]) /\ pc[s] \in Quiet
  BY <1>1, <1>2, <1>4, FirstStepType DEF Rooted, CommitStored, Quiet
<1>6. Going(s, raft[s], rd[s], disk[s], done[s], mgr[s].pending, pc[s])
  BY <1>1, <1>5, FreshGoes
<1>. QED
  BY <1>5, <1>6 DEF Lone, Alone

(* What a node sends is not for itself.                                    *)
LEMMA SendsElsewhere ==
    ASSUME TypeOK, NEW s \in Server, Lone(s), NodeStep(s)
    PROVE  \A m \in net' \ net : m.to # s
<1>1. ASSUME Stop(s) PROVE net' = net
  BY <1>1 DEF Stop
<1>2. CASE Proceed(s)
  <2>1. CASE SendMessages(s)
    <3>1. pc[s] = "send" /\ net' = net \cup Sendable(s)
      BY <2>1 DEF SendMessages
    <3>2. \A m \in rd[s].msgs : m.to # s
      BY <3>1 DEF Lone, Alone, Going
    <3>. QED
      BY <3>1, <3>2 DEF Sendable
  <2>2. CASE AdvanceRaft(s)
    BY <2>2, AdvanceFollows
  <2>3. CASE FailConf(s)
    BY <1>1, <2>3 DEF FailConf
  <2>4. CASE \/ BootstrapCampaign(s) \/ BootstrapPropose(s) \/ Tick(s) \/ TriggerReplication(s)
             \/ TakeReady(s) \/ SaveEntries(s) \/ SaveReadyHardState(s)
             \/ ApplyNormal(s) \/ Answer(s) \/ RejectNormal(s) \/ PassOver(s) \/ ApplyConf(s)
             \/ InlineAdvance(s) \/ SaveLightCommit(s) \/ FinishLate(s) \/ Compact(s)
    BY <2>4 DEF BootstrapCampaign, BootstrapPropose, Tick, TriggerReplication, TakeReady,
       SaveEntries, SaveReadyHardState, ApplyNormal, Answer, RejectNormal, PassOver, ApplyConf,
       InlineAdvance, SaveLightCommit, FinishLate, Compact
  <2>. QED
    BY <1>2, <2>1, <2>2, <2>3, <2>4 DEF Proceed, OnReady
<1>3. CASE \E q \in Req : HandleProposal(s, q) \/ RefuseProposal(s, q) \/ DropProposal(s, q)
  BY <1>3 DEF HandleProposal, RefuseProposal, DropProposal
<1>4. CASE \E m \in net : HandleRaftMessage(s, m) \/ RefuseRaftMessage(s, m)
  BY <1>1, <1>4 DEF HandleRaftMessage, RefuseRaftMessage
<1>5. CASE \E f \in Server : AbortOnSnapshot(s, f)
  BY <1>1, <1>5 DEF AbortOnSnapshot
<1>6. CASE \E f : HandleConfChange(s, "add", f) \/ HandleConfChange(s, "remove", f)
  BY <1>6 DEF HandleConfChange
<1>7. CASE Restart(s)
  BY <1>7 DEF Restart
<1>. QED
  BY <1>2, <1>3, <1>4, <1>5, <1>6, <1>7 DEF NodeStep

(* What the three invariants of the driver say of one node.                *)
InOrder(s) ==
    /\ pc[s] = "idle" => FirstIndex(disk[s].log)..raft[s].applied \subseteq done[s]
    /\ pc[s] = "idle" => \A q \in mgr[s].pending :
          \E i \in (raft[s].csi + 1)..MaxIndex : EntryAt(raft[s], disk[s], i).ctx = q
    /\ pc[s] = "apply" =>
          \A i \in rd[s].next..rd[s].last : i \in Index /\ disk[s].log[i] # NoEntry

LEMMA LoneInOrder ==
    ASSUME TypeOK, NEW s \in Server, Lone(s)
    PROVE  InOrder(s)
<1>. DEFINE r == raft[s]
            d == disk[s]
<1>1. r \in RawNodeState /\ d \in Disk
  BY NodeTypes
<1>2. r.applied \in Int /\ r.csi \in Int /\ FirstIndex(d.log) \in Int
  BY <1>1, Numbers, FirstIndexType
<1>3. CASE pc[s] = "idle"
  <2>1. Given(r, "idle") = r.csi /\ Hand(rd[s], "idle") = {}
    BY DEF Given, Hand, Handing
  <2>2. /\ r.applied <= r.csi \/ r.applied < FirstIndex(d.log)
        /\ Worked(r, rd[s], d, done[s], "idle")
        /\ Awaited(r, rd[s], d, mgr[s].pending, "idle")
    BY <1>3 DEF Lone, Alone, Going, Tallied
  <2>. HIDE DEF r, d
  <2>3. \A i \in FirstIndex(d.log)..r.csi : i \in done[s]
    BY <2>1, <2>2 DEF Worked
  <2>4. FirstIndex(d.log)..r.applied \subseteq done[s]
    BY <1>2, <2>2, <2>3
  <2>5. ASSUME NEW q \in mgr[s].pending
        PROVE  \E i \in (r.csi + 1)..MaxIndex : EntryAt(r, d, i).ctx = q
    <3>1. PICK i \in Index : EntryAt(r, d, i).ctx = q /\ i > r.csi
      BY <2>1, <2>2 DEF Awaited
    <3>2. i \in Int /\ i <= MaxIndex
      BY Places, IndexFacts DEF Index
    <3>3. i \in (r.csi + 1)..MaxIndex
      BY <1>2, <3>1, <3>2, IndexFacts
    <3>. QED
      BY <3>1, <3>3
  <2>. QED
    BY <1>3, <2>4, <2>5 DEF InOrder, r, d
<1>4. CASE pc[s] = "apply"
  <2>1. rd[s].next..rd[s].last \subseteq Rows(d.log)
    BY <1>4 DEF Lone, Alone, Going, Tallied, Handing, InTurn
  <2>. QED
    BY <1>4, <2>1 DEF InOrder, Rows
<1>. QED
  BY <1>3, <1>4 DEF InOrder

(* A node that runs alone, or whose peers' messages are all lost on the    *)
(* way, keeps its proposals, its log and what it has processed in step     *)
(* through every crash and start.  A message is what breaks it: the inline *)
(* path of handle_raft_message drops the LightReady of advance() and       *)
(* passes the commands of its Ready over.                                  *)
THEOREM UnreachedInOrder ==
    ASSUME NEW s \in Server
    PROVE  Spec /\ [][Unreached(s)]_vars => []InOrder(s)
<1>1. Init => Lone(s)
  BY InitLone
<1>2. TypeInv /\ LogInv /\ CoverInv /\ Lone(s) /\ [Next]_vars /\ [Unreached(s)]_vars
        => Lone(s)'
  BY StepLone
<1>3. TypeInv /\ Lone(s) => InOrder(s)
  BY LoneInOrder DEF TypeInv
<1>. QED
  BY <1>1, <1>2, <1>3, CoverHolds, PTL DEF Spec

(* With one node there is nobody to write to.                              *)
Quieted == Lone(Boot) /\ net = {}

LEMMA SoloIsUnreached ==
    ASSUME Server = {Boot}
    PROVE  Spec => [](TypeInv /\ Quieted)
<1>1. Init => Quieted
  BY InitLone, BootAssumption DEF Init, Quieted
<1>2. TypeInv /\ LogInv /\ CoverInv /\ Quieted /\ [Next]_vars => Quieted'
  <2>. SUFFICES ASSUME TypeInv, LogInv, CoverInv, Quieted, [Next]_vars
                PROVE  Quieted'
    OBVIOUS
  <2>1. Lone(Boot) /\ Unreached(Boot)
    BY DEF Quieted, Unreached
  <2>2. Lone(Boot)'
    BY <2>1, StepLone, BootAssumption
  <2>3. CASE UNCHANGED vars
    BY <2>2, <2>3 DEF vars, Quieted
  <2>4. CASE NodeStep(Boot)
    <3>1. \A m \in net' \ net : m.to # Boot
      BY <2>1, <2>4, SendsElsewhere, BootAssumption DEF TypeInv
    <3>2. net' \subseteq Message
      BY StepType DEF TypeInv, TypeOK
    <3>3. \A m \in Message : m.to = Boot
      BY DEF Message
    <3>. QED
      BY <2>2, <3>1, <3>2, <3>3 DEF Quieted
  <2>. QED
    BY <2>3, <2>4 DEF Next
<1>. QED
  BY <1>1, <1>2, CoverHolds, PTL DEF Spec

LEMMA SoloInOrder ==
    ASSUME Server = {Boot}
    PROVE  Spec => [](AppliedIsProcessed /\ PendingHasEntry /\ HandedOutIsStored)
<1>1. TypeInv /\ Quieted => AppliedIsProcessed /\ PendingHasEntry /\ HandedOutIsStored
  <2>. SUFFICES ASSUME TypeInv, Quieted
                PROVE  AppliedIsProcessed /\ PendingHasEntry /\ HandedOutIsStored
    OBVIOUS
  <2>1. \A s \in Server : InOrder(s)
    BY LoneInOrder DEF TypeInv, Quieted
  <2>. QED
    BY <2>1 DEF InOrder, AppliedIsProcessed, PendingHasEntry, HandedOutIsStored
<1>. QED
  BY <1>1, SoloIsUnreached, PTL

(* A single node processes every entry that advance() counts as applied:   *)
(* those ready() hands out, and those the LightReady committed, which the  *)
(* driver fetches from the storage, from the very first on.                *)
THEOREM SoloProcesses ==
    ASSUME Server = {Boot}
    PROVE  Spec => []AppliedIsProcessed
BY SoloInOrder, PTL

(* A single node forgets no client: whenever it waits at the select!, each *)
(* proposal it has not answered is in the log, and the library has yet to  *)
(* hand it out.                                                            *)
THEOREM SoloAwaits ==
    ASSUME Server = {Boot}
    PROVE  Spec => []PendingHasEntry
BY SoloInOrder, PTL

(* A single node finds every committed entry it is about to process in its *)
(* storage: the log it writes has no hole, compaction stops short of what  *)
(* is not yet applied, and a start replays from the first row there is.    *)
THEOREM SoloFinds ==
    ASSUME Server = {Boot}
    PROVE  Spec => []HandedOutIsStored
BY SoloInOrder, PTL

===========================================================================
