--------------------------- MODULE RaftManager ---------------------------
(***************************************************************************)
(* The task that drives one raft node (src/src/raft/core.rs, with          *)
(* raft/config_manager.rs, raft/bootstrap.rs and raft/snapshot.rs), for a  *)
(* set of nodes joined by an unreliable network.                           *)
(*                                                                         *)
(* run_main_loop serves one event at a time, so a node is a program        *)
(* counter that is "idle" at the select!, or inside a handler.  A handler  *)
(* advances by one redb transaction, state machine command or library call *)
(* at a time; a crash may fall between any two of them.                    *)
(***************************************************************************)
EXTENDS RawNode

CONSTANTS
    Boot,         \* the node started with neither peers nor a join address
    Addable,      \* the nodes clients ask to add
    Removable,    \* the nodes clients ask to remove
    Refusable,    \* the commands the state machine may refuse
    CompactMin,   \* COMPACTION_THRESHOLD (1000 in the code)
    CompactGap,   \* COMPACTION_THRESHOLD / 2
    MaxRestarts   \* bound on crashes

ASSUME BootAssumption    == Boot \in Server
ASSUME ChangeAssumption  == Addable \subseteq Server /\ Removable \subseteq Server
ASSUME RefusableAssumption == Refusable \subseteq Req
ASSUME CompactAssumption == CompactMin \in Nat /\ CompactGap \in Nat
ASSUME RestartAssumption == MaxRestarts \in Nat

VARIABLES
    disk,      \* disk[s]: what survives a crash
    raft,      \* raft[s]: the RawNode
    pc,        \* pc[s]: where the task of s is
    after,     \* after[s]: what follows the on_ready() in progress
    rd,        \* rd[s]: the Ready in hand and the committed entries left to process
    mgr,       \* mgr[s]: the manager's own fields
    net,       \* every message handed to the transport
    reply,     \* reply[q]: what the client of proposal q has been told
    restarts,  \* crashes so far
    done       \* history: the indices s has processed since it started

vars == <<disk, raft, pc, after, rd, mgr, net, reply, restarts, done>>

(* No Ready in hand.  stage: "inline" inside handle_raft_message, "ready"  *)
(* inside on_ready, "late" in handle_newly_committed_entries.              *)
NoReady == [stage |-> "ready", ents |-> EmptyLog,
            hs |-> [term |-> 0, vote |-> 0, commit |-> 0], hsChanged |-> FALSE,
            msgs |-> {}, persistedMsgs |-> FALSE, next |-> 1, last |-> 0]

(* new(): the peers a node is configured with name the bootstrap node. *)
NewManager(s) == [pending |-> {}, peers |-> {Boot} \ {s}, needsRepl |-> FALSE,
                  lastCompact |-> 0]

(* run(): RaftBootstrapCoordinator::should_bootstrap. *)
FirstStep(s) == IF NewManager(s).peers = {} THEN "bootstrap" ELSE "idle"

Init ==
    /\ disk = [s \in Server |-> NewDisk(IF s = Boot THEN {s} ELSE {})]
    /\ raft = [s \in Server |-> NewRawNode(disk[s])]
    /\ pc = [s \in Server |-> FirstStep(s)]
    /\ after = [s \in Server |-> "idle"]
    /\ rd = [s \in Server |-> NoReady]
    /\ mgr = [s \in Server |-> NewManager(s)]
    /\ net = {}
    /\ reply = [q \in Req |-> "new"]
    /\ restarts = 0
    /\ done = [s \in Server |-> {}]

Goto(s, step) == pc' = [pc EXCEPT ![s] = step]

OnReadyThen(s, next) == Goto(s, "ready") /\ after' = [after EXCEPT ![s] = next]

SetRaft(s, r) == raft' = [raft EXCEPT ![s] = r]

IsLeader(s) == raft[s].role = "leader"

(* A leader the library accepts proposals from, with room in the log. *)
CanPropose(s) ==
    /\ IsLeader(s)
    /\ s \in raft[s].voters
    /\ LastLogIndex(raft[s], disk[s]) < MaxIndex

(* What the clients of s learn when its task ends: their channels close. *)
Abandoned(s) == [q \in Req |-> IF q \in mgr[s].pending THEN "lost" ELSE reply[q]]

(* A handler returned Err, or the library aborted: run() ends. *)
Stop(s) ==
    /\ Goto(s, "stopped")
    /\ reply' = Abandoned(s)
    /\ mgr' = [mgr EXCEPT ![s].pending = {}]
    /\ UNCHANGED <<disk, raft, after, rd, net, restarts, done>>

---------------------------------------------------------------------------
(* Bootstrap *)

BootstrapCampaign(s) ==
    /\ pc[s] = "bootstrap"
    /\ SetRaft(s, IF CanCampaign(raft[s], disk[s], s)
                  THEN Campaign(raft[s], disk[s], s) ELSE raft[s])
    /\ OnReadyThen(s, "emptyProposal")
    /\ UNCHANGED <<disk, rd, mgr, net, reply, restarts, done>>

BootstrapPropose(s) ==
    /\ pc[s] = "emptyProposal"
    /\ SetRaft(s, IF CanPropose(s) THEN Propose(raft[s], disk[s], s, NoReq) ELSE raft[s])
    /\ OnReadyThen(s, "idle")
    /\ UNCHANGED <<disk, rd, mgr, net, reply, restarts, done>>

---------------------------------------------------------------------------
(* The four events of run_main_loop *)

(* node.tick(): nothing is due, or a heartbeat, or the election timeout. *)
Ticked(s) ==
    {raft[s]} \cup
    (IF IsLeader(s) THEN {Bcast(raft[s], disk[s], s)}
     ELSE IF CanCampaign(raft[s], disk[s], s) THEN {Campaign(raft[s], disk[s], s)} ELSE {})

Tick(s) ==
    /\ pc[s] = "idle"
    /\ \E r \in Ticked(s) : SetRaft(s, r)
    /\ OnReadyThen(s, "replicate")
    /\ UNCHANGED <<disk, rd, mgr, net, reply, restarts, done>>

(* The rest of tick(): the flag a configuration change set is consumed. *)
TriggerReplication(s) ==
    /\ pc[s] = "replicate"
    /\ mgr' = [mgr EXCEPT ![s].needsRepl = FALSE]
    /\ IF mgr[s].needsRepl /\ IsLeader(s)
       THEN (\E r \in Ticked(s) : SetRaft(s, r)) /\ OnReadyThen(s, "idle")
       ELSE Goto(s, "idle") /\ UNCHANGED <<raft, after>>
    /\ UNCHANGED <<disk, rd, net, reply, restarts, done>>

HandleProposal(s, q) ==
    /\ pc[s] = "idle"
    /\ reply[q] = "new"
    /\ CanPropose(s)
    /\ mgr' = [mgr EXCEPT ![s].pending = @ \cup {q}]
    /\ reply' = [reply EXCEPT ![q] = "waiting"]
    /\ SetRaft(s, Propose(raft[s], disk[s], s, q))
    /\ OnReadyThen(s, "idle")
    /\ UNCHANGED <<disk, rd, net, restarts, done>>

RefuseProposal(s, q) ==
    /\ pc[s] = "idle"
    /\ reply[q] = "new"
    /\ ~IsLeader(s)
    /\ reply' = [reply EXCEPT ![q] = "notLeader"]
    /\ UNCHANGED <<disk, raft, pc, after, rd, mgr, net, restarts, done>>

(* A leader that is no longer a voter: propose() fails and so does run(). *)
DropProposal(s, q) ==
    /\ pc[s] = "idle"
    /\ reply[q] = "new"
    /\ IsLeader(s) /\ s \notin raft[s].voters
    /\ Goto(s, "stopped")
    /\ reply' = [Abandoned(s) EXCEPT ![q] = "lost"]
    /\ mgr' = [mgr EXCEPT ![s].pending = {}]
    /\ UNCHANGED <<disk, raft, after, rd, net, restarts, done>>

(* The rejected probe of m leads below the first index: a snapshot is due. *)
Probed(s, m, f) ==
    /\ m.type = "appendReject" /\ m.from = f
    /\ LET r == Step(raft[s], disk[s], s, m)
       IN  r.next[f] < raft[s].next[f] /\ NeedsSnapshot(r, disk[s], f)

(* A slip: the messages of the Ready leave before it is saved. *)
SlipHandleRaftMessage(s, m) ==
    LET r == Step(raft[s], disk[s], s, m)
    IN  /\ pc[s] = "idle"
        /\ m.to = s
        /\ ~StepFails(raft[s], disk[s], m)
        /\ HasReady(r, disk[s])
        /\ rd' = [rd EXCEPT ![s] = ReadyOf(r, disk[s], "inline")]
        /\ SetRaft(s, AfterReady(r, disk[s]))
        /\ net' = net \cup r.msgs
        /\ Goto(s, "save")
        /\ after' = [after EXCEPT ![s] = "idle"]
        /\ UNCHANGED <<disk, mgr, reply, restarts, done>>

(* step() and, under the same lock, the first Ready it gives rise to. *)
HandleRaftMessage(s, m) ==
    LET r == Step(raft[s], disk[s], s, m)
        d == disk[s]
    IN  /\ pc[s] = "idle"
        /\ m.to = s
        /\ ~StepFails(raft[s], disk[s], m)
        /\ ~\E f \in Server : Probed(s, m, f)
        /\ IF HasReady(r, d)
           THEN /\ rd' = [rd EXCEPT ![s] = ReadyOf(r, d, "inline")]
                /\ SetRaft(s, AfterReady(r, d))
                /\ Goto(s, "save")
                /\ after' = [after EXCEPT ![s] = "idle"]
           ELSE /\ SetRaft(s, r)
                /\ OnReadyThen(s, "idle")
                /\ UNCHANGED rd
        /\ UNCHANGED <<disk, mgr, net, reply, restarts, done>>

RefuseRaftMessage(s, m) ==
    /\ pc[s] = "idle"
    /\ m.to = s
    /\ StepFails(raft[s], disk[s], m)
    /\ Stop(s)

(* An answer of f makes the leader s turn to a snapshot. *)
SnapshotIsDue(s, f) ==
    /\ IsLeader(s)
    /\ f \in raft[s].voters \ {s}
    /\ \/ NeedsSnapshot(raft[s], disk[s], f) /\ pc[f] # "stopped"
       \/ \E m \in net : m.to = s /\ ~StepFails(raft[s], disk[s], m) /\ Probed(s, m, f)

AbortOnSnapshot(s, f) ==
    /\ pc[s] = "idle"
    /\ SnapshotIsDue(s, f)
    /\ SnapshotIndex(disk[s], 0) = 0
    /\ Stop(s)

(* RaftConfigManager::handle_conf_change: the caller is told Ok, and an    *)
(* added node becomes a peer, before anything is committed.  No on_ready   *)
(* follows.                                                                *)
HandleConfChange(s, kind, f) ==
    /\ pc[s] = "idle"
    /\ CanPropose(s)
    /\ SetRaft(s, ProposeConfChange(raft[s], disk[s], s, kind, f))
    /\ mgr' = [mgr EXCEPT ![s].peers = IF kind = "add" THEN @ \cup {f} ELSE @]
    /\ UNCHANGED <<disk, pc, after, rd, net, reply, restarts, done>>

---------------------------------------------------------------------------
(* on_ready, and the part of it handle_raft_message repeats inline *)

TakeReady(s) ==
    /\ pc[s] = "ready"
    /\ IF HasReady(raft[s], disk[s])
       THEN /\ rd' = [rd EXCEPT ![s] = ReadyOf(raft[s], disk[s], "ready")]
            /\ SetRaft(s, AfterReady(raft[s], disk[s]))
            /\ Goto(s, "save")
       ELSE Goto(s, after[s]) /\ UNCHANGED <<raft, rd>>
    /\ UNCHANGED <<disk, after, mgr, net, reply, restarts, done>>

(* A slip for the checks: the inline path forgets the entries. *)
SlipSaveEntries(s) ==
    /\ pc[s] = "save"
    /\ disk' = [disk EXCEPT ![s] =
                  IF rd[s].stage = "inline" THEN @ ELSE AppendEntries(@, rd[s].ents)]
    /\ Goto(s, "saveHs")
    /\ UNCHANGED <<raft, after, rd, mgr, net, reply, restarts, done>>

SaveEntries(s) ==
    /\ pc[s] = "save"
    /\ disk' = [disk EXCEPT ![s] = AppendEntries(@, rd[s].ents)]
    /\ Goto(s, "saveHs")
    /\ UNCHANGED <<raft, after, rd, mgr, net, reply, restarts, done>>

(* A slip: the hard state is saved for a new commit index only. *)
SlipSaveReadyHardState(s) ==
    /\ pc[s] = "saveHs"
    /\ disk' = [disk EXCEPT ![s] = IF rd[s].hsChanged /\ rd[s].hs.commit > @.hs.commit
                                   THEN SaveHardState(@, rd[s].hs) ELSE @]
    /\ Goto(s, "send")
    /\ UNCHANGED <<raft, after, rd, mgr, net, reply, restarts, done>>

SaveReadyHardState(s) ==
    /\ pc[s] = "saveHs"
    /\ disk' = [disk EXCEPT ![s] =
                  IF rd[s].hsChanged THEN SaveHardState(@, rd[s].hs) ELSE @]
    /\ Goto(s, "send")
    /\ UNCHANGED <<raft, after, rd, mgr, net, reply, restarts, done>>

(* on_ready sends messages(); only the inline path sends the messages that *)
(* wait for persistence as well.                                           *)
Sendable(s) == IF rd[s].persistedMsgs /\ rd[s].stage = "ready" THEN {} ELSE rd[s].msgs

SendMessages(s) ==
    /\ pc[s] = "send"
    /\ net' = net \cup Sendable(s)
    /\ Goto(s, "apply")
    /\ UNCHANGED <<disk, raft, after, rd, mgr, reply, restarts, done>>

More(s)    == rd[s].next <= rd[s].last
Current(s) == disk[s].log[rd[s].next]

NextEntry(s) == rd' = [rd EXCEPT ![s].next = @ + 1]
Processed(s) == done' = [done EXCEPT ![s] = @ \cup {rd[s].next}]

(* process_normal_entry: apply_entry, then the answer to the proposal.     *)
ApplyNormal(s) ==
    /\ pc[s] = "apply" /\ More(s)
    /\ Current(s).kind = "normal"
    /\ rd[s].stage # "inline"
    /\ disk' = [disk EXCEPT ![s].sm = Append(@, rd[s].next)]
    /\ Processed(s)
    /\ Goto(s, "answer")
    /\ UNCHANGED <<raft, after, rd, mgr, net, reply, restarts>>

(* A slip: the pending entry goes, the answer does not. *)
SlipAnswer(s) ==
    /\ pc[s] = "answer"
    /\ mgr' = [mgr EXCEPT ![s].pending = @ \ {Current(s).ctx}]
    /\ NextEntry(s)
    /\ Goto(s, "apply")
    /\ UNCHANGED <<disk, raft, after, net, reply, restarts, done>>

Answer(s) ==
    /\ pc[s] = "answer"
    /\ LET q == Current(s).ctx
       IN  IF q \in mgr[s].pending
           THEN /\ mgr' = [mgr EXCEPT ![s].pending = @ \ {q}]
                /\ reply' = [reply EXCEPT ![q] = "ok"]
           ELSE UNCHANGED <<mgr, reply>>
    /\ NextEntry(s)
    /\ Goto(s, "apply")
    /\ UNCHANGED <<disk, raft, after, net, restarts, done>>

(* apply_entry returns Err: the tables stay, and the proposer gets the     *)
(* error; nothing between the two survives a crash.                        *)
RejectNormal(s) ==
    /\ pc[s] = "apply" /\ More(s)
    /\ Current(s).kind = "normal" /\ Current(s).ctx \in Refusable
    /\ rd[s].stage # "inline"
    /\ LET q == Current(s).ctx
       IN  IF q \in mgr[s].pending
           THEN /\ mgr' = [mgr EXCEPT ![s].pending = @ \ {q}]
                /\ reply' = [reply EXCEPT ![q] = "error"]
           ELSE UNCHANGED <<mgr, reply>>
    /\ Processed(s)
    /\ NextEntry(s)
    /\ UNCHANGED <<disk, raft, pc, after, net, restarts>>

(* entries() has only the rows there are, so a missing one is passed over; *)
(* the inline path looks for configuration changes only.                   *)
PassOver(s) ==
    /\ pc[s] = "apply" /\ More(s)
    /\ \/ Current(s) = NoEntry
       \/ Current(s).kind = "normal" /\ rd[s].stage = "inline"
    /\ NextEntry(s)
    /\ UNCHANGED <<disk, raft, pc, after, mgr, net, reply, restarts, done>>

(* process_conf_change_entry and RaftConfigManager::apply_conf_change. *)
ApplyConf(s) ==
    /\ pc[s] = "apply" /\ More(s)
    /\ Current(s).kind \in {"add", "remove"}
    /\ ~ConfChangeFails(raft[s], Current(s))
    /\ LET e == Current(s)
           r == ApplyConfChange(raft[s], disk[s], s, e)
       IN  /\ SetRaft(s, r)
           /\ disk' = [disk EXCEPT ![s].clusterConf = r.voters]
           /\ mgr' = [mgr EXCEPT
                  ![s].peers = IF e.kind = "add" THEN @ \cup {e.node} ELSE @ \ {e.node},
                  ![s].needsRepl = @ \/ e.kind = "add"]
    /\ Processed(s)
    /\ NextEntry(s)
    /\ UNCHANGED <<pc, after, net, reply, restarts>>

FailConf(s) ==
    /\ pc[s] = "apply" /\ More(s)
    /\ Current(s).kind \in {"add", "remove"}
    /\ ConfChangeFails(raft[s], Current(s))
    /\ Stop(s)

(* let _ = node.advance(ready): the LightReady is dropped. *)
InlineAdvance(s) ==
    /\ pc[s] = "apply" /\ ~More(s)
    /\ rd[s].stage = "inline"
    /\ SetRaft(s, Advance(raft[s], disk[s], s))
    /\ rd' = [rd EXCEPT ![s] = NoReady]
    /\ OnReadyThen(s, "idle")
    /\ UNCHANGED <<disk, mgr, net, reply, restarts, done>>

(* advance_raft_node: the LightReady's messages go out, and its commit     *)
(* index decides whether entries were committed by this very cycle.        *)
AdvanceRaft(s) ==
    /\ pc[s] = "apply" /\ ~More(s)
    /\ rd[s].stage = "ready"
    /\ SetRaft(s, Advance(raft[s], disk[s], s))
    /\ net' = net \cup LightMsgs(raft[s], disk[s], s)
    /\ Goto(s, IF LightCommit(raft[s], disk[s], s) THEN "lightHs" ELSE "compact")
    /\ UNCHANGED <<disk, after, rd, mgr, reply, restarts, done>>

(* A slip: without the fallback for a Ready that handed out nothing. *)
SlipCurrentApplied(s) == rd[s].last

(* current_applied in handle_newly_committed_entries. *)
CurrentApplied(s) == IF rd[s].last > 0 THEN rd[s].last ELSE raft[s].applied

(* entries(first, committed + 1): the rows there are, if any, come next.   *)
Fetch(s, first) ==
    LET rows == {i \in first..raft[s].committed : disk[s].log[i] # NoEntry}
    IN  IF rows = {} THEN Goto(s, "compact") /\ UNCHANGED rd
        ELSE /\ rd' = [rd EXCEPT ![s].stage = "late", ![s].next = first,
                     ![s].last = CHOOSE i \in rows : \A j \in rows : j <= i]
             /\ Goto(s, "apply")

(* A slip: the new commit index is used but not saved. *)
SlipUnsavedCommit(s) ==
    /\ pc[s] = "lightHs"
    /\ Fetch(s, CurrentApplied(s) + 1)
    /\ UNCHANGED <<disk, raft, after, mgr, net, reply, restarts, done>>

(* A slip: the entries the LightReady committed are left for later. *)
SlipNoFetch(s) ==
    /\ pc[s] = "lightHs"
    /\ disk' = [disk EXCEPT ![s] = SaveHardState(@, HardStateOf(raft[s]))]
    /\ Goto(s, "compact")
    /\ UNCHANGED <<raft, after, rd, mgr, net, reply, restarts, done>>

(* A slip: the first of the entries to fetch is skipped. *)
SlipSkipFirst(s) ==
    /\ pc[s] = "lightHs"
    /\ disk' = [disk EXCEPT ![s] = SaveHardState(@, HardStateOf(raft[s]))]
    /\ Fetch(s, CurrentApplied(s) + 2)
    /\ UNCHANGED <<raft, after, mgr, net, reply, restarts, done>>

SaveLightCommit(s) ==
    /\ pc[s] = "lightHs"
    /\ disk' = [disk EXCEPT ![s] = SaveHardState(@, HardStateOf(raft[s]))]
    /\ Fetch(s, CurrentApplied(s) + 1)
    /\ UNCHANGED <<raft, after, mgr, net, reply, restarts, done>>

(* advance_apply_to(last_applied_index) *)
FinishLate(s) ==
    /\ pc[s] = "apply" /\ ~More(s)
    /\ rd[s].stage = "late"
    /\ SetRaft(s, [raft[s] EXCEPT !.applied = rd[s].last])
    /\ Goto(s, "compact")
    /\ UNCHANGED <<disk, after, rd, mgr, net, reply, restarts, done>>

(* check_and_trigger_log_compaction *)
Compact(s) ==
    LET applied == raft[s].applied
        last    == mgr[s].lastCompact
        upTo    == SnapshotIndex(disk[s], applied)
    IN  /\ pc[s] = "compact"
        /\ IF applied > CompactMin /\ (last = 0 \/ applied - last > CompactGap)
           THEN /\ disk' = [disk EXCEPT ![s] = CompactLogBefore(@, upTo)]
                /\ mgr' = [mgr EXCEPT ![s].lastCompact = upTo]
           ELSE UNCHANGED <<disk, mgr>>
        /\ rd' = [rd EXCEPT ![s] = NoReady]
        /\ Goto(s, after[s])
        /\ UNCHANGED <<raft, after, net, reply, restarts, done>>

---------------------------------------------------------------------------
(* A crash at any point, and the start that follows it.  RawNode::new      *)
(* aborts on a stored commit index outside of what the stored log covers.  *)
CommitStored(d) == d.hs.commit <= LastIndex(d.log)

Loadable(d) == CommitStored(d) /\ FirstIndex(d.log) - 1 <= d.hs.commit

Restart(s) ==
    /\ restarts < MaxRestarts
    /\ Loadable(disk[s])
    /\ restarts' = restarts + 1
    /\ SetRaft(s, NewRawNode(disk[s]))
    /\ Goto(s, FirstStep(s))
    /\ after' = [after EXCEPT ![s] = "idle"]
    /\ rd' = [rd EXCEPT ![s] = NoReady]
    /\ mgr' = [mgr EXCEPT ![s] = NewManager(s)]
    /\ reply' = Abandoned(s)
    /\ done' = [done EXCEPT ![s] = {}]
    /\ UNCHANGED <<disk, net>>

OnReady(s) ==
    \/ TakeReady(s) \/ SaveEntries(s) \/ SaveReadyHardState(s) \/ SendMessages(s)
    \/ ApplyNormal(s) \/ Answer(s) \/ RejectNormal(s) \/ PassOver(s) \/ ApplyConf(s) \/ FailConf(s)
    \/ InlineAdvance(s) \/ AdvanceRaft(s) \/ SaveLightCommit(s) \/ FinishLate(s)
    \/ Compact(s)

Proceed(s) ==
    \/ BootstrapCampaign(s) \/ BootstrapPropose(s)
    \/ Tick(s) \/ TriggerReplication(s) \/ OnReady(s)

NodeStep(s) ==
    \/ Proceed(s)
    \/ \E q \in Req : HandleProposal(s, q) \/ RefuseProposal(s, q) \/ DropProposal(s, q)
    \/ \E m \in net : HandleRaftMessage(s, m) \/ RefuseRaftMessage(s, m)
    \/ \E f \in Server : AbortOnSnapshot(s, f)
    \/ \E f \in Addable : HandleConfChange(s, "add", f)
    \/ \E f \in Removable : HandleConfChange(s, "remove", f)
    \/ Restart(s)

Next == \E s \in Server : NodeStep(s)

Spec == Init /\ [][Next]_vars

(* The run loop's task is scheduled as long as its process lives; crashes, *)
(* clients and the network owe nothing.                                    *)
FairSpec == Spec /\ \A s \in Server : WF_vars(Proceed(s))

---------------------------------------------------------------------------
(* Properties *)

Steps == {"bootstrap", "emptyProposal", "idle", "replicate", "ready", "save", "saveHs",
          "send", "apply", "answer", "lightHs", "compact", "stopped"}

Manager == [pending : SUBSET Req, peers : SUBSET Server, needsRepl : BOOLEAN,
            lastCompact : 0..MaxIndex]

(* Type invariant of the driver, the library's state, the disks and the network. *)
TypeOK ==
    /\ disk \in [Server -> Disk]
    /\ raft \in [Server -> RawNodeState]
    /\ pc \in [Server -> Steps]
    /\ after \in [Server -> {"idle", "replicate", "emptyProposal"}]
    /\ rd \in [Server -> Ready]
    /\ mgr \in [Server -> Manager]
    /\ net \subseteq Message
    /\ reply \in [Req -> {"new", "waiting", "ok", "error", "notLeader", "lost"}]
    /\ restarts \in 0..MaxRestarts
    /\ done \in [Server -> SUBSET Index]

(* RawNode::new aborts on a disk whose stored commit index is past the     *)
(* stored log, or short of where compaction has cut it.  A crash leaves    *)
(* none of the first kind: every path saves a Ready's entries before its   *)
(* hard state.  It may leave one of the second only while a commit index   *)
(* the library has reported is not saved yet, which the inline path allows *)
(* for long: the one of the LightReady it drops is never saved.            *)
EveryCrashIsLoadable ==
    \A s \in Server :
        /\ CommitStored(disk[s])
        /\ Loadable(disk[s]) \/ disk[s].hs.commit < raft[s].prevHs.commit

(* An append response is a promise: up to the index it names, the sender's *)
(* log reaches on disk, also after a crash right behind the send.          *)
AcknowledgedIsStored ==
    \A m \in net : m.type = "appendResp" => m.index <= LastIndex(disk[m.from].log)

(* No message carries a term its sender could forget: on_ready and the     *)
(* inline path save the hard state before a message of the Ready leaves.   *)
SentTermIsStored == \A m \in net : m.term <= disk[m.from].hs.term

(* The committed entries a handler is about to process are all stored:     *)
(* neither compaction nor the fetch behind a LightReady leaves a hole that *)
(* RedbRaftStorage::entries would silently skip.                           *)
HandedOutIsStored ==
    \A s \in Server : pc[s] = "apply" =>
        \A i \in rd[s].next..rd[s].last : i \in Index /\ disk[s].log[i] # NoEntry

(* A proposal answered Ok was applied, and its node's stored commit index  *)
(* already covers it: no crash takes it back.                              *)
AnsweredIsDurable ==
    \A q \in Req : reply[q] = "ok" =>
        \E s \in Server : \E k \in 1..Len(disk[s].sm) :
            /\ disk[s].sm[k] <= disk[s].hs.commit
            /\ LET e == disk[s].log[disk[s].sm[k]] IN e = NoEntry \/ e.ctx = q

(* In one life of a node no command reaches the state machine twice,       *)
(* although entries committed by a LightReady are handed out there and     *)
(* fetched from the storage too.                                           *)
AppliesOnce ==
    [][\A s \in Server : disk'[s].sm # disk[s].sm => rd[s].next \notin done[s]]_vars

(* Every entry a Ready handed out and advance() counted as applied since   *)
(* the node started was processed by the driver ("Process committed        *)
(* entries if any"), in each life of the node.                             *)
AppliedIsProcessed ==
    \A s \in Server : pc[s] = "idle" =>
        FirstIndex(disk[s].log)..raft[s].applied \subseteq done[s]

(* A proposal still pending at the select! has an entry yet to be handed   *)
(* out; otherwise nothing would ever answer it.                            *)
PendingHasEntry ==
    \A s \in Server : pc[s] = "idle" => \A q \in mgr[s].pending :
        \E i \in (raft[s].csi + 1)..MaxIndex : EntryAt(raft[s], disk[s], i).ctx = q

(* Election safety: "At most one leader per term".                         *)
OneLeaderPerTerm ==
    \A s, t \in Server : IsLeader(s) /\ IsLeader(t) /\ raft[s].term = raft[t].term => s = t

(* When a voter needs what the leader compacted away, the storage can make *)
(* a snapshot for it: the library asks with request index 0 and aborts on  *)
(* a snapshot whose index is 0.                                            *)
LaggingVoterIsServed ==
    \A s, f \in Server :
        pc[s] = "idle" /\ SnapshotIsDue(s, f) => SnapshotIndex(disk[s], 0) > 0

(* Every accepted proposal is answered, or its client sees the channel     *)
(* close.                                                                  *)
WaitingIsAnswered ==
    \A q \in Req : reply[q] = "waiting" ~> reply[q] # "waiting"
===========================================================================
