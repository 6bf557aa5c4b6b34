-------------------------- MODULE BatchProcessor --------------------------
(***************************************************************************)
(* OptimizedRaftBatchProcessor (src/src/raft/optimized_batch_processor.rs) *)
(* between its bounded channel of proposals and the raft task.  Proposals  *)
(* are numbered in the order the clients send them.                        *)
(*                                                                         *)
(* One task runs the processor in one of three modes; a second one removes *)
(* expired proposals from the batches every 30 seconds.  Time is the age   *)
(* of a batch, counted in the thresholds should_flush compares it with.    *)
(***************************************************************************)
EXTENDS Integers, FiniteSets, Sequences

CONSTANTS
    Proposals,     \* bound on the number of proposals
    Priorities,    \* the priorities clients use, of 0 (Low) .. 3 (Critical)
    BufferSize,    \* stream_buffer_size: the channel's capacity
    MaxBatch,      \* max_batch_size
    MinBatch,      \* min_batch_size
    MinSamples,    \* batches recorded before the optimal size is learned, 5 in the code
    MaxPending     \* max_pending_proposals

ASSUME BatchAssumption ==
    /\ Proposals \in Nat /\ BufferSize \in Nat \ {0} /\ MaxPending \in Nat /\ MinSamples \in Nat
    /\ Priorities \subseteq 0..3
    /\ MinBatch \in Nat \ {0} /\ MaxBatch \in Nat /\ MinBatch <= MaxBatch

VARIABLES
    mode,       \* "streaming", "traditional" or "passthrough"
    adaptive,   \* enable_adaptive_batching
    samples,    \* the batches of the streaming mode recorded so far, up to MinSamples
    inbox,      \* the channel from the clients
    prio,       \* prio[p]: the priority of each proposal sent so far
    expired,    \* the proposals whose timeout has passed
    batches,    \* priority_batches
    groups,     \* the priority groups of the chunk being streamed
    flushing,   \* the batches in the hands of process_single_batch
    pending,    \* the pending_proposals counter
    raftUp,     \* whether the raft task still receives
    raftq,      \* what was sent to it and is not answered
    reply       \* what the client of each proposal has been told

vars == <<mode, adaptive, samples, inbox, prio, expired, batches, groups, flushing, pending,
          raftUp, raftq, reply>>

sizing == <<adaptive, samples>>

Proposal == 1..Proposals
Elems(s) == {s[i] : i \in DOMAIN s}

(* The elements of s that are in S, in their order; written as a recursive *)
(* function, for SelectSeq has no definition that could be reasoned about. *)
Only(s, S) ==
    LET kept[n \in 0..Len(s)] ==
            IF n = 0 THEN << >>
            ELSE IF s[n] \in S THEN Append(kept[n - 1], s[n]) ELSE kept[n - 1]
    IN  kept[Len(s)]

Without(s, i) == [j \in 1..(Len(s) - 1) |-> IF j < i THEN s[j] ELSE s[j + 1]]

Init ==
    /\ mode \in {"streaming", "traditional", "passthrough"}
    /\ adaptive \in BOOLEAN /\ (mode # "streaming" => adaptive)  \* read by that mode only
    /\ samples = 0
    /\ inbox = << >> /\ prio = << >> /\ expired = {}
    /\ batches = << >> /\ groups = [k \in 0..3 |-> << >>] /\ flushing = {}
    /\ pending = 0
    /\ raftUp = TRUE /\ raftq = {}
    /\ reply = [p \in Proposal |-> "none"]

Told(S, what) == [p \in Proposal |-> IF p \in S THEN what ELSE reply[p]]

---------------------------------------------------------------------------
(* Batches *)

NewBatch == [items |-> << >>, label |-> 1, age |-> 0]

(* Slips for the checks: the label is not raised; the newest goes first. *)
SlipLabel(b, p) == [b EXCEPT !.items = Append(@, p)]
SlipFront(b, p) ==
    [b EXCEPT !.items = <<p>> \o @, !.label = IF prio[p] > @ THEN prio[p] ELSE @]

(* add(): the label is the highest priority, but never below Normal here. *)
AddTo(b, p) ==
    [b EXCEPT !.items = Append(@, p), !.label = IF prio[p] > @ THEN prio[p] ELSE @]

(* Ages 1..4: 1 ms, high_priority_threshold, batch_timeout_ms and twice it. *)
Timeout(label) == 4 - label

(* A slip: size alone decides. *)
SlipShouldFlush(b, large) == b.items # << >> /\ (Len(b.items) >= MaxBatch \/ large)

(* large: its total size has reached max_batch_bytes.                      *)
ShouldFlush(b, large) ==
    /\ b.items # << >>
    /\ Len(b.items) >= MaxBatch \/ large \/ b.age >= Timeout(b.label)

ExpiredOf(b) == Elems(b.items) \cap expired

Highest(ps) == CHOOSE k \in {prio[p] : p \in ps} : \A p \in ps : prio[p] <= k

(* A slip: expired proposals are answered but stay in their batch. *)
SlipRemoveExpired(b) == b

(* remove_expired() recomputes the label even when nothing has expired. *)
RemoveExpired(b) ==
    LET left == Only(b.items, Proposal \ expired)
    IN  [b EXCEPT !.items = left, !.label = IF left = << >> THEN 1 ELSE Highest(Elems(left))]

---------------------------------------------------------------------------
(* Clients, time and the raft task *)

Submit(k) ==
    /\ Len(prio) < Proposals
    /\ Len(inbox) < BufferSize
    /\ prio' = Append(prio, k)
    /\ inbox' = Append(inbox, Len(prio) + 1)
    /\ UNCHANGED <<mode, sizing, expired, batches, groups, flushing, pending, raftUp, raftq, reply>>

Expire(p) ==
    /\ p \notin expired
    /\ \E i \in DOMAIN batches : p \in Elems(batches[i].items)
    /\ expired' = expired \cup {p}
    /\ UNCHANGED <<mode, sizing, inbox, prio, batches, groups, flushing, pending, raftUp, raftq, reply>>

(* A batch reaches the age at which its label lets it be flushed. *)
GrowOld(i) ==
    /\ i \in DOMAIN batches
    /\ batches[i].age < Timeout(batches[i].label)
    /\ batches' = [batches EXCEPT ![i].age = Timeout(batches[i].label)]
    /\ UNCHANGED <<mode, sizing, inbox, prio, expired, groups, flushing, pending, raftUp, raftq, reply>>

(* The raft task answers a proposal; distribution to the clients of a      *)
(* batched one is the task create_batched_proposal spawns.                 *)
RaftAnswers(b) ==
    /\ b \in raftq
    /\ raftq' = raftq \ {b}
    /\ reply' = Told(Elems(b), "answered")
    /\ UNCHANGED <<mode, sizing, inbox, prio, expired, batches, groups, flushing, pending, raftUp>>

(* The raft task ends: what waits in its channel is dropped unanswered. *)
RaftEnds ==
    /\ raftUp
    /\ raftUp' = FALSE /\ raftq' = {}
    /\ reply' = Told(UNION {Elems(b) : b \in raftq}, "answered")
    /\ UNCHANGED <<mode, sizing, inbox, prio, expired, batches, groups, flushing, pending>>

---------------------------------------------------------------------------
(* Sending *)

(* raft_tx.send: a closed channel drops the proposal and with it the       *)
(* client's channel.                                                       *)
SendToRaft(b) ==
    IF raftUp
    THEN raftq' = raftq \cup {b} /\ UNCHANGED reply
    ELSE reply' = Told(Elems(b), "dropped") /\ UNCHANGED raftq

(* A slip: the counter is decremented once per batch. *)
SlipProcessBatch(b) ==
    /\ b \in flushing
    /\ flushing' = flushing \ {b}
    /\ SendToRaft(b)
    /\ pending' = IF raftUp THEN pending - 1 ELSE pending
    /\ UNCHANGED <<mode, sizing, inbox, prio, expired, batches, groups, raftUp>>

(* process_single_batch: only a batch that was sent leaves the counter. *)
ProcessBatch(b) ==
    /\ b \in flushing
    /\ flushing' = flushing \ {b}
    /\ SendToRaft(b)
    /\ pending' = IF raftUp THEN pending - Len(b) ELSE pending
    /\ UNCHANGED <<mode, sizing, inbox, prio, expired, batches, groups, raftUp>>

Idle == flushing = {} /\ \A k \in 0..3 : groups[k] = << >>

---------------------------------------------------------------------------
(* Traditional mode *)

(* A slip: one more than the limit. *)
SlipFull == pending > MaxPending

Full == pending >= MaxPending

(* A full processor drops the proposal and its channel. *)
RefuseProposal ==
    /\ mode = "traditional" /\ Idle /\ inbox # << >>
    /\ Full
    /\ reply' = Told({Head(inbox)}, "refused")
    /\ inbox' = Tail(inbox)
    /\ UNCHANGED <<mode, sizing, prio, expired, batches, groups, flushing, pending, raftUp, raftq>>

(* add_to_priority_batch: the first batch with the proposal's priority,    *)
(* which may become large by it.                                           *)
AddToPriorityBatch(large) ==
    /\ mode = "traditional" /\ Idle /\ inbox # << >>
    /\ ~Full
    /\ pending' = pending + 1
    /\ inbox' = Tail(inbox)
    /\ LET p     == Head(inbox)
           same  == {i \in DOMAIN batches : batches[i].label = prio[p]}
           all   == IF same = {} THEN Append(batches, NewBatch) ELSE batches
           at    == IF same = {} THEN Len(all) ELSE CHOOSE i \in same : \A j \in same : i <= j
           grown == AddTo(all[at], p)
       IN  IF ShouldFlush(grown, large)
           THEN batches' = Without(all, at) /\ flushing' = {grown.items}
           ELSE batches' = [all EXCEPT ![at] = grown] /\ UNCHANGED flushing
    /\ UNCHANGED <<mode, sizing, prio, expired, groups, raftUp, raftq, reply>>

(* flush_ready_batches, at every tick of the flush interval.  No batch in  *)
(* priority_batches is large: it was flushed when it became so.            *)
FlushReady ==
    LET ready   == {i \in DOMAIN batches : ShouldFlush(batches[i], FALSE)}
        kept    == Only(batches, {b \in Elems(batches) : ~ShouldFlush(b, FALSE)})
        timeout == UNION {ExpiredOf(kept[i]) : i \in DOMAIN kept}
    IN  /\ mode = "traditional" /\ Idle
        /\ flushing' = {batches[i].items : i \in ready}
        /\ batches' = [i \in DOMAIN kept |-> RemoveExpired(kept[i])]
        /\ reply' = Told(timeout, "timeout")
        /\ UNCHANGED <<mode, sizing, inbox, prio, expired, groups, pending, raftUp, raftq>>

(* start_background_tasks: the cleanup task drops what has expired, in     *)
(* whatever the processor is doing, without an answer.                     *)
Cleanup ==
    /\ mode # "passthrough"
    /\ batches' = [i \in DOMAIN batches |-> RemoveExpired(batches[i])]
    /\ reply' = Told(UNION {ExpiredOf(batches[i]) : i \in DOMAIN batches}, "dropped")
    /\ UNCHANGED <<mode, sizing, inbox, prio, expired, groups, flushing, pending, raftUp, raftq>>

---------------------------------------------------------------------------
(* Streaming mode: a chunk, grouped by priority, in batches of the size    *)
(* get_optimal_batch_size or the configuration gives.                      *)

CollectChunk ==
    /\ mode = "streaming" /\ Idle /\ inbox # << >>
    /\ groups' = [k \in 0..3 |-> Only(inbox, {p \in DOMAIN prio : prio[p] = k})]
    /\ inbox' = << >>
    /\ UNCHANGED <<mode, sizing, prio, expired, batches, flushing, pending, raftUp, raftq, reply>>

OptimalSizes ==
    IF ~adaptive THEN {MaxBatch}
    ELSE IF samples < MinSamples THEN {MaxBatch \div 2} ELSE MinBatch..MaxBatch

(* process_priority_group, one batch of it.  A size of 0, half of a        *)
(* MaxBatch of 1, takes an empty batch, which is neither sent nor          *)
(* recorded, and the loop goes on so for ever.                             *)
ProcessGroup(k, size) ==
    LET g == groups[k]
        n == IF size < Len(g) THEN size ELSE Len(g)
    IN  /\ g # << >> /\ raftUp
        /\ IF n = 0 THEN UNCHANGED vars
           ELSE /\ SendToRaft(SubSeq(g, 1, n))
                /\ groups' = [groups EXCEPT ![k] = SubSeq(g, n + 1, Len(g))]
                /\ pending' = pending - n
                /\ samples' = IF samples < MinSamples THEN samples + 1 ELSE samples
                /\ UNCHANGED <<mode, adaptive, inbox, prio, expired, batches, flushing, raftUp>>

(* The send failed, or earlier ones did and the circuit breaker is open:   *)
(* the batch and the rest of its group go.                                 *)
DropGroup(k) ==
    /\ groups[k] # << >>
    /\ ~raftUp /\ OptimalSizes # {0}
    /\ reply' = Told(Elems(groups[k]), "dropped")
    /\ groups' = [groups EXCEPT ![k] = << >>]
    /\ UNCHANGED <<mode, sizing, inbox, prio, expired, batches, flushing, pending, raftUp, raftq>>

Passthrough ==
    /\ mode = "passthrough" /\ inbox # << >>
    /\ SendToRaft(<<Head(inbox)>>)
    /\ inbox' = Tail(inbox)
    /\ UNCHANGED <<mode, sizing, prio, expired, batches, groups, flushing, pending, raftUp>>
---------------------------------------------------------------------------
Processor ==
    \/ RefuseProposal \/ FlushReady
    \/ \E large \in BOOLEAN : AddToPriorityBatch(large)
    \/ \E b \in flushing : ProcessBatch(b)
    \/ CollectChunk \/ Passthrough
    \/ \E k \in 0..3 : DropGroup(k) \/ \E size \in OptimalSizes : ProcessGroup(k, size)

Next ==
    \/ \E k \in Priorities : Submit(k)
    \/ \E p \in Proposal : Expire(p)
    \/ \E i \in DOMAIN batches : GrowOld(i)
    \/ \E b \in raftq : RaftAnswers(b)
    \/ RaftEnds \/ Cleanup \/ Processor

Spec == Init /\ [][Next]_vars

(* The processor's task is scheduled, its interval ticks and time passes;  *)
(* select! picks among ready branches at random, so a tick is not starved. *)
(* Clients, the raft task and the cleanup task owe nothing.                *)
FairSpec ==
    /\ Spec
    /\ WF_vars(\/ RefuseProposal \/ CollectChunk \/ Passthrough
               \/ \E large \in BOOLEAN : AddToPriorityBatch(large))
    /\ WF_vars(\E b \in flushing : ProcessBatch(b))
    /\ WF_vars(\E k \in 0..3 : DropGroup(k) \/ \E size \in OptimalSizes : ProcessGroup(k, size))
    /\ SF_vars(FlushReady)
    /\ \A i \in Proposal : WF_vars(GrowOld(i))

---------------------------------------------------------------------------
(* Properties *)

Batched   == UNION {Elems(batches[i].items) : i \in DOMAIN batches}
InFlight  == UNION {Elems(b) : b \in flushing}
WithRaft  == UNION {Elems(b) : b \in raftq}

(* The stage keeps the promise of ProposalPipe: a client that was told     *)
(* "timeout", or whose channel was dropped before its proposal left, never *)
(* finds its command in the log, and no proposal is sent twice, in all     *)
(* modes, whatever expires while batches are flushed.                      *)
Refusals == {"refused", "timeout", "dropped"}

FateOf(p) ==
    CASE p \in WithRaft -> "handed"
      [] p \notin WithRaft /\ reply[p] = "answered" -> "answered"
      [] p \notin WithRaft /\ reply[p] \in Refusals -> "refused"
      [] p \notin WithRaft /\ reply[p] = "none" -> IF p > Len(prio) THEN "new" ELSE "held"

Pipe == INSTANCE ProposalPipe WITH Client <- Proposal, fate <- [p \in Proposal |-> FateOf(p)]

RefinesPipe == Pipe!PipeSpec

(* The counter behind the limit counts what is queued and, for good, every *)
(* proposal that expired in a batch or was refused by a closed raft        *)
(* channel: these never leave it.                                          *)
PendingIsAccounted ==
    mode = "traditional" =>
        pending = Cardinality(Batched \cup InFlight)
                  + Cardinality({p \in Proposal : reply[p] \in {"timeout", "dropped"}})

(* Because of that the limit holds: no more than MaxPending proposals are  *)
(* in the batches, however they expire or fail.                            *)
LimitHolds == Cardinality(Batched \cup InFlight) <= MaxPending \/ mode # "traditional"

(* A batch with an urgent proposal in it carries an urgent label, so that  *)
(* should_flush gives it the urgent timeout, also after its label was      *)
(* recomputed by remove_expired.                                           *)
UrgentIsLabelled ==
    \A i \in DOMAIN batches : \A p \in Elems(batches[i].items) : prio[p] <= batches[i].label

(* In the traditional mode proposals of one priority above Normal reach    *)
(* the raft task in the order their clients sent them: a proposal in a     *)
(* batch that is sent follows its elders there, and leaves none of them    *)
(* behind.  Not so the Normal ones: an emptied batch keeps its place under *)
(* the label Normal and draws them away from the batch of their elders.    *)
InOrder(b) ==
    \A j \in DOMAIN b : prio[b[j]] > 1 =>
        /\ \A i \in 1..(j - 1) : prio[b[i]] = prio[b[j]] => b[i] < b[j]
        /\ \A q \in (Batched \cup InFlight \cup Elems(inbox)) \ Elems(b) :
               prio[q] = prio[b[j]] => b[j] < q

KeepsOrder == [][mode = "traditional" => \A b \in raftq' \ raftq : InOrder(b)]_vars

(* No proposal stays in the stage: it is handed on, refused or timed out.  *)
NobodyIsKept ==
    \A p \in Proposal : FateOf(p) = "held" ~> FateOf(p) # "held"
===========================================================================
