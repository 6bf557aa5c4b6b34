--------------------------- MODULE IrohTransport ---------------------------
(***************************************************************************)
(* IrohRaftTransport (src/src/transport/iroh.rs) with the peers it reads   *)
(* from SharedNodeState (shared.rs) and the framing of protocol.rs: tasks  *)
(* that send, the batch task that retries what could not be sent at once,  *)
(* the health checker, the shutdown, and the peer's protocol handler.      *)
(*                                                                         *)
(* Messages are numbered in the order they are handed to send_message.     *)
(* Sizes count in chunks of 32 KB.  Whether a connection still carries a   *)
(* stream is the network's choice at every write, so that a connection is  *)
(* no more than its age.                                                   *)
(***************************************************************************)
EXTENDS Integers, FiniteSets, Sequences

CONSTANTS
    Peers,          \* the nodes messages go to
    Senders,        \* the tasks that call send_message
    Messages,       \* bound on the number of messages
    Priorities,     \* the priorities they have, of 0 (Election) .. 3 (Snapshot)
    Sizes,          \* the payload sizes of Snapshot messages
    MaxBuffered,    \* MAX_BUFFERED
    BatchLimit,     \* messages sent to one peer in a round
    LargeThreshold, \* LARGE_MESSAGE_THRESHOLD
    MaxPayload      \* the largest payload a reader accepts

ASSUME TransportAssumption ==
    /\ Messages \in Nat
    /\ Priorities \subseteq 0..3 /\ Sizes \subseteq Nat
    /\ {MaxBuffered, BatchLimit} \subseteq Nat \ {0}
    /\ {LargeThreshold, MaxPayload} \subseteq Nat

VARIABLES
    known,      \* the peers SharedNodeState holds an iroh node id of
    table,      \* connections: "none", "fresh", or "old" after 300 seconds
    msgs,       \* the messages sent so far: [by, to, prio, size]
    sender,     \* where each sending task is: [pc, msg]
    buffer,     \* message_buffer: one queue per peer
    aged,       \* buffered messages that have waited for 30 seconds
    batch,      \* the batch task: [pc, todo, peer, sent], and whether the last
                \* connection it tried failed (refused, which only properties read)
    health,     \* the health checker: [pc, stale]
    stopping,   \* shutdown: "no", "joining" or "done"
    fate        \* how each message ended: "sent", "dropped", or "none" so far

vars == <<known, table, msgs, sender, buffer, aged, batch, health, stopping, fate>>
tasks == <<sender, batch, health, stopping>>
links == <<known, table>>

Msg == 1..Messages
Elems(s) == {s[i] : i \in DOMAIN s}
SmallestOf(S) == CHOOSE k \in S : \A j \in S : k <= j

IdleSender == [pc |-> "idle", msg |-> 0]
IdleBatch ==
    [pc |-> "idle", todo |-> {}, peer |-> CHOOSE p \in Peers : TRUE, sent |-> 0, refused |-> FALSE]

Init ==
    /\ known \in SUBSET Peers
    /\ table = [p \in Peers |-> "none"]
    /\ msgs = << >>
    /\ sender = [s \in Senders |-> IdleSender]
    /\ buffer = [p \in Peers |-> << >>] /\ aged = {}
    /\ batch = IdleBatch
    /\ health = [pc |-> "idle", stale |-> {}]
    /\ stopping = "no"
    /\ fate = [m \in Msg |-> "none"]

---------------------------------------------------------------------------
(* Framing: what write_message puts on a stream, write by write, and what  *)
(* read_message makes of the part of it that arrives.                      *)

(* A small message is one write; a large one is the header's length, the   *)
(* header and the payload chunk by chunk.                                  *)
Writes(n) == IF n > LargeThreshold THEN 2 + n ELSE 1

(* A slip: the payload is delivered as far as it came.                     *)
SlipAccepted(n, got) == IF n > LargeThreshold THEN got >= 2 ELSE got = 1

(* The reader wants every byte the header announces, and refuses a payload *)
(* above its limit, which no writer checks.                                *)
Accepted(n, got) == got = Writes(n) /\ n <= MaxPayload

(* A message the peer accepts is sent.  Once written as a whole it is sent *)
(* for this side, which ignores the answer: it may still be lost with the  *)
(* stream or refused by the reader.                                        *)
Sent(m, got) ==
    IF got = Writes(msgs[m].size) \/ Accepted(msgs[m].size, got)
    THEN [fate EXCEPT ![m] = IF @ = "none" THEN "sent" ELSE "twice"]
    ELSE fate

---------------------------------------------------------------------------
(* SharedNodeState and the network *)

(* add_peer, or register_node for a peer that was added without an id.     *)
AddPeer(p) ==
    /\ p \notin known
    /\ known' = known \cup {p}
    /\ UNCHANGED <<table, msgs, tasks, buffer, aged, fate>>

RemovePeer(p) ==
    /\ p \in known
    /\ known' = known \ {p}
    /\ UNCHANGED <<table, msgs, tasks, buffer, aged, fate>>

ConnAges(p) ==
    /\ table[p] = "fresh"
    /\ table' = [table EXCEPT ![p] = "old"]
    /\ UNCHANGED <<known, msgs, tasks, buffer, aged, fate>>

MessageAges(m) ==
    /\ m \notin aged /\ \E p \in Peers : m \in Elems(buffer[p])
    /\ aged' = aged \cup {m}
    /\ UNCHANGED <<links, msgs, tasks, buffer, fate>>

---------------------------------------------------------------------------
(* send_message *)

At(s, pc) == [sender EXCEPT ![s].pc = pc]

(* Snapshots are left to the batch task.  The rest is tried at once, over  *)
(* the stored connection if it is fresh.                                   *)
Send(s, p, k, n) ==
    /\ sender[s].pc = "idle" /\ stopping = "no"
    /\ Len(msgs) < Messages
    /\ k = 3 \/ n = SmallestOf(Sizes)
    /\ msgs' = Append(msgs, [by |-> s, to |-> p, prio |-> k, size |-> n])
    /\ sender' = [sender EXCEPT ![s] =
         [msg |-> Len(msgs) + 1,
          pc  |-> IF k = 3 THEN "buffer" ELSE IF table[p] = "fresh" THEN "write"
                  ELSE IF p \in known THEN "connect" ELSE "buffer"]]
    /\ UNCHANGED <<links, batch, health, stopping, buffer, aged, fate>>

(* Refused, or not made within 10 seconds, it fails.                       *)
Connect(s, ok) ==
    /\ sender[s].pc = "connect"
    /\ sender' = At(s, IF ok THEN "insert" ELSE "buffer")
    /\ UNCHANGED <<links, msgs, batch, health, stopping, buffer, aged, fate>>

(* The batch task reads the table while it connects.                       *)
TableIsFree == batch.pc # "connecting"

(* The last of two senders that connect at the same time stays.            *)
Insert(s) ==
    /\ sender[s].pc = "insert" /\ TableIsFree
    /\ table' = [table EXCEPT ![msgs[sender[s].msg].to] = "fresh"]
    /\ sender' = At(s, "write")
    /\ UNCHANGED <<known, msgs, batch, health, stopping, buffer, aged, fate>>

Write(s) ==
    /\ sender[s].pc = "write"
    /\ fate' = Sent(sender[s].msg, Writes(msgs[sender[s].msg].size))
    /\ sender' = [sender EXCEPT ![s] = [IdleSender EXCEPT !.pc = "answer"]]
    /\ UNCHANGED <<links, msgs, batch, health, stopping, buffer, aged>>

(* read_message returns, with an answer or without: what it is is ignored, *)
(* but it is waited for without a time limit.                              *)
Answered(s) ==
    /\ sender[s].pc = "answer"
    /\ sender' = [sender EXCEPT ![s] = IdleSender]
    /\ UNCHANGED <<links, msgs, batch, health, stopping, buffer, aged, fate>>

(* No stream, or the connection ends in the middle of a frame, of which    *)
(* the peer gets the first k writes.                                       *)
WriteFails(s, k) ==
    /\ sender[s].pc = "write"
    /\ k < Writes(msgs[sender[s].msg].size)
    /\ sender' = At(s, "buffer")
    /\ fate' = Sent(sender[s].msg, k)
    /\ UNCHANGED <<links, msgs, batch, health, stopping, buffer, aged>>

(* Before the first message of a lower priority.                           *)
PlaceIn(q, m) ==
    LET lower == {i \in DOMAIN q : msgs[q[i]].prio > msgs[m].prio}
    IN  IF lower = {} THEN Len(q) + 1 ELSE SmallestOf(lower)

(* buffer_message, once the batch task has let go of the buffer.           *)
Buffer(s) ==
    LET m    == sender[s].msg
        p    == msgs[m].to
        q    == buffer[p]
        at   == PlaceIn(q, m)
        full == SubSeq(q, 1, at - 1) \o <<m>> \o SubSeq(q, at, Len(q))
        kept == IF Len(full) > MaxBuffered THEN SubSeq(full, 1, MaxBuffered) ELSE full
    IN  /\ sender[s].pc = "buffer" /\ batch.pc \in {"idle", "ended"}
        /\ buffer' = [buffer EXCEPT ![p] = kept]
        /\ aged' = aged \ (Elems(full) \ Elems(kept))
        /\ fate' = [x \in Msg |-> IF x \in Elems(full) \ Elems(kept) THEN "dropped" ELSE fate[x]]
        /\ sender' = [sender EXCEPT ![s] = IdleSender]
        /\ UNCHANGED <<links, msgs, batch, health, stopping>>

---------------------------------------------------------------------------
(* The batch task: process_message_batches, with the buffer locked.        *)

Round ==
    /\ batch.pc = "idle"
    /\ batch' = [IdleBatch EXCEPT !.pc = "peers", !.todo = {p \in Peers : buffer[p] # << >>}]
    /\ batch'.todo # {}
    /\ UNCHANGED <<links, msgs, sender, health, stopping, buffer, aged, fate>>

(* A slip: a peer without a connection is passed over. *)
SlipNextPeer(p) ==
    /\ batch.pc = "peers" /\ p \in batch.todo
    /\ batch' = [batch EXCEPT !.todo = @ \ {p}, !.peer = p, !.sent = 0, !.refused = FALSE,
                              !.pc = IF table[p] # "none" THEN "send" ELSE "peers"]
    /\ UNCHANGED <<links, msgs, sender, health, stopping, buffer, aged, fate>>

(* It takes a stored connection whatever its age, or connects, without a   *)
(* time limit and with the table locked for reading.                       *)
NextPeer(p) ==
    /\ batch.pc = "peers" /\ p \in batch.todo
    /\ batch' = [batch EXCEPT !.todo = @ \ {p}, !.peer = p, !.sent = 0, !.refused = FALSE,
                              !.pc = IF table[p] # "none" THEN "send"
                                     ELSE IF p \in known THEN "connecting" ELSE "peers"]
    /\ UNCHANGED <<links, msgs, sender, health, stopping, buffer, aged, fate>>

(* The connection is not stored.  Without one the peer is left, and what   *)
(* waits for it is neither sent nor looked at for its age.                 *)
BatchConnect(ok) ==
    /\ batch.pc = "connecting"
    /\ batch' = [batch EXCEPT !.pc = IF ok THEN "send" ELSE "peers", !.refused = ~ok]
    /\ UNCHANGED <<links, msgs, sender, health, stopping, buffer, aged, fate>>

Queue == buffer[batch.peer]
Pop == buffer' = [buffer EXCEPT ![batch.peer] = Tail(@)]

SkipAged ==
    /\ batch.pc = "send" /\ Queue # << >> /\ Head(Queue) \in aged
    /\ batch.sent < BatchLimit
    /\ Pop
    /\ fate' = [fate EXCEPT ![Head(Queue)] = "dropped"]
    /\ aged' = aged \ {Head(Queue)}
    /\ UNCHANGED <<links, msgs, sender, batch, health, stopping>>

BatchSend ==
    /\ batch.pc = "send" /\ Queue # << >> /\ Head(Queue) \notin aged
    /\ batch.sent < BatchLimit
    /\ fate' = Sent(Head(Queue), Writes(msgs[Head(Queue)].size))
    /\ Pop
    /\ batch' = [batch EXCEPT !.sent = @ + 1, !.pc = "answer"]
    /\ UNCHANGED <<links, msgs, sender, health, stopping, aged>>

(* The answer is waited for with the buffer locked, without a time limit.  *)
BatchAnswered ==
    /\ batch.pc = "answer"
    /\ batch' = [batch EXCEPT !.pc = "send"]
    /\ UNCHANGED <<links, msgs, sender, health, stopping, buffer, aged, fate>>

(* A slip: what could not be sent goes to the end of the queue. *)
SlipBatchSendFails(k) ==
    /\ batch.pc = "send" /\ Queue # << >> /\ Head(Queue) \notin aged
    /\ batch.sent < BatchLimit /\ k < Writes(msgs[Head(Queue)].size)
    /\ batch' = [batch EXCEPT !.pc = "peers"]
    /\ buffer' = [buffer EXCEPT ![batch.peer] = Append(Tail(@), Head(@))]
    /\ fate' = Sent(Head(Queue), k)
    /\ UNCHANGED <<links, msgs, sender, health, stopping, aged>>

(* What could not be sent is put back in front, and its peer is left.      *)
BatchSendFails(k) ==
    /\ batch.pc = "send" /\ Queue # << >> /\ Head(Queue) \notin aged
    /\ batch.sent < BatchLimit /\ k < Writes(msgs[Head(Queue)].size)
    /\ batch' = [batch EXCEPT !.pc = "peers"]
    /\ fate' = Sent(Head(Queue), k)
    /\ UNCHANGED <<links, msgs, sender, health, stopping, buffer, aged>>

LeavePeer ==
    /\ batch.pc = "send"
    /\ Queue = << >> \/ batch.sent = BatchLimit
    /\ batch' = [batch EXCEPT !.pc = "peers"]
    /\ UNCHANGED <<links, msgs, sender, health, stopping, buffer, aged, fate>>

EndRound ==
    /\ batch.pc = "peers" /\ batch.todo = {}
    /\ batch' = IdleBatch
    /\ UNCHANGED <<links, msgs, sender, health, stopping, buffer, aged, fate>>

(* A slip: the buffer is to be emptied first. *)
SlipBatchStops ==
    /\ batch.pc = "idle" /\ stopping # "no" /\ \A p \in Peers : buffer[p] = << >>
    /\ batch' = [batch EXCEPT !.pc = "ended"]
    /\ UNCHANGED <<links, msgs, sender, health, stopping, buffer, aged, fate>>

BatchStops ==
    /\ batch.pc = "idle" /\ stopping # "no"
    /\ batch' = [batch EXCEPT !.pc = "ended"]
    /\ UNCHANGED <<links, msgs, sender, health, stopping, buffer, aged, fate>>

---------------------------------------------------------------------------
(* The health checker: it collects under a read lock what it removes under *)
(* a write lock.                                                           *)

Collect ==
    LET stale == {p \in Peers : table[p] = "old"}
    IN  /\ health.pc = "idle" /\ stale # {}
        /\ health' = [pc |-> "remove", stale |-> stale]
        /\ UNCHANGED <<links, msgs, sender, batch, stopping, buffer, aged, fate>>

(* By peer: a connection made in between goes too.                         *)
RemoveStale ==
    /\ health.pc = "remove" /\ TableIsFree
    /\ table' = [p \in Peers |-> IF p \in health.stale THEN "none" ELSE table[p]]
    /\ health' = [pc |-> "idle", stale |-> {}]
    /\ UNCHANGED <<known, msgs, sender, batch, stopping, buffer, aged, fate>>

HealthStops ==
    /\ health.pc = "idle" /\ stopping # "no"
    /\ health' = [health EXCEPT !.pc = "ended"]
    /\ UNCHANGED <<links, msgs, sender, batch, stopping, buffer, aged, fate>>

---------------------------------------------------------------------------
(* shutdown: signal, wait for the two tasks, close what the table holds.   *)

Shutdown ==
    /\ stopping = "no"
    /\ stopping' = "joining"
    /\ UNCHANGED <<links, msgs, sender, batch, health, buffer, aged, fate>>

CloseAll ==
    /\ stopping = "joining" /\ batch.pc = "ended" /\ health.pc = "ended"
    /\ table' = [p \in Peers |-> "none"]
    /\ stopping' = "done"
    /\ UNCHANGED <<known, msgs, sender, batch, health, buffer, aged, fate>>

---------------------------------------------------------------------------
MaxWrites == 2 + CHOOSE n \in Sizes : \A k \in Sizes : k <= n

SenderStep(s) ==
    \/ Connect(s, TRUE) \/ Connect(s, FALSE) \/ Insert(s) \/ Write(s) \/ Answered(s)
    \/ Buffer(s)
    \/ \E k \in 0..MaxWrites : WriteFails(s, k)

BatchStep ==
    \/ Round \/ SkipAged \/ LeavePeer \/ EndRound \/ BatchStops
    \/ \E p \in Peers : NextPeer(p)

(* What the batch task awaits of the network.                              *)
NetworkStep ==
    \/ BatchConnect(TRUE) \/ BatchConnect(FALSE) \/ BatchSend \/ BatchAnswered
    \/ \E k \in 0..MaxWrites : BatchSendFails(k)

HealthStep == Collect \/ RemoveStale \/ HealthStops

Environment ==
    \/ \E p \in Peers : AddPeer(p) \/ RemovePeer(p) \/ ConnAges(p)
    \/ \E m \in Msg : MessageAges(m)

Next ==
    \/ \E s \in Senders : SenderStep(s)
    \/ \E s \in Senders, p \in Peers, k \in Priorities, n \in Sizes : Send(s, p, k, n)
    \/ BatchStep \/ NetworkStep \/ HealthStep \/ Environment
    \/ Shutdown \/ CloseAll

Spec == Init /\ [][Next]_vars

(* An assumption on the network, which iroh.rs puts no timeout on: every   *)
(* attempt to connect ends, with a connection or without, every wait for a *)
(* stream or for room on it, and every wait for an answer, with one or     *)
(* with the end of the connection.                                         *)
NetworkAnswers == WF_vars(NetworkStep)

(* The tasks are scheduled, their intervals tick, and time passes; select! *)
(* is fair to a shutdown that was signalled.                               *)
FairSpec ==
    /\ Spec
    /\ NetworkAnswers
    /\ WF_vars(BatchStep) /\ WF_vars(HealthStep) /\ WF_vars(CloseAll)
    /\ SF_vars(BatchStops) /\ SF_vars(HealthStops)
    /\ \A m \in Msg : WF_vars(MessageAges(m))

---------------------------------------------------------------------------
(* Properties *)

(* A sender that waits for the answer has done with its message.           *)
EmptyHanded == {"idle", "answer"}
Held == {sender[s].msg : s \in {t \in Senders : sender[t].pc \notin EmptyHanded}}
Buffered == UNION {Elems(buffer[p]) : p \in Peers}
Ended == {m \in Msg : fate[m] # "none"}

(* Whatever fails, and however often a send is retried, every message that *)
(* send_message has taken is in exactly one place: with its sender, in the *)
(* buffer, or at its end, which is a send or a drop by age or by the limit *)
(* of the buffer.  So no message is sent twice, and what a broken stream   *)
(* leaves of a frame is never taken for a message.                         *)
OnePlace ==
    /\ Held \cup Buffered \cup Ended = 1..Len(msgs)
    /\ Held \cap (Buffered \cup Ended) = {}
    /\ Buffered \cap Ended = {}
    /\ \A m \in Msg : fate[m] # "twice"

(* The buffer stays in the order of priorities, and what one sender sent   *)
(* with one priority in the order of its calls, through insertions, failed *)
(* sends and skipped messages: elections overtake snapshots, and what the  *)
(* limit evicts is the least urgent and the latest.                        *)
BufferIsOrdered ==
    \A p \in Peers : \A i, j \in DOMAIN buffer[p] :
        LET a == buffer[p][i]
            b == buffer[p][j]
        IN  i < j => /\ msgs[a].prio <= msgs[b].prio
                     /\ msgs[a].prio = msgs[b].prio /\ msgs[a].by = msgs[b].by => a < b

(* What is buffered for a peer that is known leaves, sent or dropped, or   *)
(* the batch task tries to connect to that peer and fails, after which all *)
(* that the peer is to get waits on, whatever its age.  Nothing else keeps *)
(* a message in: neither the immediate sends, nor dead connections in the  *)
(* table, nor the removal of fresh ones by the health checker, nor writes  *)
(* that fail for ever.                                                     *)
BufferedLeaves ==
    \A m \in Msg : m \in Buffered ~>
        \/ m \notin Buffered \/ stopping # "no"
        \/ msgs[m].to \notin known
        \/ batch.refused /\ batch.peer = msgs[m].to

(* A shutdown ends if what the batch task awaits of the network does       *)
(* (NetworkAnswers): the locks of the batch task, the health checker and   *)
(* the senders leave no cycle it could wait in.                            *)
ShutdownEnds == (stopping = "joining") ~> (stopping = "done")
=============================================================================
