-------------------------- MODULE TransportProofs --------------------------
(***************************************************************************)
(* Proofs, for any number of peers, senders and messages, any sizes and    *)
(* any limits, that the transport keeps every message in one place and the *)
(* buffer in the order of priorities.                                      *)
(*                                                                         *)
(* A buffer is ordered because buffer_message looks for the place of a     *)
(* message itself, and because one sender has one message in hand at a     *)
(* time, the latest it sent.  So the two properties hang together.         *)
(***************************************************************************)
EXTENDS IrohTransport, QueueLemmas

SenderPlaces == {"idle", "connect", "insert", "write", "answer", "buffer"}
Envelope == [by : Senders, to : Peers, prio : Int, size : Int]
BatchPlaces == {"idle", "peers", "connecting", "send", "answer", "ended"}
BatchPeers == {IdleBatch.peer} \cup Peers
Batch ==
    [pc : BatchPlaces, todo : SUBSET Peers, peer : BatchPeers, sent : Int, refused : BOOLEAN]
Visiting == {"connecting", "send", "answer"}

USE DEF EmptyHanded

Taken == 1..Len(msgs)

TransportTypes ==
    /\ msgs \in Seq(Envelope) /\ Len(msgs) <= Messages
    /\ sender \in [Senders -> [pc : SenderPlaces, msg : Int]]
    /\ buffer \in [Peers -> Seq(Int)]
    /\ fate \in [Msg -> {"none", "sent", "dropped"}]
    /\ batch \in Batch /\ (batch.pc \in Visiting => batch.peer \in Peers)

Before(a, b) ==
    /\ a # b
    /\ msgs[a].prio <= msgs[b].prio
    /\ msgs[a].prio = msgs[b].prio /\ msgs[a].by = msgs[b].by => a < b

(* The messages of a buffer are on their way to its peer, each once and    *)
(* each behind those that go first.                                        *)
InBuffer(p) ==
    /\ \A i \in 1..Len(buffer[p]) : /\ buffer[p][i] \in Taken
                                    /\ msgs[buffer[p][i]].to = p
                                    /\ fate[buffer[p][i]] = "none"
    /\ \A i, j \in 1..Len(buffer[p]) : i < j => Before(buffer[p][i], buffer[p][j])

IsBuffered(m) == \E p \in Peers : \E i \in 1..Len(buffer[p]) : buffer[p][i] = m
IsHeld(m) == \E s \in Senders : sender[s].pc \notin EmptyHanded /\ sender[s].msg = m

(* What a sender holds is the latest it sent.                              *)
InHand(s) ==
    sender[s].pc \notin EmptyHanded =>
        /\ sender[s].msg \in Taken
        /\ msgs[sender[s].msg].by = s
        /\ fate[sender[s].msg] = "none"
        /\ ~IsBuffered(sender[s].msg)
        /\ \A m \in Taken : msgs[m].by = s => m <= sender[s].msg

NoneIsLost == \A m \in Taken : fate[m] # "none" \/ IsHeld(m) \/ IsBuffered(m)
Unborn == \A m \in Msg : m > Len(msgs) => fate[m] = "none"

TransportInv ==
    /\ TransportTypes
    /\ \A p \in Peers : InBuffer(p)
    /\ \A s \in Senders : InHand(s)
    /\ NoneIsLost
    /\ Unborn

---------------------------------------------------------------------------
(* Insertion *)

Inserted(q, m, at) == SubSeq(q, 1, at - 1) \o <<m>> \o SubSeq(q, at, Len(q))
Limited(q, bound) == IF Len(q) > bound THEN SubSeq(q, 1, bound) ELSE q

LEMMA LimitedFacts ==
    ASSUME NEW q \in Seq(Int), NEW bound \in Nat
    PROVE  /\ Limited(q, bound) \in Seq(Int)
           /\ Len(q) \in Nat /\ Len(Limited(q, bound)) \in Nat /\ Len(Limited(q, bound)) <= Len(q)
           /\ \A i \in 1..Len(Limited(q, bound)) : i \in 1..Len(q) /\ Limited(q, bound)[i] = q[i]
<1>1. Len(q) \in Nat
  BY LenProperties
<1>. DEFINE kept == Limited(q, bound)
<1>2. CASE Len(q) > bound
  <2>1. kept = SubSeq(q, 1, bound)
    BY <1>2 DEF Limited
  <2>2. /\ kept \in Seq(Int) /\ Len(kept) = bound - 1 + 1
        /\ \A i \in 1..bound - 1 + 1 : 1 + i - 1 \in 1..Len(q) /\ kept[i] = q[1 + i - 1]
    <3>1. 1 \in Int /\ bound \in Int /\ 1 >= 1 /\ bound <= Len(q) /\ 1 <= bound + 1
      BY <1>1, <1>2
    <3>. HIDE DEF kept
    <3>. QED
      BY <2>1, <3>1, CutFacts
  <2>. HIDE DEF kept
  <2>3. /\ kept \in Seq(Int) /\ Len(q) \in Nat /\ Len(kept) \in Nat /\ Len(kept) <= Len(q)
        /\ \A i \in 1..Len(kept) : i \in 1..Len(q) /\ kept[i] = q[i]
    BY <1>1, <1>2, <2>2
  <2>. QED
    BY <2>3 DEF kept
<1>3. CASE ~(Len(q) > bound)
  <2>1. kept = q
    BY <1>3 DEF Limited
  <2>. QED
    BY <1>1, <2>1
<1>. QED
  BY <1>2, <1>3

LEMMA InsertedFacts ==
    ASSUME NEW q \in Seq(Int), NEW m \in Int, NEW at \in Int, 1 <= at, at <= Len(q) + 1
    PROVE  /\ Inserted(q, m, at) \in Seq(Int)
           /\ Len(q) \in Nat /\ Len(Inserted(q, m, at)) = Len(q) + 1
           /\ \A i \in 1..Len(q) + 1 :
                /\ i < at => i \in 1..Len(q) /\ Inserted(q, m, at)[i] = q[i]
                /\ i = at => Inserted(q, m, at)[i] = m
                /\ i > at => i - 1 \in 1..Len(q) /\ Inserted(q, m, at)[i] = q[i - 1]
<1>. DEFINE left == SubSeq(q, 1, at - 1)
            right == SubSeq(q, at, Len(q))
            one == <<m>>
            start == left \o one
            full == Inserted(q, m, at)
<1>1. Len(q) \in Nat
  BY LenProperties
<1>2. /\ left \in Seq(Int) /\ Len(left) = at - 1 - 1 + 1
      /\ \A i \in 1..at - 1 - 1 + 1 : 1 + i - 1 \in 1..Len(q) /\ left[i] = q[1 + i - 1]
  <2>1. 1 \in Int /\ at - 1 \in Int /\ 1 >= 1 /\ at - 1 <= Len(q) /\ 1 <= at - 1 + 1
    BY <1>1
  <2>. QED
    BY <2>1, CutFacts, SMTT(30)
<1>3. /\ right \in Seq(Int) /\ Len(right) = Len(q) - at + 1
      /\ \A i \in 1..Len(q) - at + 1 : at + i - 1 \in 1..Len(q) /\ right[i] = q[at + i - 1]
  <2>1. Len(q) \in Int /\ Len(q) <= Len(q) /\ at >= 1
    BY <1>1
  <2>. QED
    BY <2>1, CutFacts, SMTT(30)
<1>4. one \in Seq(Int) /\ Len(one) = 1 /\ one[1] = m
  OBVIOUS
<1>5. full = start \o right
  BY DEF Inserted
<1>. HIDE DEF left, right, one
<1>6. /\ start \in Seq(Int) /\ Len(start) = Len(left) + Len(one)
      /\ \A i \in 1..Len(left) + Len(one) :
            start[i] = IF i <= Len(left) THEN left[i] ELSE one[i - Len(left)]
  BY <1>2, <1>4, ConcatProperties
<1>. HIDE DEF start, full
<1>7. /\ full \in Seq(Int) /\ Len(full) = Len(start) + Len(right)
      /\ \A i \in 1..Len(start) + Len(right) :
            full[i] = IF i <= Len(start) THEN start[i] ELSE right[i - Len(start)]
  <2>1. start \in Seq(Int) /\ right \in Seq(Int)
    BY <1>3, <1>6
  <2>2. /\ start \o right \in Seq(Int) /\ Len(start \o right) = Len(start) + Len(right)
        /\ \A i \in 1..Len(start) + Len(right) :
              (start \o right)[i] = IF i <= Len(start) THEN start[i] ELSE right[i - Len(start)]
    BY <2>1, ConcatProperties
  <2>. QED
    BY <1>5, <2>2, Zenon
<1>8. Len(left) = at - 1 /\ Len(start) = at /\ Len(full) = Len(q) + 1
  BY <1>1, <1>2, <1>3, <1>4, <1>6, <1>7
<1>9. ASSUME NEW i \in 1..Len(q) + 1
      PROVE  /\ i < at => i \in 1..Len(q) /\ full[i] = q[i]
             /\ i = at => full[i] = m
             /\ i > at => i - 1 \in 1..Len(q) /\ full[i] = q[i - 1]
  <2>1. CASE i < at
    <3>1. i \in 1..Len(left) + Len(one) /\ i \in 1..Len(start) + Len(right)
          /\ i \in 1..at - 1 - 1 + 1 /\ i <= Len(left) /\ i <= Len(start) /\ 1 + i - 1 = i
      BY <1>1, <1>3, <1>4, <1>8, <2>1
    <3>2. full[i] = start[i] /\ start[i] = left[i]
      BY <1>6, <1>7, <3>1
    <3>. QED
      BY <1>1, <1>2, <2>1, <3>1, <3>2, SMTT(30)
  <2>2. CASE i = at
    <3>1. i \in 1..Len(left) + Len(one) /\ i \in 1..Len(start) + Len(right)
          /\ ~(i <= Len(left)) /\ i <= Len(start) /\ i - Len(left) = 1
      BY <1>1, <1>3, <1>4, <1>8, <2>2
    <3>2. full[i] = start[i] /\ start[i] = one[1]
      BY <1>6, <1>7, <3>1
    <3>. QED
      BY <1>1, <1>4, <2>2, <3>2
  <2>3. CASE i > at
    <3>1. i \in 1..Len(start) + Len(right) /\ ~(i <= Len(start)) /\ i - Len(start) = i - at
          /\ i - at \in 1..Len(q) - at + 1 /\ at + (i - at) - 1 = i - 1
      BY <1>1, <1>3, <1>8, <2>3
    <3>2. full[i] = right[i - at]
      BY <1>7, <3>1
    <3>3. at + (i - at) - 1 \in 1..Len(q) /\ right[i - at] = q[at + (i - at) - 1]
      BY <1>3, <3>1
    <3>4. i - 1 \in 1..Len(q) /\ full[i] = q[i - 1]
      BY <3>1, <3>2, <3>3
    <3>. QED
      BY <1>1, <2>3, <3>4
  <2>. QED
    BY <1>1, <2>1, <2>2, <2>3
<1>10. /\ full \in Seq(Int) /\ Len(q) \in Nat /\ Len(full) = Len(q) + 1
  BY <1>1, <1>7, <1>8
<1>. QED
  BY <1>9, <1>10 DEF full
---------------------------------------------------------------------------
(* What the invariant says of numbers, and of a message that is written.   *)

LEMMA Numbered ==
    ASSUME TransportTypes
    PROVE  /\ Len(msgs) \in Nat /\ Messages \in Nat
           /\ \A m \in Taken : /\ m \in Int /\ m \in Msg /\ msgs[m] \in Envelope
                               /\ msgs[m].by \in Senders /\ msgs[m].to \in Peers
                               /\ msgs[m].prio \in Int /\ msgs[m].size \in Int
           /\ \A p \in Peers : /\ buffer[p] \in Seq(Int) /\ Len(buffer[p]) \in Nat
                               /\ \A i \in 1..Len(buffer[p]) : buffer[p][i] \in Int
<1>1. Len(msgs) \in Nat /\ Messages \in Nat /\ Len(msgs) <= Messages
  BY LenProperties, TransportAssumption DEF TransportTypes
<1>2. \A m \in Taken : m \in Int /\ m \in Msg /\ msgs[m] \in Envelope
  BY <1>1, ElementOfSeq DEF TransportTypes, Taken, Msg
<1>3. \A p \in Peers : buffer[p] \in Seq(Int)
  BY DEF TransportTypes
<1>4. \A p \in Peers : Len(buffer[p]) \in Nat /\ \A i \in 1..Len(buffer[p]) : buffer[p][i] \in Int
  BY <1>3, LenProperties, ElementOfSeq
<1>. QED
  BY <1>1, <1>2, <1>3, <1>4 DEF Envelope

LEMMA FrameIsNumber == ASSUME NEW n \in Int PROVE Writes(n) \in Int
BY TransportAssumption DEF Writes

(* The part of a frame is not taken for it.                                *)
LEMMA PartIsNotSent ==
    ASSUME TransportTypes, NEW m \in Taken, NEW k, k < Writes(msgs[m].size)
    PROVE  Sent(m, k) = fate
<1>1. Writes(msgs[m].size) \in Int
  BY Numbered, FrameIsNumber
<1>2. k # Writes(msgs[m].size)
  BY <1>1
<1>. QED
  BY <1>2 DEF Sent, Accepted

LEMMA WholeIsSent ==
    ASSUME TransportTypes, NEW m \in Taken, fate[m] = "none"
    PROVE  Sent(m, Writes(msgs[m].size)) = [fate EXCEPT ![m] = "sent"]
BY DEF Sent

---------------------------------------------------------------------------
(* Steps that leave buffers and fates alone                                *)

SameHands ==
    \A s \in Senders : /\ sender[s].pc \notin EmptyHanded => sender'[s].msg = sender[s].msg
                       /\ sender'[s].pc \in EmptyHanded <=> sender[s].pc \in EmptyHanded

BatchTyped == batch \in Batch /\ (batch.pc \in Visiting => batch.peer \in Peers)

LEMMA SameMessages ==
    ASSUME TransportInv, msgs' = msgs, buffer' = buffer, fate' = fate, SameHands,
           sender' \in [Senders -> [pc : SenderPlaces, msg : Int]], BatchTyped'
    PROVE  TransportInv'
<1>1. TransportTypes'
  BY DEF TransportInv, TransportTypes, BatchTyped
<1>2. \A p \in Peers : InBuffer(p)'
  BY DEF TransportInv, InBuffer, Before, Taken
<1>3. \A m : IsBuffered(m)' <=> IsBuffered(m)
  BY DEF IsBuffered
<1>4. \A m : IsHeld(m)' <=> IsHeld(m)
  BY DEF IsHeld, SameHands
<1>5. \A s \in Senders : InHand(s)'
  <2>. SUFFICES ASSUME NEW s \in Senders, (sender[s].pc \notin EmptyHanded)' PROVE InHand(s)'
    BY DEF InHand
  <2>1. InHand(s) /\ sender[s].pc \notin EmptyHanded /\ sender'[s].msg = sender[s].msg
    BY DEF TransportInv, SameHands
  <2>. QED
    BY <1>3, <2>1 DEF InHand, Taken
<1>6. NoneIsLost'
  <2>. SUFFICES ASSUME NEW m \in Taken, fate[m] = "none" PROVE IsHeld(m)' \/ IsBuffered(m)'
    BY DEF NoneIsLost, Taken
  <2>. QED
    BY <1>3, <1>4 DEF TransportInv, NoneIsLost
<1>7. Unborn'
  BY DEF TransportInv, Unborn
<1>. QED
  BY <1>1, <1>2, <1>5, <1>6, <1>7 DEF TransportInv

LEMMA BatchMoves ==
    ASSUME TransportInv, msgs' = msgs, buffer' = buffer, fate' = fate, sender' = sender, BatchTyped'
    PROVE  TransportInv'
<1>1. SameHands /\ sender' \in [Senders -> [pc : SenderPlaces, msg : Int]]
  BY DEF TransportInv, TransportTypes, SameHands
<1>. QED
  BY <1>1, SameMessages

LEMMA NothingMoves ==
    ASSUME TransportInv, msgs' = msgs, buffer' = buffer, fate' = fate, sender' = sender,
           batch' = batch
    PROVE  TransportInv'
BY BatchMoves DEF TransportInv, TransportTypes, BatchTyped

LEMMA SenderMoves ==
    ASSUME TransportInv, NEW s \in Senders, NEW pc \in SenderPlaces \ EmptyHanded,
           sender[s].pc \notin EmptyHanded, sender' = At(s, pc),
           msgs' = msgs, buffer' = buffer, fate' = fate, batch' = batch
    PROVE  TransportInv'
<1>1. sender \in [Senders -> [pc : SenderPlaces, msg : Int]] /\ sender' = [sender EXCEPT ![s].pc = pc]
  BY DEF TransportInv, TransportTypes, At
<1>2. sender' \in [Senders -> [pc : SenderPlaces, msg : Int]]
  BY <1>1
<1>3. SameHands
  <2>. SUFFICES ASSUME NEW t \in Senders
                PROVE  /\ sender'[t].msg = sender[t].msg
                       /\ sender'[t].pc \in EmptyHanded <=> sender[t].pc \in EmptyHanded
    BY DEF SameHands
  <2>1. CASE t = s
    <3>1. sender'[s] = [sender[s] EXCEPT !.pc = pc] /\ sender[s] \in [pc : SenderPlaces, msg : Int]
      BY <1>1
    <3>2. sender'[s].msg = sender[s].msg /\ sender'[s].pc = pc
      BY <3>1
    <3>. QED
      BY <2>1, <3>2
  <2>2. CASE t # s
    BY <1>1, <2>2
  <2>. QED
    BY <2>1, <2>2
<1>4. BatchTyped'
  BY DEF TransportInv, TransportTypes, BatchTyped
<1>. QED
  BY <1>2, <1>3, <1>4, SameMessages

(* The wait for an answer ends.                                            *)
LEMMA IdleAgain ==
    ASSUME TransportInv, NEW s \in Senders, sender[s].pc = "answer",
           sender' = [sender EXCEPT ![s] = IdleSender],
           msgs' = msgs, buffer' = buffer, fate' = fate, batch' = batch
    PROVE  TransportInv'
<1>1. sender \in [Senders -> [pc : SenderPlaces, msg : Int]]
  BY DEF TransportInv, TransportTypes
<1>2. IdleSender \in [pc : SenderPlaces, msg : Int] /\ IdleSender.pc = "idle"
  BY DEF IdleSender, SenderPlaces
<1>3. /\ sender' \in [Senders -> [pc : SenderPlaces, msg : Int]] /\ sender'[s].pc = "idle"
      /\ \A t \in Senders : t # s => sender'[t] = sender[t]
  BY <1>1, <1>2
<1>4. \A t \in Senders : sender'[t].pc \notin EmptyHanded \/ sender[t].pc \notin EmptyHanded
                          => t # s /\ sender'[t] = sender[t]
  BY <1>3
<1>5. SameHands /\ BatchTyped'
  BY <1>3, <1>4 DEF SameHands, TransportInv, TransportTypes, BatchTyped
<1>. QED
  BY <1>3, <1>5, SameMessages

---------------------------------------------------------------------------
(* A message ends at its sender, or at the head of a buffer.               *)

LEMMA WriteStep ==
    ASSUME TransportInv, NEW s \in Senders, Write(s)
    PROVE  TransportInv'
<1>. DEFINE n == sender[s].msg
            done == [IdleSender EXCEPT !.pc = "answer"]
<1>1. /\ sender[s].pc = "write" /\ sender' = [sender EXCEPT ![s] = done]
      /\ fate' = Sent(n, Writes(msgs[n].size))
      /\ msgs' = msgs /\ buffer' = buffer /\ batch' = batch
  BY DEF Write
<1>2. /\ n \in Taken /\ msgs[n].by = s /\ fate[n] = "none" /\ ~IsBuffered(n)
  BY <1>1 DEF TransportInv, InHand
<1>3. TransportTypes
  BY DEF TransportInv
<1>. HIDE DEF n
<1>4. fate' = [fate EXCEPT ![n] = "sent"] /\ fate \in [Msg -> {"none", "sent", "dropped"}]
  BY <1>1, <1>2, <1>3, WholeIsSent DEF TransportTypes
<1>5. n \in Msg /\ \A m \in Msg : fate'[m] = IF m = n THEN "sent" ELSE fate[m]
  BY <1>2, <1>3, <1>4, Numbered
<1>6. done \in [pc : SenderPlaces, msg : Int] /\ done.pc = "answer"
  BY DEF IdleSender, SenderPlaces
<1>. HIDE DEF done
<1>7. /\ sender' \in [Senders -> [pc : SenderPlaces, msg : Int]] /\ sender'[s].pc = "answer"
      /\ \A t \in Senders : t # s => sender'[t] = sender[t]
  BY <1>1, <1>3, <1>6 DEF TransportTypes
<1>8. TransportTypes'
  BY <1>1, <1>3, <1>4, <1>7 DEF TransportTypes
<1>9. \A m : IsBuffered(m)' <=> IsBuffered(m)
  BY <1>1 DEF IsBuffered
<1>10. \A p \in Peers : InBuffer(p)'
  <2>. SUFFICES ASSUME NEW p \in Peers PROVE InBuffer(p)'
    OBVIOUS
  <2>1. \A i \in 1..Len(buffer[p]) : buffer[p][i] # n
    BY <1>2 DEF IsBuffered
  <2>2. \A i \in 1..Len(buffer[p]) : /\ buffer[p][i] \in Taken /\ msgs[buffer[p][i]].to = p
                                     /\ fate[buffer[p][i]] = "none"
    BY DEF TransportInv, InBuffer
  <2>3. \A i \in 1..Len(buffer[p]) : fate'[buffer[p][i]] = "none"
    BY <1>3, <1>5, <2>1, <2>2, Numbered
  <2>4. \A i, j \in 1..Len(buffer[p]) : i < j => Before(buffer[p][i], buffer[p][j])
    BY DEF TransportInv, InBuffer
  <2>. QED
    BY <1>1, <2>2, <2>3, <2>4 DEF InBuffer, Before, Taken
<1>11. \A t \in Senders : InHand(t)'
  <2>. SUFFICES ASSUME NEW t \in Senders, sender'[t].pc \notin EmptyHanded PROVE InHand(t)'
    BY DEF InHand
  <2>1. t # s /\ sender'[t] = sender[t]
    BY <1>7
  <2>2. InHand(t) /\ sender[t].pc \notin EmptyHanded
    BY <2>1 DEF TransportInv
  <2>3. sender[t].msg # n /\ sender[t].msg \in Taken
    BY <1>2, <2>1, <2>2 DEF InHand
  <2>4. fate'[sender[t].msg] = "none"
    BY <1>3, <1>5, <2>2, <2>3, Numbered DEF InHand
  <2>. QED
    BY <1>1, <1>9, <2>1, <2>2, <2>4 DEF InHand, Taken
<1>12. NoneIsLost'
  <2>. SUFFICES ASSUME NEW m \in Taken, fate'[m] = "none" PROVE IsHeld(m)' \/ IsBuffered(m)'
    BY <1>1 DEF NoneIsLost, Taken
  <2>1. m # n /\ fate[m] = "none"
    BY <1>3, <1>5, Numbered
  <2>2. IsHeld(m) \/ IsBuffered(m)
    BY <2>1 DEF TransportInv, NoneIsLost
  <2>3. ASSUME NEW t \in Senders, sender[t].pc \notin EmptyHanded, sender[t].msg = m PROVE IsHeld(m)'
    <3>1. t # s
      BY <2>1, <2>3 DEF n
    <3>. QED
      BY <1>7, <2>3, <3>1 DEF IsHeld
  <2>. QED
    BY <1>9, <2>2, <2>3 DEF IsHeld
<1>13. Unborn'
  <2>. SUFFICES ASSUME NEW m \in Msg, m > Len(msgs) PROVE fate'[m] = "none"
    BY <1>1 DEF Unborn
  <2>1. m # n
    BY <1>2, <1>3, Numbered DEF Taken, Msg
  <2>. QED
    BY <1>5, <2>1 DEF TransportInv, Unborn
<1>. QED
  BY <1>8, <1>10, <1>11, <1>12, <1>13 DEF TransportInv

LEMMA InBufferLater ==
    ASSUME NEW r \in Peers, NEW q, msgs' = msgs, buffer'[r] = q,
           \A i \in 1..Len(q) : q[i] \in Taken /\ msgs[q[i]].to = r /\ fate'[q[i]] = "none",
           \A i, j \in 1..Len(q) : i < j => Before(q[i], q[j])
    PROVE  InBuffer(r)'
BY DEF InBuffer, Before, Taken

LEMMA PopStep ==
    ASSUME TransportInv, NEW p \in Peers, buffer[p] # <<>>, NEW x \in {"sent", "dropped"},
           buffer' = [buffer EXCEPT ![p] = Tail(@)],
           fate' = [fate EXCEPT ![Head(buffer[p])] = x],
           msgs' = msgs, sender' = sender, BatchTyped'
    PROVE  TransportInv'
<1>. DEFINE q == buffer[p]
            n == Head(buffer[p])
<1>1. TransportTypes /\ InBuffer(p)
  BY DEF TransportInv
<1>2. q \in Seq(Int)
  BY <1>1 DEF TransportTypes
<1>3. /\ Len(q) \in Nat /\ 1 \in 1..Len(q) /\ n = q[1]
      /\ Tail(q) \in Seq(Int) /\ Len(Tail(q)) = Len(q) - 1
      /\ \A i \in 1..Len(Tail(q)) : i + 1 \in 1..Len(q) /\ Tail(q)[i] = q[i + 1]
  BY <1>2, TailFacts
<1>4. n \in Taken /\ msgs[n].to = p /\ fate[n] = "none"
  BY <1>1, <1>3 DEF InBuffer
<1>5. \A i \in 1..Len(q) : i > 1 => q[i] # n
  BY <1>1, <1>3 DEF InBuffer, Before
<1>6. /\ buffer'[p] = Tail(q) /\ \A r \in Peers : r # p => buffer'[r] = buffer[r]
      /\ buffer' \in [Peers -> Seq(Int)]
  BY <1>1, <1>3 DEF TransportTypes
<1>7. /\ n \in Msg /\ \A m \in Msg : fate'[m] = IF m = n THEN x ELSE fate[m]
      /\ fate' \in [Msg -> {"none", "sent", "dropped"}]
  BY <1>1, <1>4, Numbered DEF TransportTypes
<1>. HIDE DEF n, q
<1>8. TransportTypes'
  BY <1>1, <1>6, <1>7 DEF TransportTypes, BatchTyped
<1>9. \A r \in Peers : InBuffer(r)'
  <2>. SUFFICES ASSUME NEW r \in Peers PROVE InBuffer(r)'
    OBVIOUS
  <2>1. CASE r = p
    <3>1. \A i \in 1..Len(Tail(q)) : /\ Tail(q)[i] \in Taken /\ msgs[Tail(q)[i]].to = p
                                     /\ fate'[Tail(q)[i]] = "none"
      <4>. SUFFICES ASSUME NEW i \in 1..Len(Tail(q))
                    PROVE  /\ Tail(q)[i] \in Taken /\ msgs[Tail(q)[i]].to = p
                           /\ fate'[Tail(q)[i]] = "none"
        OBVIOUS
      <4>1. i + 1 \in 1..Len(q) /\ i + 1 > 1 /\ Tail(q)[i] = q[i + 1]
        BY <1>3
      <4>2. q[i + 1] \in Taken /\ msgs[q[i + 1]].to = p /\ fate[q[i + 1]] = "none"
        BY <1>1, <4>1 DEF InBuffer, q
      <4>3. q[i + 1] # n
        BY <1>5, <4>1
      <4>. QED
        BY <1>1, <1>7, <4>1, <4>2, <4>3, Numbered
    <3>2. \A i, j \in 1..Len(Tail(q)) : i < j => Before(Tail(q)[i], Tail(q)[j])
      <4>. SUFFICES ASSUME NEW i \in 1..Len(Tail(q)), NEW j \in 1..Len(Tail(q)), i < j
                    PROVE  Before(Tail(q)[i], Tail(q)[j])
        OBVIOUS
      <4>1. i + 1 \in 1..Len(q) /\ j + 1 \in 1..Len(q) /\ i + 1 < j + 1
        BY <1>3, SMTT(30)
      <4>2. Before(q[i + 1], q[j + 1])
        BY <1>1, <4>1 DEF InBuffer, q
      <4>. QED
        BY <1>3, <4>2
    <3>3. buffer'[r] = Tail(q)
      BY <1>6, <2>1
    <3>. QED
      BY <2>1, <3>1, <3>2, <3>3, InBufferLater
  <2>2. CASE r # p
    <3>1. \A i \in 1..Len(buffer[r]) : /\ buffer[r][i] \in Taken /\ msgs[buffer[r][i]].to = r
                                       /\ fate[buffer[r][i]] = "none"
      BY DEF TransportInv, InBuffer
    <3>2. \A i \in 1..Len(buffer[r]) : fate'[buffer[r][i]] = "none"
      <4>. SUFFICES ASSUME NEW i \in 1..Len(buffer[r]) PROVE fate'[buffer[r][i]] = "none"
        OBVIOUS
      <4>1. buffer[r][i] \in Taken /\ buffer[r][i] # n /\ fate[buffer[r][i]] = "none"
        BY <1>4, <2>2, <3>1
      <4>2. buffer[r][i] \in Msg
        BY <1>1, <4>1, Numbered
      <4>. QED
        BY <1>7, <4>1, <4>2
    <3>3. \A i, j \in 1..Len(buffer[r]) : i < j => Before(buffer[r][i], buffer[r][j])
      BY DEF TransportInv, InBuffer
    <3>4. buffer'[r] = buffer[r]
      BY <1>6, <2>2
    <3>. QED
      BY <3>1, <3>2, <3>3, <3>4, InBufferLater
  <2>. QED
    BY <2>1, <2>2
<1>10. \A m : IsBuffered(m)' => IsBuffered(m)
  <2>. SUFFICES ASSUME NEW r \in Peers, NEW i \in 1..Len(buffer'[r])
                PROVE  IsBuffered(buffer'[r][i])
    BY DEF IsBuffered
  <2>1. CASE r = p
    <3>1. i + 1 \in 1..Len(q) /\ buffer'[r][i] = q[i + 1]
      BY <1>3, <1>6, <2>1
    <3>. QED
      BY <3>1 DEF IsBuffered, q
  <2>2. CASE r # p
    BY <1>6, <2>2 DEF IsBuffered
  <2>. QED
    BY <2>1, <2>2
<1>11. IsBuffered(n)
  BY <1>3 DEF IsBuffered, q
<1>12. \A s \in Senders : InHand(s)'
  <2>. SUFFICES ASSUME NEW s \in Senders, sender[s].pc \notin EmptyHanded PROVE InHand(s)'
    BY DEF InHand
  <2>1. InHand(s)
    BY DEF TransportInv
  <2>2. sender[s].msg \in Taken /\ sender[s].msg # n
    BY <1>11, <2>1 DEF InHand
  <2>3. fate'[sender[s].msg] = "none"
    BY <1>1, <1>7, <2>1, <2>2, Numbered DEF InHand
  <2>. QED
    BY <1>10, <2>1, <2>3 DEF InHand, Taken
<1>13. NoneIsLost'
  <2>. SUFFICES ASSUME NEW m \in Taken, fate'[m] = "none" PROVE IsHeld(m)' \/ IsBuffered(m)'
    BY DEF NoneIsLost, Taken
  <2>1. m # n /\ fate[m] = "none"
    BY <1>1, <1>7, Numbered
  <2>2. IsHeld(m) \/ IsBuffered(m)
    BY <2>1 DEF TransportInv, NoneIsLost
  <2>3. ASSUME NEW r \in Peers, NEW i \in 1..Len(buffer[r]), buffer[r][i] = m PROVE IsBuffered(m)'
    <3>1. CASE r = p
      <4>1. i # 1 /\ i \in 1..Len(q) /\ q[i] = m
        BY <1>3, <2>1, <2>3, <3>1 DEF q
      <4>2. i - 1 \in 1..Len(Tail(q)) /\ (i - 1) + 1 = i
        BY <1>3, <4>1
      <4>3. Tail(q)[i - 1] = m
        BY <1>3, <4>1, <4>2
      <4>. QED
        BY <1>6, <4>2, <4>3 DEF IsBuffered
    <3>2. CASE r # p
      BY <1>6, <2>3, <3>2 DEF IsBuffered
    <3>. QED
      BY <3>1, <3>2
  <2>. QED
    BY <2>2, <2>3 DEF IsHeld, IsBuffered
<1>14. Unborn'
  <2>. SUFFICES ASSUME NEW m \in Msg, m > Len(msgs) PROVE fate'[m] = "none"
    BY DEF Unborn
  <2>1. m # n
    BY <1>1, <1>4, Numbered DEF Taken, Msg
  <2>. QED
    BY <1>7, <2>1 DEF TransportInv, Unborn
<1>. QED
  BY <1>8, <1>9, <1>12, <1>13, <1>14 DEF TransportInv

---------------------------------------------------------------------------
(* A message enters the buffer.                                            *)

LEMMA PlaceFacts ==
    ASSUME TransportTypes, NEW p \in Peers, InBuffer(p), NEW m \in Taken,
           NEW at, at = PlaceIn(buffer[p], m)
    PROVE  /\ at \in Int /\ 1 <= at /\ at <= Len(buffer[p]) + 1
           /\ \A i \in 1..Len(buffer[p]) :
                /\ i < at => msgs[buffer[p][i]].prio <= msgs[m].prio
                /\ i >= at => msgs[buffer[p][i]].prio > msgs[m].prio
<1>. DEFINE q == buffer[p]
            lower == {i \in 1..Len(q) : msgs[q[i]].prio > msgs[m].prio}
<1>1. /\ q \in Seq(Int) /\ Len(q) \in Nat /\ DOMAIN q = 1..Len(q)
      /\ msgs[m].prio \in Int /\ \A i \in 1..Len(q) : msgs[q[i]].prio \in Int
  <2>1. q \in Seq(Int) /\ Len(q) \in Nat /\ msgs[m].prio \in Int
    BY Numbered
  <2>2. \A i \in 1..Len(q) : msgs[q[i]].prio \in Int
    BY Numbered DEF InBuffer
  <2>. QED
    BY <2>1, <2>2, LenProperties
<1>2. \A i, j \in 1..Len(q) : i < j => msgs[q[i]].prio <= msgs[q[j]].prio
  BY DEF InBuffer, Before
<1>3. at = IF lower = {} THEN Len(q) + 1 ELSE SmallestOf(lower)
  BY <1>1 DEF PlaceIn
<1>4. CASE lower = {}
  <2>1. at = Len(q) + 1
    BY <1>3, <1>4
  <2>2. \A i \in 1..Len(q) : ~(msgs[q[i]].prio > msgs[m].prio)
    BY <1>4
  <2>. QED
    BY <1>1, <2>1, <2>2
<1>5. CASE lower # {}
  <2>1. lower \subseteq Nat
    OBVIOUS
  <2>. HIDE DEF lower
  <2>2. \E x \in lower : \A y \in lower : x <= y
    BY <1>5, <2>1, LeastExists
  <2>3. at \in lower /\ \A y \in lower : at <= y
    BY <1>3, <1>5, <2>2 DEF SmallestOf
  <2>4. at \in 1..Len(q) /\ msgs[q[at]].prio > msgs[m].prio
    BY <2>3 DEF lower
  <2>5. ASSUME NEW i \in 1..Len(q), i < at PROVE msgs[q[i]].prio <= msgs[m].prio
    <3>1. i \notin lower
      BY <1>1, <2>3, <2>4, <2>5
    <3>. QED
      BY <1>1, <3>1 DEF lower
  <2>6. ASSUME NEW i \in 1..Len(q), i >= at PROVE msgs[q[i]].prio > msgs[m].prio
    <3>1. msgs[q[at]].prio <= msgs[q[i]].prio
      BY <1>1, <1>2, <2>4, <2>6
    <3>. QED
      BY <1>1, <2>4, <3>1
  <2>. QED
    BY <1>1, <2>4, <2>5, <2>6
<1>. QED
  BY <1>4, <1>5

(* A queue stays in order when an element enters where it fits.            *)
IsInsertion(full, q, n, at, size) ==
    /\ at \in Int /\ 1 <= at /\ at <= size + 1
    /\ \A i \in 1..size + 1 : /\ i < at => i \in 1..size /\ full[i] = q[i]
                              /\ i = at => full[i] = n
                              /\ i > at => i - 1 \in 1..size /\ full[i] = q[i - 1]

Fits(n, q, at, size) == \A i \in 1..size : /\ i < at => Before(q[i], n)
                                           /\ i >= at => Before(n, q[i])
Ordered(q, size) == \A i, j \in 1..size : i < j => Before(q[i], q[j])

LEMMA OrderedInsertion ==
    ASSUME NEW size \in Nat, NEW at, NEW q, NEW n, NEW full,
           IsInsertion(full, q, n, at, size), Fits(n, q, at, size), Ordered(q, size)
    PROVE  /\ Ordered(full, size + 1)
           /\ \A i \in 1..size + 1 : full[i] = n \/ \E k \in 1..size : full[i] = q[k]
           /\ \E i \in 1..size + 1 : full[i] = n
           /\ \A k \in 1..size : \E i \in 1..size + 1 : full[i] = q[k]
<1>. /\ at \in Int /\ 1 <= at /\ at <= size + 1
     /\ \A i \in 1..size + 1 : /\ i < at => i \in 1..size /\ full[i] = q[i]
                               /\ i = at => full[i] = n
                               /\ i > at => i - 1 \in 1..size /\ full[i] = q[i - 1]
     /\ \A i \in 1..size : (i < at => Before(q[i], n)) /\ (i >= at => Before(n, q[i]))
     /\ \A i, j \in 1..size : i < j => Before(q[i], q[j])
  BY DEF IsInsertion, Fits, Ordered
<1>1. ASSUME NEW i \in 1..size + 1, NEW j \in 1..size + 1, i < j PROVE Before(full[i], full[j])
  <2>1. CASE j < at
    <3>1. i < at /\ i \in 1..size /\ j \in 1..size
      BY <1>1, <2>1
    <3>2. full[i] = q[i] /\ full[j] = q[j]
      BY <2>1, <3>1
    <3>. QED
      BY <1>1, <3>1, <3>2
  <2>2. CASE j = at
    <3>1. i < at /\ i \in 1..size
      BY <1>1, <2>2
    <3>2. full[i] = q[i] /\ full[j] = n
      BY <2>2, <3>1
    <3>. QED
      BY <3>1, <3>2
  <2>3. CASE i = at
    <3>1. j > at /\ j - 1 >= at /\ j - 1 \in 1..size
      BY <1>1, <2>3
    <3>2. full[i] = n /\ full[j] = q[j - 1]
      BY <2>3, <3>1
    <3>. QED
      BY <3>1, <3>2
  <2>4. CASE i < at /\ j > at
    <3>1. i \in 1..size /\ j - 1 \in 1..size /\ i < j - 1
      BY <2>4
    <3>2. full[i] = q[i] /\ full[j] = q[j - 1]
      BY <2>4
    <3>. QED
      BY <3>1, <3>2
  <2>5. CASE i > at
    <3>1. j > at /\ i - 1 \in 1..size /\ j - 1 \in 1..size /\ i - 1 < j - 1
      BY <1>1, <2>5
    <3>2. full[i] = q[i - 1] /\ full[j] = q[j - 1]
      BY <2>5, <3>1
    <3>. QED
      BY <3>1, <3>2
  <2>. QED
    BY <2>1, <2>2, <2>3, <2>4, <2>5
<1>2. ASSUME NEW i \in 1..size + 1 PROVE full[i] = n \/ \E k \in 1..size : full[i] = q[k]
  <2>1. i < at \/ i = at \/ i > at
    OBVIOUS
  <2>. QED
    BY <2>1
<1>3. at \in 1..size + 1 /\ full[at] = n
  OBVIOUS
<1>4. ASSUME NEW k \in 1..size PROVE \E i \in 1..size + 1 : full[i] = q[k]
  <2>1. CASE k < at
    BY <2>1
  <2>2. CASE k >= at
    <3>1. k + 1 \in 1..size + 1 /\ k + 1 > at /\ (k + 1) - 1 = k
      BY <2>2
    <3>. QED
      BY <3>1
  <2>. QED
    BY <2>1, <2>2
<1>. QED
  BY <1>1, <1>2, <1>3, <1>4 DEF Ordered

(* A sender's message belongs where buffer_message puts it.                *)
LEMMA PlaceIsRight ==
    ASSUME TransportInv, NEW n \in Taken, fate[n] = "none", ~IsBuffered(n),
           \A m \in Taken : msgs[m].by = msgs[n].by => m <= n,
           NEW p \in Peers, NEW at, at = PlaceIn(buffer[p], n)
    PROVE  /\ buffer[p] \in Seq(Int) /\ Len(buffer[p]) \in Nat /\ n \in Int
           /\ at \in Int /\ 1 <= at /\ at <= Len(buffer[p]) + 1
           /\ \A i \in 1..Len(buffer[p]) : /\ buffer[p][i] \in Taken /\ msgs[buffer[p][i]].to = p
                                           /\ fate[buffer[p][i]] = "none"
           /\ Fits(n, buffer[p], at, Len(buffer[p])) /\ Ordered(buffer[p], Len(buffer[p]))
<1>. DEFINE q == buffer[p]
<1>1. TransportTypes
  BY DEF TransportInv
<1>2. n \in Taken /\ n \in Int /\ \A m \in Taken : msgs[m].by = msgs[n].by => m <= n
  BY <1>1, Numbered
<1>3. InBuffer(p) /\ q \in Seq(Int) /\ Len(q) \in Nat
  BY <1>1, <1>2, Numbered DEF TransportInv
<1>4. /\ at \in Int /\ 1 <= at /\ at <= Len(q) + 1
      /\ \A i \in 1..Len(q) : /\ i < at => msgs[q[i]].prio <= msgs[n].prio
                              /\ i >= at => msgs[q[i]].prio > msgs[n].prio
  BY <1>1, <1>2, <1>3, PlaceFacts
<1>5. \A i \in 1..Len(q) : /\ q[i] \in Taken /\ msgs[q[i]].to = p /\ fate[q[i]] = "none"
                           /\ q[i] \in Int /\ q[i] # n
                           /\ msgs[q[i]].prio \in Int /\ msgs[n].prio \in Int
  <2>. SUFFICES ASSUME NEW i \in 1..Len(q)
                PROVE  /\ q[i] \in Taken /\ msgs[q[i]].to = p /\ fate[q[i]] = "none"
                       /\ q[i] \in Int /\ q[i] # n
                       /\ msgs[q[i]].prio \in Int /\ msgs[n].prio \in Int
    OBVIOUS
  <2>1. q[i] \in Taken /\ msgs[q[i]].to = p /\ fate[q[i]] = "none"
    BY <1>3 DEF InBuffer
  <2>2. q[i] # n
    BY DEF IsBuffered
  <2>. QED
    BY <1>1, <1>2, <2>1, <2>2, Numbered
<1>6. \A i, j \in 1..Len(q) : i < j => Before(q[i], q[j])
  BY <1>3 DEF InBuffer
<1>7. \A i \in 1..Len(q) : /\ i < at => Before(q[i], n)
                           /\ i >= at => Before(n, q[i])
  <2>. SUFFICES ASSUME NEW i \in 1..Len(q)
                PROVE  /\ i < at => Before(q[i], n)
                       /\ i >= at => Before(n, q[i])
    OBVIOUS
  <2>1. /\ q[i] \in Taken /\ q[i] \in Int /\ q[i] # n
        /\ msgs[q[i]].prio \in Int /\ msgs[n].prio \in Int
    BY <1>5
  <2>2. msgs[q[i]].by = msgs[n].by => q[i] < n
    BY <1>2, <2>1
  <2>3. CASE i < at
    <3>1. msgs[q[i]].prio <= msgs[n].prio
      BY <1>4, <2>3
    <3>. QED
      BY <1>4, <2>1, <2>2, <2>3, <3>1 DEF Before
  <2>4. CASE i >= at
    <3>1. msgs[q[i]].prio > msgs[n].prio
      BY <1>4, <2>4
    <3>2. msgs[n].prio <= msgs[q[i]].prio /\ msgs[n].prio # msgs[q[i]].prio
      BY <2>1, <3>1
    <3>. QED
      BY <1>4, <2>1, <2>4, <3>2 DEF Before
  <2>. QED
    BY <1>4, <2>3, <2>4
<1>. QED
  BY <1>2, <1>3, <1>4, <1>5, <1>6, <1>7 DEF Fits, Ordered

(* The queue with the message of a sender in its place.                    *)
LEMMA InsertedIsOrdered ==
    ASSUME NEW p \in Peers, NEW q \in Seq(Int), NEW n \in Int, NEW at \in Int,
           1 <= at, at <= Len(q) + 1,
           n \in Taken /\ msgs[n].to = p /\ fate[n] = "none",
           \A i \in 1..Len(q) : q[i] \in Taken /\ msgs[q[i]].to = p /\ fate[q[i]] = "none",
           Fits(n, q, at, Len(q)), Ordered(q, Len(q))
    PROVE  /\ Inserted(q, n, at) \in Seq(Int) /\ Len(Inserted(q, n, at)) \in Nat
           /\ \A i \in 1..Len(Inserted(q, n, at)) :
                /\ Inserted(q, n, at)[i] \in Taken /\ msgs[Inserted(q, n, at)[i]].to = p
                /\ fate[Inserted(q, n, at)[i]] = "none"
                /\ Inserted(q, n, at)[i] = n \/ \E k \in 1..Len(q) : Inserted(q, n, at)[i] = q[k]
           /\ Ordered(Inserted(q, n, at), Len(Inserted(q, n, at)))
           /\ \E i \in 1..Len(Inserted(q, n, at)) : Inserted(q, n, at)[i] = n
           /\ \A k \in 1..Len(q) : \E i \in 1..Len(Inserted(q, n, at)) : Inserted(q, n, at)[i] = q[k]
<1>. DEFINE full == Inserted(q, n, at)
            size == Len(q)
<1>1. size \in Nat
  BY LenProperties
<1>2. /\ full \in Seq(Int) /\ Len(full) = size + 1
      /\ \A i \in 1..size + 1 : /\ i < at => i \in 1..size /\ full[i] = q[i]
                                /\ i = at => full[i] = n
                                /\ i > at => i - 1 \in 1..size /\ full[i] = q[i - 1]
  BY InsertedFacts
<1>3. Len(full) \in Nat /\ 1..Len(full) = 1..size + 1
  BY <1>1, <1>2
<1>4. at <= size + 1
  OBVIOUS
<1>5. IsInsertion(full, q, n, at, size)
  BY <1>2, <1>4 DEF IsInsertion
<1>6. Fits(n, q, at, size) /\ Ordered(q, size)
  OBVIOUS
<1>7. \A i \in 1..size : q[i] \in Taken /\ msgs[q[i]].to = p /\ fate[q[i]] = "none"
  OBVIOUS
<1>. HIDE DEF full, size
<1>8. /\ Ordered(full, size + 1)
      /\ \A i \in 1..size + 1 : full[i] = n \/ \E k \in 1..size : full[i] = q[k]
      /\ \E i \in 1..size + 1 : full[i] = n
      /\ \A k \in 1..size : \E i \in 1..size + 1 : full[i] = q[k]
  BY <1>1, <1>5, <1>6, OrderedInsertion
<1>9. ASSUME NEW i \in 1..size + 1
      PROVE  full[i] \in Taken /\ msgs[full[i]].to = p /\ fate[full[i]] = "none"
  <2>1. CASE full[i] = n
    BY <2>1
  <2>2. ASSUME NEW k \in 1..size, full[i] = q[k]
        PROVE  full[i] \in Taken /\ msgs[full[i]].to = p /\ fate[full[i]] = "none"
    BY <1>7, <2>2
  <2>. QED
    BY <1>8, <2>1, <2>2
<1>10. \A i \in 1..Len(full) : /\ full[i] \in Taken /\ msgs[full[i]].to = p
                               /\ fate[full[i]] = "none"
                               /\ full[i] = n \/ \E k \in 1..size : full[i] = q[k]
  BY <1>3, <1>8, <1>9
<1>11. /\ Ordered(full, Len(full))
       /\ \E i \in 1..Len(full) : full[i] = n
       /\ \A k \in 1..size : \E i \in 1..Len(full) : full[i] = q[k]
  BY <1>2, <1>3, <1>8
<1>. QED
  BY <1>2, <1>3, <1>10, <1>11 DEF full, size

LEMMA BufferStep ==
    ASSUME TransportInv, NEW s \in Senders, Buffer(s)
    PROVE  TransportInv'
<1>. DEFINE n == sender[s].msg
            p == msgs[n].to
            q == buffer[p]
            at == PlaceIn(q, n)
            full == Inserted(q, n, at)
            kept == Limited(full, MaxBuffered)
            gone == Elems(full) \ Elems(kept)
<1>1. /\ sender[s].pc = "buffer"
      /\ buffer' = [buffer EXCEPT ![p] = kept]
      /\ fate' = [x \in Msg |-> IF x \in gone THEN "dropped" ELSE fate[x]]
      /\ sender' = [sender EXCEPT ![s] = IdleSender]
      /\ msgs' = msgs /\ batch' = batch
  BY DEF Buffer, Inserted, Limited
<1>2. TransportTypes /\ sender[s].pc \notin EmptyHanded /\ InHand(s)
  BY <1>1 DEF TransportInv
<1>3. /\ p \in Peers /\ full \in Seq(Int) /\ Len(full) \in Nat
      /\ \A i \in 1..Len(full) : /\ full[i] \in Taken /\ msgs[full[i]].to = p
                                 /\ fate[full[i]] = "none"
                                 /\ full[i] = n \/ \E k \in 1..Len(q) : full[i] = q[k]
      /\ Ordered(full, Len(full))
      /\ \E i \in 1..Len(full) : full[i] = n
      /\ \A k \in 1..Len(q) : \E i \in 1..Len(full) : full[i] = q[k]
  <2>1. /\ p \in Peers /\ q \in Seq(Int)
        /\ n \in Taken /\ n \in Int /\ fate[n] = "none"
        /\ at \in Int /\ 1 <= at /\ at <= Len(q) + 1
        /\ \A i \in 1..Len(q) : q[i] \in Taken /\ msgs[q[i]].to = p /\ fate[q[i]] = "none"
        /\ Fits(n, q, at, Len(q)) /\ Ordered(q, Len(q))
    <3>1. p \in Peers /\ n \in Taken /\ fate[n] = "none" /\ ~IsBuffered(n)
      BY <1>2, Numbered DEF InHand
    <3>2. \A m \in Taken : msgs[m].by = msgs[n].by => m <= n
      BY <1>2 DEF InHand
    <3>. HIDE DEF p, n
    <3>. QED
      BY <3>1, <3>2, PlaceIsRight
  <2>2. msgs[n].to = p
    OBVIOUS
  <2>. HIDE DEF at, q, p, n
  <2>. QED
    BY <2>1, <2>2, InsertedIsOrdered
<1>. HIDE DEF full, at
<1>4. /\ kept \in Seq(Int) /\ Len(kept) \in Nat
      /\ \A i \in 1..Len(kept) : i \in 1..Len(full) /\ kept[i] = full[i]
  <2>1. MaxBuffered \in Nat /\ full \in Seq(Int)
    BY <1>3, TransportAssumption
  <2>2. /\ kept \in Seq(Int) /\ Len(kept) \in Nat
        /\ \A i \in 1..Len(kept) : i \in 1..Len(full) /\ kept[i] = full[i]
    BY <2>1, LimitedFacts
  <2>. QED
    BY <2>2
<1>. HIDE DEF kept
<1>5. Elems(full) = {full[i] : i \in 1..Len(full)} /\ Elems(kept) = {kept[i] : i \in 1..Len(kept)}
  BY <1>3, <1>4, LenProperties DEF Elems
<1>6. \A x \in Elems(full) : x = n \/ IsBuffered(x)
  <2>. SUFFICES ASSUME NEW i \in 1..Len(full) PROVE full[i] = n \/ IsBuffered(full[i])
    BY <1>5
  <2>1. p \in Peers /\ (full[i] = n \/ \E k \in 1..Len(q) : full[i] = q[k])
    BY <1>3
  <2>. QED
    BY <2>1, Zenon DEF IsBuffered, q
<1>7. \A x \in Elems(full) : x \in Taken /\ msgs[x].to = p
  BY <1>3, <1>5
<1>8. n \in Elems(full) /\ \A k \in 1..Len(q) : q[k] \in Elems(full)
  BY <1>3, <1>5
<1>9. /\ buffer'[p] = kept /\ \A r \in Peers : r # p => buffer'[r] = buffer[r]
      /\ buffer' \in [Peers -> Seq(Int)]
  BY <1>1, <1>2, <1>3, <1>4 DEF TransportTypes
<1>. HIDE DEF gone, q, p, n
<1>10. \A x \in Elems(kept) : x \in Elems(full) /\ IsBuffered(x)'
  <2>1. ASSUME NEW x \in Elems(kept) PROVE x \in Elems(full) /\ IsBuffered(x)'
    <3>1. PICK i \in 1..Len(kept) : kept[i] = x
      BY <1>5
    <3>2. x \in Elems(full)
      BY <1>4, <1>5, <3>1
    <3>3. p \in Peers /\ i \in 1..Len(buffer'[p]) /\ buffer'[p][i] = x
      BY <1>3, <1>9, <3>1
    <3>. QED
      BY <3>2, <3>3 DEF IsBuffered
  <2>. QED
    BY <2>1
<1>11. IdleSender \in [pc : SenderPlaces, msg : Int] /\ IdleSender.pc = "idle"
  BY DEF IdleSender, SenderPlaces
<1>12. /\ sender' \in [Senders -> [pc : SenderPlaces, msg : Int]] /\ sender'[s].pc = "idle"
       /\ \A t \in Senders : t # s => sender'[t] = sender[t]
  BY <1>1, <1>2, <1>11 DEF TransportTypes
<1>13. /\ \A x \in Msg : fate'[x] = IF x \in gone THEN "dropped" ELSE fate[x]
       /\ fate' \in [Msg -> {"none", "sent", "dropped"}]
  BY <1>1, <1>2 DEF TransportTypes
<1>14. \A x \in gone : x \in Elems(full) /\ x \notin Elems(kept)
  BY DEF gone
<1>15. \A x : x \in Elems(full) /\ x \notin gone => x \in Elems(kept)
  BY DEF gone
<1>16. TransportTypes'
  BY <1>1, <1>2, <1>9, <1>12, <1>13 DEF TransportTypes
<1>17. \A r \in Peers : InBuffer(r)'
  <2>. SUFFICES ASSUME NEW r \in Peers PROVE InBuffer(r)'
    OBVIOUS
  <2>1. CASE r = p
    <3>1. ASSUME NEW i \in 1..Len(kept)
          PROVE  kept[i] \in Taken /\ msgs[kept[i]].to = r /\ fate'[kept[i]] = "none"
      <4>1. i \in 1..Len(full) /\ kept[i] = full[i] /\ kept[i] \in Elems(kept)
        BY <1>4, <1>5
      <4>2. kept[i] \in Taken /\ msgs[kept[i]].to = p /\ fate[kept[i]] = "none"
        BY <1>3, <4>1
      <4>3. kept[i] \in Msg /\ kept[i] \notin gone
        BY <1>2, <1>14, <4>1, <4>2, Numbered
      <4>. QED
        BY <1>13, <2>1, <4>2, <4>3
    <3>2. \A i, j \in 1..Len(kept) : i < j => Before(kept[i], kept[j])
      BY <1>3, <1>4 DEF Ordered
    <3>3. buffer'[r] = kept /\ msgs' = msgs
      BY <1>1, <1>9, <2>1
    <3>. QED
      BY <3>1, <3>2, <3>3, InBufferLater
  <2>2. CASE r # p
    <3>1. InBuffer(r)
      BY DEF TransportInv
    <3>2. ASSUME NEW i \in 1..Len(buffer[r])
          PROVE  /\ buffer[r][i] \in Taken /\ msgs[buffer[r][i]].to = r
                 /\ fate'[buffer[r][i]] = "none"
      <4>1. buffer[r][i] \in Taken /\ msgs[buffer[r][i]].to = r /\ fate[buffer[r][i]] = "none"
        BY <3>1 DEF InBuffer
      <4>2. buffer[r][i] \in Msg /\ buffer[r][i] \notin gone
        BY <1>2, <1>7, <1>14, <2>2, <4>1, Numbered
      <4>. QED
        BY <1>13, <4>1, <4>2
    <3>3. \A i, j \in 1..Len(buffer[r]) : i < j => Before(buffer[r][i], buffer[r][j])
      BY <3>1 DEF InBuffer
    <3>4. buffer'[r] = buffer[r] /\ msgs' = msgs
      BY <1>1, <1>9, <2>2
    <3>. QED
      BY <3>2, <3>3, <3>4, InBufferLater
  <2>. QED
    BY <2>1, <2>2
<1>18. \A m : IsBuffered(m)' => IsBuffered(m) \/ m = n
  <2>. SUFFICES ASSUME NEW r \in Peers, NEW i \in 1..Len(buffer'[r])
                PROVE  IsBuffered(buffer'[r][i]) \/ buffer'[r][i] = n
    BY DEF IsBuffered
  <2>1. CASE r = p
    <3>1. buffer'[r][i] \in Elems(kept)
      BY <1>5, <1>9, <2>1
    <3>. QED
      BY <1>6, <1>10, <3>1
  <2>2. CASE r # p
    BY <1>9, <2>2 DEF IsBuffered
  <2>. QED
    BY <2>1, <2>2
<1>19. \A t \in Senders : InHand(t)'
  <2>. SUFFICES ASSUME NEW t \in Senders, sender'[t].pc \notin EmptyHanded PROVE InHand(t)'
    BY DEF InHand
  <2>1. t # s /\ sender'[t] = sender[t]
    BY <1>12
  <2>2. InHand(t) /\ sender[t].pc \notin EmptyHanded
    BY <2>1 DEF TransportInv
  <2>3. sender[t].msg # n /\ sender[t].msg \in Taken /\ ~IsBuffered(sender[t].msg)
    BY <1>2, <2>1, <2>2 DEF InHand, n
  <2>4. sender[t].msg \in Msg /\ sender[t].msg \notin gone
    BY <1>2, <1>6, <1>14, <2>3, Numbered
  <2>5. fate'[sender[t].msg] = "none"
    BY <1>13, <2>2, <2>4 DEF InHand
  <2>. QED
    BY <1>1, <1>18, <2>1, <2>2, <2>3, <2>5 DEF InHand, Taken
<1>20. NoneIsLost'
  <2>. SUFFICES ASSUME NEW m \in Taken, fate'[m] = "none" PROVE IsHeld(m)' \/ IsBuffered(m)'
    BY <1>1 DEF NoneIsLost, Taken
  <2>1. m \in Msg /\ m \notin gone /\ fate[m] = "none"
    <3>1. m \in Msg
      BY <1>2, Numbered
    <3>. QED
      BY <1>13, <3>1
  <2>2. IsHeld(m) \/ IsBuffered(m)
    BY <2>1 DEF TransportInv, NoneIsLost
  <2>3. m \in Elems(full) => IsBuffered(m)'
    BY <1>10, <1>15, <2>1
  <2>4. ASSUME NEW t \in Senders, sender[t].pc \notin EmptyHanded, sender[t].msg = m
        PROVE  IsHeld(m)' \/ IsBuffered(m)'
    <3>1. CASE t = s
      BY <1>8, <2>3, <2>4, <3>1 DEF n
    <3>2. CASE t # s
      BY <1>12, <2>4, <3>2 DEF IsHeld
    <3>. QED
      BY <3>1, <3>2
  <2>5. ASSUME NEW r \in Peers, NEW i \in 1..Len(buffer[r]), buffer[r][i] = m PROVE IsBuffered(m)'
    <3>1. CASE r = p
      BY <1>8, <2>3, <2>5, <3>1 DEF q
    <3>2. CASE r # p
      BY <1>9, <2>5, <3>2 DEF IsBuffered
    <3>. QED
      BY <3>1, <3>2
  <2>. QED
    BY <2>2, <2>4, <2>5 DEF IsHeld, IsBuffered
<1>21. Unborn'
  <2>. SUFFICES ASSUME NEW m \in Msg, m > Len(msgs) PROVE fate'[m] = "none"
    BY <1>1 DEF Unborn
  <2>1. m \notin Taken
    BY <1>2, Numbered DEF Taken, Msg
  <2>2. m \notin gone
    BY <1>7, <1>14, <2>1
  <2>. QED
    BY <1>13, <2>2 DEF TransportInv, Unborn
<1>. QED
  BY <1>16, <1>17, <1>19, <1>20, <1>21 DEF TransportInv

---------------------------------------------------------------------------
(* A message is handed to send_message.                                    *)

LEMMA SendStep ==
    ASSUME TransportInv, NEW s \in Senders, NEW p \in Peers, NEW k \in Priorities, NEW n \in Sizes,
           Send(s, p, k, n)
    PROVE  TransportInv'
<1>. DEFINE new == [by |-> s, to |-> p, prio |-> k, size |-> n]
            hand == [msg |-> Len(msgs) + 1,
                     pc  |-> IF k = 3 THEN "buffer" ELSE IF table[p] = "fresh" THEN "write"
                             ELSE IF p \in known THEN "connect" ELSE "buffer"]
<1>1. /\ sender[s].pc = "idle" /\ Len(msgs) < Messages
      /\ msgs' = Append(msgs, new) /\ sender' = [sender EXCEPT ![s] = hand]
      /\ buffer' = buffer /\ fate' = fate /\ batch' = batch
  BY DEF Send
<1>2. TransportTypes
  BY DEF TransportInv
<1>. PICK last \in Int : last = Len(msgs) + 1
  BY <1>2, Numbered
<1>3. new \in Envelope /\ new.by = s
  <2>1. k \in Int /\ n \in Int
    BY TransportAssumption
  <2>. QED
    BY <2>1 DEF Envelope
<1>4. /\ hand \in [pc : SenderPlaces, msg : Int] /\ hand.pc \notin EmptyHanded /\ hand.msg = last
  BY <1>2, Numbered DEF SenderPlaces
<1>. HIDE DEF new, hand
<1>5. /\ Len(msgs) \in Nat /\ msgs' \in Seq(Envelope) /\ Len(msgs') = last /\ msgs'[last] = new
      /\ \A i \in 1..Len(msgs) : msgs'[i] = msgs[i]
  <2>1. msgs \in Seq(Envelope)
    BY <1>2 DEF TransportTypes
  <2>. QED
    BY <1>1, <1>3, <2>1, AppendFacts
<1>6. /\ sender' \in [Senders -> [pc : SenderPlaces, msg : Int]] /\ sender'[s] = hand
      /\ \A t \in Senders : t # s => sender'[t] = sender[t]
  BY <1>1, <1>2, <1>4 DEF TransportTypes
<1>7. /\ Messages \in Nat /\ last \in Msg /\ last > Len(msgs) /\ last \notin Taken /\ last \in Taken'
      /\ \A m : m \in Taken' <=> (m \in Taken \/ m = last)
  BY <1>1, <1>2, <1>5, Numbered DEF Taken, Msg
<1>8. \A m \in Taken : msgs'[m] = msgs[m] /\ m \in Taken' /\ m \in Int /\ m < last
  BY <1>5 DEF Taken
<1>9. TransportTypes'
  <2>1. Len(msgs') <= Messages
    BY <1>1, <1>5, <1>7
  <2>. QED
    BY <1>1, <1>2, <1>5, <1>6, <2>1 DEF TransportTypes
<1>10. \A m : IsBuffered(m)' <=> IsBuffered(m)
  BY <1>1 DEF IsBuffered
<1>11. \A r \in Peers : InBuffer(r)'
  <2>. SUFFICES ASSUME NEW r \in Peers PROVE InBuffer(r)'
    OBVIOUS
  <2>1. \A i \in 1..Len(buffer[r]) : /\ buffer[r][i] \in Taken /\ msgs[buffer[r][i]].to = r
                                     /\ fate[buffer[r][i]] = "none"
    BY DEF TransportInv, InBuffer
  <2>2. \A i \in 1..Len(buffer[r]) : /\ buffer[r][i] \in Taken'
                                     /\ msgs'[buffer[r][i]] = msgs[buffer[r][i]]
    BY <1>8, <2>1
  <2>3. ASSUME NEW i \in 1..Len(buffer[r]), NEW j \in 1..Len(buffer[r]), i < j
        PROVE  Before(buffer[r][i], buffer[r][j])'
    <3>1. Before(buffer[r][i], buffer[r][j])
      BY <2>3 DEF TransportInv, InBuffer
    <3>. QED
      BY <1>1, <2>2, <3>1 DEF Before
  <2>. QED
    BY <1>1, <2>1, <2>2, <2>3 DEF InBuffer
<1>12. \A m : IsBuffered(m) => m \in Taken
  BY DEF TransportInv, InBuffer, IsBuffered
<1>13. \A t \in Senders : InHand(t)'
  <2>. SUFFICES ASSUME NEW t \in Senders, sender'[t].pc \notin EmptyHanded PROVE InHand(t)'
    BY DEF InHand
  <2>1. CASE t = s
    <3>1. sender'[t].msg = last /\ msgs'[last].by = s
      BY <1>3, <1>4, <1>5, <1>6, <2>1
    <3>2. fate'[last] = "none"
      BY <1>1, <1>7 DEF TransportInv, Unborn
    <3>3. ~IsBuffered(last)'
      BY <1>7, <1>10, <1>12
    <3>4. \A m \in Taken' : m <= last
      BY <1>7, <1>8 DEF Msg
    <3>. QED
      BY <1>7, <2>1, <3>1, <3>2, <3>3, <3>4 DEF InHand
  <2>2. CASE t # s
    <3>1. sender'[t] = sender[t] /\ InHand(t)
      BY <1>6, <2>2 DEF TransportInv
    <3>2. /\ sender[t].msg \in Taken /\ msgs[sender[t].msg].by = t /\ fate[sender[t].msg] = "none"
          /\ ~IsBuffered(sender[t].msg)
          /\ \A m \in Taken : msgs[m].by = t => m <= sender[t].msg
      BY <3>1 DEF InHand
    <3>3. \A m \in Taken' : msgs'[m].by = t => m \in Taken /\ msgs[m].by = t
      BY <1>3, <1>5, <1>7, <1>8, <2>2
    <3>4. sender[t].msg \in Taken' /\ msgs'[sender[t].msg].by = t
      BY <1>8, <3>2
    <3>. QED
      BY <1>1, <1>10, <3>1, <3>2, <3>3, <3>4 DEF InHand
  <2>. QED
    BY <2>1, <2>2
<1>14. NoneIsLost'
  <2>. SUFFICES ASSUME NEW m \in Taken', fate'[m] = "none" PROVE IsHeld(m)' \/ IsBuffered(m)'
    BY DEF NoneIsLost
  <2>1. CASE m = last
    BY <1>4, <1>6, <2>1 DEF IsHeld
  <2>2. CASE m \in Taken
    <3>1. IsHeld(m) \/ IsBuffered(m)
      BY <1>1, <2>2 DEF TransportInv, NoneIsLost
    <3>2. ASSUME NEW t \in Senders, sender[t].pc \notin EmptyHanded, sender[t].msg = m PROVE IsHeld(m)'
      BY <1>1, <1>6, <3>2 DEF IsHeld
    <3>. QED
      BY <1>10, <3>1, <3>2 DEF IsHeld
  <2>. QED
    BY <1>7, <2>1, <2>2
<1>15. Unborn'
  <2>. SUFFICES ASSUME NEW m \in Msg, m > Len(msgs') PROVE fate'[m] = "none"
    BY DEF Unborn
  <2>1. m > Len(msgs)
    BY <1>5, <1>7 DEF Msg
  <2>. QED
    BY <1>1, <2>1 DEF TransportInv, Unborn
<1>. QED
  BY <1>9, <1>11, <1>13, <1>14, <1>15 DEF TransportInv

---------------------------------------------------------------------------
(* Every step                                                              *)

LEMMA HeldIsTaken ==
    ASSUME TransportInv, NEW s \in Senders, sender[s].pc \notin EmptyHanded
    PROVE  sender[s].msg \in Taken /\ TransportTypes
BY DEF TransportInv, InHand

LEMMA SenderStepKeeps ==
    ASSUME TransportInv, NEW s \in Senders, SenderStep(s)
    PROVE  TransportInv'
<1>. /\ "insert" \in SenderPlaces \ EmptyHanded /\ "buffer" \in SenderPlaces \ EmptyHanded
     /\ "write" \in SenderPlaces \ EmptyHanded
  BY DEF SenderPlaces
<1>1. CASE Connect(s, TRUE)
  BY <1>1, SenderMoves DEF Connect
<1>2. CASE Connect(s, FALSE)
  BY <1>2, SenderMoves DEF Connect
<1>3. CASE Insert(s)
  BY <1>3, SenderMoves DEF Insert
<1>4. CASE Write(s)
  BY <1>4, WriteStep
<1>4a. CASE Answered(s)
  <2>1. /\ sender[s].pc = "answer" /\ sender' = [sender EXCEPT ![s] = IdleSender]
        /\ msgs' = msgs /\ buffer' = buffer /\ fate' = fate /\ batch' = batch
    BY <1>4a DEF Answered
  <2>. QED
    BY <2>1, IdleAgain
<1>5. CASE Buffer(s)
  BY <1>5, BufferStep
<1>6. ASSUME NEW k \in 0..MaxWrites, WriteFails(s, k) PROVE TransportInv'
  <2>1. /\ sender[s].pc = "write" /\ k < Writes(msgs[sender[s].msg].size)
        /\ sender' = At(s, "buffer") /\ fate' = Sent(sender[s].msg, k)
        /\ msgs' = msgs /\ buffer' = buffer /\ batch' = batch
    BY <1>6 DEF WriteFails
  <2>2. fate' = fate
    <3>1. sender[s].msg \in Taken /\ TransportTypes
      BY <2>1, HeldIsTaken
    <3>. QED
      BY <2>1, <3>1, PartIsNotSent
  <2>. QED
    BY <2>1, <2>2, SenderMoves
<1>. QED
  BY <1>1, <1>2, <1>3, <1>4, <1>4a, <1>5, <1>6 DEF SenderStep

LEMMA HeadIsTaken ==
    ASSUME TransportInv, batch.pc = "send", Queue # <<>>
    PROVE  /\ batch.peer \in Peers /\ TransportTypes
           /\ Head(Queue) \in Taken /\ fate[Head(Queue)] = "none"
<1>1. batch.peer \in Peers /\ TransportTypes
  BY DEF TransportInv, TransportTypes, Visiting
<1>2. InBuffer(batch.peer) /\ Queue \in Seq(Int)
  BY <1>1, Numbered DEF TransportInv, Queue
<1>3. 1 \in 1..Len(Queue) /\ Head(Queue) = Queue[1]
  BY <1>2, TailFacts
<1>. QED
  BY <1>1, <1>2, <1>3 DEF InBuffer, Queue

LEMMA BatchAtRest == IdleBatch \in Batch /\ IdleBatch.pc \notin Visiting
BY DEF IdleBatch, Batch, BatchPlaces, BatchPeers, Visiting

LEMMA BatchStepKeeps ==
    ASSUME TransportInv, BatchStep \/ NetworkStep
    PROVE  TransportInv'
<1>. batch \in Batch /\ (batch.pc \in Visiting => batch.peer \in Peers)
  BY DEF TransportInv, TransportTypes
<1>1. IdleBatch \in Batch /\ IdleBatch.pc \notin Visiting
  BY BatchAtRest
<1>2. CASE Round
  <2>1. BatchTyped'
    BY <1>1, <1>2 DEF Round, BatchTyped, Batch, BatchPlaces, Visiting
  <2>. QED
    BY <1>2, <2>1, BatchMoves DEF Round
<1>3. ASSUME NEW ok \in BOOLEAN, BatchConnect(ok) PROVE TransportInv'
  <2>1. BatchTyped'
    BY <1>3 DEF BatchConnect, BatchTyped, Batch, BatchPlaces, Visiting
  <2>. QED
    BY <1>3, <2>1, BatchMoves DEF BatchConnect
<1>3a. CASE BatchAnswered
  <2>1. BatchTyped'
    BY <1>3a DEF BatchAnswered, BatchTyped, Batch, BatchPlaces, Visiting
  <2>. QED
    BY <1>3a, <2>1, BatchMoves DEF BatchAnswered
<1>4. CASE SkipAged
  <2>1. /\ batch.pc = "send" /\ Queue # <<>> /\ Pop
        /\ fate' = [fate EXCEPT ![Head(Queue)] = "dropped"]
        /\ msgs' = msgs /\ sender' = sender /\ batch' = batch
    BY <1>4 DEF SkipAged
  <2>2. BatchTyped' /\ batch.peer \in Peers
    BY <2>1, HeadIsTaken DEF BatchTyped
  <2>. QED
    BY <2>1, <2>2, PopStep DEF Pop, Queue
<1>5. CASE BatchSend
  <2>1. /\ batch.pc = "send" /\ Queue # <<>> /\ Pop
        /\ fate' = Sent(Head(Queue), Writes(msgs[Head(Queue)].size))
        /\ batch' = [batch EXCEPT !.sent = @ + 1, !.pc = "answer"]
        /\ msgs' = msgs /\ sender' = sender
    BY <1>5 DEF BatchSend
  <2>2. BatchTyped' /\ batch.peer \in Peers
    <3>1. batch' = [pc |-> "answer", todo |-> batch.todo, peer |-> batch.peer,
                   sent |-> batch.sent + 1, refused |-> batch.refused]
      BY <2>1 DEF Batch
    <3>2. batch'.pc = "answer" /\ batch'.peer = batch.peer /\ batch' \in Batch
      BY <3>1 DEF Batch, BatchPlaces
    <3>3. batch.peer \in Peers
      BY <2>1, HeadIsTaken
    <3>. QED
      BY <3>2, <3>3 DEF BatchTyped
  <2>3. fate' = [fate EXCEPT ![Head(Queue)] = "sent"]
    BY <2>1, HeadIsTaken, WholeIsSent
  <2>. QED
    BY <2>1, <2>2, <2>3, PopStep DEF Pop, Queue
<1>6. CASE LeavePeer
  <2>1. BatchTyped'
    BY <1>6 DEF LeavePeer, BatchTyped, Batch, BatchPlaces, Visiting
  <2>. QED
    BY <1>6, <2>1, BatchMoves DEF LeavePeer
<1>7. CASE EndRound
  <2>1. BatchTyped'
    BY <1>1, <1>7 DEF EndRound, BatchTyped
  <2>. QED
    BY <1>7, <2>1, BatchMoves DEF EndRound
<1>8. CASE BatchStops
  <2>1. BatchTyped'
    BY <1>8 DEF BatchStops, BatchTyped, Batch, BatchPlaces, Visiting
  <2>. QED
    BY <1>8, <2>1, BatchMoves DEF BatchStops
<1>9. ASSUME NEW p \in Peers, NextPeer(p) PROVE TransportInv'
  <2>. DEFINE place == IF table[p] # "none" THEN "send"
                       ELSE IF p \in known THEN "connecting" ELSE "peers"
  <2>1. place \in BatchPlaces /\ p \in BatchPeers /\ batch.todo \ {p} \in SUBSET Peers
    BY DEF BatchPlaces, BatchPeers, Batch
  <2>2. batch' = [batch EXCEPT !.todo = @ \ {p}, !.peer = p, !.sent = 0, !.refused = FALSE,
                               !.pc = place]
    BY <1>9 DEF NextPeer
  <2>. HIDE DEF place
  <2>3. batch' = [pc |-> place, todo |-> batch.todo \ {p}, peer |-> p, sent |-> 0,
                 refused |-> FALSE]
    BY <2>2 DEF Batch
  <2>4. BatchTyped'
    BY <2>1, <2>3 DEF BatchTyped, Batch
  <2>. QED
    BY <1>9, <2>4, BatchMoves DEF NextPeer
<1>10. ASSUME NEW k \in 0..MaxWrites, BatchSendFails(k) PROVE TransportInv'
  <2>1. /\ batch.pc = "send" /\ Queue # <<>> /\ k < Writes(msgs[Head(Queue)].size)
        /\ batch' = [batch EXCEPT !.pc = "peers"] /\ fate' = Sent(Head(Queue), k)
        /\ msgs' = msgs /\ sender' = sender /\ buffer' = buffer
    BY <1>10 DEF BatchSendFails
  <2>2. BatchTyped'
    BY <2>1 DEF BatchTyped, Batch, BatchPlaces, Visiting
  <2>3. fate' = fate
    BY <2>1, HeadIsTaken, PartIsNotSent
  <2>. QED
    BY <2>1, <2>2, <2>3, BatchMoves
<1>. QED
  BY <1>2, <1>3, <1>3a, <1>4, <1>5, <1>6, <1>7, <1>8, <1>9, <1>10 DEF BatchStep, NetworkStep

LEMMA TransportStep ==
    ASSUME TransportInv, [Next]_vars
    PROVE  TransportInv'
<1>1. CASE \E s \in Senders : SenderStep(s)
  BY <1>1, SenderStepKeeps
<1>2. CASE \E s \in Senders, p \in Peers, k \in Priorities, n \in Sizes : Send(s, p, k, n)
  BY <1>2, SendStep
<1>3. CASE BatchStep \/ NetworkStep
  BY <1>3, BatchStepKeeps
<1>4. CASE HealthStep
  BY <1>4, NothingMoves DEF HealthStep, Collect, RemoveStale, HealthStops
<1>5. CASE Environment
  BY <1>5, NothingMoves DEF Environment, AddPeer, RemovePeer, ConnAges, MessageAges, tasks
<1>6. CASE Shutdown
  BY <1>6, NothingMoves DEF Shutdown
<1>7. CASE CloseAll
  BY <1>7, NothingMoves DEF CloseAll
<1>8. CASE UNCHANGED vars
  BY <1>8, NothingMoves DEF vars
<1>. QED
  BY <1>1, <1>2, <1>3, <1>4, <1>5, <1>6, <1>7, <1>8 DEF Next

LEMMA TransportStart == ASSUME Init PROVE TransportInv
<1>1. msgs = <<>> /\ Len(msgs) = 0 /\ msgs \in Seq(Envelope) /\ Messages \in Nat /\ Taken = {}
  BY TransportAssumption DEF Init, Taken
<1>2. /\ buffer \in [Peers -> Seq(Int)] /\ \A p \in Peers : buffer[p] = <<>> /\ 1..Len(buffer[p]) = {}
  BY DEF Init
<1>3. \A s \in Senders : sender[s].pc = "idle"
  BY DEF Init, IdleSender
<1>4. sender \in [Senders -> [pc : SenderPlaces, msg : Int]]
  BY DEF Init, IdleSender, SenderPlaces
<1>5. batch \in Batch /\ batch.pc \notin Visiting
  <2>1. batch = IdleBatch
    BY DEF Init
  <2>. QED
    BY <2>1, BatchAtRest
<1>6. fate \in [Msg -> {"none", "sent", "dropped"}] /\ \A m \in Msg : fate[m] = "none"
  BY DEF Init
<1>7. TransportTypes
  BY <1>1, <1>2, <1>4, <1>5, <1>6 DEF TransportTypes
<1>8. \A p \in Peers : InBuffer(p)
  BY <1>2 DEF InBuffer
<1>. QED
  BY <1>1, <1>3, <1>6, <1>7, <1>8 DEF TransportInv, InHand, NoneIsLost, Unborn

(* The invariant is kept by the code's every step.                         *)
LEMMA TransportIsKept == Spec => []TransportInv
BY TransportStart, TransportStep, PTL DEF Spec

---------------------------------------------------------------------------
(* What it says of the places                                              *)

LEMMA PlacesFromInv == ASSUME TransportInv PROVE OnePlace /\ BufferIsOrdered
<1>1. TransportTypes /\ (\A p \in Peers : InBuffer(p)) /\ (\A s \in Senders : InHand(s))
      /\ NoneIsLost /\ Unborn
  BY DEF TransportInv
<1>2. \A p \in Peers : DOMAIN buffer[p] = 1..Len(buffer[p])
  BY <1>1, Numbered, LenProperties
<1>3. \A m : m \in Buffered <=> IsBuffered(m)
  BY <1>2 DEF Buffered, Elems, IsBuffered
<1>4. \A m : m \in Held <=> IsHeld(m)
  BY DEF Held, IsHeld
<1>5. \A m : IsBuffered(m) => m \in Taken /\ fate[m] = "none"
  BY <1>1 DEF IsBuffered, InBuffer
<1>6. \A m : IsHeld(m) => m \in Taken /\ fate[m] = "none" /\ ~IsBuffered(m)
  BY <1>1 DEF IsHeld, InHand
<1>7. Taken \subseteq Msg /\ \A m \in Msg : m \notin Taken => fate[m] = "none"
  BY <1>1, Numbered DEF Unborn, Taken, Msg
<1>8. \A m : m \in Ended <=> m \in Msg /\ fate[m] # "none"
  BY DEF Ended
<1>9. Held \cup Buffered \cup Ended = Taken
  <2>1. \A m : m \in Held \cup Buffered \cup Ended => m \in Taken
    BY <1>3, <1>4, <1>5, <1>6, <1>7, <1>8
  <2>2. \A m \in Taken : m \in Held \cup Buffered \cup Ended
    BY <1>1, <1>3, <1>4, <1>7, <1>8 DEF NoneIsLost
  <2>. QED
    BY <2>1, <2>2
<1>10. Held \cap (Buffered \cup Ended) = {}
  BY <1>3, <1>4, <1>6, <1>8
<1>11. Buffered \cap Ended = {}
  BY <1>3, <1>5, <1>8
<1>12. \A m \in Msg : fate[m] # "twice"
  BY <1>1 DEF TransportTypes
<1>13. OnePlace
  BY <1>9, <1>10, <1>11, <1>12 DEF OnePlace, Taken
<1>14. BufferIsOrdered
  BY <1>1, <1>2 DEF BufferIsOrdered, InBuffer, Before
<1>. QED
  BY <1>13, <1>14

(* Whatever fails and however often a send is retried, a message that      *)
(* send_message took is with its sender, in the buffer, sent once or       *)
(* dropped: the batch task, the senders and the writes that break off in   *)
(* the middle of a frame lose none and repeat none.                        *)
THEOREM OneHome == Spec => []OnePlace
BY TransportIsKept, PlacesFromInv, PTL

(* buffer_message and the batch task keep every buffer in the order of     *)
(* priorities and, within one, of each sender's calls.                     *)
THEOREM UrgentFirst == Spec => []BufferIsOrdered
BY TransportIsKept, PlacesFromInv, PTL
============================================================================
