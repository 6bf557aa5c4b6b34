------------------------ MODULE BackpressureProofs ------------------------
(***************************************************************************)
(* Proofs about Backpressure, for any finite set of senders, any number of *)
(* levels, any capacity and any number of messages.                        *)
(*                                                                         *)
(* TypeOK is inductive together with InHand (a sender that holds a permit, *)
(* and a receiver about to return it, have a message in hand), and with    *)
(* them PermitsConserved.  PermitMeansRoom follows, because a sender that  *)
(* holds a permit is counted in the sum that equals the capacity.          *)
(***************************************************************************)
EXTENDS Backpressure, FiniteSetTheorems, SequenceTheorems, TLAPS

InHand ==
    /\ \A t \in Sender : snd[t].at # "idle" => snd[t].msg \in Msg
    /\ rcv.at = "release" => rcv.msg \in Msg

TypeInv == TypeOK /\ InHand

LEMMA LevelFacts == 0 \in Level /\ Critical \in Level /\ Level \subseteq Nat
BY LevelsAssumption DEF Level, Critical

LEMMA MsgFacts == Msg \subseteq 0..MaxMessages /\ 0 \in 0..MaxMessages
BY MessageAssumption DEF Msg

LEMMA InitType == Init => TypeInv
<1>1. << >> \in Seq(Msg)
  BY EmptySeq
<1>. QED
  BY <1>1, LevelFacts, MsgFacts, CapacityAssumption, MessageAssumption
     DEF Init, TypeInv, TypeOK, InHand, Idle, SenderSteps, ReceiverSteps

LEMMA AcquireType ==
    ASSUME TypeInv, NEW t \in Sender, NEW p \in Level, Acquire(t, p)
    PROVE  TypeInv'
<1>1. permits' \in [Level -> Nat]
  BY DEF TypeInv, TypeOK, Acquire
<1>2. created' \in 0..MaxMessages /\ created + 1 \in Msg
  BY MessageAssumption DEF TypeInv, TypeOK, Acquire, Msg
<1>3. /\ snd' \in [Sender -> [at : SenderSteps, level : Level, msg : 0..MaxMessages]]
      /\ \A u \in Sender : snd'[u].at # "idle" => snd'[u].msg \in Msg
  BY <1>2, MsgFacts DEF TypeInv, TypeOK, InHand, Acquire, SenderSteps
<1>. QED
  BY <1>1, <1>2, <1>3 DEF TypeInv, TypeOK, InHand, Acquire

LEMMA EnqueueType ==
    ASSUME TypeInv, NEW t \in Sender, Enqueue(t)
    PROVE  TypeInv'
<1>1. snd[t].level \in Level /\ snd[t].msg \in Msg
  BY DEF TypeInv, TypeOK, InHand, Enqueue
<1>2. Append(queue[snd[t].level], snd[t].msg) \in Seq(Msg)
  BY <1>1, AppendProperties DEF TypeInv, TypeOK
<1>3. queue' \in [Level -> Seq(Msg)]
  BY <1>1, <1>2 DEF TypeInv, TypeOK, Enqueue
<1>4. /\ snd' \in [Sender -> [at : SenderSteps, level : Level, msg : 0..MaxMessages]]
      /\ \A u \in Sender : snd'[u].at # "idle" => snd'[u].msg \in Msg
  BY DEF TypeInv, TypeOK, InHand, Enqueue, SenderSteps
<1>. QED
  BY <1>3, <1>4 DEF TypeInv, TypeOK, InHand, Enqueue

LEMMA SenderEndsType ==
    ASSUME TypeInv, NEW t \in Sender, GiveUp(t) \/ Forget(t)
    PROVE  TypeInv'
<1>1. permits' \in [Level -> Nat]
  <2>1. snd[t].level \in Level /\ permits[snd[t].level] + 1 \in Nat
    BY DEF TypeInv, TypeOK
  <2>. QED
    BY <2>1 DEF TypeInv, TypeOK, GiveUp, Forget
<1>2. /\ snd' \in [Sender -> [at : SenderSteps, level : Level, msg : 0..MaxMessages]]
      /\ \A u \in Sender : snd'[u].at # "idle" => snd'[u].msg \in Msg
  <2>1. Idle \in [at : SenderSteps, level : Level, msg : 0..MaxMessages] /\ Idle.at = "idle"
    BY LevelFacts, MsgFacts DEF Idle, SenderSteps
  <2>2. snd' = [snd EXCEPT ![t] = Idle]
    BY DEF GiveUp, Forget
  <2>. QED
    BY <2>1, <2>2 DEF TypeInv, TypeOK, InHand
<1>. QED
  BY <1>1, <1>2 DEF TypeInv, TypeOK, InHand, GiveUp, Forget

LEMMA TakeType ==
    ASSUME TypeInv, Take
    PROVE  TypeInv'
<1>1. rcv.level \in Level /\ queue[rcv.level] \in Seq(Msg) /\ queue[rcv.level] # << >>
  BY DEF TypeInv, TypeOK, Take
<1>2. Head(queue[rcv.level]) \in Msg /\ Tail(queue[rcv.level]) \in Seq(Msg)
  BY <1>1, HeadTailProperties
<1>3. queue' \in [Level -> Seq(Msg)]
  BY <1>1, <1>2 DEF TypeInv, TypeOK, Take
<1>4. rcv' \in [at : ReceiverSteps, level : Level, msg : 0..MaxMessages] /\ rcv'.msg \in Msg
  BY <1>1, <1>2, MsgFacts DEF TypeInv, TypeOK, Take, ReceiverSteps
<1>. QED
  BY <1>3, <1>4 DEF TypeInv, TypeOK, InHand, Take

(* The receiver's steps that move no message: nothing is about to be       *)
(* returned before or after.                                               *)
LEMMA ReceiverMoves ==
    ASSUME TypeInv, BeginScan \/ TryNext \/ DropRecv \/ \E p \in Direct : BeginRecv(p)
    PROVE  /\ rcv' \in [at : ReceiverSteps, level : Level, msg : 0..MaxMessages]
           /\ rcv.at # "release" /\ rcv'.at # "release"
<1>0. rcv.at # "release"
  BY DEF BeginScan, TryNext, BeginRecv, DropRecv
<1>1. CASE BeginScan
  BY <1>1, LevelFacts, MsgFacts DEF BeginScan, ReceiverSteps
<1>2. CASE TryNext
  <2>1. rcv.at = "scan" /\ rcv \in [at : ReceiverSteps, level : Level, msg : 0..MaxMessages]
    BY <1>2 DEF TryNext, TypeInv, TypeOK
  <2>2. CASE rcv.level > 0
    <3>1. rcv.level - 1 \in Level
      BY <2>1, <2>2, LevelsAssumption DEF Level
    <3>2. rcv' = [rcv EXCEPT !.level = rcv.level - 1]
      BY <1>2, <2>2 DEF TryNext
    <3>. QED
      BY <2>1, <3>1, <3>2
  <2>3. CASE ~(rcv.level > 0)
    <3>1. rcv' = [rcv EXCEPT !.at = "scanWait", !.level = Critical]
      BY <1>2, <2>3 DEF TryNext
    <3>. QED
      BY <2>1, <3>1, LevelFacts DEF ReceiverSteps
  <2>. QED
    BY <2>2, <2>3
<1>3. CASE \E p \in Direct : BeginRecv(p)
  BY <1>3, DirectAssumption, MsgFacts DEF BeginRecv, ReceiverSteps, Level
<1>4. CASE DropRecv
  BY <1>4, LevelFacts, MsgFacts DEF DropRecv, Idle, ReceiverSteps
<1>. QED
  BY <1>0, <1>1, <1>2, <1>3, <1>4

LEMMA ReceiverMovesType ==
    ASSUME TypeInv, BeginScan \/ TryNext \/ DropRecv \/ \E p \in Direct : BeginRecv(p)
    PROVE  TypeInv'
BY ReceiverMoves DEF TypeInv, TypeOK, InHand, BeginScan, TryNext, BeginRecv, DropRecv

LEMMA AddPermitType ==
    ASSUME TypeInv, AddPermit
    PROVE  TypeInv'
<1>1. rcv' \in [at : ReceiverSteps, level : Level, msg : 0..MaxMessages] /\ rcv'.at = "idle"
  BY LevelFacts, MsgFacts DEF AddPermit, Idle, ReceiverSteps
<1>2. permits' \in [Level -> Nat]
  BY DEF TypeInv, TypeOK, AddPermit
<1>. QED
  BY <1>1, <1>2 DEF TypeInv, TypeOK, InHand, AddPermit

LEMMA StepType == TypeInv /\ [Next]_vars => TypeInv'
<1>. SUFFICES ASSUME TypeInv, [Next]_vars PROVE TypeInv'
  OBVIOUS
<1>1. CASE UNCHANGED vars
  BY <1>1 DEF TypeInv, TypeOK, InHand, vars
<1>. QED
  BY <1>1, AcquireType, EnqueueType, SenderEndsType, TakeType, ReceiverMovesType, AddPermitType
     DEF Next, Receive

(* Every step of the senders and of the receiver keeps the state well      *)
(* typed: in particular no step takes a permit that is not there.          *)
THEOREM TypeInvariant == Spec => []TypeOK
<1>1. Spec => []TypeInv
  BY InitType, StepType, PTL DEF Spec
<1>. QED
  BY <1>1, PTL DEF TypeInv

---------------------------------------------------------------------------
(* The permits.  Held(p) is the number of senders that hold one of level p.*)

Held(p) == Cardinality(Holders(p))

Sum(p) == permits[p] + Held(p) + Len(queue[p]) + Releasing(p)

LEMMA HoldersFinite == \A p : IsFiniteSet(Holders(p)) /\ Held(p) \in Nat
<1>. TAKE p
<1>1. Holders(p) \subseteq Sender
  BY DEF Holders
<1>. QED
  BY <1>1, FS_Subset, FS_CardinalityType, SenderAssumption DEF SenderAssumption, Held

LEMMA InitConserved == Init => PermitsConserved
<1>. SUFFICES ASSUME Init, NEW p \in Level PROVE Sum(p) = Capacity
  BY DEF PermitsConserved, Sum, Held
<1>1. Holders(p) = {}
  BY DEF Init, Holders, Idle
<1>2. Releasing(p) = 0 /\ permits[p] = Capacity /\ Len(queue[p]) = 0
  BY DEF Init, Releasing, Idle
<1>. QED
  BY <1>1, <1>2, FS_EmptySet, CapacityAssumption DEF Sum, Held

LEMMA AcquireConserved ==
    ASSUME TypeInv, NEW t \in Sender, NEW q \in Level, Acquire(t, q), NEW p \in Level,
           Sum(p) = Capacity
    PROVE  Sum(p)' = Capacity
<1>1. UNCHANGED <<queue, Releasing(p)>>
  BY DEF Acquire, Releasing
<1>2. CASE p = q
  <2>1. Holders(p)' = Holders(p) \cup {t} /\ t \notin Holders(p)
    BY <1>2 DEF Acquire, Holders, TypeInv, TypeOK
  <2>2. Held(p)' = Held(p) + 1
    BY <2>1, HoldersFinite, FS_AddElement DEF Held
  <2>3. permits'[p] = permits[p] - 1 /\ permits[p] \in Nat
    BY <1>2 DEF Acquire, TypeInv, TypeOK
  <2>4. Len(queue[p]) \in Nat /\ Releasing(p) \in Nat
    BY LenProperties DEF TypeInv, TypeOK, Releasing
  <2>. QED
    BY <1>1, <2>2, <2>3, <2>4, HoldersFinite DEF Sum
<1>3. CASE p # q
  <2>1. Holders(p)' = Holders(p)
    BY <1>3 DEF Acquire, Holders, TypeInv, TypeOK
  <2>2. permits'[p] = permits[p]
    BY <1>3 DEF Acquire, TypeInv, TypeOK
  <2>. QED
    BY <1>1, <2>1, <2>2 DEF Sum, Held
<1>. QED
  BY <1>2, <1>3

(* A sender gives its permit up: to the queue, or back to the semaphore.   *)
LEMMA HolderLeaves ==
    ASSUME TypeInv, NEW t \in Sender, snd[t].at = "holding", NEW p \in Level,
           \A u \in Sender : u # t => snd'[u] = snd[u], snd'[t].at # "holding"
    PROVE  Held(p)' = IF snd[t].level = p THEN Held(p) - 1 ELSE Held(p)
<1>1. Holders(p)' = Holders(p) \ {t}
  BY DEF Holders
<1>2. t \in Holders(p) <=> snd[t].level = p
  BY DEF Holders
<1>. QED
  BY <1>1, <1>2, HoldersFinite, FS_RemoveElement DEF Held

LEMMA EnqueueConserved ==
    ASSUME TypeInv, NEW t \in Sender, Enqueue(t), NEW p \in Level, Sum(p) = Capacity
    PROVE  Sum(p)' = Capacity
<1>1. UNCHANGED <<permits, Releasing(p)>>
  BY DEF Enqueue, Releasing
<1>2. Held(p)' = IF snd[t].level = p THEN Held(p) - 1 ELSE Held(p)
  <2>1. (\A u \in Sender : u # t => snd'[u] = snd[u]) /\ snd'[t].at # "holding"
    BY DEF Enqueue, TypeInv, TypeOK
  <2>. QED
    BY <2>1, HolderLeaves DEF Enqueue
<1>3. Len(queue'[p]) = IF snd[t].level = p THEN Len(queue[p]) + 1 ELSE Len(queue[p])
  BY AppendProperties DEF Enqueue, TypeInv, TypeOK, InHand
<1>4. permits[p] \in Nat /\ Len(queue[p]) \in Nat /\ Releasing(p) \in Nat
  BY LenProperties DEF TypeInv, TypeOK, Releasing
<1>. QED
  BY <1>1, <1>2, <1>3, <1>4, HoldersFinite DEF Sum

LEMMA GiveUpConserved ==
    ASSUME TypeInv, NEW t \in Sender, GiveUp(t), NEW p \in Level, Sum(p) = Capacity
    PROVE  Sum(p)' = Capacity
<1>1. UNCHANGED <<queue, Releasing(p)>>
  BY DEF GiveUp, Releasing
<1>2. Held(p)' = IF snd[t].level = p THEN Held(p) - 1 ELSE Held(p)
  <2>1. (\A u \in Sender : u # t => snd'[u] = snd[u]) /\ snd'[t].at # "holding"
    BY DEF GiveUp, TypeInv, TypeOK, Idle
  <2>. QED
    BY <2>1, HolderLeaves DEF GiveUp
<1>3. permits'[p] = IF snd[t].level = p THEN permits[p] + 1 ELSE permits[p]
  BY DEF GiveUp, TypeInv, TypeOK
<1>4. permits[p] \in Nat /\ Len(queue[p]) \in Nat /\ Releasing(p) \in Nat
  BY LenProperties DEF TypeInv, TypeOK, Releasing
<1>. QED
  BY <1>1, <1>2, <1>3, <1>4, HoldersFinite DEF Sum

(* mem::forget: the permit is the queued message's already.                *)
LEMMA ForgetConserved ==
    ASSUME TypeInv, NEW t \in Sender, Forget(t), NEW p \in Level
    PROVE  Sum(p)' = Sum(p)
<1>1. Holders(p)' = Holders(p)
  BY DEF Forget, Holders, TypeInv, TypeOK, Idle
<1>2. UNCHANGED <<permits, queue, Releasing(p)>>
  BY DEF Forget, Releasing
<1>. QED
  BY <1>1, <1>2 DEF Sum, Held

LEMMA TakeConserved ==
    ASSUME TypeInv, Take, NEW p \in Level, Sum(p) = Capacity
    PROVE  Sum(p)' = Capacity
<1>1. UNCHANGED <<permits, Holders(p)>>
  BY DEF Take, Holders
<1>2. Releasing(p) = 0 /\ Releasing(p)' = IF rcv.level = p THEN 1 ELSE 0
  BY DEF Take, Releasing
<1>3. Len(queue'[p]) = IF rcv.level = p THEN Len(queue[p]) - 1 ELSE Len(queue[p])
  BY HeadTailProperties DEF Take, TypeInv, TypeOK
<1>4. permits[p] \in Nat /\ Len(queue[p]) \in Nat
  BY LenProperties DEF TypeInv, TypeOK
<1>. QED
  BY <1>1, <1>2, <1>3, <1>4, HoldersFinite DEF Sum, Held

LEMMA AddPermitConserved ==
    ASSUME TypeInv, AddPermit, NEW p \in Level, Sum(p) = Capacity
    PROVE  Sum(p)' = Capacity
<1>1. UNCHANGED <<queue, Holders(p)>>
  BY DEF AddPermit, Holders
<1>2. Releasing(p)' = 0 /\ Releasing(p) = IF rcv.level = p THEN 1 ELSE 0
  BY DEF AddPermit, Releasing, Idle
<1>3. permits'[p] = IF rcv.level = p THEN permits[p] + 1 ELSE permits[p]
  BY DEF AddPermit, TypeInv, TypeOK
<1>4. permits[p] \in Nat /\ Len(queue[p]) \in Nat
  BY LenProperties DEF TypeInv, TypeOK
<1>. QED
  BY <1>1, <1>2, <1>3, <1>4, HoldersFinite DEF Sum, Held

LEMMA ReceiverMovesConserved ==
    ASSUME TypeInv, NEW p \in Level,
           BeginScan \/ TryNext \/ DropRecv \/ \E q \in Direct : BeginRecv(q)
    PROVE  Sum(p)' = Sum(p)
<1>1. UNCHANGED <<permits, queue>> /\ Holders(p)' = Holders(p)
  BY DEF BeginScan, TryNext, BeginRecv, DropRecv, Holders
<1>2. rcv.at # "release" /\ rcv'.at # "release"
  BY ReceiverMoves
<1>3. Releasing(p)' = Releasing(p)
  BY <1>2 DEF Releasing
<1>. QED
  BY <1>1, <1>3 DEF Sum, Held

LEMMA StepConserved == TypeInv /\ PermitsConserved /\ [Next]_vars => PermitsConserved'
<1>. SUFFICES ASSUME TypeInv, PermitsConserved, [Next]_vars, NEW p \in Level
              PROVE  Sum(p)' = Capacity
  BY DEF PermitsConserved, Sum, Held
<1>1. Sum(p) = Capacity
  BY DEF PermitsConserved, Sum, Held
<1>2. CASE UNCHANGED vars
  BY <1>1, <1>2 DEF vars, Sum, Held, Holders, Releasing
<1>. QED
  BY <1>1, <1>2, AcquireConserved, EnqueueConserved, GiveUpConserved, ForgetConserved,
     TakeConserved, AddPermitConserved, ReceiverMovesConserved DEF Next, Receive

(* No interleaving of concurrent senders, their timeouts and the receiver  *)
(* loses a permit or makes one, although the receiver may return a permit  *)
(* before the sender has forgotten it.                                     *)
THEOREM Conservation == Spec => []PermitsConserved
<1>1. TypeInv /\ PermitsConserved /\ [Next]_vars => (TypeInv /\ PermitsConserved)'
  BY StepType, StepConserved
<1>2. Init => TypeInv /\ PermitsConserved
  BY InitType, InitConserved
<1>. QED
  BY <1>1, <1>2, PTL DEF Spec

LEMMA RoomFollows == TypeInv /\ PermitsConserved => PermitMeansRoom
<1>. SUFFICES ASSUME TypeInv, PermitsConserved, NEW t \in Sender, snd[t].at = "holding"
              PROVE  HasRoom(snd[t].level)
  BY DEF PermitMeansRoom
<1>. DEFINE p == snd[t].level
<1>1. p \in Level /\ t \in Holders(p)
  BY DEF TypeInv, TypeOK, Holders
<1>2. Held(p) # 0
  BY <1>1, HoldersFinite, FS_EmptySet DEF Held
<1>3. permits[p] \in Nat /\ Len(queue[p]) \in Nat /\ Releasing(p) \in Nat
  BY <1>1, LenProperties DEF TypeInv, TypeOK, Releasing
<1>4. permits[p] + Held(p) + Len(queue[p]) + Releasing(p) = Capacity
  BY <1>1 DEF PermitsConserved, Held
<1>. QED
  BY <1>2, <1>3, <1>4, HoldersFinite, CapacityAssumption DEF HasRoom

(* The second wait of send(), and "Channel full" of try_send(), are dead   *)
(* code for every number of senders and every capacity.                    *)
THEOREM PermitIsRoom == Spec => []PermitMeansRoom
<1>1. Spec => []TypeInv
  BY InitType, StepType, PTL DEF Spec
<1>. QED
  BY <1>1, Conservation, RoomFollows, PTL

---------------------------------------------------------------------------
(* Priorities.  While the receiver scans nobody else takes messages away,  *)
(* so a level found empty was empty when the scan began.                   *)

ScanInv ==
    rcv.at = "scan" =>
        /\ \A p \in Level : Len(seen[p]) <= Len(queue[p])
        /\ \A h \in Level : h > rcv.level => seen[h] = << >>

LEMMA InitScan == Init => ScanInv
BY DEF Init, ScanInv, Idle

LEMMA QueuesKeepLengths ==
    ASSUME TypeInv, [Next]_vars, rcv.at = "scan", rcv'.at = "scan", NEW p \in Level
    PROVE  Len(queue[p]) <= Len(queue'[p]) /\ seen' = seen
<1>1. Len(queue[p]) \in Nat
  BY LenProperties DEF TypeInv, TypeOK
<1>2. ASSUME NEW t \in Sender, Enqueue(t) PROVE Len(queue[p]) <= Len(queue'[p])
  <2>1. Len(queue'[p]) = IF snd[t].level = p THEN Len(queue[p]) + 1 ELSE Len(queue[p])
    BY <1>2, AppendProperties DEF Enqueue, TypeInv, TypeOK, InHand
  <2>. QED
    BY <1>1, <2>1
<1>3. ~Take
  BY DEF Take
<1>4. \/ \E t \in Sender : Enqueue(t) /\ seen' = seen
      \/ queue' = queue /\ seen' = seen
  BY <1>3 DEF Next, Receive, Acquire, Enqueue, GiveUp, Forget, BeginScan, TryNext, AddPermit,
              BeginRecv, DropRecv, Idle, vars
<1>. QED
  BY <1>1, <1>2, <1>4

LEMMA StepScan == TypeInv /\ ScanInv /\ [Next]_vars => ScanInv'
<1>. SUFFICES ASSUME TypeInv, ScanInv, [Next]_vars, rcv'.at = "scan"
              PROVE  /\ \A p \in Level : Len(seen'[p]) <= Len(queue'[p])
                     /\ \A h \in Level : h > rcv'.level => seen'[h] = << >>
  BY DEF ScanInv
<1>1. CASE BeginScan
  <2>1. \A p \in Level : Len(queue[p]) \in Nat
    BY LenProperties DEF TypeInv, TypeOK
  <2>2. \A h \in Level : ~(h > Critical)
    BY LevelsAssumption DEF Level, Critical
  <2>. QED
    BY <1>1, <2>1, <2>2 DEF BeginScan
<1>2. CASE ~BeginScan
  <2>1. rcv.at = "scan"
    BY <1>2 DEF Next, Receive, Acquire, Enqueue, GiveUp, Forget, Take, TryNext, AddPermit,
                BeginRecv, DropRecv, Idle, vars
  <2>2. \A p \in Level : Len(queue[p]) <= Len(queue'[p]) /\ seen' = seen
    BY <2>1, QueuesKeepLengths
  <2>3. \A p \in Level : Len(seen'[p]) <= Len(queue'[p])
    <3>. TAKE p \in Level
    <3>1. Len(seen[p]) \in Nat /\ Len(queue[p]) \in Nat
      BY LenProperties DEF TypeInv, TypeOK
    <3>2. Len(queue'[p]) \in Nat
      BY StepType, LenProperties DEF TypeInv, TypeOK
    <3>. QED
      BY <2>1, <2>2, <3>1, <3>2 DEF ScanInv
  <2>4. ASSUME NEW h \in Level, h > rcv'.level PROVE seen'[h] = << >>
    <3>1. CASE h > rcv.level
      BY <2>1, <2>2, <3>1 DEF ScanInv
    <3>2. CASE ~(h > rcv.level)
      <4>1. TryNext
        BY <1>2, <2>1, <2>4, <3>2 DEF Next, Receive, Acquire, Enqueue, GiveUp, Forget, Take,
                                      AddPermit, BeginRecv, DropRecv, Idle, vars
      <4>2. rcv' = [rcv EXCEPT !.level = rcv.level - 1]
        <5>1. rcv \in [at : ReceiverSteps, level : Level, msg : 0..MaxMessages]
          BY DEF TypeInv, TypeOK
        <5>2. [rcv EXCEPT !.at = "scanWait", !.level = Critical].at = "scanWait"
          BY <5>1
        <5>3. rcv' # [rcv EXCEPT !.at = "scanWait", !.level = Critical]
          BY <5>2
        <5>. QED
          BY <4>1, <5>3 DEF TryNext
      <4>3. h = rcv.level
        <5>1. rcv'.level = rcv.level - 1 /\ rcv.level \in Nat /\ h \in Nat
          BY <4>2, LevelFacts DEF TypeInv, TypeOK
        <5>. QED
          BY <2>4, <3>2, <5>1
      <4>4. Len(seen[h]) <= 0
        BY <2>1, <4>1, <4>3, EmptySeq DEF ScanInv, TryNext
      <4>. QED
        BY <2>2, <4>4, EmptySeq, LenProperties DEF TypeInv, TypeOK
    <3>. QED
      BY <3>1, <3>2
  <2>. QED
    BY <2>3, <2>4
<1>. QED
  BY <1>1, <1>2

(* recv_prioritized never passes over a message that was queued on a       *)
(* higher level when the call began, for any number of levels and senders. *)
THEOREM Priority == Spec => ScanKeepsPriority
<1>1. Spec => [](TypeInv /\ ScanInv)
  BY InitType, InitScan, StepType, StepScan, PTL DEF Spec
<1>2. TypeInv /\ ScanInv /\ [Next]_vars =>
        [\A p \in Level : rcv.at = "scan" /\ rcv'.at = "release" /\ rcv'.level = p =>
            \A h \in (p + 1)..Critical : seen[h] = << >>]_vars
  <2>. SUFFICES ASSUME TypeInv, ScanInv, Next, NEW p \in Level,
                       rcv.at = "scan", rcv'.at = "release", rcv'.level = p,
                       NEW h \in (p + 1)..Critical
                PROVE  seen[h] = << >>
    OBVIOUS
  <2>1. Take
    BY ReceiverMoves DEF Next, Receive, Acquire, Enqueue, GiveUp, Forget, AddPermit, Idle
  <2>2. rcv.level = p
    BY <2>1 DEF Take
  <2>3. h \in Level /\ h > p
    BY LevelFacts, LevelsAssumption DEF Level, Critical
  <2>. QED
    BY <2>2, <2>3 DEF ScanInv
<1>. QED
  BY <1>1, <1>2, PTL DEF ScanKeepsPriority, Spec
===========================================================================
