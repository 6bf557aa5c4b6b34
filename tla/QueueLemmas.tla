---------------------------- MODULE QueueLemmas ----------------------------
(***************************************************************************)
(* What taking the head of a queue, cutting it and appending to its end do *)
(* to the places of its elements; the least of a set of places.            *)
(***************************************************************************)
EXTENDS Integers, Sequences, SequenceTheorems, WellFoundedInduction, TLAPS

LEMMA TailFacts ==
    ASSUME NEW S, NEW q \in Seq(S), q # <<>>
    PROVE  /\ Len(q) \in Nat /\ 1 \in 1..Len(q) /\ Head(q) = q[1] /\ Head(q) \in S
           /\ Tail(q) \in Seq(S) /\ Len(Tail(q)) = Len(q) - 1
           /\ \A i \in 1..Len(Tail(q)) :
                i + 1 \in 1..Len(q) /\ i + 1 # 1 /\ Tail(q)[i] = q[i + 1] /\ Tail(q)[i] \in S
<1>1. Len(q) \in Nat /\ Len(q) # 0
  BY EmptySeq, LenProperties
<1>2. Tail(q) \in Seq(S) /\ Len(Tail(q)) = Len(q) - 1
      /\ \A i \in 1..Len(Tail(q)) : Tail(q)[i] = q[i + 1]
  BY HeadTailProperties
<1>3. Head(q) = q[1] /\ Head(q) \in S
  BY <1>1, HeadTailProperties
<1>4. \A i \in 1..Len(Tail(q)) : i + 1 \in 1..Len(q) /\ i + 1 # 1
  BY <1>1, <1>2
<1>5. \A i \in 1..Len(q) : q[i] \in S
  BY ElementOfSeq
<1>. QED
  BY <1>1, <1>2, <1>3, <1>4, <1>5

LEMMA AppendFacts ==
    ASSUME NEW S, NEW q \in Seq(S), NEW e \in S
    PROVE  /\ Len(q) \in Nat /\ Append(q, e) \in Seq(S) /\ Len(Append(q, e)) = Len(q) + 1
           /\ Append(q, e)[Len(q) + 1] = e
           /\ \A i \in 1..Len(q) : Append(q, e)[i] = q[i] /\ q[i] \in S
           /\ \A i \in 1..Len(Append(q, e)) :
                \/ i \in 1..Len(q) /\ Append(q, e)[i] = q[i]
                \/ i = Len(q) + 1 /\ Append(q, e)[i] = e
<1>1. Len(q) \in Nat
  BY LenProperties
<1>2. \A i \in 1..Len(q) : q[i] \in S
  BY ElementOfSeq
<1>. QED
  BY <1>1, <1>2, AppendProperties

LEMMA CutFacts ==
    ASSUME NEW S, NEW q \in Seq(S), NEW a \in Int, NEW b \in Int, a >= 1, b <= Len(q), a <= b + 1
    PROVE  /\ SubSeq(q, a, b) \in Seq(S) /\ Len(SubSeq(q, a, b)) = b - a + 1
           /\ \A i \in 1..b - a + 1 : a + i - 1 \in 1..Len(q) /\ SubSeq(q, a, b)[i] = q[a + i - 1]
<1>1. Len(q) \in Nat /\ \A i \in 1..Len(q) : q[i] \in S
  BY LenProperties, ElementOfSeq
<1>. DEFINE part == SubSeq(q, a, b)
<1>2. \A i \in a..b : q[i] \in S
  BY <1>1
<1>3. /\ part \in Seq(S) /\ Len(part) = (IF a <= b THEN b - a + 1 ELSE 0)
      /\ \A i \in 1..b - a + 1 : part[i] = q[a + i - 1]
  BY <1>2, SubSeqProperties
<1>. HIDE DEF part
<1>4. Len(part) = b - a + 1 /\ \A i \in 1..b - a + 1 : a + i - 1 \in 1..Len(q)
  BY <1>1, <1>3
<1>. QED
  BY <1>3, <1>4 DEF part

LEMMA FrontFacts ==
    ASSUME NEW S, NEW q \in Seq(S), q # <<>>
    PROVE  /\ SubSeq(q, 1, Len(q) - 1) \in Seq(S) /\ Len(SubSeq(q, 1, Len(q) - 1)) = Len(q) - 1
           /\ \A i \in 1..Len(q) - 1 :
                i \in 1..Len(q) /\ SubSeq(q, 1, Len(q) - 1)[i] = q[i]
<1>1. Len(q) \in Nat /\ Len(q) # 0
  BY EmptySeq, LenProperties
<1>. DEFINE b == Len(q) - 1
<1>2. b \in Int /\ 1 \in Int /\ 1 >= 1 /\ b <= Len(q) /\ 1 <= b + 1
  BY <1>1
<1>. HIDE DEF b
<1>3. /\ SubSeq(q, 1, b) \in Seq(S) /\ Len(SubSeq(q, 1, b)) = b - 1 + 1
      /\ \A i \in 1..b - 1 + 1 : 1 + i - 1 \in 1..Len(q) /\ SubSeq(q, 1, b)[i] = q[1 + i - 1]
  BY <1>2, CutFacts
<1>4. b - 1 + 1 = b /\ \A i \in 1..b : 1 + i - 1 = i
  BY <1>2
<1>5. SubSeq(q, 1, b) \in Seq(S) /\ Len(SubSeq(q, 1, b)) = b
      /\ \A i \in 1..b : i \in 1..Len(q) /\ SubSeq(q, 1, b)[i] = q[i]
  BY <1>3, <1>4
<1>. QED
  BY <1>5 DEF b

LEMMA FunctionIsSeq ==
    ASSUME NEW S, NEW n \in Nat, NEW f \in [1..n -> S]
    PROVE  f \in Seq(S) /\ Len(f) = n
<1>1. f \in Seq(S)
  BY SeqDef
<1>2. DOMAIN f = 1..n /\ DOMAIN f = 1..Len(f) /\ Len(f) \in Nat
  BY <1>1, LenProperties
<1>. QED
  BY <1>1, <1>2

LEMMA LeastExists ==
    ASSUME NEW S, S \subseteq Nat, S # {}
    PROVE  \E x \in S : \A y \in S : x <= y
<1>. DEFINE R == {p \in Nat \X Nat : p[1] < p[2]}
<1>1. IsWellFoundedOn(R, Nat)
  <2>1. R = OpToRel(<, Nat)
    BY DEF OpToRel
  <2>. QED
    BY <2>1, NatLessThanWellFounded
<1>2. PICK x \in S : \A y \in S : <<y, x>> \notin R
  BY <1>1, WFMin
<1>3. ASSUME NEW y \in S PROVE x <= y
  <2>1. ~(y < x) /\ x \in Nat /\ y \in Nat
    BY <1>2
  <2>. QED
    BY <2>1
<1>. QED
  BY <1>2, <1>3
============================================================================
