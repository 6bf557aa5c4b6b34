----------------------- MODULE BatchProcessorProofs -----------------------
(***************************************************************************)
(* Proofs, for any number of proposals, any priorities and any limits,     *)
(* that the optimized batch processor hands every proposal on once and in  *)
(* order or refuses it for good, and that its counter adds up.             *)
(*                                                                         *)
(* The order rests on the batches: proposals of one urgent priority share  *)
(* a batch, so a flushed one takes all of them along; what is still in the *)
(* channel was sent later than all that was taken from it.                 *)
(***************************************************************************)
EXTENDS BatchProcessor, QueueLemmas, FiniteSetTheorems, FunctionTheorems

(* f is the function by which Only(s, S) collects the first n elements.    *)
Kept(s, S, f, n) ==
    f = [m \in 0..n |-> IF m = 0 THEN << >>
                        ELSE IF s[m] \in S THEN Append(f[m - 1], s[m]) ELSE f[m - 1]]

(* What Only has kept of the first n elements: each of them that is in S,  *)
(* and nothing else, in the old order.                                     *)
Picks(t, h, s, S, n) ==
    /\ h \in [1..Len(t) -> 1..n]
    /\ \A i \in 1..Len(t) : t[i] = s[h[i]] /\ t[i] \in S
    /\ \A i, j \in 1..Len(t) : i < j => h[i] < h[j]
    /\ \A j \in 1..n : s[j] \in S => \E i \in 1..Len(t) : h[i] = j

LEMMA KeptExists ==
    ASSUME NEW T, NEW s \in Seq(T), NEW S
    PROVE  \E f : Kept(s, S, f, Len(s))
<1>. DEFINE Missing == {n \in 0..Len(s) : ~\E f : Kept(s, S, f, n)}
<1>1. Len(s) \in Nat
  BY LenProperties
<1>2. SUFFICES ASSUME Missing # {} PROVE FALSE
  BY <1>1
<1>3. PICK n \in Missing : \A m \in Missing : n <= m
  <2>1. Missing \subseteq Nat
    BY <1>1
  <2>. HIDE DEF Missing
  <2>. QED
    BY <1>2, <2>1, LeastExists
<1>4. n \in 0..Len(s) /\ ~\E f : Kept(s, S, f, n)
  BY <1>3
<1>5. CASE n = 0
  <2>. DEFINE g == [m \in 0..0 |-> << >>]
  <2>1. Kept(s, S, g, 0)
    BY DEF Kept
  <2>. QED
    BY <1>4, <1>5, <2>1
<1>6. CASE n # 0
  <2>1. n - 1 \in 0..Len(s) /\ n - 1 \notin Missing
    BY <1>1, <1>3, <1>4, <1>6
  <2>2. PICK f : Kept(s, S, f, n - 1)
    BY <2>1
  <2>. DEFINE g == [m \in 0..n |-> IF m = n THEN IF s[n] \in S THEN Append(f[n - 1], s[n]) ELSE f[n - 1]
                                   ELSE f[m]]
  <2>3. \A m \in 0..n - 1 : f[m] = IF m = 0 THEN << >>
                        ELSE IF s[m] \in S THEN Append(f[m - 1], s[m]) ELSE f[m - 1]
    BY <2>2 DEF Kept
  <2>4. \A m \in 0..n - 1 : g[m] = f[m]
    BY <1>4
  <2>5. ASSUME NEW m \in 0..n
        PROVE  g[m] = IF m = 0 THEN << >>
                      ELSE IF s[m] \in S THEN Append(g[m - 1], s[m]) ELSE g[m - 1]
    <3>1. CASE m = n
      <4>1. g[n - 1] = f[n - 1] /\ n \in 0..n
        BY <1>4, <1>6, <2>4
      <4>. QED
        BY <1>6, <3>1, <4>1
    <3>2. CASE m # n
      <4>1. m \in 0..n - 1 /\ (m # 0 => m - 1 \in 0..n - 1)
        BY <1>4, <3>2
      <4>2. g[m] = f[m] /\ (m # 0 => g[m - 1] = f[m - 1])
        BY <4>1, <2>4
      <4>. QED
        BY <4>1, <4>2, <2>3
    <3>. QED
      BY <3>1, <3>2
  <2>6. Kept(s, S, g, n)
    <3>. DEFINE r == [m \in 0..n |-> IF m = 0 THEN << >>
                        ELSE IF s[m] \in S THEN Append(g[m - 1], s[m]) ELSE g[m - 1]]
    <3>1. g = r
      <4>1. DOMAIN g = 0..n /\ DOMAIN r = 0..n /\ \A m \in 0..n : g[m] = r[m]
        BY <2>5
      <4>2. g = [m \in 0..n |-> g[m]] /\ r = [m \in 0..n |-> r[m]]
        OBVIOUS
      <4>. HIDE DEF g, r
      <4>. QED
        BY <4>1, <4>2
    <3>. HIDE DEF g
    <3>. QED
      BY <3>1 DEF Kept
  <2>. QED
    BY <1>4, <2>6
<1>. QED
  BY <1>5, <1>6

(* One more element keeps the picking sound; so it holds for every prefix, *)
(* by its least counterexample.                                            *)
LEMMA PicksMore ==
    ASSUME NEW t, Len(t) \in Nat, NEW h, NEW s, NEW S, NEW n \in Nat, n # 0,
           Picks(t, h, s, S, n - 1), s[n] \in S,
           NEW u, Len(u) = Len(t) + 1, u[Len(t) + 1] = s[n],
           \A i \in 1..Len(t) : u[i] = t[i]
    PROVE  \E g : Picks(u, g, s, S, n)
<1>. DEFINE k == Len(t)
            g == [i \in 1..k + 1 |-> IF i = k + 1 THEN n ELSE h[i]]
<1>1. /\ h \in [1..k -> 1..n - 1] /\ k \in Nat
      /\ \A i \in 1..k : t[i] = s[h[i]] /\ t[i] \in S
      /\ \A i, j \in 1..k : i < j => h[i] < h[j]
      /\ \A j \in 1..n - 1 : s[j] \in S => \E i \in 1..k : h[i] = j
  BY DEF Picks
<1>2. Len(u) = k + 1 /\ u[k + 1] = s[n] /\ \A i \in 1..k : u[i] = t[i]
  OBVIOUS
<1>. HIDE DEF k
<1>3. g \in [1..k + 1 -> 1..n] /\ g[k + 1] = n /\ \A i \in 1..k : g[i] = h[i]
  <2>1. \A i \in 1..k : h[i] \in 1..n - 1
    BY <1>1
  <2>2. ASSUME NEW i \in 1..k + 1 PROVE (IF i = k + 1 THEN n ELSE h[i]) \in 1..n
    <3>1. i # k + 1 => i \in 1..k
      BY <1>1
    <3>. QED
      BY <2>1, <3>1
  <2>. QED
    BY <1>1, <2>2
<1>. HIDE DEF g
<1>4. \A i \in 1..k + 1 : u[i] = s[g[i]] /\ u[i] \in S
  <2>1. \A i \in 1..k + 1 : i \in 1..k \/ i = k + 1
    BY <1>1
  <2>. QED
    BY <1>1, <1>2, <1>3, <2>1
<1>5. \A i, j \in 1..k + 1 : i < j => g[i] < g[j]
  <2>1. \A i \in 1..k : h[i] < n
    BY <1>1
  <2>2. \A i, j \in 1..k + 1 : i < j => i \in 1..k /\ (j \in 1..k \/ j = k + 1)
    BY <1>1
  <2>. QED
    BY <1>1, <1>3, <2>1, <2>2
<1>6. ASSUME NEW j \in 1..n, s[j] \in S PROVE \E i \in 1..k + 1 : g[i] = j
  <2>1. CASE j = n
    <3>1. k + 1 \in 1..k + 1
      BY <1>1
    <3>. QED
      BY <1>3, <2>1, <3>1
  <2>2. CASE j \in 1..n - 1
    <3>1. PICK i \in 1..k : h[i] = j
      BY <1>1, <1>6, <2>2
    <3>2. i \in 1..k + 1
      BY <1>1
    <3>. QED
      BY <1>3, <3>1, <3>2
  <2>3. j = n \/ j \in 1..n - 1
    OBVIOUS
  <2>. QED
    BY <2>1, <2>2, <2>3
<1>7. Picks(u, g, s, S, n)
  BY <1>2, <1>3, <1>4, <1>5, <1>6 DEF Picks
<1>. QED
  BY <1>7

LEMMA PicksAsMany ==
    ASSUME NEW t, Len(t) \in Nat, NEW h, NEW s, NEW S, NEW n \in Nat, n # 0,
           Picks(t, h, s, S, n - 1), s[n] \notin S
    PROVE  Picks(t, h, s, S, n)
<1>. DEFINE k == Len(t)
<1>1. /\ h \in [1..k -> 1..n - 1] /\ k \in Nat
      /\ \A i \in 1..k : t[i] = s[h[i]] /\ t[i] \in S
      /\ \A i, j \in 1..k : i < j => h[i] < h[j]
      /\ \A j \in 1..n - 1 : s[j] \in S => \E i \in 1..k : h[i] = j
  BY DEF Picks
<1>. HIDE DEF k
<1>2. h \in [1..k -> 1..n]
  BY <1>1
<1>3. \A j \in 1..n : j = n \/ j \in 1..n - 1
  OBVIOUS
<1>. QED
  BY <1>1, <1>2, <1>3 DEF Picks, k

LEMMA OnlyPicks ==
    ASSUME NEW T, NEW s \in Seq(T), NEW S
    PROVE  Only(s, S) \in Seq(T) /\ \E h : Picks(Only(s, S), h, s, S, Len(s))
<1>1. PICK f : Kept(s, S, f, Len(s)) /\ Only(s, S) = f[Len(s)]
  <2>. DEFINE f == CHOOSE f : Kept(s, S, f, Len(s))
  <2>1. Only(s, S) = f[Len(s)]
    BY DEF Only, Kept
  <2>2. Kept(s, S, f, Len(s))
    BY KeptExists
  <2>. QED
    BY <2>1, <2>2
<1>2. Len(s) \in Nat
  BY LenProperties
<1>3. \A i \in 1..Len(s) : s[i] \in T
  BY ElementOfSeq
<1>4. \A m \in 0..Len(s) : f[m] = IF m = 0 THEN << >>
                        ELSE IF s[m] \in S THEN Append(f[m - 1], s[m]) ELSE f[m - 1]
  BY <1>1 DEF Kept
<1>. DEFINE Wrong == {n \in 0..Len(s) : ~(f[n] \in Seq(T) /\ \E h : Picks(f[n], h, s, S, n))}
<1>5. SUFFICES ASSUME Wrong # {} PROVE FALSE
  BY <1>1, <1>2
<1>6. PICK n \in Wrong : \A m \in Wrong : n <= m
  <2>1. Wrong \subseteq Nat
    BY <1>2
  <2>. HIDE DEF Wrong
  <2>. QED
    BY <1>5, <2>1, LeastExists
<1>7. n \in 0..Len(s) /\ ~(f[n] \in Seq(T) /\ \E h : Picks(f[n], h, s, S, n))
  BY <1>6
<1>8. CASE n = 0
  <2>1. f[0] = << >>
    BY <1>4, <1>2
  <2>. DEFINE h == [i \in 1..0 |-> 0]
  <2>2. Picks(<< >>, h, s, S, 0)
    BY DEF Picks
  <2>. QED
    BY <1>7, <1>8, <2>1, <2>2
<1>9. CASE n # 0
  <2>1. n - 1 \in 0..Len(s) /\ n - 1 \notin Wrong /\ n \in 1..Len(s)
    BY <1>2, <1>6, <1>7, <1>9
  <2>2. f[n - 1] \in Seq(T) /\ \E h : Picks(f[n - 1], h, s, S, n - 1)
    BY <2>1
  <2>3. PICK h : Picks(f[n - 1], h, s, S, n - 1)
    BY <2>2
  <2>. DEFINE t == f[n - 1]
  <2>4. Len(t) \in Nat /\ t \in Seq(T)
    BY <2>2, LenProperties
  <2>5. CASE s[n] \in S
    <3>1. f[n] = Append(t, s[n])
      BY <1>4, <1>7, <1>9, <2>5
    <3>. DEFINE u == Append(t, s[n])
    <3>2. /\ u \in Seq(T) /\ Len(u) = Len(t) + 1 /\ u[Len(t) + 1] = s[n]
          /\ \A i \in 1..Len(t) : u[i] = t[i]
      BY <2>1, <2>4, <1>3, AppendFacts
    <3>3. n \in Nat /\ Picks(t, h, s, S, n - 1)
      BY <2>1, <2>3, <1>2
    <3>. HIDE DEF u, t
    <3>4. \E g : Picks(u, g, s, S, n)
      BY <3>2, <3>3, <1>9, <2>4, <2>5, PicksMore
    <3>. QED
      BY <1>7, <3>1, <3>2, <3>4 DEF u
  <2>6. CASE s[n] \notin S
    <3>1. f[n] = t
      BY <1>4, <1>7, <1>9, <2>6
    <3>2. n \in Nat /\ Picks(t, h, s, S, n - 1)
      BY <2>1, <2>3, <1>2
    <3>. HIDE DEF t
    <3>3. Picks(t, h, s, S, n)
      BY <1>9, <2>4, <2>6, <3>2, PicksAsMany
    <3>. QED
      BY <1>7, <2>4, <3>1, <3>3
  <2>. QED
    BY <2>5, <2>6
<1>. QED
  BY <1>8, <1>9

(* The proposals of s stand in the order in which they were sent.          *)
Rising(s) == \A i, j \in 1..Len(s) : i < j => s[i] < s[j]

LEMMA ElemsFacts ==
    ASSUME NEW T, NEW s \in Seq(T)
    PROVE  /\ Elems(s) \subseteq T /\ Len(s) \in Nat /\ DOMAIN s = 1..Len(s)
           /\ \A p : p \in Elems(s) <=> \E i \in 1..Len(s) : s[i] = p
           /\ Elems(s) = {} <=> s = << >>
           /\ \A i \in 1..Len(s) : s[i] \in T /\ s[i] \in Elems(s)
<1>1. Len(s) \in Nat /\ DOMAIN s = 1..Len(s)
  BY LenProperties
<1>2. \A i \in 1..Len(s) : s[i] \in T
  BY ElementOfSeq
<1>3. \A p : p \in Elems(s) <=> \E i \in 1..Len(s) : s[i] = p
  BY <1>1 DEF Elems
<1>4. Elems(s) = {} <=> s = << >>
  <2>1. s = << >> <=> Len(s) = 0
    BY EmptySeq
  <2>2. Len(s) # 0 => 1 \in 1..Len(s)
    BY <1>1
  <2>3. Len(s) = 0 => 1..Len(s) = {}
    BY <1>1
  <2>. QED
    BY <1>3, <2>1, <2>2, <2>3
<1>. QED
  BY <1>1, <1>2, <1>3, <1>4

LEMMA ProposalIsInt == Proposal \subseteq Nat /\ \A p \in Proposal : p >= 1 /\ p <= Proposals
  BY BatchAssumption DEF Proposal

(* Selecting, adding at the end, taking from the front: what happens to the *)
(* elements, and that they stay in order.                                    *)
LEMMA SelectionRises ==
    ASSUME NEW s \in Seq(Proposal), NEW S, Rising(s)
    PROVE  /\ Only(s, S) \in Seq(Proposal) /\ Rising(Only(s, S))
           /\ Elems(Only(s, S)) = Elems(s) \cap S
<1>. DEFINE t == Only(s, S)
<1>1. t \in Seq(Proposal) /\ \E h : Picks(t, h, s, S, Len(s))
  BY OnlyPicks
<1>. HIDE DEF t
<1>2. PICK h : Picks(t, h, s, S, Len(s))
  BY <1>1
<1>3. /\ h \in [1..Len(t) -> 1..Len(s)]
      /\ \A i \in 1..Len(t) : t[i] = s[h[i]] /\ t[i] \in S
      /\ \A i, j \in 1..Len(t) : i < j => h[i] < h[j]
      /\ \A j \in 1..Len(s) : s[j] \in S => \E i \in 1..Len(t) : h[i] = j
  BY <1>2 DEF Picks
<1>4. \A p : p \in Elems(s) <=> \E i \in 1..Len(s) : s[i] = p
  BY ElemsFacts
<1>5. \A p : p \in Elems(t) <=> \E i \in 1..Len(t) : t[i] = p
  BY <1>1, ElemsFacts
<1>6. \A i \in 1..Len(t) : h[i] \in 1..Len(s)
  BY <1>3
<1>7. \A p : p \in Elems(t) <=> p \in Elems(s) /\ p \in S
  <2>1. ASSUME NEW p \in Elems(t) PROVE p \in Elems(s) /\ p \in S
    BY <1>3, <1>4, <1>5, <1>6
  <2>2. ASSUME NEW p \in Elems(s), p \in S PROVE p \in Elems(t)
    <3>1. PICK j \in 1..Len(s) : s[j] = p
      BY <1>4
    <3>2. PICK i \in 1..Len(t) : h[i] = j
      BY <1>3, <2>2, <3>1
    <3>3. t[i] = p
      BY <1>3, <3>1, <3>2
    <3>. QED
      BY <1>5, <3>3
  <2>. QED
    BY <2>1, <2>2
<1>8. Rising(t)
  BY <1>3, <1>6 DEF Rising
<1>9. Elems(t) = Elems(s) \cap S
  BY <1>7
<1>. QED
  BY <1>1, <1>8, <1>9 DEF t

LEMMA AppendRises ==
    ASSUME NEW s \in Seq(Proposal), NEW p \in Proposal, Rising(s), \A q \in Elems(s) : q < p
    PROVE  /\ Append(s, p) \in Seq(Proposal) /\ Rising(Append(s, p))
           /\ Elems(Append(s, p)) = Elems(s) \cup {p}
<1>. DEFINE t == Append(s, p)
<1>1. /\ Len(s) \in Nat /\ t \in Seq(Proposal) /\ Len(t) = Len(s) + 1 /\ t[Len(s) + 1] = p
      /\ \A i \in 1..Len(s) : t[i] = s[i]
  BY AppendFacts
<1>. HIDE DEF t
<1>2. \A i \in 1..Len(t) : i = Len(s) + 1 \/ i \in 1..Len(s)
  BY <1>1
<1>3. \A i \in 1..Len(s) : i \in 1..Len(t) /\ s[i] \in Elems(s)
  BY <1>1, ElemsFacts
<1>4. Rising(t)
  <2>1. ASSUME NEW i \in 1..Len(t), NEW j \in 1..Len(t), i < j PROVE t[i] < t[j]
    <3>1. i \in 1..Len(s) /\ (j \in 1..Len(s) \/ j = Len(s) + 1)
      BY <1>1, <1>2, <2>1
    <3>2. t[i] = s[i] /\ s[i] < p
      BY <1>1, <1>3, <3>1
    <3>3. j \in 1..Len(s) => t[j] = s[j] /\ s[i] < s[j]
      BY <1>1, <2>1, <3>1 DEF Rising
    <3>. QED
      BY <1>1, <3>1, <3>2, <3>3
  <2>. QED
    BY <2>1 DEF Rising
<1>5. \A q : q \in Elems(t) <=> \E i \in 1..Len(t) : t[i] = q
  BY <1>1, ElemsFacts
<1>6. \A q : q \in Elems(s) <=> \E i \in 1..Len(s) : s[i] = q
  BY ElemsFacts
<1>7. \A q : q \in Elems(t) <=> q \in Elems(s) \/ q = p
  <2>1. Len(s) + 1 \in 1..Len(t)
    BY <1>1
  <2>. QED
    BY <1>1, <1>2, <1>3, <1>5, <1>6, <2>1
<1>8. Elems(t) = Elems(s) \cup {p}
  BY <1>7
<1>. QED
  BY <1>1, <1>4, <1>8 DEF t

LEMMA TailRises ==
    ASSUME NEW s \in Seq(Proposal), Rising(s), s # << >>
    PROVE  /\ Head(s) \in Proposal /\ Head(s) \in Elems(s) /\ Tail(s) \in Seq(Proposal)
           /\ Rising(Tail(s)) /\ Elems(Tail(s)) = Elems(s) \ {Head(s)}
           /\ \A q \in Elems(Tail(s)) : Head(s) < q
<1>. DEFINE t == Tail(s) h == Head(s)
<1>1. /\ Len(s) \in Nat /\ 1 \in 1..Len(s) /\ h = s[1] /\ h \in Proposal
      /\ t \in Seq(Proposal) /\ Len(t) = Len(s) - 1
      /\ \A i \in 1..Len(t) : i + 1 \in 1..Len(s) /\ i + 1 # 1 /\ t[i] = s[i + 1]
  BY TailFacts
<1>. HIDE DEF t, h
<1>2. \A q : q \in Elems(t) <=> \E i \in 1..Len(t) : t[i] = q
  BY <1>1, ElemsFacts
<1>3. \A q : q \in Elems(s) <=> \E i \in 1..Len(s) : s[i] = q
  BY ElemsFacts
<1>4. \A i \in 1..Len(s) : s[i] \in Proposal
  BY ElemsFacts
<1>5. \A q \in Elems(t) : h < q /\ q \in Elems(s)
  BY <1>1, <1>2, <1>3 DEF Rising
<1>6. \A q \in Elems(s) : q = h \/ q \in Elems(t)
  <2>1. ASSUME NEW i \in 1..Len(s), i # 1 PROVE s[i] \in Elems(t)
    <3>1. i - 1 \in 1..Len(t)
      BY <1>1, <2>1
    <3>2. t[i - 1] = s[i - 1 + 1] /\ i - 1 + 1 = i
      BY <1>1, <3>1
    <3>. QED
      BY <1>2, <3>1, <3>2
  <2>. QED
    BY <1>1, <1>3, <2>1
<1>7. Rising(t)
  <2>1. \A i, j \in 1..Len(t) : i < j => t[i] < t[j]
    BY <1>1, SMTT(30) DEF Rising
  <2>. QED
    BY <2>1 DEF Rising
<1>8. Elems(t) = Elems(s) \ {h} /\ h \in Elems(s)
  <2>1. \A q \in Elems(t) : q # h
    BY <1>1, <1>5, ProposalIsInt
  <2>. QED
    BY <1>1, <1>3, <1>5, <1>6, <2>1
<1>. QED
  BY <1>1, <1>5, <1>7, <1>8 DEF t, h

(* Cutting a group in two, and counting the elements of a batch.           *)
LEMMA CutRises ==
    ASSUME NEW g \in Seq(Proposal), Rising(g), NEW n \in Int, 0 < n, n <= Len(g)
    PROVE  LET front == SubSeq(g, 1, n)  rest == SubSeq(g, n + 1, Len(g)) IN
           /\ front \in Seq(Proposal) /\ Rising(front) /\ Len(front) = n
           /\ rest \in Seq(Proposal) /\ Rising(rest)
           /\ Elems(front) \subseteq Elems(g)
           /\ Elems(rest) = Elems(g) \ Elems(front)
<1>. DEFINE front == SubSeq(g, 1, n)  rest == SubSeq(g, n + 1, Len(g))
<1>1. Len(g) \in Nat
  BY LenProperties
<1>2. /\ front \in Seq(Proposal) /\ Len(front) = n - 1 + 1
      /\ \A i \in 1..n - 1 + 1 : 1 + i - 1 \in 1..Len(g) /\ front[i] = g[1 + i - 1]
  <2>1. 1 \in Int /\ 1 >= 1 /\ 1 <= n + 1
    OBVIOUS
  <2>. QED
    BY <2>1, CutFacts
<1>3. /\ rest \in Seq(Proposal) /\ Len(rest) = Len(g) - (n + 1) + 1
      /\ \A i \in 1..Len(g) - (n + 1) + 1 :
            n + 1 + i - 1 \in 1..Len(g) /\ rest[i] = g[n + 1 + i - 1]
  <2>1. n + 1 \in Int /\ Len(g) \in Int /\ n + 1 >= 1 /\ Len(g) <= Len(g) /\ n + 1 <= Len(g) + 1
    BY <1>1
  <2>. QED
    BY <2>1, CutFacts
<1>. HIDE DEF front, rest
<1>4. Len(front) = n /\ \A i \in 1..Len(front) : i \in 1..Len(g) /\ front[i] = g[i]
  <2>1. n - 1 + 1 = n /\ \A i \in Int : 1 + i - 1 = i
    OBVIOUS
  <2>. QED
    BY <1>2, <2>1
<1>5. Len(rest) = Len(g) - n /\ \A i \in 1..Len(rest) : n + i \in 1..Len(g) /\ rest[i] = g[n + i]
  <2>1. Len(g) - (n + 1) + 1 = Len(g) - n /\ \A i \in Int : n + 1 + i - 1 = n + i
    BY <1>1
  <2>2. Len(rest) = Len(g) - n
    BY <1>3, <2>1
  <2>3. ASSUME NEW i \in 1..Len(rest) PROVE n + i \in 1..Len(g) /\ rest[i] = g[n + i]
    <3>1. i \in 1..Len(g) - (n + 1) + 1 /\ n + 1 + i - 1 = n + i
      BY <1>3, <2>1
    <3>2. n + 1 + i - 1 \in 1..Len(g) /\ rest[i] = g[n + 1 + i - 1]
      BY <1>3, <3>1
    <3>. QED
      BY <3>1, <3>2
  <2>. QED
    BY <2>2, <2>3
<1>6. Rising(front) /\ Rising(rest)
  <2>1. \A i, j \in 1..Len(front) : i < j => front[i] < front[j]
    BY <1>4 DEF Rising
  <2>2. ASSUME NEW i \in 1..Len(rest), NEW j \in 1..Len(rest), i < j PROVE rest[i] < rest[j]
    <3>1. n + i \in 1..Len(g) /\ n + j \in 1..Len(g) /\ n + i < n + j
      BY <1>5, <2>2
    <3>2. g[n + i] < g[n + j]
      BY <3>1 DEF Rising
    <3>. QED
      BY <1>5, <3>2
  <2>. QED
    BY <2>1, <2>2 DEF Rising
<1>7. \A q : q \in Elems(front) <=> \E i \in 1..Len(front) : front[i] = q
  BY <1>2, ElemsFacts
<1>8. \A q : q \in Elems(rest) <=> \E i \in 1..Len(rest) : rest[i] = q
  BY <1>3, ElemsFacts
<1>9. \A q : q \in Elems(g) <=> \E i \in 1..Len(g) : g[i] = q
  BY ElemsFacts
<1>10. \A q \in Elems(front) : q \in Elems(g)
  BY <1>4, <1>7, <1>9
<1>11. \A q \in Elems(rest) : q \in Elems(g) /\ q \notin Elems(front)
  <2>1. ASSUME NEW i \in 1..Len(rest), NEW j \in 1..Len(front) PROVE rest[i] # front[j]
    <3>1. j < n + i /\ j \in 1..Len(g) /\ n + i \in 1..Len(g)
      BY <1>4, <1>5
    <3>2. g[j] < g[n + i] /\ g[j] \in Nat /\ g[n + i] \in Nat
      <4>1. g[j] \in Proposal /\ g[n + i] \in Proposal
        BY <3>1, ElemsFacts
      <4>2. g[j] < g[n + i]
        BY <3>1 DEF Rising
      <4>. QED
        BY <4>1, <4>2, ProposalIsInt
    <3>3. g[j] # g[n + i]
      BY <3>2
    <3>. QED
      BY <1>4, <1>5, <3>3
  <2>. QED
    BY <1>5, <1>7, <1>8, <1>9, <2>1, SMTT(30)
<1>12. ASSUME NEW q \in Elems(g), q \notin Elems(front) PROVE q \in Elems(rest)
  <2>1. PICK i \in 1..Len(g) : g[i] = q
    BY <1>9
  <2>2. i \notin 1..Len(front)
    BY <1>4, <1>7, <1>12, <2>1
  <2>3. i - n \in 1..Len(rest) /\ n + (i - n) = i
    BY <1>1, <1>4, <1>5, <2>2
  <2>. QED
    BY <1>5, <1>8, <2>1, <2>3
<1>13. Elems(front) \subseteq Elems(g) /\ Elems(rest) = Elems(g) \ Elems(front)
  BY <1>10, <1>11, <1>12
<1>. QED
  BY <1>2, <1>3, <1>4, <1>6, <1>13 DEF front, rest

LEMMA RisingCount ==
    ASSUME NEW s \in Seq(Proposal), Rising(s)
    PROVE  IsFiniteSet(Elems(s)) /\ Cardinality(Elems(s)) = Len(s)
<1>1. Len(s) \in Nat /\ DOMAIN s = 1..Len(s) /\ \A i \in 1..Len(s) : s[i] \in Elems(s) /\ s[i] \in Proposal
  BY ElemsFacts
<1>2. \A q : q \in Elems(s) <=> \E i \in 1..Len(s) : s[i] = q
  BY ElemsFacts
<1>3. s \in [1..Len(s) -> Elems(s)]
  BY <1>1
<1>4. \A i, j \in 1..Len(s) : s[i] = s[j] => i = j
  <2>1. ASSUME NEW i \in 1..Len(s), NEW j \in 1..Len(s), i < j PROVE s[i] # s[j]
    <3>1. s[i] < s[j] /\ s[i] \in Nat
      BY <1>1, <2>1, ProposalIsInt DEF Rising
    <3>. QED
      BY <3>1
  <2>2. \A i, j \in 1..Len(s) : i = j \/ i < j \/ j < i
    BY <1>1
  <2>. QED
    BY <2>1, <2>2
<1>5. s \in Bijection(1..Len(s), Elems(s))
  BY <1>2, <1>3, <1>4, Fun_IsBij
<1>6. ExistsBijection(1..Len(s), Elems(s))
  BY <1>5 DEF ExistsBijection
<1>7. IsFiniteSet(1..Len(s)) /\ Cardinality(1..Len(s)) = Len(s)
  <2>1. PICK n \in Nat : n = Len(s)
    BY <1>1
  <2>2. IsFiniteSet(1..n) /\ Cardinality(1..n) = IF 1 > n THEN 0 ELSE n - 1 + 1
    BY FS_Interval
  <2>. QED
    BY <2>1, <2>2
<1>. QED
  BY <1>6, <1>7, FS_Bijection

(* What a batch is, and the proposals in a list of batches.                *)
Batch == [items : Seq(Proposal), label : 0..3, age : 0..4]

InBatches(bs) == UNION {Elems(bs[i].items) : i \in DOMAIN bs}

(* A batch lists its proposals in order; one with an urgent label holds    *)
(* that priority and no other, any other batch none above its label.       *)
Sound(b, pr) ==
    /\ Rising(b.items)
    /\ \A p \in Elems(b.items) : p <= Len(pr) /\ pr[p] <= b.label /\ (b.label > 1 => pr[p] = b.label)

(* No proposal is in two batches, and no two carry the same urgent label.  *)
Tidy(bs, pr) ==
    /\ \A i \in 1..Len(bs) : Sound(bs[i], pr)
    /\ \A i, j \in 1..Len(bs) : i # j => Elems(bs[i].items) \cap Elems(bs[j].items) = {}
    /\ \A i, j \in 1..Len(bs) : i # j /\ bs[i].label > 1 => bs[j].label # bs[i].label

LEMMA InBatchesFacts ==
    ASSUME NEW bs \in Seq(Batch)
    PROVE  /\ Len(bs) \in Nat /\ InBatches(bs) \subseteq Proposal
           /\ \A i \in 1..Len(bs) : /\ bs[i] \in Batch /\ bs[i].items \in Seq(Proposal)
                                    /\ Elems(bs[i].items) \subseteq InBatches(bs)
           /\ \A p : p \in InBatches(bs) <=> \E i \in 1..Len(bs) : p \in Elems(bs[i].items)
<1>1. Len(bs) \in Nat /\ DOMAIN bs = 1..Len(bs)
  BY LenProperties
<1>2. \A i \in 1..Len(bs) : bs[i] \in Batch /\ bs[i].items \in Seq(Proposal)
  <2>1. \A i \in 1..Len(bs) : bs[i] \in Batch
    BY ElementOfSeq
  <2>. QED
    BY <2>1 DEF Batch
<1>3. \A p : p \in InBatches(bs) <=> \E i \in 1..Len(bs) : p \in Elems(bs[i].items)
  BY <1>1 DEF InBatches
<1>4. \A i \in 1..Len(bs) : Elems(bs[i].items) \subseteq Proposal
  BY <1>2, ElemsFacts
<1>. QED
  BY <1>1, <1>2, <1>3, <1>4

(* Batches that lose proposals, or a list that loses batches, stay tidy.   *)
LEMMA ShrinkIsTidy ==
    ASSUME NEW bs \in Seq(Batch), NEW cs \in Seq(Batch), NEW pr, NEW h,
           h \in [1..Len(cs) -> 1..Len(bs)],
           \A i, j \in 1..Len(cs) : i # j => h[i] # h[j],
           Tidy(bs, pr),
           \A i \in 1..Len(cs) : /\ Sound(cs[i], pr)
                                 /\ Elems(cs[i].items) \subseteq Elems(bs[h[i]].items)
                                 /\ cs[i].label > 1 => cs[i].label = bs[h[i]].label
    PROVE  Tidy(cs, pr)
<1>0. \A i \in 1..Len(cs) : h[i] \in 1..Len(bs)
  OBVIOUS
<1>1. \A i, j \in 1..Len(cs) : i # j => Elems(cs[i].items) \cap Elems(cs[j].items) = {}
  <2>1. ASSUME NEW i \in 1..Len(cs), NEW j \in 1..Len(cs), i # j
        PROVE  Elems(cs[i].items) \cap Elems(cs[j].items) = {}
    <3>1. Elems(bs[h[i]].items) \cap Elems(bs[h[j]].items) = {}
      BY <1>0, <2>1 DEF Tidy
    <3>2. Elems(cs[i].items) \subseteq Elems(bs[h[i]].items) /\ Elems(cs[j].items) \subseteq Elems(bs[h[j]].items)
      OBVIOUS
    <3>. QED
      BY <3>1, <3>2
  <2>. QED
    BY <2>1
<1>2. \A i, j \in 1..Len(cs) : i # j /\ cs[i].label > 1 => cs[j].label # cs[i].label
  <2>1. ASSUME NEW i \in 1..Len(cs), NEW j \in 1..Len(cs), i # j, cs[i].label > 1, cs[j].label = cs[i].label
        PROVE  FALSE
    <3>1. cs[j].label > 1
      BY <2>1
    <3>2. bs[h[i]].label = cs[i].label /\ bs[h[j]].label = cs[j].label
      BY <2>1, <3>1
    <3>3. h[i] # h[j] /\ bs[h[i]].label > 1
      BY <2>1, <3>2
    <3>. QED
      BY <1>0, <2>1, <3>2, <3>3 DEF Tidy
  <2>. QED
    BY <2>1
<1>. QED
  BY <1>1, <1>2 DEF Tidy

LEMMA WithoutFacts ==
    ASSUME NEW bs \in Seq(Batch), NEW at \in 1..Len(bs), NEW pr, Tidy(bs, pr)
    PROVE  /\ Without(bs, at) \in Seq(Batch) /\ Tidy(Without(bs, at), pr)
           /\ InBatches(Without(bs, at)) = InBatches(bs) \ Elems(bs[at].items)
           /\ \A i \in 1..Len(Without(bs, at)) : \E j \in 1..Len(bs) \ {at} : Without(bs, at)[i] = bs[j]
<1>. DEFINE cs == Without(bs, at)
            h == [j \in 1..(Len(bs) - 1) |-> IF j < at THEN j ELSE j + 1]
<1>1. Len(bs) \in Nat /\ \A i \in 1..Len(bs) : bs[i] \in Batch
  BY InBatchesFacts
<1>2. h \in [1..(Len(bs) - 1) -> 1..Len(bs)]
  BY <1>1
<1>3. \A i \in 1..(Len(bs) - 1) : cs[i] = bs[h[i]] /\ h[i] # at
  BY <1>1 DEF Without
<1>4. cs \in Seq(Batch) /\ Len(cs) = Len(bs) - 1
  <2>1. cs \in [1..(Len(bs) - 1) -> Batch]
    BY <1>1 DEF Without
  <2>2. Len(bs) - 1 \in Nat
    BY <1>1
  <2>. HIDE DEF cs
  <2>. QED
    BY <2>1, <2>2, FunctionIsSeq
<1>5. \A i, j \in 1..(Len(bs) - 1) : i # j => h[i] # h[j]
  BY <1>1
<1>5a. \A j \in 1..Len(bs) \ {at} : \E i \in 1..(Len(bs) - 1) : h[i] = j
  <2>1. ASSUME NEW j \in 1..Len(bs) \ {at} PROVE \E i \in 1..(Len(bs) - 1) : h[i] = j
    <3>1. CASE j < at
      <4>1. j \in 1..(Len(bs) - 1) /\ h[j] = j
        BY <1>1, <3>1
      <4>. QED
        BY <4>1
    <3>2. CASE ~(j < at)
      <4>1. j - 1 \in 1..(Len(bs) - 1) /\ h[j - 1] = j
        BY <1>1, <3>2
      <4>. QED
        BY <4>1
    <3>. QED
      BY <3>1, <3>2
  <2>. QED
    BY <2>1
<1>. HIDE DEF cs, h
<1>5b. \A i \in 1..Len(cs) : h[i] \in 1..Len(bs) \ {at} /\ cs[i] = bs[h[i]]
  BY <1>2, <1>3, <1>4
<1>6. Tidy(cs, pr)
  <2>1. \A i \in 1..Len(cs) : /\ Sound(cs[i], pr)
                              /\ Elems(cs[i].items) \subseteq Elems(bs[h[i]].items)
                              /\ cs[i].label > 1 => cs[i].label = bs[h[i]].label
    BY <1>5b DEF Tidy
  <2>2. h \in [1..Len(cs) -> 1..Len(bs)] /\ \A i, j \in 1..Len(cs) : i # j => h[i] # h[j]
    BY <1>2, <1>4, <1>5
  <2>. QED
    BY <1>4, <2>1, <2>2, ShrinkIsTidy
<1>7. \A p : p \in InBatches(cs) <=> p \in InBatches(bs) /\ p \notin Elems(bs[at].items)
  <2>1. \A p : p \in InBatches(cs) <=> \E i \in 1..Len(cs) : p \in Elems(cs[i].items)
    BY <1>4, InBatchesFacts
  <2>2. \A p : p \in InBatches(bs) <=> \E i \in 1..Len(bs) : p \in Elems(bs[i].items)
    BY InBatchesFacts
  <2>3. ASSUME NEW p, p \in InBatches(cs) PROVE p \in InBatches(bs) /\ p \notin Elems(bs[at].items)
    <3>1. PICK i \in 1..Len(cs) : p \in Elems(cs[i].items)
      BY <2>1, <2>3
    <3>2. h[i] \in 1..Len(bs) /\ h[i] # at /\ p \in Elems(bs[h[i]].items)
      BY <1>5b, <3>1
    <3>3. Elems(bs[h[i]].items) \cap Elems(bs[at].items) = {}
      BY <3>2 DEF Tidy
    <3>. QED
      BY <2>2, <3>2, <3>3
  <2>4. ASSUME NEW p, p \in InBatches(bs), p \notin Elems(bs[at].items) PROVE p \in InBatches(cs)
    <3>1. PICK j \in 1..Len(bs) : p \in Elems(bs[j].items)
      BY <2>2, <2>4
    <3>2. j \in 1..Len(bs) \ {at}
      BY <2>4, <3>1
    <3>3. PICK i \in 1..Len(cs) : h[i] = j
      BY <1>4, <1>5a, <3>2
    <3>. QED
      BY <1>5b, <2>1, <3>1, <3>3
  <2>. QED
    BY <2>3, <2>4
<1>8. InBatches(cs) = InBatches(bs) \ Elems(bs[at].items)
  BY <1>7
<1>. QED
  BY <1>4, <1>5b, <1>6, <1>8 DEF cs

(* The batch b can take the place at: it shares nothing with the others.    *)
Fits(bs, at, b) ==
    \A j \in 1..Len(bs) : j # at => /\ Elems(b.items) \cap Elems(bs[j].items) = {}
                                    /\ b.label > 1 => bs[j].label # b.label

LEMMA ReplaceFacts ==
    ASSUME NEW bs \in Seq(Batch), NEW at \in 1..Len(bs), NEW pr, Tidy(bs, pr),
           NEW b \in Batch, Sound(b, pr),
           Fits(bs, at, b)
    PROVE  /\ [bs EXCEPT ![at] = b] \in Seq(Batch) /\ Tidy([bs EXCEPT ![at] = b], pr)
           /\ InBatches([bs EXCEPT ![at] = b]) = (InBatches(bs) \ Elems(bs[at].items)) \cup Elems(b.items)
<1>. DEFINE cs == [bs EXCEPT ![at] = b]
<1>1. Len(bs) \in Nat /\ DOMAIN bs = 1..Len(bs) /\ \A i \in 1..Len(bs) : bs[i] \in Batch
  BY InBatchesFacts, LenProperties
<1>2. cs \in Seq(Batch) /\ Len(cs) = Len(bs)
  <2>1. cs \in [1..Len(bs) -> Batch]
    BY <1>1
  <2>. HIDE DEF cs
  <2>. QED
    BY <1>1, <2>1, FunctionIsSeq
<1>3. cs[at] = b /\ \A j \in 1..Len(bs) : j # at => cs[j] = bs[j]
  BY <1>1
<1>. HIDE DEF cs
<1>4. \A i \in 1..Len(cs) : Sound(cs[i], pr)
  BY <1>2, <1>3 DEF Tidy
<1>5. \A i, j \in 1..Len(cs) : i # j => Elems(cs[i].items) \cap Elems(cs[j].items) = {}
  BY <1>2, <1>3 DEF Tidy, Fits
<1>6. \A i, j \in 1..Len(cs) : i # j /\ cs[i].label > 1 => cs[j].label # cs[i].label
  <2>1. ASSUME NEW i \in 1..Len(cs), NEW j \in 1..Len(cs), i # j, cs[i].label > 1
        PROVE  cs[j].label # cs[i].label
    <3>1. CASE i = at
      BY <1>2, <1>3, <2>1, <3>1 DEF Fits
    <3>2. CASE j = at
      <4>1. cs[i] = bs[i] /\ cs[j] = b /\ (b.label > 1 => bs[i].label # b.label)
        BY <1>2, <1>3, <2>1, <3>2 DEF Fits
      <4>. QED
        BY <2>1, <4>1
    <3>3. CASE i # at /\ j # at
      BY <1>2, <1>3, <2>1, <3>3 DEF Tidy
    <3>. QED
      BY <3>1, <3>2, <3>3
  <2>. QED
    BY <2>1
<1>7. Tidy(cs, pr)
  BY <1>4, <1>5, <1>6 DEF Tidy
<1>8. InBatches(cs) = (InBatches(bs) \ Elems(bs[at].items)) \cup Elems(b.items)
  <2>1. \A p : p \in InBatches(cs) <=> \E i \in 1..Len(bs) : p \in Elems(cs[i].items)
    BY <1>2, InBatchesFacts
  <2>2. \A p : p \in InBatches(bs) <=> \E i \in 1..Len(bs) : p \in Elems(bs[i].items)
    BY InBatchesFacts
  <2>3. \A j \in 1..Len(bs) : j # at => Elems(bs[j].items) \cap Elems(bs[at].items) = {}
    BY DEF Tidy
  <2>4. ASSUME NEW p, p \in InBatches(cs)
        PROVE  p \in (InBatches(bs) \ Elems(bs[at].items)) \cup Elems(b.items)
    <3>1. PICK i \in 1..Len(bs) : p \in Elems(cs[i].items)
      BY <2>1, <2>4
    <3>2. CASE i = at
      BY <1>3, <3>1, <3>2
    <3>3. CASE i # at
      BY <1>3, <2>2, <2>3, <3>1, <3>3
    <3>. QED
      BY <3>2, <3>3
  <2>5. ASSUME NEW p, p \in (InBatches(bs) \ Elems(bs[at].items)) \cup Elems(b.items)
        PROVE  p \in InBatches(cs)
    <3>1. CASE p \in Elems(b.items)
      BY <1>3, <2>1, <3>1
    <3>2. CASE p \notin Elems(b.items)
      <4>1. PICK i \in 1..Len(bs) : p \in Elems(bs[i].items)
        BY <2>2, <2>5, <3>2
      <4>2. i # at
        BY <2>5, <3>2, <4>1
      <4>. QED
        BY <1>3, <2>1, <4>1, <4>2
    <3>. QED
      BY <3>1, <3>2
  <2>. QED
    BY <2>4, <2>5
<1>. QED
  BY <1>2, <1>7, <1>8 DEF cs

Prios == prio \in Seq(0..3) /\ Len(prio) <= Proposals /\ Len(prio) \in Nat

LEMMA PrioOf ==
    ASSUME Prios, NEW p \in Proposal, p <= Len(prio)
    PROVE  prio[p] \in 0..3 /\ p \in DOMAIN prio
<1>1. p \in 1..Len(prio)
  BY ProposalIsInt DEF Prios
<1>. QED
  BY <1>1, ElementOfSeq DEF Prios

(* The label remove_expired recomputes is the priority of a member.        *)
LEMMA HighestFacts ==
    ASSUME Prios, NEW ps, ps \subseteq Proposal, ps # {}, \A p \in ps : p <= Len(prio)
    PROVE  Highest(ps) \in {prio[p] : p \in ps} /\ Highest(ps) \in 0..3 /\ \A p \in ps : prio[p] <= Highest(ps)
<1>1. \A p \in ps : prio[p] \in 0..3
  BY PrioOf
<1>. DEFINE Low == {3 - prio[p] : p \in ps}
<1>2. Low \subseteq Nat /\ Low # {}
  BY <1>1
<1>. HIDE DEF Low
<1>3. PICK x \in Low : \A y \in Low : x <= y
  BY <1>2, LeastExists
<1>4. PICK q \in ps : x = 3 - prio[q]
  BY DEF Low
<1>5. \A p \in ps : prio[p] <= prio[q]
  <2>1. ASSUME NEW p \in ps PROVE prio[p] <= prio[q]
    <3>1. 3 - prio[p] \in Low
      BY DEF Low
    <3>2. 3 - prio[q] <= 3 - prio[p]
      BY <1>3, <1>4, <3>1
    <3>. QED
      BY <1>1, <3>2
  <2>. QED
    BY <2>1
<1>6. prio[q] \in {prio[p] : p \in ps}
  OBVIOUS
<1>7. Highest(ps) \in {prio[p] : p \in ps} /\ \A p \in ps : prio[p] <= Highest(ps)
  BY <1>5, <1>6 DEF Highest
<1>. QED
  BY <1>1, <1>7

LEMMA RemoveExpiredFacts ==
    ASSUME Prios, NEW b \in Batch, Sound(b, prio)
    PROVE  /\ RemoveExpired(b) \in Batch /\ Sound(RemoveExpired(b), prio)
           /\ Elems(RemoveExpired(b).items) = Elems(b.items) \ expired
           /\ RemoveExpired(b).label > 1 => RemoveExpired(b).label = b.label
<1>. DEFINE left == Only(b.items, Proposal \ expired)
            label == IF left = << >> THEN 1 ELSE Highest(Elems(left))
            r == [b EXCEPT !.items = left, !.label = label]
<1>1. r = RemoveExpired(b)
  BY DEF RemoveExpired
<1>2. b.items \in Seq(Proposal) /\ b.label \in 0..3 /\ Rising(b.items)
  BY DEF Batch, Sound
<1>3. left \in Seq(Proposal) /\ Rising(left) /\ Elems(left) = Elems(b.items) \cap (Proposal \ expired)
  BY <1>2, SelectionRises
<1>. HIDE DEF left
<1>4. Elems(b.items) \subseteq Proposal
  BY <1>2, ElemsFacts
<1>5. Elems(left) = Elems(b.items) \ expired
  BY <1>3, <1>4
<1>6. \A p \in Elems(left) : /\ p \in Proposal /\ p <= Len(prio)
                             /\ prio[p] <= b.label /\ (b.label > 1 => prio[p] = b.label)
  BY <1>4, <1>5 DEF Sound
<1>7. /\ label \in 0..3
      /\ \A p \in Elems(left) : prio[p] <= label
      /\ label > 1 => label = b.label
  <2>1. CASE left = << >>
    <3>1. Elems(left) = {}
      BY <1>3, <2>1, ElemsFacts
    <3>. QED
      BY <2>1, <3>1
  <2>2. CASE left # << >>
    <3>1. Elems(left) # {}
      BY <1>3, <2>2, ElemsFacts
    <3>. DEFINE top == Highest(Elems(left))
    <3>2. top \in {prio[p] : p \in Elems(left)} /\ top \in 0..3 /\ \A p \in Elems(left) : prio[p] <= top
      <4>1. Elems(left) \subseteq Proposal /\ \A p \in Elems(left) : p <= Len(prio)
        BY <1>6
      <4>. QED
        BY <3>1, <4>1, HighestFacts
    <3>. HIDE DEF top
    <3>3. label = top
      BY <2>2 DEF top
    <3>4. PICK p \in Elems(left) : prio[p] = top
      BY <3>2
    <3>5. top > 1 => top = b.label
      BY <1>2, <1>6, <3>2, <3>4
    <3>. HIDE DEF label
    <3>. QED
      BY <3>2, <3>3, <3>5
  <2>. QED
    BY <2>1, <2>2
<1>. HIDE DEF label
<1>8. r \in Batch /\ r.items = left /\ r.label = label
  BY <1>3, <1>7 DEF Batch
<1>. HIDE DEF r
<1>9. Sound(r, prio)
  BY <1>3, <1>6, <1>7, <1>8 DEF Sound
<1>. QED
  BY <1>1, <1>5, <1>7, <1>8, <1>9

(* An urgent priority is found in one batch only.                          *)
LEMMA UrgentAlone ==
    ASSUME Prios, NEW bs \in Seq(Batch), Tidy(bs, prio), NEW i \in 1..Len(bs),
           NEW p \in Elems(bs[i].items), prio[p] > 1,
           NEW q \in InBatches(bs), q \notin Elems(bs[i].items)
    PROVE  prio[q] # prio[p]
<1>1. PICK j \in 1..Len(bs) : q \in Elems(bs[j].items)
  BY InBatchesFacts
<1>2. j # i
  BY <1>1
<1>3. bs[i].label \in 0..3 /\ bs[j].label \in 0..3 /\ p \in Proposal /\ q \in Proposal
  <2>1. bs[i] \in Batch /\ bs[j] \in Batch /\ InBatches(bs) \subseteq Proposal /\ p \in InBatches(bs)
    BY InBatchesFacts
  <2>. QED
    BY <2>1 DEF Batch
<1>4. /\ p <= Len(prio) /\ prio[p] <= bs[i].label /\ (bs[i].label > 1 => prio[p] = bs[i].label)
      /\ q <= Len(prio) /\ prio[q] <= bs[j].label /\ (bs[j].label > 1 => prio[q] = bs[j].label)
  BY <1>1 DEF Tidy, Sound
<1>5. prio[p] \in 0..3 /\ prio[q] \in 0..3
  BY <1>3, <1>4, PrioOf
<1>6. bs[i].label > 1 /\ prio[p] = bs[i].label
  BY <1>3, <1>4, <1>5
<1>7. bs[j].label # bs[i].label
  BY <1>2, <1>6 DEF Tidy
<1>8. prio[q] = prio[p] => bs[j].label > 1 /\ prio[q] = bs[j].label
  BY <1>3, <1>4, <1>5
<1>. QED
  BY <1>6, <1>7, <1>8

(* The batches after remove_expired, and what flush_ready_batches keeps    *)
(* back and takes out.                                                     *)
CleanedBatches(bs) == [i \in DOMAIN bs |-> RemoveExpired(bs[i])]

LEMMA CleanedFacts ==
    ASSUME Prios, NEW bs \in Seq(Batch), Tidy(bs, prio)
    PROVE  /\ CleanedBatches(bs) \in Seq(Batch) /\ Tidy(CleanedBatches(bs), prio)
           /\ InBatches(CleanedBatches(bs)) = InBatches(bs) \ expired
           /\ UNION {ExpiredOf(bs[i]) : i \in DOMAIN bs} = InBatches(bs) \cap expired
<1>. DEFINE cs == CleanedBatches(bs)  h == [i \in 1..Len(bs) |-> i]
<1>1. Len(bs) \in Nat /\ DOMAIN bs = 1..Len(bs) /\ \A i \in 1..Len(bs) : bs[i] \in Batch
  BY InBatchesFacts, LenProperties
<1>2. \A i \in 1..Len(bs) : /\ RemoveExpired(bs[i]) \in Batch /\ Sound(RemoveExpired(bs[i]), prio)
                            /\ Elems(RemoveExpired(bs[i]).items) = Elems(bs[i].items) \ expired
                            /\ RemoveExpired(bs[i]).label > 1 => RemoveExpired(bs[i]).label = bs[i].label
  <2>1. ASSUME NEW i \in 1..Len(bs)
        PROVE  /\ RemoveExpired(bs[i]) \in Batch /\ Sound(RemoveExpired(bs[i]), prio)
               /\ Elems(RemoveExpired(bs[i]).items) = Elems(bs[i].items) \ expired
               /\ RemoveExpired(bs[i]).label > 1 => RemoveExpired(bs[i]).label = bs[i].label
    <3>1. bs[i] \in Batch /\ Sound(bs[i], prio)
      BY <1>1 DEF Tidy
    <3>. QED
      BY <3>1, RemoveExpiredFacts
  <2>. QED
    BY <2>1
<1>3. cs \in Seq(Batch) /\ Len(cs) = Len(bs) /\ \A i \in 1..Len(bs) : cs[i] = RemoveExpired(bs[i])
  <2>1. cs = [i \in 1..Len(bs) |-> RemoveExpired(bs[i])]
    BY <1>1 DEF CleanedBatches
  <2>2. cs \in [1..Len(bs) -> Batch]
    BY <1>2, <2>1
  <2>3. \A i \in 1..Len(bs) : cs[i] = RemoveExpired(bs[i])
    BY <2>1
  <2>. HIDE DEF cs
  <2>. QED
    BY <1>1, <2>2, <2>3, FunctionIsSeq
<1>. HIDE DEF cs
<1>4. Tidy(cs, prio)
  <2>1. PICK g : g = h
    OBVIOUS
  <2>2. g \in [1..Len(bs) -> 1..Len(bs)] /\ \A i \in 1..Len(bs) : g[i] = i
    BY <2>1
  <2>3. ASSUME NEW i \in 1..Len(cs)
        PROVE  /\ Sound(cs[i], prio) /\ Elems(cs[i].items) \subseteq Elems(bs[g[i]].items)
               /\ cs[i].label > 1 => cs[i].label = bs[g[i]].label
    <3>1. i \in 1..Len(bs)
      BY <1>3
    <3>2. PICK r : r = RemoveExpired(bs[i])
      OBVIOUS
    <3>3. /\ Sound(r, prio) /\ Elems(r.items) \subseteq Elems(bs[i].items)
          /\ r.label > 1 => r.label = bs[i].label
      BY <1>2, <3>1, <3>2
    <3>4. cs[i] = r /\ g[i] = i
      BY <1>3, <2>2, <3>1, <3>2
    <3>. QED
      BY <3>3, <3>4
  <2>4. g \in [1..Len(cs) -> 1..Len(bs)] /\ \A i, j \in 1..Len(cs) : i # j => g[i] # g[j]
    BY <1>3, <2>2
  <2>5. PICK ps : ps = prio
    OBVIOUS
  <2>6. \A i \in 1..Len(cs) : /\ Sound(cs[i], ps)
                              /\ Elems(cs[i].items) \subseteq Elems(bs[g[i]].items)
                              /\ cs[i].label > 1 => cs[i].label = bs[g[i]].label
    BY <2>3, <2>5
  <2>7. Tidy(bs, ps) /\ cs \in Seq(Batch)
    BY <1>3, <2>5
  <2>8. Tidy(cs, ps)
    BY <2>4, <2>6, <2>7, ShrinkIsTidy, ZenonT(30)
  <2>. QED
    BY <2>5, <2>8
<1>5. \A p : p \in InBatches(cs) <=> \E i \in 1..Len(bs) : p \in Elems(cs[i].items)
  BY <1>3, InBatchesFacts
<1>6. \A p : p \in InBatches(bs) <=> \E i \in 1..Len(bs) : p \in Elems(bs[i].items)
  BY InBatchesFacts
<1>7. InBatches(cs) = InBatches(bs) \ expired
  <2>1. \A p : p \in InBatches(cs) <=> p \in InBatches(bs) /\ p \notin expired
    BY <1>2, <1>3, <1>5, <1>6
  <2>. QED
    BY <2>1
<1>8. UNION {ExpiredOf(bs[i]) : i \in DOMAIN bs} = InBatches(bs) \cap expired
  <2>1. \A p : p \in UNION {ExpiredOf(bs[i]) : i \in 1..Len(bs)} <=> p \in InBatches(bs) /\ p \in expired
    BY <1>6 DEF ExpiredOf
  <2>. QED
    BY <1>1, <2>1
<1>. QED
  BY <1>3, <1>4, <1>7, <1>8 DEF cs

KeptBatches(bs) == Only(bs, {b \in Elems(bs) : ~ShouldFlush(b, FALSE)})
ReadyBatches(bs) == {bs[i].items : i \in {i \in DOMAIN bs : ShouldFlush(bs[i], FALSE)}}
Contents(S) == UNION {Elems(b) : b \in S}

(* Sequences that share no element. *)
Scattered(S) == \A b, c \in S : b # c => Elems(b) \cap Elems(c) = {}

LEMMA KeptFacts ==
    ASSUME NEW bs \in Seq(Batch), NEW pr, Tidy(bs, pr)
    PROVE  /\ KeptBatches(bs) \in Seq(Batch) /\ Tidy(KeptBatches(bs), pr)
           /\ InBatches(KeptBatches(bs)) \subseteq InBatches(bs)
           /\ Contents(ReadyBatches(bs)) = InBatches(bs) \ InBatches(KeptBatches(bs))
           /\ Scattered(ReadyBatches(bs))
           /\ \A b \in ReadyBatches(bs) : \E i \in 1..Len(bs) : b = bs[i].items
<1>. DEFINE cs == KeptBatches(bs)  K == {b \in Elems(bs) : ~ShouldFlush(b, FALSE)}
<1>1. Len(bs) \in Nat /\ DOMAIN bs = 1..Len(bs) /\ \A i \in 1..Len(bs) : bs[i] \in Elems(bs)
  BY ElemsFacts
<1>2. cs \in Seq(Batch) /\ \E h : Picks(cs, h, bs, K, Len(bs))
  BY OnlyPicks DEF KeptBatches
<1>3. \A i \in 1..Len(bs) : bs[i] \in K <=> ~ShouldFlush(bs[i], FALSE)
  BY <1>1
<1>. HIDE DEF cs, K
<1>4. PICK h : Picks(cs, h, bs, K, Len(bs))
  BY <1>2
<1>5. /\ h \in [1..Len(cs) -> 1..Len(bs)]
      /\ \A i \in 1..Len(cs) : cs[i] = bs[h[i]] /\ cs[i] \in K
      /\ \A i, j \in 1..Len(cs) : i < j => h[i] < h[j]
      /\ \A j \in 1..Len(bs) : bs[j] \in K => \E i \in 1..Len(cs) : h[i] = j
  BY <1>4 DEF Picks
<1>6. Len(cs) \in Nat /\ \A i \in 1..Len(cs) : h[i] \in 1..Len(bs)
  BY <1>2, <1>5, ElemsFacts
<1>7. Tidy(cs, pr)
  <2>1. \A i, j \in 1..Len(cs) : i # j => h[i] # h[j]
    <3>1. \A i, j \in 1..Len(cs) : i = j \/ i < j \/ j < i
      BY <1>6
    <3>. QED
      BY <1>5, <1>6, <3>1
  <2>2. \A i \in 1..Len(cs) : /\ Sound(cs[i], pr)
                              /\ Elems(cs[i].items) \subseteq Elems(bs[h[i]].items)
                              /\ cs[i].label > 1 => cs[i].label = bs[h[i]].label
    BY <1>5, <1>6 DEF Tidy
  <2>. QED
    BY <1>2, <1>5, <2>1, <2>2, ShrinkIsTidy, SMTT(30)
<1>8. \A p : p \in InBatches(cs) <=> \E i \in 1..Len(cs) : p \in Elems(cs[i].items)
  BY <1>2, InBatchesFacts
<1>9. \A p : p \in InBatches(bs) <=> \E i \in 1..Len(bs) : p \in Elems(bs[i].items)
  BY InBatchesFacts
<1>10. InBatches(cs) \subseteq InBatches(bs)
  <2>1. ASSUME NEW p \in InBatches(cs) PROVE p \in InBatches(bs)
    <3>1. PICK i \in 1..Len(cs) : p \in Elems(cs[i].items)
      BY <1>8
    <3>2. h[i] \in 1..Len(bs) /\ p \in Elems(bs[h[i]].items)
      BY <1>5, <1>6, <3>1
    <3>. QED
      BY <1>9, <3>2
  <2>. QED
    BY <2>1
<1>11. ReadyBatches(bs) = {bs[i].items : i \in {i \in 1..Len(bs) : ShouldFlush(bs[i], FALSE)}}
  BY <1>1 DEF ReadyBatches
<1>12. \A p : p \in Contents(ReadyBatches(bs)) <=>
              \E i \in 1..Len(bs) : ShouldFlush(bs[i], FALSE) /\ p \in Elems(bs[i].items)
  BY <1>11 DEF Contents
<1>13. ASSUME NEW p, p \in Contents(ReadyBatches(bs)) PROVE p \in InBatches(bs) /\ p \notin InBatches(cs)
  <2>1. PICK i \in 1..Len(bs) : ShouldFlush(bs[i], FALSE) /\ p \in Elems(bs[i].items)
    BY <1>12, <1>13
  <2>2. ASSUME NEW j \in 1..Len(cs), p \in Elems(cs[j].items) PROVE FALSE
    <3>1. h[j] \in 1..Len(bs) /\ cs[j] = bs[h[j]] /\ bs[h[j]] \in K
      BY <1>5, <1>6
    <3>2. h[j] # i
      BY <1>3, <2>1, <3>1
    <3>3. Elems(bs[h[j]].items) \cap Elems(bs[i].items) = {}
      BY <3>1, <3>2 DEF Tidy
    <3>. QED
      BY <2>1, <2>2, <3>1, <3>3
  <2>. QED
    BY <1>8, <1>9, <2>1, <2>2
<1>14. ASSUME NEW p, p \in InBatches(bs), p \notin InBatches(cs) PROVE p \in Contents(ReadyBatches(bs))
  <2>1. PICK i \in 1..Len(bs) : p \in Elems(bs[i].items)
    BY <1>9, <1>14
  <2>2. CASE ShouldFlush(bs[i], FALSE)
    BY <1>12, <2>1, <2>2
  <2>3. CASE ~ShouldFlush(bs[i], FALSE)
    <3>1. PICK j \in 1..Len(cs) : h[j] = i
      BY <1>3, <1>5, <2>3
    <3>2. cs[j] = bs[i]
      BY <1>5, <3>1
    <3>. QED
      BY <1>8, <1>14, <2>1, <3>2
  <2>. QED
    BY <2>2, <2>3
<1>15. Contents(ReadyBatches(bs)) = InBatches(bs) \ InBatches(cs)
  BY <1>13, <1>14
<1>16. \A b \in ReadyBatches(bs) : \E i \in 1..Len(bs) : b = bs[i].items
  BY <1>11
<1>17. Scattered(ReadyBatches(bs))
  <2>1. ASSUME NEW b \in ReadyBatches(bs), NEW c \in ReadyBatches(bs), b # c
        PROVE  Elems(b) \cap Elems(c) = {}
    <3>1. PICK i \in 1..Len(bs) : b = bs[i].items
      BY <1>16
    <3>2. PICK j \in 1..Len(bs) : c = bs[j].items
      BY <1>16
    <3>. QED
      BY <2>1, <3>1, <3>2 DEF Tidy
  <2>. QED
    BY <2>1 DEF Scattered
<1>. QED
  BY <1>2, <1>7, <1>10, <1>15, <1>16, <1>17 DEF cs

LEMMA NewBatchFacts ==
    ASSUME NEW bs \in Seq(Batch), NEW pr, Tidy(bs, pr)
    PROVE  /\ Append(bs, NewBatch) \in Seq(Batch) /\ Len(Append(bs, NewBatch)) = Len(bs) + 1
           /\ Append(bs, NewBatch)[Len(bs) + 1] = NewBatch
           /\ \A i \in 1..Len(bs) : Append(bs, NewBatch)[i] = bs[i]
           /\ Tidy(Append(bs, NewBatch), pr)
           /\ InBatches(Append(bs, NewBatch)) = InBatches(bs)
<1>. DEFINE cs == Append(bs, NewBatch)
<1>1. NewBatch \in Batch /\ NewBatch.items = << >> /\ NewBatch.label = 1
  BY DEF NewBatch, Batch
<1>2. Elems(NewBatch.items) = {} /\ Sound(NewBatch, pr)
  <2>1. << >> \in Seq(Proposal) /\ Len(<< >>) = 0
    OBVIOUS
  <2>2. Elems(<< >>) = {}
    BY <2>1, ElemsFacts
  <2>3. Rising(<< >>)
    BY <2>1 DEF Rising
  <2>. QED
    BY <1>1, <2>2, <2>3 DEF Sound
<1>3. /\ Len(bs) \in Nat /\ cs \in Seq(Batch) /\ Len(cs) = Len(bs) + 1 /\ cs[Len(bs) + 1] = NewBatch
      /\ \A i \in 1..Len(bs) : cs[i] = bs[i]
  <2>1. PICK nb \in Batch : nb = NewBatch
    BY <1>1
  <2>. DEFINE ds == Append(bs, nb)
  <2>2. /\ Len(bs) \in Nat /\ ds \in Seq(Batch) /\ Len(ds) = Len(bs) + 1 /\ ds[Len(bs) + 1] = nb
        /\ \A i \in 1..Len(bs) : ds[i] = bs[i]
    BY AppendFacts
  <2>3. cs = ds
    BY <2>1
  <2>. HIDE DEF cs, ds
  <2>. QED
    BY <2>1, <2>2, <2>3
<1>. HIDE DEF cs
<1>4. \A i \in 1..Len(cs) : (i = Len(bs) + 1 /\ cs[i] = NewBatch) \/ (i \in 1..Len(bs) /\ cs[i] = bs[i])
  <2>1. \A i \in 1..Len(cs) : i = Len(bs) + 1 \/ i \in 1..Len(bs)
    BY <1>3
  <2>. QED
    BY <1>3, <2>1
<1>5. \A i \in 1..Len(cs) : Sound(cs[i], pr)
  BY <1>2, <1>4 DEF Tidy
<1>6. \A i, j \in 1..Len(cs) : i # j => Elems(cs[i].items) \cap Elems(cs[j].items) = {}
  <2>1. ASSUME NEW i \in 1..Len(cs), NEW j \in 1..Len(cs), i # j
        PROVE  Elems(cs[i].items) \cap Elems(cs[j].items) = {}
    <3>1. CASE cs[i] = NewBatch \/ cs[j] = NewBatch
      BY <1>2, <3>1
    <3>2. CASE ~(cs[i] = NewBatch \/ cs[j] = NewBatch)
      <4>1. i \in 1..Len(bs) /\ cs[i] = bs[i] /\ j \in 1..Len(bs) /\ cs[j] = bs[j]
        BY <1>4, <3>2
      <4>. QED
        BY <2>1, <4>1 DEF Tidy
    <3>. QED
      BY <3>1, <3>2
  <2>. QED
    BY <2>1
<1>7. \A i, j \in 1..Len(cs) : i # j /\ cs[i].label > 1 => cs[j].label # cs[i].label
  <2>1. ASSUME NEW i \in 1..Len(cs), NEW j \in 1..Len(cs), i # j, cs[i].label > 1, cs[j].label = cs[i].label
        PROVE  FALSE
    <3>1. cs[i] # NewBatch /\ cs[j] # NewBatch
      BY <1>1, <2>1
    <3>2. i \in 1..Len(bs) /\ cs[i] = bs[i] /\ j \in 1..Len(bs) /\ cs[j] = bs[j]
      BY <1>4, <3>1
    <3>. QED
      BY <2>1, <3>2 DEF Tidy
  <2>. QED
    BY <2>1
<1>8. Tidy(cs, pr)
  BY <1>5, <1>6, <1>7 DEF Tidy
<1>9. InBatches(cs) = InBatches(bs)
  <2>1. \A p : p \in InBatches(cs) <=> \E i \in 1..Len(cs) : p \in Elems(cs[i].items)
    BY <1>3, InBatchesFacts
  <2>2. \A p : p \in InBatches(bs) <=> \E i \in 1..Len(bs) : p \in Elems(bs[i].items)
    BY InBatchesFacts
  <2>3. \A i \in 1..Len(bs) : i \in 1..Len(cs)
    BY <1>3
  <2>4. \A p : p \in InBatches(cs) <=> p \in InBatches(bs)
    BY <1>2, <1>3, <1>4, <2>1, <2>2, <2>3
  <2>. QED
    BY <2>4
<1>. QED
  BY <1>3, <1>8, <1>9 DEF cs

(* The batch a proposal joins: the one with its priority, or a new one when *)
(* none has it.                                                             *)
Chosen(bs, all, at, p) ==
    /\ all \in Seq(Batch) /\ at \in 1..Len(all) /\ all[at] \in Batch
    /\ Tidy(all, prio) /\ InBatches(all) = InBatches(bs)
    /\ \/ all[at].label = prio[p]
       \/ /\ Elems(all[at].items) = {} /\ all[at].label = 1
          /\ \A j \in 1..Len(all) : j # at => all[j].label # prio[p]

(* The place the first match of add_to_priority_batch has.                 *)
Lowest(S) == CHOOSE i \in S : \A j \in S : i <= j

LEMMA OldBatchIsChosen ==
    ASSUME Prios, NEW bs \in Seq(Batch), Tidy(bs, prio), NEW p,
           NEW same, same = {i \in DOMAIN bs : bs[i].label = prio[p]}, same # {}
    PROVE  Chosen(bs, bs, Lowest(same), p)
<1>. DEFINE at == CHOOSE i \in same : \A j \in same : i <= j
<1>1. Len(bs) \in Nat /\ DOMAIN bs = 1..Len(bs)
  BY LenProperties
<1>2. same \subseteq Nat
  BY <1>1
<1>3. \E i \in same : \A j \in same : i <= j
  BY <1>2, LeastExists
<1>4. at \in same
  BY <1>3
<1>5. at \in 1..Len(bs) /\ bs[at].label = prio[p]
  BY <1>1, <1>4
<1>. HIDE DEF at
<1>6. bs[at] \in Batch
  BY <1>5, ElementOfSeq
<1>7. Chosen(bs, bs, at, p)
  BY <1>5, <1>6 DEF Chosen
<1>. QED
  BY <1>7 DEF at, Lowest

LEMMA NewBatchIsChosen ==
    ASSUME Prios, NEW bs \in Seq(Batch), Tidy(bs, prio), NEW p,
           {i \in DOMAIN bs : bs[i].label = prio[p]} = {}
    PROVE  Chosen(bs, Append(bs, NewBatch), Len(Append(bs, NewBatch)), p)
<1>. DEFINE all == Append(bs, NewBatch)  at == Len(all)
<1>1. PICK ps : ps = prio
  OBVIOUS
<1>2. /\ all \in Seq(Batch) /\ Len(all) = Len(bs) + 1 /\ all[Len(bs) + 1] = NewBatch
      /\ \A i \in 1..Len(bs) : all[i] = bs[i]
      /\ Tidy(all, ps) /\ InBatches(all) = InBatches(bs)
  BY <1>1, NewBatchFacts
<1>. HIDE DEF all
<1>3. Len(bs) \in Nat /\ DOMAIN bs = 1..Len(bs)
  BY LenProperties
<1>4. NewBatch \in Batch /\ NewBatch.items = << >> /\ NewBatch.label = 1
  BY DEF NewBatch, Batch
<1>5. Elems(<< >>) = {}
  BY DEF Elems
<1>6. at \in 1..Len(all) /\ all[at] = NewBatch
  BY <1>2, <1>3
<1>7. \A j \in 1..Len(all) : j # at => all[j].label # prio[p]
  <2>1. ASSUME NEW j \in 1..Len(all), j # at PROVE all[j].label # prio[p]
    <3>1. j \in 1..Len(bs)
      BY <1>2, <1>3, <2>1
    <3>2. all[j] = bs[j] /\ j \in DOMAIN bs
      BY <1>2, <1>3, <3>1
    <3>. QED
      BY <3>2
  <2>. QED
    BY <2>1
<1>8. Elems(all[at].items) = {} /\ all[at].label = 1 /\ all[at] \in Batch
  BY <1>4, <1>5, <1>6
<1>9. Tidy(all, prio) /\ InBatches(all) = InBatches(bs)
  BY <1>1, <1>2
<1>10. Chosen(bs, all, at, p)
  <2>. HIDE DEF at
  <2>. QED
    BY <1>2, <1>6, <1>7, <1>8, <1>9 DEF Chosen
<1>. QED
  BY <1>10 DEF all

(* What adding p to it has made of a batch, and what is left without it.   *)
Added(bs, all, at, p, grown) ==
    /\ grown.items \in Seq(Proposal) /\ Rising(grown.items)
    /\ Elems(grown.items) = Elems(all[at].items) \cup {p}
    /\ Elems(all[at].items) \subseteq InBatches(bs)
    /\ [all EXCEPT ![at] = grown] \in Seq(Batch) /\ Tidy([all EXCEPT ![at] = grown], prio)
    /\ InBatches([all EXCEPT ![at] = grown]) = InBatches(bs) \cup {p}
    /\ Without(all, at) \in Seq(Batch) /\ Tidy(Without(all, at), prio)
    /\ InBatches(Without(all, at)) = InBatches(bs) \ Elems(all[at].items)
    /\ \A x \in Elems(grown.items), q \in InBatches(bs) :
          q \notin Elems(grown.items) /\ prio[x] > 1 => prio[q] # prio[x]

LEMMA AddFacts ==
    ASSUME Prios, NEW bs, NEW all, NEW at, NEW p \in Proposal, p <= Len(prio),
           Chosen(bs, all, at, p), \A q \in InBatches(bs) : q < p
    PROVE  Added(bs, all, at, p, AddTo(all[at], p))
<1>. DEFINE old == all[at]  grown == AddTo(old, p)
            label == IF prio[p] > old.label THEN prio[p] ELSE old.label
            items == Append(old.items, p)
<1>1. /\ all \in Seq(Batch) /\ at \in 1..Len(all) /\ old \in Batch
      /\ Tidy(all, prio) /\ InBatches(all) = InBatches(bs)
      /\ \/ old.label = prio[p]
         \/ /\ Elems(old.items) = {} /\ old.label = 1
            /\ \A j \in 1..Len(all) : j # at => all[j].label # prio[p]
  BY DEF Chosen
<1>2. prio[p] \in 0..3
  BY PrioOf
<1>3. old.items \in Seq(Proposal) /\ old.label \in 0..3 /\ old.age \in 0..4
  BY <1>1 DEF Batch
<1>4. Sound(old, prio) /\ Rising(old.items) /\ Elems(old.items) \subseteq InBatches(bs)
  BY <1>1, InBatchesFacts DEF Tidy, Sound
<1>5. grown.items = items /\ grown.label = label /\ grown \in Batch /\ items \in Seq(Proposal) /\ label \in 0..3
  <2>1. items \in Seq(Proposal)
    BY <1>3, AppendFacts
  <2>2. label \in 0..3
    BY <1>2, <1>3
  <2>. DEFINE g == [old EXCEPT !.items = items, !.label = label]
  <2>3. grown = g
    BY DEF AddTo
  <2>. HIDE DEF items, label, old
  <2>4. g \in Batch /\ g.items = items /\ g.label = label
    BY <1>1, <2>1, <2>2 DEF Batch
  <2>. HIDE DEF g, grown
  <2>. QED
    BY <2>1, <2>2, <2>3, <2>4
<1>6. \A q \in Elems(old.items) : q < p
  BY <1>4
<1>7. Rising(items) /\ Elems(items) = Elems(old.items) \cup {p}
  BY <1>3, <1>4, <1>6, AppendRises
<1>8. Sound(grown, prio)
  <2>1. ASSUME NEW q \in Elems(items)
        PROVE  q <= Len(prio) /\ prio[q] <= label /\ (label > 1 => prio[q] = label)
    <3>1. CASE q = p
      <4>1. old.label = prio[p] \/ old.label = 1
        BY <1>1
      <4>. QED
        BY <1>2, <1>3, <3>1, <4>1
    <3>2. CASE q \in Elems(old.items)
      <4>1. old.label = prio[p]
        BY <1>1, <3>2
      <4>2. label = old.label
        BY <1>2, <4>1
      <4>. HIDE DEF label, old
      <4>. QED
        BY <1>4, <3>2, <4>2 DEF Sound
    <3>. QED
      BY <1>7, <3>1, <3>2
  <2>. HIDE DEF items, label, grown
  <2>. QED
    BY <1>5, <1>7, <2>1 DEF Sound
<1>9. ASSUME NEW j \in 1..Len(all), j # at
      PROVE  /\ Elems(grown.items) \cap Elems(all[j].items) = {}
             /\ grown.label > 1 => all[j].label # grown.label
  <2>1. Elems(old.items) \cap Elems(all[j].items) = {}
    BY <1>1, <1>9 DEF Tidy
  <2>2. p \notin Elems(all[j].items)
    <3>1. Elems(all[j].items) \subseteq InBatches(bs)
      BY <1>1, InBatchesFacts
    <3>2. p \notin InBatches(bs)
      BY ProposalIsInt
    <3>. QED
      BY <3>1, <3>2
  <2>3. grown.label > 1 => all[j].label # grown.label
    <3>1. CASE old.label = prio[p]
      <4>1. label = old.label
        BY <1>2, <3>1
      <4>2. old.label > 1 => all[j].label # old.label
        BY <1>1, <1>9 DEF Tidy
      <4>. QED
        BY <1>5, <4>1, <4>2
    <3>2. CASE old.label = 1 /\ \A i \in 1..Len(all) : i # at => all[i].label # prio[p]
      <4>1. label > 1 => label = prio[p]
        BY <3>2
      <4>. QED
        BY <1>5, <1>9, <3>2, <4>1
    <3>. QED
      BY <1>1, <3>1, <3>2
  <2>. QED
    BY <1>5, <1>7, <2>1, <2>2, <2>3
<1>10. PICK ps : ps = prio
  OBVIOUS
<1>11. Tidy(all, ps) /\ Sound(grown, ps)
  BY <1>1, <1>8, <1>10
<1>. HIDE DEF grown, items, label
<1>. DEFINE cs == [all EXCEPT ![at] = grown]
<1>12. /\ cs \in Seq(Batch) /\ Tidy(cs, ps)
       /\ InBatches(cs) = (InBatches(all) \ Elems(old.items)) \cup Elems(grown.items)
  <2>1. PICK g \in Batch : g = grown
    BY <1>5
  <2>2. Sound(g, ps) /\ Fits(all, at, g)
    BY <1>9, <1>11, <2>1 DEF Fits
  <2>. DEFINE ds == [all EXCEPT ![at] = g]
  <2>3. /\ ds \in Seq(Batch) /\ Tidy(ds, ps)
        /\ InBatches(ds) = (InBatches(all) \ Elems(all[at].items)) \cup Elems(g.items)
    <3>1. all \in Seq(Batch) /\ at \in 1..Len(all) /\ Tidy(all, ps) /\ g \in Batch
      BY <1>1, <1>11
    <3>. QED
      BY <2>2, <3>1, ReplaceFacts
  <2>4. cs = ds
    BY <2>1
  <2>. HIDE DEF cs, ds
  <2>. QED
    BY <2>1, <2>3, <2>4
<1>13. /\ Without(all, at) \in Seq(Batch) /\ Tidy(Without(all, at), ps)
       /\ InBatches(Without(all, at)) = InBatches(all) \ Elems(old.items)
  BY <1>1, <1>11, WithoutFacts
<1>14. InBatches(cs) = InBatches(bs) \cup {p}
  BY <1>1, <1>4, <1>5, <1>7, <1>12
<1>15. cs[at] = grown /\ Len(cs) = Len(all) /\ at \in 1..Len(cs)
  <2>1. DOMAIN all = 1..Len(all) /\ Len(all) \in Nat
    BY <1>1, LenProperties
  <2>2. cs[at] = grown /\ DOMAIN cs = 1..Len(all)
    BY <1>1, <2>1
  <2>. HIDE DEF cs
  <2>3. DOMAIN cs = 1..Len(cs) /\ Len(cs) \in Nat
    BY <1>12, LenProperties
  <2>4. Len(cs) = Len(all)
    BY <2>1, <2>2, <2>3
  <2>. QED
    BY <1>1, <2>2, <2>4
<1>. HIDE DEF cs
<1>16. ASSUME NEW x \in Elems(grown.items), NEW q \in InBatches(bs), q \notin Elems(grown.items), prio[x] > 1
       PROVE  prio[q] # prio[x]
  <2>1. q \in InBatches(cs) /\ x \in Elems(cs[at].items) /\ q \notin Elems(cs[at].items) /\ Tidy(cs, prio)
    BY <1>10, <1>12, <1>14, <1>15, <1>16
  <2>. QED
    BY <1>12, <1>15, <1>16, <2>1, UrgentAlone
<1>17. Tidy(cs, prio) /\ Tidy(Without(all, at), prio)
  BY <1>10, <1>12, <1>13
<1>18. Added(bs, all, at, p, grown)
  BY <1>1, <1>4, <1>5, <1>7, <1>12, <1>13, <1>14, <1>16, <1>17 DEF cs, Added
<1>. QED
  BY <1>18 DEF grown

(* Where a proposal can wait in the stage, and what a client can be told.  *)
Grouped == UNION {Elems(groups[k]) : k \in 0..3}
Queued == Elems(inbox) \cup Batched \cup InFlight \cup Grouped

Replies == {"none", "answered"} \cup Refusals

BatchTypes ==
    /\ mode \in {"streaming", "traditional", "passthrough"}
    /\ inbox \in Seq(Proposal)
    /\ Prios
    /\ expired \subseteq Proposal
    /\ batches \in Seq(Batch)
    /\ groups \in [0..3 -> Seq(Proposal)]
    /\ flushing \subseteq Seq(Proposal) /\ raftq \subseteq Seq(Proposal)
    /\ pending \in Int /\ raftUp \in BOOLEAN
    /\ reply \in [Proposal -> Replies]

(* What a client has been told goes with where its proposal is.            *)
PipeInv ==
    /\ \A p \in Queued \cup WithRaft : p \in Proposal /\ p <= Len(prio) /\ reply[p] = "none"
    /\ Queued \cap WithRaft = {}
    /\ Scattered(raftq)
    /\ \A p \in Proposal : p > Len(prio) => reply[p] = "none"

(* The moves of ProposalPipe, as the processor makes them.                 *)
Arrives ==
    /\ Len(prio') = Len(prio) + 1 /\ Len(prio) \in Nat /\ Len(prio) + 1 \in Proposal
    /\ Queued' = Queued \cup {Len(prio) + 1}
    /\ UNCHANGED <<raftq, reply>>
Stays == Queued' = Queued /\ UNCHANGED <<prio, raftq, reply>>
Hands(b) ==
    /\ Elems(b) \subseteq Queued /\ Queued' = Queued \ Elems(b)
    /\ raftq' = raftq \cup {b}
    /\ UNCHANGED <<prio, reply>>
Refuses(S, what) ==
    /\ what \in Refusals
    /\ S \subseteq Queued /\ Queued' = Queued \ S
    /\ reply' = Told(S, what)
    /\ UNCHANGED <<prio, raftq>>
Answers(S) ==
    /\ S \subseteq raftq /\ raftq' = raftq \ S
    /\ reply' = Told(Contents(S), "answered")
    /\ Queued' = Queued /\ UNCHANGED prio

Moves ==
    \/ Arrives \/ Stays
    \/ \E b : Hands(b)
    \/ \E S, what : Refuses(S, what)
    \/ \E S : Answers(S)

(* The four cases of FateOf, as facts to cite.                             *)
FateRules ==
    \A p \in Proposal :
        /\ p \in WithRaft => FateOf(p) = "handed"
        /\ p \notin WithRaft /\ reply[p] = "answered" => FateOf(p) = "answered"
        /\ p \notin WithRaft /\ reply[p] \in Refusals => FateOf(p) = "refused"
        /\ p \notin WithRaft /\ reply[p] = "none" /\ p > Len(prio) => FateOf(p) = "new"
        /\ p \notin WithRaft /\ reply[p] = "none" /\ ~(p > Len(prio)) => FateOf(p) = "held"

LEMMA FatesAreRuled == FateRules /\ FateRules'
<1>1. FateRules
  BY DEF FateRules, FateOf, Refusals
<1>2. FateRules'
  BY DEF FateRules, FateOf, Refusals
<1>. QED
  BY <1>1, <1>2

LEMMA ToldFacts ==
    ASSUME reply \in [Proposal -> Replies], NEW S, NEW what
    PROVE  /\ \A p \in Proposal : p \in S => Told(S, what)[p] = what
           /\ \A p \in Proposal : p \notin S => Told(S, what)[p] = reply[p]
  BY DEF Told

LEMMA ContentsFacts ==
    ASSUME NEW S
    PROVE  \A p : p \in Contents(S) <=> \E b \in S : p \in Elems(b)
  BY DEF Contents

(* The proposals on the raft task's side follow its queue.                 *)
LEMMA WithRaftFacts ==
    /\ \A p : p \in WithRaft <=> \E b \in raftq : p \in Elems(b)
    /\ \A p : p \in WithRaft' <=> \E b \in raftq' : p \in Elems(b)
  BY DEF WithRaft

(* Every move keeps a client's answer in step with its proposal's place.   *)
LEMMA MovesKeepPipeInv ==
    ASSUME BatchTypes, PipeInv, Moves
    PROVE  PipeInv'
<1>1. CASE Arrives
  <2>. DEFINE n == Len(prio) + 1
  <2>1. WithRaft' = WithRaft /\ raftq' = raftq /\ reply' = reply /\ Queued' = Queued \cup {n}
    BY <1>1 DEF Arrives, WithRaft
  <2>2. Len(prio') = n /\ n \in Proposal /\ Len(prio) \in Nat /\ n \in Nat
    BY <1>1 DEF Arrives
  <2>3. n > Len(prio) /\ ~(n <= Len(prio))
    BY <2>2
  <2>4. reply[n] = "none" /\ n \notin Queued \cup WithRaft
    BY <2>2, <2>3 DEF PipeInv
  <2>5. \A p \in Queued' \cup WithRaft' : p \in Proposal /\ p <= Len(prio') /\ reply'[p] = "none"
    <3>1. \A p \in Queued \cup WithRaft : p \in Proposal /\ p <= n /\ reply[p] = "none"
      <4>1. ASSUME NEW p \in Queued \cup WithRaft
            PROVE  p \in Proposal /\ p <= n /\ reply[p] = "none"
        <5>1. p \in Proposal /\ p <= Len(prio) /\ reply[p] = "none" /\ p \in Nat
          BY ProposalIsInt DEF PipeInv
        <5>2. p <= n
          BY <2>2, <5>1
        <5>. QED
          BY <5>1, <5>2
      <4>. QED
        BY <4>1
    <3>. QED
      BY <2>1, <2>2, <2>4, <3>1
  <2>6. \A p \in Proposal : p > Len(prio') => reply'[p] = "none"
    BY <2>1, <2>2, ProposalIsInt DEF PipeInv
  <2>7. Scattered(raftq') /\ Queued' \cap WithRaft' = {}
    BY <2>1, <2>4 DEF PipeInv
  <2>. QED
    BY <2>5, <2>6, <2>7 DEF PipeInv
<1>2. CASE Stays
  BY <1>2 DEF Stays, PipeInv, WithRaft
<1>3. ASSUME NEW b, Hands(b) PROVE PipeInv'
  <2>1. Elems(b) \subseteq Queued /\ Queued' = Queued \ Elems(b) /\ raftq' = raftq \cup {b}
        /\ prio' = prio /\ reply' = reply
    BY <1>3 DEF Hands
  <2>2. WithRaft' = WithRaft \cup Elems(b)
    BY <2>1, WithRaftFacts
  <2>3. Scattered(raftq')
    <3>1. ASSUME NEW c \in raftq PROVE Elems(b) \cap Elems(c) = {}
      BY <2>1, WithRaftFacts DEF PipeInv
    <3>. QED
      BY <2>1, <3>1 DEF Scattered, PipeInv
  <2>. QED
    BY <2>1, <2>2, <2>3 DEF PipeInv
<1>4. ASSUME NEW S, NEW what, Refuses(S, what) PROVE PipeInv'
  <2>1. S \subseteq Queued /\ Queued' = Queued \ S /\ reply' = Told(S, what) /\ prio' = prio /\ raftq' = raftq
        /\ WithRaft' = WithRaft
    BY <1>4 DEF Refuses, WithRaft
  <2>2. \A p \in Proposal : p \notin S => reply'[p] = reply[p]
    BY <2>1, ToldFacts DEF BatchTypes
  <2>3. \A p \in Queued' \cup WithRaft' : p \in Queued \cup WithRaft /\ p \notin S
    BY <2>1 DEF PipeInv
  <2>4. \A p \in Queued' \cup WithRaft' : p \in Proposal /\ p <= Len(prio') /\ reply'[p] = "none"
    BY <2>1, <2>2, <2>3 DEF PipeInv
  <2>5. \A p \in Proposal : p > Len(prio') => reply'[p] = "none"
    <3>1. ASSUME NEW p \in Proposal, p > Len(prio), p \in S PROVE FALSE
      <4>1. p <= Len(prio) /\ p \in Nat /\ Len(prio) \in Nat
        BY <2>1, <3>1, ProposalIsInt DEF PipeInv, BatchTypes, Prios
      <4>. QED
        BY <3>1, <4>1
    <3>. QED
      BY <2>1, <2>2, <3>1 DEF PipeInv
  <2>6. Queued' \cap WithRaft' = {} /\ Scattered(raftq')
    BY <2>1 DEF PipeInv
  <2>. QED
    BY <2>4, <2>5, <2>6 DEF PipeInv
<1>5. ASSUME NEW S, Answers(S) PROVE PipeInv'
  <2>1. /\ S \subseteq raftq /\ raftq' = raftq \ S /\ prio' = prio /\ Queued' = Queued
        /\ reply' = Told(Contents(S), "answered")
    BY <1>5 DEF Answers
  <2>2. \A p \in Proposal : p \notin Contents(S) => reply'[p] = reply[p]
    BY <2>1, ToldFacts DEF BatchTypes
  <2>3. \A p \in WithRaft' : p \in WithRaft /\ p \notin Contents(S)
    <3>1. ASSUME NEW b \in raftq \ S, NEW c \in S PROVE Elems(b) \cap Elems(c) = {}
      BY <2>1 DEF PipeInv, Scattered
    <3>. QED
      BY <2>1, <3>1, WithRaftFacts, ContentsFacts
  <2>4. \A p \in Contents(S) : p \in WithRaft
    BY <2>1, WithRaftFacts, ContentsFacts
  <2>5. Scattered(raftq')
    BY <2>1 DEF PipeInv, Scattered
  <2>6. \A p \in Queued' \cup WithRaft' : p \in Queued \cup WithRaft /\ p \notin Contents(S)
    BY <2>1, <2>3, <2>4 DEF PipeInv
  <2>7. \A p \in Queued' \cup WithRaft' : p \in Proposal /\ p <= Len(prio') /\ reply'[p] = "none"
    BY <2>1, <2>2, <2>6 DEF PipeInv
  <2>8. \A p \in Proposal : p > Len(prio') => reply'[p] = "none"
    <3>1. ASSUME NEW p \in Proposal, p > Len(prio), p \in Contents(S) PROVE FALSE
      <4>1. p <= Len(prio) /\ p \in Nat /\ Len(prio) \in Nat
        BY <2>4, <3>1, ProposalIsInt DEF PipeInv, BatchTypes, Prios
      <4>. QED
        BY <3>1, <4>1
    <3>. QED
      BY <2>1, <2>2, <3>1 DEF PipeInv
  <2>9. Queued' \cap WithRaft' = {}
    BY <2>1, <2>3 DEF PipeInv
  <2>. QED
    BY <2>5, <2>7, <2>8, <2>9 DEF PipeInv
<1>. QED
  BY <1>1, <1>2, <1>3, <1>4, <1>5 DEF Moves

Fates == [p \in Proposal |-> FateOf(p)]

(* Every move is a step of ProposalPipe, or none of its.                   *)
LEMMA FatesMove ==
    ASSUME NEW S, S \subseteq Proposal, S # {}, NEW from, NEW to,
           \A p \in S : FateOf(p) = from /\ FateOf(p)' = to,
           \A p \in Proposal \ S : FateOf(p)' = FateOf(p)
    PROVE  Pipe!Move(S, from, to)
<1>1. \A p \in S : Fates[p] = from
  BY DEF Fates
<1>2. \A p \in Proposal : FateOf(p)' = IF p \in S THEN to ELSE Fates[p]
  BY DEF Fates
<1>3. Fates' = [p \in Proposal |-> FateOf(p)']
  BY DEF Fates
<1>4. Fates' = [p \in Proposal |-> IF p \in S THEN to ELSE Fates[p]]
  BY <1>2, <1>3
<1>. QED
  BY <1>1, <1>4 DEF Pipe!Move, Fates

LEMMA MovesRefinePipe ==
    ASSUME BatchTypes, PipeInv, Moves
    PROVE  Pipe!PipeNext \/ Fates' = Fates
<1>0. \A p \in Proposal : reply[p] \in Replies
  BY DEF BatchTypes
<1>1. FateRules /\ FateRules'
  BY FatesAreRuled
<1>2. \A p \in Queued : p \in Proposal /\ p \notin WithRaft /\ reply[p] = "none" /\ ~(p > Len(prio))
  <2>1. \A p \in Queued : p \in Proposal /\ p \notin WithRaft /\ reply[p] = "none" /\ p <= Len(prio)
    BY DEF PipeInv
  <2>2. \A p \in Proposal : p <= Len(prio) => ~(p > Len(prio))
    BY ProposalIsInt DEF BatchTypes, Prios
  <2>. QED
    BY <2>1, <2>2
<1>3. \A p \in Queued : FateOf(p) = "held"
  BY <1>1, <1>2 DEF FateRules
<1>4. ASSUME \A p \in Proposal : FateOf(p)' = FateOf(p) PROVE Fates' = Fates
  BY <1>4 DEF Fates
<1>5. CASE Arrives
  <2>1. /\ WithRaft' = WithRaft /\ reply' = reply /\ Len(prio') = Len(prio) + 1
        /\ Len(prio) + 1 \in Proposal /\ Len(prio) \in Nat
    BY <1>5 DEF Arrives, WithRaft
  <2>2. PICK n \in Proposal : n = Len(prio) + 1
    BY <2>1
  <2>3. \A p \in Proposal : p # n => (p > Len(prio') <=> p > Len(prio))
    BY <2>1, <2>2, ProposalIsInt
  <2>4. ~(n > Len(prio')) /\ n > Len(prio) /\ ~(n <= Len(prio))
    BY <2>1, <2>2
  <2>5. reply[n] = "none" /\ n \notin WithRaft
    BY <2>4 DEF PipeInv
  <2>6. FateOf(n) = "new" /\ FateOf(n)' = "held"
    BY <1>1, <2>1, <2>4, <2>5 DEF FateRules
  <2>7. ASSUME NEW p \in Proposal \ {n} PROVE FateOf(p)' = FateOf(p)
    <3>1. WithRaft' = WithRaft /\ reply'[p] = reply[p] /\ (p > Len(prio') <=> p > Len(prio))
          /\ reply[p] \in Replies
      BY <1>0, <2>1, <2>3
    <3>. QED
      BY <1>1, <3>1 DEF FateRules, Replies
  <2>8. \A p \in {n} : FateOf(p) = "new" /\ FateOf(p)' = "held"
    BY <2>6
  <2>9. Pipe!Move({n}, "new", "held")
    BY <2>7, <2>8, FatesMove
  <2>. QED
    BY <2>9 DEF Pipe!PipeNext, Pipe!Hold
<1>6. CASE Stays
  <2>1. \A p \in Proposal : FateOf(p)' = FateOf(p)
    BY <1>6 DEF Stays, FateOf, WithRaft
  <2>. QED
    BY <1>4, <2>1
<1>7. ASSUME NEW b, Hands(b) PROVE Pipe!PipeNext \/ Fates' = Fates
  <2>1. Elems(b) \subseteq Queued /\ WithRaft' = WithRaft \cup Elems(b) /\ prio' = prio /\ reply' = reply
    BY <1>7, WithRaftFacts DEF Hands
  <2>2. \A p \in Elems(b) : p \in Proposal /\ FateOf(p) = "held" /\ FateOf(p)' = "handed"
    BY <1>1, <1>2, <1>3, <2>1 DEF FateRules
  <2>3. ASSUME NEW p \in Proposal \ Elems(b) PROVE FateOf(p)' = FateOf(p)
    <3>1. (p \in WithRaft' <=> p \in WithRaft) /\ reply'[p] = reply[p] /\ (p > Len(prio') <=> p > Len(prio))
          /\ reply[p] \in Replies
      BY <1>0, <2>1
    <3>. QED
      BY <1>1, <3>1 DEF FateRules, Replies
  <2>4. CASE Elems(b) = {}
    BY <1>4, <2>3, <2>4
  <2>5. CASE Elems(b) # {}
    <3>1. PICK S : S = Elems(b)
      OBVIOUS
    <3>2. S \subseteq Proposal /\ S # {}
      BY <2>2, <2>5, <3>1
    <3>3. \A p \in S : FateOf(p) = "held" /\ FateOf(p)' = "handed"
      BY <2>2, <3>1
    <3>4. \A p \in Proposal \ S : FateOf(p)' = FateOf(p)
      BY <2>3, <3>1
    <3>5. Pipe!Move(S, "held", "handed")
      BY <3>2, <3>3, <3>4, FatesMove
    <3>. QED
      BY <3>2, <3>5 DEF Pipe!PipeNext, Pipe!Hand
  <2>. QED
    BY <2>4, <2>5
<1>8. ASSUME NEW S, NEW what, Refuses(S, what) PROVE Pipe!PipeNext \/ Fates' = Fates
  <2>1. S \subseteq Queued /\ WithRaft' = WithRaft /\ prio' = prio /\ reply' = Told(S, what) /\ what \in Refusals
    BY <1>8 DEF Refuses, WithRaft
  <2>2. /\ \A p \in Proposal : p \in S => reply'[p] = what
        /\ \A p \in Proposal : p \notin S => reply'[p] = reply[p]
    BY <2>1, ToldFacts DEF BatchTypes
  <2>3. \A p \in S : p \in Proposal /\ FateOf(p) = "held" /\ FateOf(p)' = "refused"
    <3>1. ASSUME NEW p \in S PROVE p \in Proposal /\ p \notin WithRaft' /\ reply'[p] \in Refusals /\ FateOf(p) = "held"
      BY <1>2, <1>3, <2>1, <2>2
    <3>2. \A p \in Proposal : p \notin WithRaft' /\ reply'[p] \in Refusals => FateOf(p)' = "refused"
      BY <1>1 DEF FateRules, Refusals
    <3>. QED
      BY <3>1, <3>2
  <2>4. ASSUME NEW p \in Proposal \ S PROVE FateOf(p)' = FateOf(p)
    <3>1. (p \in WithRaft' <=> p \in WithRaft) /\ reply'[p] = reply[p] /\ (p > Len(prio') <=> p > Len(prio))
          /\ reply[p] \in Replies
      BY <1>0, <2>1, <2>2
    <3>. QED
      BY <1>1, <3>1 DEF FateRules, Replies
  <2>5. CASE S = {}
    BY <1>4, <2>4, <2>5
  <2>6. CASE S # {}
    <3>1. S \subseteq Proposal
      BY <2>3
    <3>2. Pipe!Move(S, "held", "refused")
      BY <2>3, <2>4, <2>6, <3>1, FatesMove
    <3>. QED
      BY <3>1, <3>2 DEF Pipe!PipeNext, Pipe!Refuse
  <2>. QED
    BY <2>5, <2>6
<1>9. ASSUME NEW S, Answers(S) PROVE Pipe!PipeNext \/ Fates' = Fates
  <2>1. S \subseteq raftq /\ raftq' = raftq \ S /\ prio' = prio /\ reply' = Told(Contents(S), "answered")
    BY <1>9 DEF Answers
  <2>. DEFINE X == Contents(S)
  <2>2. /\ \A p \in Proposal : p \in X => reply'[p] = "answered"
        /\ \A p \in Proposal : p \notin X => reply'[p] = reply[p]
    BY <2>1, ToldFacts DEF BatchTypes
  <2>3. \A p \in X : p \in WithRaft /\ p \in Proposal
    BY <2>1, WithRaftFacts, ContentsFacts DEF PipeInv
  <2>4. \A p : p \in WithRaft' <=> p \in WithRaft /\ p \notin X
    <3>1. ASSUME NEW b \in raftq \ S, NEW c \in S PROVE Elems(b) \cap Elems(c) = {}
      BY <2>1 DEF PipeInv, Scattered
    <3>. QED
      BY <2>1, <3>1, WithRaftFacts, ContentsFacts
  <2>. HIDE DEF X
  <2>5. \A p \in X : p \in Proposal /\ FateOf(p) = "handed" /\ FateOf(p)' = "answered"
    BY <1>1, <2>2, <2>3, <2>4 DEF FateRules
  <2>6. ASSUME NEW p \in Proposal \ X PROVE FateOf(p)' = FateOf(p)
    <3>1. (p \in WithRaft' <=> p \in WithRaft) /\ reply'[p] = reply[p] /\ (p > Len(prio') <=> p > Len(prio))
          /\ reply[p] \in Replies
      BY <1>0, <2>1, <2>2, <2>4
    <3>. QED
      BY <1>1, <3>1 DEF FateRules, Replies
  <2>7. CASE X = {}
    BY <1>4, <2>6, <2>7
  <2>8. CASE X # {}
    <3>1. PICK R : R = X
      OBVIOUS
    <3>2. R \subseteq Proposal /\ R # {}
      BY <2>5, <2>8, <3>1
    <3>3. \A p \in R : FateOf(p) = "handed" /\ FateOf(p)' = "answered"
      BY <2>5, <3>1
    <3>4. \A p \in Proposal \ R : FateOf(p)' = FateOf(p)
      BY <2>6, <3>1
    <3>5. Pipe!Move(R, "handed", "answered")
      BY <3>2, <3>3, <3>4, FatesMove
    <3>. QED
      BY <3>2, <3>5 DEF Pipe!PipeNext, Pipe!Answer
  <2>. QED
    BY <2>7, <2>8
<1>. QED
  BY <1>5, <1>6, <1>7, <1>8, <1>9 DEF Moves

(* The proposals that were taken from the channel; those that traditional  *)
(* mode counts; those the counter never loses.                             *)
Elders == Batched \cup InFlight \cup Grouped
Held == Batched \cup InFlight
Leaked == {p \in Proposal : reply[p] \in {"timeout", "dropped"}}

(* The inductive invariant, in named parts: the channel holds the youngest *)
(* proposals in order; groups and batches are orderly and apart; each mode *)
(* uses its own containers; the counter adds up and its limit holds.       *)
InboxInv ==
    /\ Rising(inbox)
    /\ \A p \in Elems(inbox) : p <= Len(prio) /\ \A q \in Elders : q < p

BatchInv == Tidy(batches, prio)

(* A batch being flushed took every proposal of its urgent priority along.  *)
TakesAll(b) == \A x \in Elems(b), q \in Held : q \notin Elems(b) /\ prio[x] > 1 => prio[q] # prio[x]

FlushInv ==
    /\ \A b \in flushing : Rising(b) /\ TakesAll(b)
    /\ Scattered(flushing)
    /\ Batched \cap InFlight = {}

GroupInv ==
    /\ \A k \in 0..3 : Rising(groups[k])
    /\ \A k, l \in 0..3 : k # l => Elems(groups[k]) \cap Elems(groups[l]) = {}

OwnMode ==
    /\ mode # "traditional" => batches = << >> /\ flushing = {}
    /\ mode # "streaming" => \A k \in 0..3 : groups[k] = << >>

CountInv ==
    mode = "traditional" => /\ pending = Cardinality(Held) + Cardinality(Leaked)
                            /\ pending <= MaxPending

ProcessorInv ==
    BatchTypes /\ PipeInv /\ InboxInv /\ BatchInv /\ FlushInv /\ GroupInv /\ OwnMode /\ CountInv

OrderStep == mode = "traditional" => \A b \in raftq' \ raftq : InOrder(b)

(* What every action is shown to do.                                       *)
StepKeeps ==
    /\ BatchTypes' /\ InboxInv' /\ BatchInv' /\ FlushInv' /\ GroupInv' /\ OwnMode' /\ CountInv'
    /\ Moves /\ OrderStep

LEMMA PlaceFacts ==
    /\ Batched = InBatches(batches) /\ Batched' = InBatches(batches')
    /\ InFlight = Contents(flushing) /\ InFlight' = Contents(flushing')
    /\ Grouped' = UNION {Elems(groups'[k]) : k \in 0..3}
    /\ Held \subseteq Elders /\ Elders \subseteq Queued
  BY DEF Batched, InBatches, InFlight, Contents, Grouped, Elders, Held, Queued

LEMMA ToldTypes ==
    ASSUME BatchTypes, NEW S, NEW what \in Replies
    PROVE  Told(S, what) \in [Proposal -> Replies]
  BY DEF BatchTypes, Told

LEMMA LeakFacts ==
    ASSUME BatchTypes, PipeInv, NEW S, NEW what, reply' = Told(S, what),
           \A p \in S : p \in Proposal /\ reply[p] = "none"
    PROVE  /\ S \cap Leaked = {}
           /\ what \in {"timeout", "dropped"} => Leaked' = Leaked \cup S
           /\ what \notin {"timeout", "dropped"} => Leaked' = Leaked
<1>1. /\ \A p \in Proposal : p \in S => reply'[p] = what
      /\ \A p \in Proposal : p \notin S => reply'[p] = reply[p]
  BY ToldFacts DEF BatchTypes
<1>2. S \cap Leaked = {}
  BY DEF Leaked
<1>. QED
  BY <1>1, <1>2 DEF Leaked

(* Steps that leave the containers alone.                                  *)
LEMMA ContainersStay ==
    ASSUME ProcessorInv, UNCHANGED <<mode, inbox, prio, batches, groups, flushing>>
    PROVE  /\ InboxInv' /\ BatchInv' /\ FlushInv' /\ GroupInv' /\ OwnMode'
           /\ Queued' = Queued /\ Held' = Held
  BY DEF ProcessorInv, InboxInv, BatchInv, FlushInv, GroupInv, OwnMode, Elders, Held, Queued,
         Batched, InFlight, Grouped, TakesAll

LEMMA CountStays ==
    ASSUME CountInv, mode' = mode, Held' = Held, Leaked' = Leaked, pending' = pending
    PROVE  CountInv'
  BY DEF CountInv

LEMMA QuietKeeps ==
    ASSUME ProcessorInv, BatchTypes',
           UNCHANGED <<mode, inbox, prio, batches, groups, flushing, pending, raftq, reply>>
    PROVE  StepKeeps
<1>1. InboxInv' /\ BatchInv' /\ FlushInv' /\ GroupInv' /\ OwnMode' /\ Queued' = Queued /\ Held' = Held
  BY ContainersStay
<1>2. Leaked' = Leaked
  BY DEF Leaked
<1>3. CountInv'
  BY <1>1, <1>2, CountStays DEF ProcessorInv
<1>4. Moves
  BY <1>1 DEF Moves, Stays
<1>5. OrderStep
  BY DEF OrderStep
<1>. QED
  BY <1>1, <1>3, <1>4, <1>5 DEF StepKeeps

LEMMA ExpireKeeps ==
    ASSUME ProcessorInv, NEW p \in Proposal, Expire(p)
    PROVE  StepKeeps
<1>1. BatchTypes'
  BY DEF ProcessorInv, BatchTypes, Prios, Expire
<1>. QED
  BY <1>1, QuietKeeps DEF Expire

LEMMA RaftAnswersKeeps ==
    ASSUME ProcessorInv, NEW b \in raftq, RaftAnswers(b)
    PROVE  StepKeeps
<1>0. UNCHANGED <<mode, inbox, prio, batches, groups, flushing, pending, raftUp, expired>>
      /\ raftq' = raftq \ {b} /\ reply' = Told(Elems(b), "answered")
  BY DEF RaftAnswers
<1>1. InboxInv' /\ BatchInv' /\ FlushInv' /\ GroupInv' /\ OwnMode' /\ Queued' = Queued /\ Held' = Held
  BY <1>0, ContainersStay
<1>2. \A p \in Elems(b) : p \in Proposal /\ reply[p] = "none"
  BY WithRaftFacts DEF ProcessorInv, PipeInv
<1>3. Leaked' = Leaked
  BY <1>0, <1>2, LeakFacts DEF ProcessorInv
<1>4. CountInv'
  BY <1>0, <1>1, <1>3, CountStays DEF ProcessorInv
<1>5. BatchTypes'
  BY <1>0, ToldTypes DEF ProcessorInv, BatchTypes, Prios, Replies
<1>6. Moves
  <2>1. Contents({b}) = Elems(b)
    BY DEF Contents
  <2>2. Answers({b})
    BY <1>0, <1>1, <2>1 DEF Answers
  <2>. QED
    BY <2>2 DEF Moves
<1>7. OrderStep
  BY <1>0 DEF OrderStep
<1>. QED
  BY <1>1, <1>4, <1>5, <1>6, <1>7 DEF StepKeeps

LEMMA RaftEndsKeeps ==
    ASSUME ProcessorInv, RaftEnds
    PROVE  StepKeeps
<1>0. UNCHANGED <<mode, inbox, prio, batches, groups, flushing, pending, expired>>
      /\ raftUp' = FALSE /\ raftq' = {} /\ reply' = Told(Contents(raftq), "answered")
  BY DEF RaftEnds, Contents
<1>1. InboxInv' /\ BatchInv' /\ FlushInv' /\ GroupInv' /\ OwnMode' /\ Queued' = Queued /\ Held' = Held
  BY <1>0, ContainersStay
<1>2. \A p \in Contents(raftq) : p \in Proposal /\ reply[p] = "none"
  BY WithRaftFacts, ContentsFacts DEF ProcessorInv, PipeInv
<1>3. Leaked' = Leaked
  BY <1>0, <1>2, LeakFacts DEF ProcessorInv
<1>4. CountInv'
  BY <1>0, <1>1, <1>3, CountStays DEF ProcessorInv
<1>5. BatchTypes'
  BY <1>0, ToldTypes DEF ProcessorInv, BatchTypes, Prios, Replies
<1>6. Moves
  <2>1. Answers(raftq)
    BY <1>0, <1>1 DEF Answers
  <2>. QED
    BY <2>1 DEF Moves
<1>7. OrderStep
  BY <1>0 DEF OrderStep
<1>. QED
  BY <1>1, <1>4, <1>5, <1>6, <1>7 DEF StepKeeps

(* The places of the stage are apart, and what waits there is unanswered.  *)
LEMMA ApartFacts ==
    ASSUME ProcessorInv
    PROVE  /\ Queued = Elems(inbox) \cup Held \cup Grouped /\ Held = Batched \cup InFlight
           /\ Elders = Held \cup Grouped
           /\ Batched \cap InFlight = {} /\ Elems(inbox) \cap Elders = {} /\ Held \cap Grouped = {}
           /\ Queued \subseteq Proposal
           /\ \A p \in Queued : p \in Nat /\ p <= Len(prio) /\ reply[p] = "none" /\ prio[p] \in 0..3
           /\ Held \cap Leaked = {} /\ Held \subseteq Proposal /\ Leaked \subseteq Proposal
<1>1. Queued = Elems(inbox) \cup Held \cup Grouped /\ Held = Batched \cup InFlight /\ Elders = Held \cup Grouped
  BY DEF Queued, Held, Elders
<1>2. BatchTypes /\ PipeInv /\ InboxInv /\ FlushInv /\ OwnMode
  BY DEF ProcessorInv
<1>3. Batched \cap InFlight = {}
  BY <1>2 DEF FlushInv
<1>4. \A p \in Queued : p \in Proposal /\ p <= Len(prio) /\ reply[p] = "none"
  BY <1>2 DEF PipeInv
<1>5. \A p \in Queued : p \in Nat /\ prio[p] \in 0..3
  BY <1>2, <1>4, PrioOf, ProposalIsInt DEF BatchTypes
<1>6. ASSUME NEW p \in Elems(inbox), p \in Elders PROVE FALSE
  <2>1. p < p /\ p \in Nat
    BY <1>1, <1>2, <1>5, <1>6 DEF InboxInv
  <2>. QED
    BY <2>1
<1>7. ASSUME Held # {}, Grouped # {} PROVE FALSE
  <2>1. \E k \in 0..3 : Elems(groups[k]) # {}
    BY <1>7 DEF Grouped
  <2>2. PICK k \in 0..3 : groups[k] # << >>
    BY <2>1 DEF Elems
  <2>3. mode = "streaming"
    BY <1>2, <2>2 DEF OwnMode
  <2>4. batches = << >> /\ flushing = {}
    BY <1>2, <2>3 DEF OwnMode
  <2>5. Held = {}
    BY <2>4 DEF Held, Batched, InFlight
  <2>. QED
    BY <1>7, <2>5
<1>8. Held \cap Leaked = {} /\ Leaked \subseteq Proposal
  BY <1>1, <1>4 DEF Leaked
<1>. QED
  BY <1>1, <1>3, <1>4, <1>5, <1>6, <1>7, <1>8

LEMMA ProposalsAreFinite ==
    ASSUME NEW S, S \subseteq Proposal
    PROVE  IsFiniteSet(S) /\ Cardinality(S) \in Nat
<1>1. IsFiniteSet(Proposal)
  BY FS_Interval, BatchAssumption DEF Proposal
<1>. QED
  BY <1>1, FS_Subset, FS_CardinalityType

(* The counter: what lapses moves from one count to the other, what is     *)
(* sent leaves both, what arrives joins the first.                         *)
LEMMA LapseCounts ==
    ASSUME CountInv, NEW S, S \subseteq Held, Held \subseteq Proposal, Leaked \subseteq Proposal,
           Held \cap Leaked = {}, Held' = Held \ S, Leaked' = Leaked \cup S,
           mode' = mode, pending' = pending
    PROVE  CountInv'
<1>. DEFINE H == Held  K == Leaked
<1>1. /\ IsFiniteSet(H) /\ IsFiniteSet(S) /\ IsFiniteSet(K)
      /\ Cardinality(H) \in Nat /\ Cardinality(S) \in Nat /\ Cardinality(K) \in Nat
  BY ProposalsAreFinite
<1>2. H \cap S = S /\ K \cap S = {}
  OBVIOUS
<1>. HIDE DEF H, K
<1>3. Cardinality(H \ S) = Cardinality(H) - Cardinality(S)
  BY <1>1, <1>2, FS_Difference
<1>4. Cardinality(K \cup S) = Cardinality(K) + Cardinality(S)
  BY <1>1, <1>2, FS_Union, FS_EmptySet
<1>5. Cardinality(Held') + Cardinality(Leaked') = Cardinality(Held) + Cardinality(Leaked)
  BY <1>1, <1>3, <1>4 DEF H, K
<1>. QED
  BY <1>5 DEF CountInv

LEMMA SentCounts ==
    ASSUME CountInv, pending \in Int, MaxPending \in Nat, NEW b \in Seq(Proposal), Rising(b), Elems(b) \subseteq Held, Held \subseteq Proposal,
           Leaked \subseteq Proposal,
           Held' = Held \ Elems(b), Leaked' = Leaked, mode' = mode, pending' = pending - Len(b)
    PROVE  CountInv'
<1>. DEFINE H == Held  S == Elems(b)
<1>1. /\ IsFiniteSet(H) /\ Cardinality(H) \in Nat /\ Cardinality(Leaked) \in Nat
  BY ProposalsAreFinite
<1>2. H \cap S = S
  OBVIOUS
<1>3. Cardinality(S) = Len(b) /\ Len(b) \in Nat
  BY RisingCount, ElemsFacts
<1>. HIDE DEF H, S
<1>4. Cardinality(H \ S) = Cardinality(H) - Cardinality(S)
  BY <1>1, <1>2, FS_Difference, ZenonT(30)
<1>5. Cardinality(Held') = Cardinality(Held) - Len(b) /\ Cardinality(Leaked') = Cardinality(Leaked)
  BY <1>3, <1>4 DEF H, S
<1>. QED
  BY <1>1, <1>3, <1>5 DEF CountInv, H

LEMMA JoinCounts ==
    ASSUME CountInv, pending \in Int, MaxPending \in Nat, NEW p \in Proposal, p \notin Held, Held \subseteq Proposal,
           Leaked \subseteq Proposal, pending < MaxPending,
           Held' = Held \cup {p}, Leaked' = Leaked, mode' = mode, pending' = pending + 1
    PROVE  CountInv'
<1>1. IsFiniteSet(Held) /\ Cardinality(Held) \in Nat /\ Cardinality(Leaked) \in Nat
  BY ProposalsAreFinite
<1>2. PICK H : H = Held
  OBVIOUS
<1>3. Cardinality(H \cup {p}) = Cardinality(H) + 1
  BY <1>1, <1>2, FS_AddElement
<1>4. Cardinality(Held') = Cardinality(Held) + 1 /\ Cardinality(Leaked') = Cardinality(Leaked)
  BY <1>2, <1>3
<1>. QED
  BY <1>1, <1>4 DEF CountInv

(* A proposal that has just been sent disturbs none of the batches.        *)
LEMMA TidyStays ==
    ASSUME NEW bs \in Seq(Batch), NEW pr \in Seq(0..3), Tidy(bs, pr), NEW k \in 0..3
    PROVE  Tidy(bs, Append(pr, k))
<1>. DEFINE more == Append(pr, k)
<1>1. Len(more) = Len(pr) + 1 /\ Len(pr) \in Nat /\ \A p \in 1..Len(pr) : more[p] = pr[p]
  BY AppendFacts
<1>. HIDE DEF more
<1>2. ASSUME NEW i \in 1..Len(bs) PROVE Sound(bs[i], more)
  <2>1. Sound(bs[i], pr) /\ Elems(bs[i].items) \subseteq Proposal
    BY InBatchesFacts DEF Tidy
  <2>2. \A p \in Elems(bs[i].items) : p \in 1..Len(pr)
    BY <1>1, <2>1, ProposalIsInt DEF Sound
  <2>3. \A p \in Elems(bs[i].items) : more[p] = pr[p] /\ p <= Len(more)
    BY <1>1, <2>2
  <2>. QED
    BY <2>1, <2>3 DEF Sound
<1>3. Tidy(bs, more)
  BY <1>2 DEF Tidy
<1>. QED
  BY <1>3 DEF more

LEMMA SubmitKeeps ==
    ASSUME ProcessorInv, NEW k \in Priorities, Submit(k)
    PROVE  StepKeeps
<1>0. /\ Len(prio) < Proposals /\ prio' = Append(prio, k) /\ inbox' = Append(inbox, Len(prio) + 1)
      /\ UNCHANGED <<mode, expired, batches, groups, flushing, pending, raftUp, raftq, reply>>
  BY DEF Submit
<1>1. k \in 0..3 /\ Proposals \in Nat
  BY BatchAssumption
<1>2. BatchTypes /\ PipeInv /\ InboxInv /\ FlushInv
  BY DEF ProcessorInv
<1>3. Len(prio) \in Nat /\ prio \in Seq(0..3)
  BY <1>2 DEF BatchTypes, Prios
<1>4. PICK n \in Proposal : n = Len(prio) + 1 /\ n \in Nat
  BY <1>0, <1>1, <1>3 DEF Proposal
<1>5. /\ prio' \in Seq(0..3) /\ Len(prio') = n /\ \A p \in 1..Len(prio) : prio'[p] = prio[p]
  BY <1>0, <1>1, <1>3, <1>4, AppendFacts
<1>6. \A q \in Queued : q < n /\ q \in Proposal /\ prio'[q] = prio[q] /\ q <= Len(prio')
  <2>1. \A q \in Queued : q \in Proposal /\ q \in Nat /\ q <= Len(prio) /\ q >= 1
    BY ApartFacts, ProposalIsInt
  <2>2. \A q \in Queued : q \in 1..Len(prio) /\ q < n
    BY <1>3, <1>4, <2>1
  <2>. QED
    BY <1>3, <1>4, <1>5, <2>1, <2>2
<1>7. inbox \in Seq(Proposal) /\ Rising(inbox) /\ Elems(inbox) \subseteq Queued
  BY <1>2 DEF BatchTypes, InboxInv, Queued
<1>8. inbox' \in Seq(Proposal) /\ Rising(inbox') /\ Elems(inbox') = Elems(inbox) \cup {n}
  BY <1>0, <1>4, <1>6, <1>7, AppendRises
<1>9. BatchTypes'
  <2>1. Prios'
    BY <1>0, <1>1, <1>4, <1>5 DEF Prios
  <2>. QED
    BY <1>0, <1>2, <1>8, <2>1 DEF BatchTypes
<1>10. Elders' = Elders /\ Held' = Held /\ Grouped' = Grouped /\ Batched' = Batched /\ InFlight' = InFlight
  BY <1>0 DEF Elders, Held, Grouped, Batched, InFlight
<1>11. Elders \subseteq Queued /\ Held \subseteq Queued
  BY DEF Elders, Queued, Held
<1>12. InboxInv'
  <2>1. ASSUME NEW p \in Elems(inbox') PROVE p <= Len(prio') /\ \A q \in Elders : q < p
    <3>1. CASE p = n
      BY <1>4, <1>5, <1>6, <1>11, <3>1
    <3>2. CASE p \in Elems(inbox)
      BY <1>2, <1>6, <1>7, <3>2 DEF InboxInv
    <3>. QED
      BY <1>8, <3>1, <3>2
  <2>. QED
    BY <1>8, <1>10, <2>1 DEF InboxInv
<1>13. BatchInv'
  <2>1. PICK bs \in Seq(Batch) : bs = batches
    BY <1>2 DEF BatchTypes
  <2>2. PICK pr \in Seq(0..3) : pr = prio
    BY <1>3
  <2>3. Tidy(bs, pr)
    BY <2>1, <2>2 DEF ProcessorInv, BatchInv
  <2>4. Tidy(bs, Append(pr, k))
    BY <1>1, <2>3, TidyStays
  <2>. QED
    BY <1>0, <2>1, <2>2, <2>4 DEF BatchInv
<1>14. FlushInv'
  <2>1. ASSUME NEW b \in flushing PROVE TakesAll(b)'
    <3>1. \A x \in Elems(b) : x \in Queued
      BY DEF Queued, InFlight
    <3>2. TakesAll(b)
      BY <1>2 DEF FlushInv
    <3>3. ASSUME NEW x \in Elems(b), NEW q \in Held, q \notin Elems(b), prio'[x] > 1
          PROVE  prio'[q] # prio'[x]
      <4>1. prio'[x] = prio[x] /\ prio'[q] = prio[q]
        BY <1>6, <1>11, <3>1
      <4>. QED
        BY <3>2, <3>3, <4>1 DEF TakesAll
    <3>. QED
      BY <1>10, <3>3 DEF TakesAll
  <2>. QED
    BY <1>0, <1>2, <1>10, <2>1 DEF FlushInv
<1>15. GroupInv' /\ OwnMode'
  BY <1>0 DEF ProcessorInv, GroupInv, OwnMode
<1>16. CountInv'
  <2>1. Leaked' = Leaked
    BY <1>0 DEF Leaked
  <2>. QED
    BY <1>0, <1>10, <2>1, CountStays DEF ProcessorInv
<1>17. Moves
  <2>1. Queued' = Queued \cup {n}
    BY <1>8, <1>10 DEF Queued
  <2>2. Arrives
    BY <1>0, <1>3, <1>4, <1>5, <2>1 DEF Arrives
  <2>. QED
    BY <2>2 DEF Moves
<1>18. OrderStep
  BY <1>0 DEF OrderStep
<1>. QED
  BY <1>9, <1>12, <1>13, <1>14, <1>15, <1>16, <1>17, <1>18 DEF StepKeeps

LEMMA GrowOldKeeps ==
    ASSUME ProcessorInv, NEW i \in DOMAIN batches, GrowOld(i)
    PROVE  StepKeeps
<1>0. /\ batches' = [batches EXCEPT ![i].age = Timeout(batches[i].label)]
      /\ UNCHANGED <<mode, inbox, prio, expired, groups, flushing, pending, raftUp, raftq, reply>>
  BY DEF GrowOld
<1>1. BatchTypes /\ PipeInv /\ InboxInv /\ FlushInv /\ BatchInv
  BY DEF ProcessorInv
<1>2. PICK bs \in Seq(Batch) : bs = batches
  BY <1>1 DEF BatchTypes
<1>3. i \in 1..Len(bs) /\ bs[i] \in Batch
  BY <1>2, LenProperties, InBatchesFacts
<1>. DEFINE older == [bs[i] EXCEPT !.age = Timeout(bs[i].label)]
            cs == [bs EXCEPT ![i] = older]
<1>4. PICK b \in Batch : b = older /\ b.items = bs[i].items /\ b.label = bs[i].label
  <2>1. older \in Batch /\ older.items = bs[i].items /\ older.label = bs[i].label
    <3>1. PICK old \in Batch : old = bs[i]
      BY <1>3
    <3>2. Timeout(old.label) \in 0..4
      BY DEF Batch, Timeout
    <3>. DEFINE t == Timeout(old.label)  r == [old EXCEPT !.age = t]
    <3>3. r = older
      BY <3>1
    <3>. HIDE DEF t, older
    <3>4. r \in Batch /\ r.items = old.items /\ r.label = old.label
      BY <3>2 DEF Batch, t
    <3>. HIDE DEF r
    <3>. QED
      BY <3>1, <3>3, <3>4
  <2>. QED
    BY <2>1
<1>5. batches' = [bs EXCEPT ![i] = b]
  BY <1>0, <1>2, <1>3, <1>4
<1>6. PICK pr : pr = prio
  OBVIOUS
<1>7. Tidy(bs, pr)
  BY <1>1, <1>2, <1>6 DEF BatchInv
<1>8. Sound(b, pr) /\ Fits(bs, i, b)
  BY <1>3, <1>4, <1>7 DEF Sound, Tidy, Fits
<1>9. /\ batches' \in Seq(Batch) /\ Tidy(batches', pr)
      /\ InBatches(batches') = (InBatches(bs) \ Elems(bs[i].items)) \cup Elems(b.items)
  BY <1>3, <1>5, <1>7, <1>8, ReplaceFacts
<1>10. Batched' = Batched
  BY <1>2, <1>3, <1>4, <1>9, InBatchesFacts, PlaceFacts
<1>11. BatchTypes'
  BY <1>0, <1>1, <1>9 DEF BatchTypes, Prios
<1>12. /\ Elders' = Elders /\ Held' = Held /\ Queued' = Queued /\ InFlight' = InFlight /\ Leaked' = Leaked
  BY <1>0, <1>10 DEF Elders, Held, Queued, InFlight, Grouped, Leaked
<1>13. InboxInv' /\ FlushInv' /\ GroupInv'
  BY <1>0, <1>1, <1>10, <1>12 DEF ProcessorInv, InboxInv, FlushInv, GroupInv, TakesAll
<1>14. BatchInv'
  BY <1>0, <1>6, <1>9 DEF BatchInv
<1>15. OwnMode'
  <2>1. mode = "traditional"
    <3>1. batches # << >>
      BY <1>2, <1>3
    <3>. QED
      BY <3>1 DEF ProcessorInv, OwnMode
  <2>. QED
    BY <1>0, <2>1 DEF ProcessorInv, OwnMode
<1>16. CountInv'
  BY <1>0, <1>12, CountStays DEF ProcessorInv
<1>17. Moves
  BY <1>0, <1>12 DEF Moves, Stays
<1>18. OrderStep
  BY <1>0 DEF OrderStep
<1>. QED
  BY <1>11, <1>13, <1>14, <1>15, <1>16, <1>17, <1>18 DEF StepKeeps

(* A batch handed over follows its elders and leaves none behind.          *)
LEMMA SendingIsInOrder ==
    ASSUME ProcessorInv, NEW b \in flushing
    PROVE  InOrder(b)
<1>1. BatchTypes /\ InboxInv /\ Rising(b) /\ TakesAll(b) /\ b \in Seq(Proposal)
  BY DEF ProcessorInv, FlushInv, BatchTypes
<1>2. DOMAIN b = 1..Len(b) /\ Len(b) \in Nat /\ \A j \in 1..Len(b) : b[j] \in Elems(b)
  BY <1>1, ElemsFacts
<1>3. Elems(b) \subseteq Elders /\ Held = Batched \cup InFlight
  BY DEF Elders, Held, InFlight
<1>4. ASSUME NEW j \in 1..Len(b), prio[b[j]] > 1, NEW q \in (Held \cup Elems(inbox)) \ Elems(b),
             prio[q] = prio[b[j]]
      PROVE  b[j] < q
  <2>1. CASE q \in Held
    BY <1>1, <1>2, <1>4, <2>1 DEF TakesAll
  <2>2. CASE q \in Elems(inbox)
    BY <1>1, <1>2, <1>3, <2>2 DEF InboxInv
  <2>. QED
    BY <1>4, <2>1, <2>2
<1>5. \A j \in 1..Len(b) : \A i \in 1..(j - 1) : b[i] < b[j]
  <2>1. ASSUME NEW j \in 1..Len(b), NEW i \in 1..(j - 1) PROVE b[i] < b[j]
    <3>1. i \in 1..Len(b) /\ i < j
      BY <1>2
    <3>. QED
      BY <1>1, <3>1 DEF Rising
  <2>. QED
    BY <2>1
<1>. QED
  BY <1>2, <1>3, <1>4, <1>5 DEF InOrder

(* What is left of a stage that gave up some of its proposals.             *)
LEMMA RemovalKeeps ==
    ASSUME ProcessorInv, NEW X, UNCHANGED <<mode, prio, inbox, groups>>,
           X \subseteq Held, Held' = Held \ X,
           batches' \in Seq(Batch), BatchInv',
           FlushInv', OwnMode'
    PROVE  /\ InboxInv' /\ GroupInv' /\ Queued' = Queued \ X /\ X \subseteq Queued
<1>1. /\ Queued = Elems(inbox) \cup Held \cup Grouped /\ Elders = Held \cup Grouped
      /\ Elems(inbox) \cap Elders = {} /\ Held \cap Grouped = {}
  BY ApartFacts
<1>2. Grouped' = Grouped /\ Elems(inbox') = Elems(inbox)
  BY DEF Grouped
<1>3. Queued' = Elems(inbox') \cup Held' \cup Grouped' /\ Elders' = Held' \cup Grouped'
  BY DEF Queued, Held, Elders
<1>4. InboxInv'
  BY <1>1, <1>2, <1>3 DEF ProcessorInv, InboxInv
<1>5. GroupInv'
  BY DEF ProcessorInv, GroupInv
<1>. QED
  BY <1>1, <1>2, <1>3, <1>4, <1>5

LEMMA ProcessBatchKeeps ==
    ASSUME ProcessorInv, NEW b \in flushing, ProcessBatch(b)
    PROVE  StepKeeps
<1>. DEFINE X == Elems(b)
<1>0. /\ flushing' = flushing \ {b}
      /\ UNCHANGED <<mode, inbox, prio, expired, batches, groups, raftUp>>
  BY DEF ProcessBatch
<1>1. BatchTypes /\ PipeInv /\ InboxInv /\ FlushInv /\ BatchInv /\ OwnMode /\ CountInv
  BY DEF ProcessorInv
<1>2. mode = "traditional"
  BY <1>1 DEF OwnMode
<1>3. b \in Seq(Proposal) /\ Rising(b) /\ Len(b) \in Nat
  BY <1>1, ElemsFacts DEF BatchTypes, FlushInv
<1>4. X \subseteq InFlight /\ InFlight' = InFlight \ X
  <2>1. \A c \in flushing : c # b => Elems(b) \cap Elems(c) = {}
    BY <1>1 DEF FlushInv, Scattered
  <2>. QED
    BY <1>0, <2>1 DEF InFlight
<1>5. /\ Held = Batched \cup InFlight /\ Batched \cap InFlight = {}
      /\ Held \subseteq Proposal /\ Leaked \subseteq Proposal /\ Held \cap Leaked = {}
      /\ Queued \subseteq Proposal /\ \A p \in Queued : reply[p] = "none"
  BY ApartFacts
<1>6. Batched' = Batched
  BY <1>0 DEF Batched
<1>7. Held' = Held \ X /\ X \subseteq Held
  BY <1>4, <1>5, <1>6 DEF Held
<1>8. BatchInv' /\ OwnMode' /\ batches' \in Seq(Batch)
  BY <1>0, <1>1, <1>2 DEF BatchInv, OwnMode, BatchTypes
<1>9. FlushInv'
  <2>1. \A c \in flushing' : Rising(c) /\ TakesAll(c)'
    BY <1>0, <1>1, <1>7 DEF FlushInv, TakesAll
  <2>2. Scattered(flushing')
    BY <1>0, <1>1 DEF FlushInv, Scattered
  <2>. QED
    BY <1>4, <1>5, <1>6, <2>1, <2>2 DEF FlushInv
<1>10. InboxInv' /\ GroupInv' /\ Queued' = Queued \ X /\ X \subseteq Queued
  <2>1. PICK S : S = X
    OBVIOUS
  <2>2. S \subseteq Held /\ Held' = Held \ S
    BY <1>7, <2>1
  <2>3. InboxInv' /\ GroupInv' /\ Queued' = Queued \ S /\ S \subseteq Queued
    BY <1>0, <1>8, <1>9, <2>2, RemovalKeeps
  <2>. QED
    BY <2>1, <2>3
<1>11. \A p \in X : p \in Proposal /\ reply[p] = "none"
  BY <1>5, <1>10
<1>12. CASE raftUp
  <2>1. raftq' = raftq \cup {b} /\ reply' = reply /\ pending' = pending - Len(b)
    BY <1>12 DEF ProcessBatch, SendToRaft
  <2>2. BatchTypes'
    BY <1>0, <1>1, <1>3, <2>1 DEF BatchTypes, Prios
  <2>3. CountInv'
    <3>1. Leaked' = Leaked
      BY <2>1 DEF Leaked
    <3>2. pending \in Int /\ MaxPending \in Nat
      BY <1>1, BatchAssumption DEF BatchTypes
    <3>. QED
      BY <1>0, <1>1, <1>3, <1>5, <1>7, <2>1, <3>1, <3>2, SentCounts
  <2>4. Moves
    <3>1. Hands(b)
      BY <1>0, <1>10, <2>1 DEF Hands
    <3>. QED
      BY <3>1 DEF Moves
  <2>5. OrderStep
    <3>1. raftq' \ raftq \subseteq {b}
      BY <2>1
    <3>. QED
      BY <3>1, SendingIsInOrder DEF OrderStep
  <2>. QED
    BY <1>8, <1>9, <1>10, <2>2, <2>3, <2>4, <2>5 DEF StepKeeps
<1>13. CASE ~raftUp
  <2>1. raftq' = raftq /\ reply' = Told(X, "dropped") /\ pending' = pending
    BY <1>13 DEF ProcessBatch, SendToRaft
  <2>2. BatchTypes'
    <3>1. reply' \in [Proposal -> Replies]
      BY <1>1, <2>1, ToldTypes DEF Replies, Refusals
    <3>. QED
      BY <1>0, <1>1, <2>1, <3>1 DEF BatchTypes, Prios
  <2>3. CountInv'
    <3>1. PICK S : S = X
      OBVIOUS
    <3>2. Leaked' = Leaked \cup S
      <4>1. reply' = Told(S, "dropped") /\ \A p \in S : p \in Proposal /\ reply[p] = "none"
        BY <1>11, <2>1, <3>1
      <4>. QED
        BY <1>1, <4>1, LeakFacts
    <3>3. S \subseteq Held /\ Held' = Held \ S
      BY <1>7, <3>1
    <3>. QED
      BY <1>0, <1>1, <1>5, <2>1, <3>2, <3>3, LapseCounts
  <2>4. Moves
    <3>1. "dropped" \in Refusals
      BY DEF Refusals
    <3>2. Refuses(X, "dropped")
      BY <1>0, <1>10, <2>1, <3>1 DEF Refuses
    <3>. QED
      BY <3>2 DEF Moves
  <2>5. OrderStep
    BY <2>1 DEF OrderStep
  <2>. QED
    BY <1>8, <1>9, <1>10, <2>2, <2>3, <2>4, <2>5 DEF StepKeeps
<1>. QED
  BY <1>12, <1>13

(* What taking the head from the channel leaves.                           *)
LEMMA HeadLeaves ==
    ASSUME ProcessorInv, inbox # << >>, inbox' = Tail(inbox),
           UNCHANGED <<mode, prio, batches, groups, flushing>>
    PROVE  /\ InboxInv' /\ BatchInv' /\ FlushInv' /\ GroupInv' /\ OwnMode' /\ Held' = Held
           /\ inbox' \in Seq(Proposal)
           /\ Queued' = Queued \ {Head(inbox)} /\ Head(inbox) \in Queued
           /\ Head(inbox) \in Proposal /\ reply[Head(inbox)] = "none"
<1>1. BatchTypes /\ InboxInv /\ BatchInv /\ FlushInv /\ GroupInv /\ OwnMode
  BY DEF ProcessorInv
<1>2. inbox \in Seq(Proposal) /\ Rising(inbox)
  BY <1>1 DEF BatchTypes, InboxInv
<1>3. PICK s \in Seq(Proposal) : s = inbox
  BY <1>2
<1>4. /\ Head(s) \in Proposal /\ Head(s) \in Elems(s) /\ Tail(s) \in Seq(Proposal)
      /\ Rising(Tail(s)) /\ Elems(Tail(s)) = Elems(s) \ {Head(s)}
  BY <1>2, <1>3, TailRises
<1>5. PICK h : h = Head(inbox)
  OBVIOUS
<1>6. /\ h \in Proposal /\ h \in Elems(inbox) /\ inbox' \in Seq(Proposal)
      /\ Rising(inbox') /\ Elems(inbox') = Elems(inbox) \ {h}
  BY <1>3, <1>4, <1>5
<1>7. /\ Queued = Elems(inbox) \cup Held \cup Grouped /\ Elders = Held \cup Grouped
      /\ Elems(inbox) \cap Elders = {} /\ \A p \in Queued : reply[p] = "none"
  BY ApartFacts
<1>8. Held' = Held /\ Grouped' = Grouped /\ Elders' = Elders /\ Batched' = Batched /\ InFlight' = InFlight
  BY DEF Held, Grouped, Elders, Batched, InFlight
<1>9. Queued' = Queued \ {h}
  <2>1. Queued' = Elems(inbox') \cup Held' \cup Grouped'
    BY DEF Queued, Held
  <2>. QED
    BY <1>6, <1>7, <1>8, <2>1
<1>10. InboxInv'
  BY <1>1, <1>6, <1>8 DEF InboxInv
<1>11. BatchInv' /\ GroupInv' /\ OwnMode'
  BY <1>1 DEF BatchInv, GroupInv, OwnMode
<1>12. FlushInv'
  BY <1>1, <1>8 DEF FlushInv, TakesAll
<1>. QED
  BY <1>5, <1>6, <1>7, <1>8, <1>9, <1>10, <1>11, <1>12

LEMMA RefuseProposalKeeps ==
    ASSUME ProcessorInv, RefuseProposal
    PROVE  StepKeeps
<1>0. /\ inbox # << >> /\ inbox' = Tail(inbox) /\ reply' = Told({Head(inbox)}, "refused")
      /\ UNCHANGED <<mode, prio, expired, batches, groups, flushing, pending, raftUp, raftq>>
  BY DEF RefuseProposal
<1>1. BatchTypes /\ PipeInv /\ CountInv
  BY DEF ProcessorInv
<1>2. PICK h : h = Head(inbox)
  OBVIOUS
<1>3. /\ InboxInv' /\ BatchInv' /\ FlushInv' /\ GroupInv' /\ OwnMode' /\ Held' = Held
      /\ inbox' \in Seq(Proposal)
      /\ Queued' = Queued \ {h} /\ h \in Queued /\ h \in Proposal /\ reply[h] = "none"
  BY <1>0, <1>2, HeadLeaves
<1>4. BatchTypes'
  <2>1. reply' \in [Proposal -> Replies]
    BY <1>0, <1>1, ToldTypes DEF Replies, Refusals
  <2>. QED
    BY <1>0, <1>1, <1>3, <2>1 DEF BatchTypes, Prios
<1>5. CountInv'
  <2>1. reply' = Told({h}, "refused") /\ \A p \in {h} : p \in Proposal /\ reply[p] = "none"
    BY <1>0, <1>2, <1>3
  <2>2. Leaked' = Leaked
    BY <1>1, <2>1, LeakFacts
  <2>. QED
    BY <1>0, <1>1, <1>3, <2>2, CountStays
<1>6. Moves
  <2>1. Refuses({h}, "refused")
    BY <1>0, <1>2, <1>3 DEF Refuses, Refusals
  <2>. QED
    BY <2>1 DEF Moves
<1>7. OrderStep
  BY <1>0 DEF OrderStep
<1>. QED
  BY <1>3, <1>4, <1>5, <1>6, <1>7 DEF StepKeeps

LEMMA PassthroughKeeps ==
    ASSUME ProcessorInv, Passthrough
    PROVE  StepKeeps
<1>0. /\ mode = "passthrough" /\ inbox # << >> /\ inbox' = Tail(inbox) /\ SendToRaft(<<Head(inbox)>>)
      /\ UNCHANGED <<mode, prio, expired, batches, groups, flushing, pending, raftUp>>
  BY DEF Passthrough
<1>1. BatchTypes /\ PipeInv /\ CountInv
  BY DEF ProcessorInv
<1>2. PICK h : h = Head(inbox)
  OBVIOUS
<1>3. /\ InboxInv' /\ BatchInv' /\ FlushInv' /\ GroupInv' /\ OwnMode' /\ Held' = Held
      /\ inbox' \in Seq(Proposal)
      /\ Queued' = Queued \ {h} /\ h \in Queued /\ h \in Proposal /\ reply[h] = "none"
  BY <1>0, <1>2, HeadLeaves
<1>4. <<h>> \in Seq(Proposal) /\ Elems(<<h>>) = {h}
  BY <1>3 DEF Elems
<1>5. CountInv' /\ OrderStep
  BY <1>0 DEF CountInv, OrderStep
<1>6. CASE raftUp
  <2>1. raftq' = raftq \cup {<<h>>} /\ reply' = reply
    BY <1>0, <1>2, <1>6 DEF SendToRaft
  <2>2. BatchTypes'
    BY <1>0, <1>1, <1>3, <1>4, <2>1 DEF BatchTypes, Prios
  <2>3. Hands(<<h>>)
    BY <1>0, <1>3, <1>4, <2>1 DEF Hands
  <2>4. Moves
    BY <2>3 DEF Moves
  <2>. QED
    BY <1>3, <1>5, <2>2, <2>4 DEF StepKeeps
<1>7. CASE ~raftUp
  <2>1. raftq' = raftq /\ reply' = Told({h}, "dropped")
    BY <1>0, <1>2, <1>4, <1>7 DEF SendToRaft
  <2>2. BatchTypes'
    <3>1. reply' \in [Proposal -> Replies]
      BY <1>1, <2>1, ToldTypes DEF Replies, Refusals
    <3>. QED
      BY <1>0, <1>1, <1>3, <2>1, <3>1 DEF BatchTypes, Prios
  <2>3. Refuses({h}, "dropped")
    BY <1>0, <1>3, <2>1 DEF Refuses, Refusals
  <2>4. Moves
    BY <2>3 DEF Moves
  <2>. QED
    BY <1>3, <1>5, <2>2, <2>4 DEF StepKeeps
<1>. QED
  BY <1>6, <1>7

(* A group gives up its first elements, or all.                            *)
LEMMA GroupShrinks ==
    ASSUME ProcessorInv, NEW k \in 0..3, NEW rest \in Seq(Proposal), Rising(rest),
           NEW X, X \subseteq Elems(groups[k]), Elems(rest) = Elems(groups[k]) \ X,
           groups[k] # << >>, groups' = [groups EXCEPT ![k] = rest],
           UNCHANGED <<mode, prio, inbox, batches, flushing>>
    PROVE  /\ mode = "streaming"
           /\ InboxInv' /\ BatchInv' /\ FlushInv' /\ GroupInv' /\ OwnMode'
           /\ groups' \in [0..3 -> Seq(Proposal)]
           /\ X \subseteq Queued /\ Queued' = Queued \ X
           /\ \A p \in X : p \in Proposal /\ reply[p] = "none"
<1>1. BatchTypes /\ InboxInv /\ BatchInv /\ FlushInv /\ GroupInv /\ OwnMode
  BY DEF ProcessorInv
<1>2. mode = "streaming"
  BY <1>1 DEF OwnMode
<1>3. groups \in [0..3 -> Seq(Proposal)]
  BY <1>1 DEF BatchTypes
<1>4. /\ groups' \in [0..3 -> Seq(Proposal)] /\ groups'[k] = rest
      /\ \A l \in 0..3 : l # k => groups'[l] = groups[l]
  BY <1>3
<1>5. /\ Queued = Elems(inbox) \cup Held \cup Grouped /\ Elders = Held \cup Grouped
      /\ Elems(inbox) \cap Elders = {} /\ Held \cap Grouped = {}
      /\ Queued \subseteq Proposal /\ \A p \in Queued : reply[p] = "none"
  BY ApartFacts
<1>6. Held' = Held /\ Batched' = Batched /\ InFlight' = InFlight
  BY DEF Held, Batched, InFlight
<1>7. Grouped' = Grouped \ X /\ X \subseteq Grouped
  <2>1. Grouped' = UNION {Elems(groups'[l]) : l \in 0..3}
    BY DEF Grouped
  <2>2. \A l \in 0..3 : l # k => Elems(groups[l]) \cap X = {}
    BY <1>1 DEF GroupInv
  <2>3. \A l \in 0..3 : Elems(groups'[l]) = Elems(groups[l]) \ X
    BY <1>4, <2>2
  <2>. QED
    BY <2>1, <2>3 DEF Grouped
<1>8. Queued' = Queued \ X /\ Elders' = Elders \ X
  <2>1. Queued' = Elems(inbox') \cup Held' \cup Grouped' /\ Elders' = Held' \cup Grouped'
    BY DEF Queued, Held, Elders
  <2>. QED
    BY <1>5, <1>6, <1>7, <2>1
<1>9. InboxInv'
  BY <1>1, <1>8 DEF InboxInv
<1>10. BatchInv' /\ FlushInv'
  BY <1>1, <1>6 DEF BatchInv, FlushInv, TakesAll
<1>11. GroupInv'
  BY <1>1, <1>4 DEF GroupInv
<1>12. OwnMode'
  BY <1>1, <1>2 DEF OwnMode
<1>. QED
  BY <1>2, <1>4, <1>5, <1>7, <1>8, <1>9, <1>10, <1>11, <1>12

LEMMA DropGroupKeeps ==
    ASSUME ProcessorInv, NEW k \in 0..3, DropGroup(k)
    PROVE  StepKeeps
<1>. DEFINE X == Elems(groups[k])
<1>0. /\ groups[k] # << >> /\ reply' = Told(X, "dropped") /\ groups' = [groups EXCEPT ![k] = << >>]
      /\ UNCHANGED <<mode, inbox, prio, expired, batches, flushing, pending, raftUp, raftq>>
  BY DEF DropGroup
<1>1. BatchTypes
  BY DEF ProcessorInv
<1>2. << >> \in Seq(Proposal) /\ Rising(<< >>) /\ Elems(<< >>) = {}
  BY DEF Rising, Elems
<1>3. PICK rest \in Seq(Proposal) : rest = << >> /\ Rising(rest) /\ Elems(rest) = {}
  BY <1>2
<1>4. PICK S : S = X
  OBVIOUS
<1>5. S \subseteq Elems(groups[k]) /\ Elems(rest) = Elems(groups[k]) \ S
  BY <1>3, <1>4
<1>6. groups' = [groups EXCEPT ![k] = rest]
  BY <1>0, <1>3
<1>7. /\ mode = "streaming"
      /\ InboxInv' /\ BatchInv' /\ FlushInv' /\ GroupInv' /\ OwnMode'
      /\ groups' \in [0..3 -> Seq(Proposal)]
      /\ S \subseteq Queued /\ Queued' = Queued \ S
  BY <1>0, <1>3, <1>5, <1>6, GroupShrinks
<1>8. CountInv' /\ OrderStep
  BY <1>0, <1>7 DEF CountInv, OrderStep
<1>9. BatchTypes'
  <2>1. reply' \in [Proposal -> Replies]
    BY <1>0, <1>1, ToldTypes DEF Replies, Refusals
  <2>. QED
    BY <1>0, <1>1, <1>7, <2>1 DEF BatchTypes, Prios
<1>10. Moves
  <2>1. Refuses(S, "dropped")
    BY <1>0, <1>4, <1>7 DEF Refuses, Refusals
  <2>. QED
    BY <2>1 DEF Moves
<1>. QED
  BY <1>7, <1>8, <1>9, <1>10 DEF StepKeeps

LEMMA StutterKeeps ==
    ASSUME ProcessorInv, UNCHANGED vars
    PROVE  StepKeeps
<1>1. BatchTypes'
  BY DEF ProcessorInv, BatchTypes, Prios, vars
<1>. QED
  BY <1>1, QuietKeeps DEF vars

LEMMA ProcessGroupKeeps ==
    ASSUME ProcessorInv, NEW k \in 0..3, NEW size \in Nat, ProcessGroup(k, size)
    PROVE  StepKeeps
<1>0. BatchTypes /\ GroupInv
  BY DEF ProcessorInv
<1>1. PICK g \in Seq(Proposal) : g = groups[k] /\ Rising(g) /\ Len(g) \in Nat
  BY <1>0, LenProperties DEF BatchTypes, GroupInv
<1>2. PICK n \in Nat : n = IF size < Len(g) THEN size ELSE Len(g)
  BY <1>1
<1>3a. CASE n = 0
  <2>1. UNCHANGED vars
    BY <1>1, <1>2, <1>3a DEF ProcessGroup
  <2>. QED
    BY <2>1, StutterKeeps
<1>. SUFFICES ASSUME n # 0 PROVE StepKeeps
  BY <1>3a
<1>3. /\ n > 0 /\ raftUp /\ raftq' = raftq \cup {SubSeq(g, 1, n)} /\ reply' = reply
      /\ groups' = [groups EXCEPT ![k] = SubSeq(g, n + 1, Len(g))] /\ pending' = pending - n
      /\ UNCHANGED <<mode, inbox, prio, expired, batches, flushing, raftUp>>
  <2>1. /\ raftUp /\ SendToRaft(SubSeq(g, 1, n))
        /\ groups' = [groups EXCEPT ![k] = SubSeq(g, n + 1, Len(g))] /\ pending' = pending - n
        /\ UNCHANGED <<mode, inbox, prio, expired, batches, flushing, raftUp>>
    BY <1>1, <1>2 DEF ProcessGroup
  <2>2. n > 0
    OBVIOUS
  <2>. QED
    BY <2>1, <2>2 DEF SendToRaft
<1>4. 0 < n /\ n <= Len(g) /\ n \in Int /\ g # << >>
  BY <1>1, <1>2, <1>3
<1>. DEFINE f == SubSeq(g, 1, n)  r == SubSeq(g, n + 1, Len(g))
<1>5. /\ f \in Seq(Proposal) /\ r \in Seq(Proposal) /\ Rising(r)
      /\ Elems(f) \subseteq Elems(g) /\ Elems(r) = Elems(g) \ Elems(f)
  BY <1>1, <1>4, CutRises
<1>. HIDE DEF f, r
<1>6. PICK front \in Seq(Proposal) : front = f
  BY <1>5
<1>7. PICK rest \in Seq(Proposal) : rest = r /\ Rising(rest)
  BY <1>5
<1>8. PICK X : X = Elems(front)
  OBVIOUS
<1>9. /\ X \subseteq Elems(groups[k]) /\ Elems(rest) = Elems(groups[k]) \ X /\ groups[k] # << >>
      /\ groups' = [groups EXCEPT ![k] = rest] /\ raftq' = raftq \cup {front}
  BY <1>1, <1>3, <1>4, <1>5, <1>6, <1>7, <1>8 DEF f, r
<1>10. /\ mode = "streaming"
       /\ InboxInv' /\ BatchInv' /\ FlushInv' /\ GroupInv' /\ OwnMode'
       /\ groups' \in [0..3 -> Seq(Proposal)]
       /\ X \subseteq Queued /\ Queued' = Queued \ X
  <2>1. UNCHANGED <<mode, prio, inbox, batches, flushing>> /\ X \subseteq Elems(groups[k])
    BY <1>3, <1>9
  <2>2. Elems(rest) = Elems(groups[k]) \ X /\ groups[k] # << >> /\ Rising(rest)
    BY <1>7, <1>9
  <2>3. groups' = [groups EXCEPT ![k] = rest]
    BY <1>9
  <2>. QED
    BY <2>1, <2>2, <2>3, GroupShrinks, ZenonT(30)
<1>11. CountInv' /\ OrderStep
  BY <1>3, <1>10 DEF CountInv, OrderStep
<1>12. BatchTypes'
  <2>1. pending' \in Int /\ raftq' \subseteq Seq(Proposal)
    <3>1. pending' = pending - n /\ pending \in Int /\ raftq \subseteq Seq(Proposal)
      BY <1>0, <1>3 DEF BatchTypes
    <3>2. raftq' = raftq \cup {front}
      BY <1>9
    <3>. QED
      BY <3>1, <3>2
  <2>2. UNCHANGED <<mode, inbox, prio, expired, batches, flushing, raftUp, reply>>
    BY <1>3
  <2>. QED
    BY <1>0, <1>10, <2>1, <2>2 DEF BatchTypes, Prios
<1>13. Moves
  <2>1. Hands(front)
    BY <1>3, <1>8, <1>9, <1>10 DEF Hands
  <2>. QED
    BY <2>1 DEF Moves
<1>. QED
  BY <1>10, <1>11, <1>12, <1>13 DEF StepKeeps

LEMMA CollectChunkKeeps ==
    ASSUME ProcessorInv, CollectChunk
    PROVE  StepKeeps
<1>0. /\ mode = "streaming" /\ inbox' = << >> /\ \A k \in 0..3 : groups[k] = << >>
      /\ groups' = [k \in 0..3 |-> Only(inbox, {p \in DOMAIN prio : prio[p] = k})]
      /\ UNCHANGED <<mode, prio, expired, batches, flushing, pending, raftUp, raftq, reply>>
  BY DEF CollectChunk, Idle
<1>1. BatchTypes /\ InboxInv /\ BatchInv /\ FlushInv /\ OwnMode
  BY DEF ProcessorInv
<1>2. Elems(<< >>) = {} /\ << >> \in Seq(Proposal) /\ Rising(<< >>)
  BY DEF Elems, Rising
<1>3. PICK s \in Seq(Proposal) : s = inbox /\ Rising(s)
  BY <1>1 DEF BatchTypes, InboxInv
<1>4. ASSUME NEW k \in 0..3
      PROVE  /\ groups'[k] \in Seq(Proposal) /\ Rising(groups'[k])
             /\ Elems(groups'[k]) = {p \in Elems(s) : p \in DOMAIN prio /\ prio[p] = k}
  <2>1. PICK S : S = {p \in DOMAIN prio : prio[p] = k}
    OBVIOUS
  <2>2. groups'[k] = Only(s, S)
    BY <1>0, <1>3, <2>1
  <2>3. Only(s, S) \in Seq(Proposal) /\ Rising(Only(s, S)) /\ Elems(Only(s, S)) = Elems(s) \cap S
    BY <1>3, SelectionRises
  <2>. QED
    BY <2>1, <2>2, <2>3
<1>5. groups' \in [0..3 -> Seq(Proposal)]
  <2>. DEFINE G(k) == Only(inbox, {p \in DOMAIN prio : prio[p] = k})
  <2>1. \A k \in 0..3 : groups'[k] = G(k)
    BY <1>0
  <2>2. \A k \in 0..3 : G(k) \in Seq(Proposal)
    BY <1>4, <2>1
  <2>3. groups' = [k \in 0..3 |-> G(k)]
    BY <1>0
  <2>. HIDE DEF G
  <2>. QED
    BY <2>2, <2>3
<1>6. \A p \in Elems(s) : p \in DOMAIN prio /\ prio[p] \in 0..3
  <2>1. \A p \in Elems(s) : p \in Proposal /\ p <= Len(prio)
    BY <1>1, <1>3, ElemsFacts DEF InboxInv
  <2>. QED
    BY <1>1, <2>1, PrioOf DEF BatchTypes
<1>7. Grouped' = Elems(s) /\ Grouped = {}
  <2>1. Grouped' = UNION {Elems(groups'[k]) : k \in 0..3}
    BY DEF Grouped
  <2>2. \A p : p \in Grouped' <=> p \in Elems(s)
    BY <1>4, <1>6, <2>1
  <2>3. Grouped = {}
    BY <1>0, <1>2 DEF Grouped
  <2>. QED
    BY <2>2, <2>3
<1>8. Held' = Held /\ Batched' = Batched /\ InFlight' = InFlight /\ Elems(inbox') = {}
  BY <1>0, <1>2 DEF Held, Batched, InFlight
<1>9. Queued' = Queued
  <2>1. Queued = Elems(inbox) \cup Held \cup Grouped /\ Queued' = Elems(inbox') \cup Held' \cup Grouped'
    BY DEF Queued, Held
  <2>. QED
    BY <1>3, <1>7, <1>8, <2>1
<1>10. InboxInv'
  BY <1>0, <1>2, <1>8 DEF InboxInv
<1>11. BatchInv' /\ FlushInv' /\ OwnMode'
  BY <1>0, <1>1, <1>8 DEF BatchInv, FlushInv, TakesAll, OwnMode
<1>12. GroupInv'
  BY <1>4 DEF GroupInv
<1>13. CountInv' /\ OrderStep
  BY <1>0 DEF CountInv, OrderStep
<1>14. BatchTypes'
  BY <1>0, <1>1, <1>2, <1>5 DEF BatchTypes, Prios
<1>15. Moves
  BY <1>0, <1>9 DEF Moves, Stays
<1>. QED
  BY <1>10, <1>11, <1>12, <1>13, <1>14, <1>15 DEF StepKeeps

(* Batched proposals are answered and forgotten, the rest stays held.      *)
LEMMA ExpiryKeeps ==
    ASSUME ProcessorInv, NEW X, NEW what \in {"timeout", "dropped"}, X \subseteq Held, Held' = Held \ X,
           reply' = Told(X, what), batches' \in Seq(Batch), BatchInv', FlushInv', OwnMode',
           flushing' \subseteq Seq(Proposal),
           UNCHANGED <<mode, inbox, prio, expired, groups, pending, raftUp, raftq>>
    PROVE  StepKeeps
<1>1. BatchTypes /\ PipeInv /\ CountInv
  BY DEF ProcessorInv
<1>2. InboxInv' /\ GroupInv' /\ Queued' = Queued \ X /\ X \subseteq Queued
  BY RemovalKeeps
<1>3. /\ Queued \subseteq Proposal /\ \A p \in Queued : reply[p] = "none"
      /\ Held \subseteq Proposal /\ Leaked \subseteq Proposal /\ Held \cap Leaked = {}
  BY ApartFacts
<1>4. what \in Replies /\ what \in Refusals
  BY DEF Replies, Refusals
<1>5. BatchTypes'
  <2>1. reply' \in [Proposal -> Replies]
    BY <1>1, <1>4, ToldTypes
  <2>. QED
    BY <1>1, <2>1 DEF BatchTypes, Prios
<1>6. CountInv'
  <2>1. Leaked' = Leaked \cup X
    <3>1. \A p \in X : p \in Proposal /\ reply[p] = "none"
      BY <1>2, <1>3
    <3>. QED
      BY <1>1, <3>1, LeakFacts
  <2>. QED
    BY <1>1, <1>3, <2>1, LapseCounts
<1>7. Moves
  <2>1. Refuses(X, what)
    BY <1>2, <1>4 DEF Refuses
  <2>. QED
    BY <2>1 DEF Moves
<1>8. OrderStep
  BY DEF OrderStep
<1>. QED
  BY <1>2, <1>5, <1>6, <1>7, <1>8 DEF StepKeeps

LEMMA FlushReadyKeeps ==
    ASSUME ProcessorInv, FlushReady
    PROVE  StepKeeps
<1>1. BatchTypes /\ BatchInv /\ FlushInv
  BY DEF ProcessorInv
<1>2. PICK bs \in Seq(Batch) : bs = batches
  BY <1>1 DEF BatchTypes
<1>. DEFINE cs == KeptBatches(bs)
<1>3. /\ mode = "traditional" /\ flushing = {} /\ flushing' = ReadyBatches(bs)
      /\ batches' = CleanedBatches(cs)
      /\ reply' = Told(UNION {ExpiredOf(cs[i]) : i \in DOMAIN cs}, "timeout")
      /\ UNCHANGED <<mode, inbox, prio, expired, groups, pending, raftUp, raftq>>
  BY <1>2 DEF FlushReady, Idle, ReadyBatches, CleanedBatches, KeptBatches
<1>4. PICK pr : pr = prio
  OBVIOUS
<1>5. Tidy(bs, pr) /\ Prios
  BY <1>1, <1>2, <1>4 DEF BatchInv, BatchTypes
<1>6. /\ cs \in Seq(Batch) /\ Tidy(cs, pr) /\ InBatches(cs) \subseteq InBatches(bs)
      /\ Contents(ReadyBatches(bs)) = InBatches(bs) \ InBatches(cs)
      /\ Scattered(ReadyBatches(bs))
      /\ \A b \in ReadyBatches(bs) : \E i \in 1..Len(bs) : b = bs[i].items
  BY <1>5, KeptFacts
<1>. HIDE DEF cs
<1>7. PICK ds \in Seq(Batch) : ds = cs
  BY <1>6
<1>8. /\ CleanedBatches(ds) \in Seq(Batch) /\ Tidy(CleanedBatches(ds), prio)
      /\ InBatches(CleanedBatches(ds)) = InBatches(ds) \ expired
      /\ UNION {ExpiredOf(ds[i]) : i \in DOMAIN ds} = InBatches(ds) \cap expired
  <2>1. Tidy(ds, prio)
    BY <1>4, <1>6, <1>7
  <2>. QED
    BY <1>5, <2>1, CleanedFacts
<1>. DEFINE X == InBatches(ds) \cap expired
<1>9. /\ Batched = InBatches(bs) /\ Batched' = InBatches(ds) \ expired
      /\ InFlight = {} /\ InFlight' = InBatches(bs) \ InBatches(ds)
  <2>1. InFlight = {}
    BY <1>3 DEF InFlight
  <2>2. Batched = InBatches(batches) /\ Batched' = InBatches(batches') /\ InFlight' = Contents(flushing')
    BY PlaceFacts
  <2>3. batches' = CleanedBatches(ds) /\ flushing' = ReadyBatches(bs)
    BY <1>3, <1>7
  <2>. QED
    <3>1. Batched = InBatches(bs)
      BY <1>2, <2>2
    <3>2. Batched' = InBatches(ds) \ expired
      BY <1>8, <2>2, <2>3
    <3>3. InFlight' = InBatches(bs) \ InBatches(cs)
      BY <1>6, <2>2, <2>3
    <3>4. InBatches(cs) = InBatches(ds)
      BY <1>7
    <3>. QED
      BY <2>1, <3>1, <3>2, <3>3, <3>4
<1>10. Held = InBatches(bs) /\ X \subseteq Held /\ Held' = Held \ X
  <2>1. Held = Batched \cup InFlight /\ Held' = Batched' \cup InFlight'
    BY DEF Held
  <2>. QED
    BY <1>6, <1>7, <1>9, <2>1
<1>11. reply' = Told(X, "timeout")
  <2>1. reply' = Told(UNION {ExpiredOf(ds[i]) : i \in DOMAIN ds}, "timeout")
    BY <1>3, <1>7, Zenon
  <2>. QED
    BY <1>8, <2>1
<1>12. batches' \in Seq(Batch) /\ BatchInv'
  BY <1>3, <1>4, <1>7, <1>8 DEF BatchInv
<1>13. OwnMode'
  BY <1>3 DEF ProcessorInv, OwnMode
<1>14. ASSUME NEW b \in flushing' PROVE b \in Seq(Proposal) /\ Rising(b) /\ TakesAll(b)'
  <2>1. PICK i \in 1..Len(bs) : b = bs[i].items
    BY <1>3, <1>6
  <2>2. b \in Seq(Proposal) /\ Rising(b)
    BY <1>5, <2>1, InBatchesFacts DEF Tidy, Sound
  <2>3. ASSUME NEW x \in Elems(b), NEW q \in Held', q \notin Elems(b), prio[x] > 1
        PROVE  prio[q] # prio[x]
    <3>1. q \in InBatches(bs) /\ Tidy(bs, prio)
      BY <1>4, <1>5, <1>10, <2>3
    <3>. QED
      BY <1>5, <2>1, <2>3, <3>1, UrgentAlone
  <2>. QED
    BY <1>3, <2>2, <2>3 DEF TakesAll
<1>15. FlushInv' /\ flushing' \subseteq Seq(Proposal)
  BY <1>3, <1>6, <1>9, <1>14 DEF FlushInv
<1>. HIDE DEF X
<1>16. PICK S : S = X
  OBVIOUS
<1>. QED
  BY <1>3, <1>10, <1>11, <1>12, <1>13, <1>15, <1>16, ExpiryKeeps

LEMMA CleanupKeeps ==
    ASSUME ProcessorInv, Cleanup
    PROVE  StepKeeps
<1>1. BatchTypes /\ BatchInv /\ FlushInv /\ OwnMode
  BY DEF ProcessorInv
<1>2. PICK bs \in Seq(Batch) : bs = batches
  BY <1>1 DEF BatchTypes
<1>3. /\ batches' = CleanedBatches(bs)
      /\ reply' = Told(UNION {ExpiredOf(bs[i]) : i \in DOMAIN bs}, "dropped")
      /\ UNCHANGED <<mode, inbox, prio, expired, groups, flushing, pending, raftUp, raftq>>
  BY <1>2 DEF Cleanup, CleanedBatches
<1>4. /\ CleanedBatches(bs) \in Seq(Batch) /\ Tidy(CleanedBatches(bs), prio)
      /\ InBatches(CleanedBatches(bs)) = InBatches(bs) \ expired
      /\ UNION {ExpiredOf(bs[i]) : i \in DOMAIN bs} = InBatches(bs) \cap expired
  <2>1. Tidy(bs, prio) /\ Prios
    BY <1>1, <1>2 DEF BatchInv, BatchTypes
  <2>. QED
    BY <2>1, CleanedFacts
<1>. DEFINE X == InBatches(bs) \cap expired
<1>5. /\ Batched = InBatches(bs) /\ Batched' = Batched \ X /\ InFlight' = InFlight
  BY <1>2, <1>3, <1>4, PlaceFacts
<1>6. X \subseteq Held /\ Held' = Held \ X
  <2>1. Batched \cap InFlight = {}
    BY <1>1 DEF FlushInv
  <2>2. Held = Batched \cup InFlight /\ Held' = Batched' \cup InFlight'
    BY DEF Held
  <2>. QED
    BY <1>5, <2>1, <2>2
<1>7. batches' \in Seq(Batch) /\ BatchInv'
  BY <1>3, <1>4 DEF BatchInv
<1>8. FlushInv' /\ flushing' \subseteq Seq(Proposal)
  <2>1. \A b \in flushing : Rising(b) /\ TakesAll(b)'
    BY <1>1, <1>3, <1>6 DEF FlushInv, TakesAll
  <2>. QED
    BY <1>1, <1>3, <1>5, <2>1 DEF FlushInv, BatchTypes
<1>9. OwnMode'
  <2>1. ASSUME batches = << >> PROVE batches' = << >>
    <3>1. DOMAIN batches' = {}
      BY <1>2, <1>3, <2>1 DEF CleanedBatches
    <3>. QED
      BY <1>7, <3>1
  <2>. QED
    BY <1>1, <1>3, <2>1 DEF OwnMode
<1>10. reply' = Told(X, "dropped")
  BY <1>3, <1>4
<1>. HIDE DEF X
<1>11. PICK S : S = X
  OBVIOUS
<1>. QED
  BY <1>3, <1>6, <1>7, <1>8, <1>9, <1>10, <1>11, ExpiryKeeps

LEMMA AddKeeps ==
    ASSUME ProcessorInv, NEW large \in BOOLEAN, AddToPriorityBatch(large)
    PROVE  StepKeeps
<1>1. BatchTypes /\ PipeInv /\ InboxInv /\ BatchInv /\ CountInv /\ Prios
  BY DEF ProcessorInv, BatchTypes
<1>. DEFINE same == {i \in DOMAIN batches : batches[i].label = prio[Head(inbox)]}
            all0 == IF same = {} THEN Append(batches, NewBatch) ELSE batches
            at0 == IF same = {} THEN Len(all0) ELSE Lowest(same)
            grown0 == AddTo(all0[at0], Head(inbox))
<1>5. /\ mode = "traditional" /\ Idle /\ inbox # << >> /\ pending < MaxPending
      /\ pending' = pending + 1 /\ inbox' = Tail(inbox)
      /\ IF ShouldFlush(grown0, large)
         THEN batches' = Without(all0, at0) /\ flushing' = {grown0.items}
         ELSE batches' = [all0 EXCEPT ![at0] = grown0] /\ UNCHANGED flushing
      /\ UNCHANGED <<mode, prio, expired, groups, raftUp, raftq, reply>>
  <2>1. pending \in Int /\ MaxPending \in Nat
    BY <1>1, BatchAssumption DEF BatchTypes
  <2>2. ~Full => pending < MaxPending
    BY <2>1 DEF Full
  <2>. HIDE DEF same
  <2>3. /\ mode = "traditional" /\ Idle /\ inbox # << >> /\ ~Full
        /\ pending' = pending + 1 /\ inbox' = Tail(inbox)
        /\ UNCHANGED <<mode, prio, expired, groups, raftUp, raftq, reply>>
    BY DEF AddToPriorityBatch
  <2>4. IF ShouldFlush(grown0, large)
        THEN batches' = Without(all0, at0) /\ flushing' = {grown0.items}
        ELSE batches' = [all0 EXCEPT ![at0] = grown0] /\ UNCHANGED flushing
    BY Zenon DEF AddToPriorityBatch, same, Lowest
  <2>. QED
    BY <2>2, <2>3, <2>4
<1>2. PICK bs \in Seq(Batch) : bs = batches
  BY <1>1 DEF BatchTypes
<1>3. PICK p : p = Head(inbox)
  OBVIOUS
<1>4. PICK S : S = same
  OBVIOUS
<1>4a. S = {i \in DOMAIN bs : bs[i].label = prio[p]}
  BY <1>2, <1>3, <1>4, Zenon
<1>. HIDE DEF same
<1>4b. PICK all : all = IF S = {} THEN Append(bs, NewBatch) ELSE bs
  OBVIOUS
<1>4c. all = all0
  BY <1>2, <1>4, <1>4b
<1>. HIDE DEF all0
<1>4d. PICK at : at = at0
  OBVIOUS
<1>4e. at = IF S = {} THEN Len(all) ELSE Lowest(S)
  <2>1. at0 = IF S = {} THEN Len(all) ELSE Lowest(S)
    <3>. HIDE DEF at0
    <3>1. CASE S = {}
      BY <1>4, <1>4c, <3>1, Zenon DEF at0
    <3>2. CASE S # {}
      BY <1>4, <1>4c, <3>2, Zenon DEF at0
    <3>. QED
      BY <3>1, <3>2, Zenon
  <2>. QED
    BY <1>4d, <2>1, Zenon
<1>. HIDE DEF at0
<1>4f. PICK grown : grown = AddTo(all[at], p)
  OBVIOUS
<1>4g. grown = grown0
  BY <1>3, <1>4c, <1>4d, <1>4f, Zenon
<1>. HIDE DEF grown0
<1>5a. IF ShouldFlush(grown, large)
       THEN batches' = Without(all, at) /\ flushing' = {grown.items}
       ELSE batches' = [all EXCEPT ![at] = grown] /\ UNCHANGED flushing
  BY <1>4c, <1>4d, <1>4g, <1>5, Zenon
<1>6. PICK s \in Seq(Proposal) : s = inbox /\ Rising(s) /\ s # << >> /\ p = Head(s) /\ inbox' = Tail(s)
  BY <1>1, <1>3, <1>5 DEF BatchTypes, InboxInv
<1>7. /\ p \in Proposal /\ p \in Elems(s) /\ inbox' \in Seq(Proposal)
      /\ Rising(inbox') /\ Elems(inbox') = Elems(s) \ {p}
      /\ \A q \in Elems(inbox') : p < q
  BY <1>6, TailRises
<1>8. /\ Held = Batched \cup InFlight /\ Elders = Held \cup Grouped /\ InFlight = {} /\ Grouped = {}
      /\ Queued = Elems(s) \cup Held
      /\ Held \subseteq Proposal /\ Leaked \subseteq Proposal /\ Elems(s) \cap Held = {}
  <2>1. InFlight = {} /\ Grouped = {}
    <3>1. Elems(<< >>) = {}
      BY DEF Elems
    <3>. QED
      BY <1>5, <3>1 DEF Idle, InFlight, Grouped
  <2>. QED
    BY <1>6, <2>1, ApartFacts
<1>9. Batched = InBatches(bs) /\ Held = InBatches(bs)
  BY <1>2, <1>8, PlaceFacts
<1>10. p <= Len(prio) /\ (\A q \in InBatches(bs) : q < p) /\ \A q \in Elems(inbox') : q <= Len(prio)
  BY <1>1, <1>6, <1>7, <1>8, <1>9 DEF InboxInv
<1>11. Chosen(bs, all, at, p)
  <2>2. Tidy(bs, prio)
    BY <1>1, <1>2 DEF BatchInv
  <2>3. CASE S = {}
    <3>1. all = Append(bs, NewBatch) /\ at = Len(Append(bs, NewBatch)) /\ {i \in DOMAIN bs : bs[i].label = prio[p]} = {}
      BY <1>4a, <1>4b, <1>4e, <2>3
    <3>2. Chosen(bs, Append(bs, NewBatch), Len(Append(bs, NewBatch)), p)
      BY <1>1, <2>2, <3>1, NewBatchIsChosen
    <3>. QED
      BY <3>1, <3>2
  <2>4. CASE S # {}
    <3>1. all = bs /\ at = Lowest(S)
      BY <1>4b, <1>4e, <2>4
    <3>2. Chosen(bs, bs, Lowest(S), p)
      BY <1>1, <1>4a, <2>2, <2>4, OldBatchIsChosen
    <3>. QED
      BY <3>1, <3>2
  <2>. QED
    BY <2>3, <2>4
<1>12. Added(bs, all, at, p, grown)
  <2>1. Added(bs, all, at, p, AddTo(all[at], p))
    BY <1>1, <1>7, <1>10, <1>11, AddFacts
  <2>. QED
    BY <1>4f, <2>1
<1>14. PICK X : X = Elems(all[at].items)
  OBVIOUS
<1>15. PICK items \in Seq(Proposal) : items = grown.items /\ Rising(items) /\ Elems(items) = X \cup {p}
  BY <1>12, <1>14 DEF Added
<1>16. X \subseteq InBatches(bs) /\ p \notin InBatches(bs)
  BY <1>7, <1>8, <1>9, <1>12, <1>14 DEF Added
<1>17. \A x \in Elems(items), q \in InBatches(bs) : q \notin Elems(items) /\ prio[x] > 1 => prio[q] # prio[x]
  BY <1>12, <1>15 DEF Added
<1>18. /\ batches' \in Seq(Batch) /\ Tidy(batches', prio)
       /\ \/ InBatches(batches') = InBatches(bs) \cup {p} /\ flushing' = {}
          \/ InBatches(batches') = InBatches(bs) \ X /\ flushing' = {items}
  <2>1. CASE ShouldFlush(grown, large)
    <3>1. batches' = Without(all, at) /\ flushing' = {items}
      BY <1>5a, <1>15, <2>1
    <3>. QED
      BY <1>12, <1>14, <3>1 DEF Added
  <2>2. CASE ~ShouldFlush(grown, large)
    <3>1. batches' = [all EXCEPT ![at] = grown] /\ flushing' = {}
      BY <1>5, <1>5a, <2>2 DEF Idle
    <3>. QED
      BY <1>12, <3>1 DEF Added
  <2>. QED
    BY <2>1, <2>2
<1>19. \/ Batched' = InBatches(bs) \cup {p} /\ InFlight' = {} /\ flushing' = {}
       \/ Batched' = InBatches(bs) \ X /\ InFlight' = X \cup {p} /\ flushing' = {items}
  <2>1. Batched' = InBatches(batches')
    BY PlaceFacts
  <2>2. flushing' = {} => InFlight' = {}
    BY DEF InFlight
  <2>3. flushing' = {items} => InFlight' = X \cup {p}
    BY <1>15 DEF InFlight
  <2>. QED
    BY <1>18, <2>1, <2>2, <2>3
<1>20. Held' = Held \cup {p} /\ Elders' = Held \cup {p} /\ Grouped' = {} /\ Queued' = Queued
  <2>1. Held' = Batched' \cup InFlight' /\ Elders' = Held' \cup Grouped'
        /\ Queued' = Elems(inbox') \cup Held' \cup Grouped'
    BY DEF Held, Elders, Queued
  <2>2. Grouped' = Grouped
    BY <1>5 DEF Grouped
  <2>3. Held' = Held \cup {p}
    BY <1>9, <1>16, <1>19, <2>1
  <2>. QED
    BY <1>7, <1>8, <2>1, <2>2, <2>3
<1>21. InboxInv'
  <2>1. \A q \in Elems(inbox') : \A e \in Elders' : e < q
    <3>1. ASSUME NEW q \in Elems(inbox'), NEW e \in Held PROVE e < q
      BY <1>1, <1>6, <1>7, <1>8, <3>1 DEF InboxInv
    <3>. QED
      BY <1>7, <1>20, <3>1
  <2>. QED
    BY <1>5, <1>7, <1>10, <2>1 DEF InboxInv
<1>22. BatchInv'
  BY <1>5, <1>18 DEF BatchInv
<1>23. FlushInv'
  <2>1. CASE flushing' = {}
    BY <1>7, <1>19, <2>1 DEF FlushInv, Scattered
  <2>2. CASE flushing' = {items}
    <3>1. Batched' \cap InFlight' = {}
      BY <1>16, <1>19, <2>2
    <3>2. TakesAll(items)'
      <4>1. ASSUME NEW x \in Elems(items), NEW q \in Held', q \notin Elems(items), prio[x] > 1
            PROVE  prio[q] # prio[x]
        <5>1. q \in InBatches(bs)
          BY <1>9, <1>15, <1>20, <4>1
        <5>. QED
          BY <1>17, <4>1, <5>1
      <4>. QED
        BY <1>5, <4>1 DEF TakesAll
    <3>. QED
      BY <1>15, <2>2, <3>1, <3>2 DEF FlushInv, Scattered
  <2>. QED
    BY <1>18, <2>1, <2>2
<1>24. GroupInv' /\ OwnMode'
  BY <1>5 DEF ProcessorInv, GroupInv, OwnMode
<1>25. CountInv'
  <2>1. Leaked' = Leaked
    BY <1>5 DEF Leaked
  <2>2. pending \in Int /\ MaxPending \in Nat
    BY <1>1, BatchAssumption DEF BatchTypes
  <2>3. p \notin Held
    BY <1>7, <1>8
  <2>. QED
    BY <1>1, <1>5, <1>7, <1>8, <1>20, <2>1, <2>2, <2>3, JoinCounts
<1>26. BatchTypes'
  <2>1. flushing' \subseteq Seq(Proposal)
    BY <1>15, <1>19
  <2>. QED
    BY <1>1, <1>5, <1>7, <1>18, <2>1 DEF BatchTypes, Prios
<1>27. Moves
  BY <1>5, <1>20 DEF Moves, Stays
<1>28. OrderStep
  BY <1>5 DEF OrderStep
<1>. QED
  BY <1>21, <1>22, <1>23, <1>24, <1>25, <1>26, <1>27, <1>28 DEF StepKeeps

LEMMA InitKeeps == Init => ProcessorInv
<1>. SUFFICES ASSUME Init PROVE ProcessorInv
  OBVIOUS
<1>1. Elems(<< >>) = {} /\ << >> \in Seq(Proposal) /\ << >> \in Seq(Batch) /\ Rising(<< >>) /\ Len(<< >>) = 0
  BY DEF Elems, Rising
<1>2. Held = {} /\ Grouped = {} /\ Batched = {} /\ InFlight = {} /\ Elders = {} /\ Queued = {} /\ WithRaft = {}
  <2>1. Batched = {} /\ InFlight = {} /\ WithRaft = {}
    BY DEF Init, Batched, InFlight, WithRaft
  <2>2. Grouped = {}
    BY <1>1 DEF Init, Grouped
  <2>. QED
    BY <1>1, <2>1, <2>2 DEF Init, Held, Elders, Queued
<1>3. BatchTypes
  <2>1. Prios
    BY <1>1, BatchAssumption DEF Init, Prios
  <2>2. reply \in [Proposal -> Replies]
    BY DEF Init, Replies
  <2>. QED
    BY <1>1, <2>1, <2>2 DEF Init, BatchTypes
<1>4. PipeInv
  BY <1>2 DEF Init, PipeInv, Scattered
<1>5. InboxInv
  BY <1>1 DEF Init, InboxInv
<1>6. BatchInv
  BY <1>1 DEF Init, BatchInv, Tidy
<1>7. FlushInv
  BY <1>2 DEF Init, FlushInv, Scattered
<1>8. GroupInv /\ OwnMode
  BY <1>1 DEF Init, GroupInv, OwnMode
<1>9. CountInv
  <2>1. Leaked = {}
    BY DEF Init, Leaked
  <2>2. pending = 0 /\ MaxPending \in Nat
    BY BatchAssumption DEF Init
  <2>. QED
    BY <1>2, <2>1, <2>2, FS_EmptySet DEF CountInv
<1>. QED
  BY <1>3, <1>4, <1>5, <1>6, <1>7, <1>8, <1>9 DEF ProcessorInv

(* One step per action of Next.                                            *)
LEMMA NextKeeps ==
    ASSUME ProcessorInv, [Next]_vars
    PROVE  StepKeeps
<1>1. ASSUME NEW k \in Priorities, Submit(k) PROVE StepKeeps
  BY <1>1, SubmitKeeps
<1>2. ASSUME NEW p \in Proposal, Expire(p) PROVE StepKeeps
  BY <1>2, ExpireKeeps
<1>3. ASSUME NEW i \in DOMAIN batches, GrowOld(i) PROVE StepKeeps
  BY <1>3, GrowOldKeeps
<1>4. ASSUME NEW b \in raftq, RaftAnswers(b) PROVE StepKeeps
  BY <1>4, RaftAnswersKeeps
<1>5. CASE RaftEnds
  BY <1>5, RaftEndsKeeps
<1>6. CASE Cleanup
  BY <1>6, CleanupKeeps
<1>7. CASE RefuseProposal
  BY <1>7, RefuseProposalKeeps
<1>8. ASSUME NEW large \in BOOLEAN, AddToPriorityBatch(large) PROVE StepKeeps
  BY <1>8, AddKeeps
<1>9. CASE FlushReady
  BY <1>9, FlushReadyKeeps
<1>10. ASSUME NEW b \in flushing, ProcessBatch(b) PROVE StepKeeps
  BY <1>10, ProcessBatchKeeps
<1>11. CASE CollectChunk
  BY <1>11, CollectChunkKeeps
<1>12. CASE Passthrough
  BY <1>12, PassthroughKeeps
<1>13. ASSUME NEW k \in 0..3, DropGroup(k) PROVE StepKeeps
  BY <1>13, DropGroupKeeps
<1>14. ASSUME NEW k \in 0..3, NEW size \in OptimalSizes, ProcessGroup(k, size) PROVE StepKeeps
  <2>1. size \in Nat
    BY BatchAssumption DEF OptimalSizes
  <2>. QED
    BY <1>14, <2>1, ProcessGroupKeeps
<1>15. CASE UNCHANGED vars
  BY <1>15, StutterKeeps
<1>. QED
  BY <1>1, <1>2, <1>3, <1>4, <1>5, <1>6, <1>7, <1>8, <1>9, <1>10, <1>11, <1>12, <1>13, <1>14, <1>15
     DEF Next, Processor

LEMMA StepInv ==
    ASSUME ProcessorInv, [Next]_vars
    PROVE  ProcessorInv'
<1>1. StepKeeps
  BY NextKeeps
<1>2. PipeInv'
  BY <1>1, MovesKeepPipeInv DEF StepKeeps, ProcessorInv
<1>. QED
  BY <1>1, <1>2 DEF StepKeeps, ProcessorInv

(* The inductive invariant holds in every reachable state of the           *)
(* processor, in each of its modes.                                        *)
THEOREM ProcessorStaysSound == Spec => []ProcessorInv
  BY InitKeeps, StepInv, PTL DEF Spec

(* Channel, batches, groups and replies keep the shapes the handlers rely  *)
(* on.                                                                     *)
THEOREM TypeCorrect == Spec => []BatchTypes
<1>1. ProcessorInv => BatchTypes
  BY DEF ProcessorInv
<1>. QED
  BY <1>1, ProcessorStaysSound, PTL

(* pending_proposals is always what is batched or being sent plus what     *)
(* expired or met a closed raft channel: it leaks by exactly these, for    *)
(* any limits and any number of proposals.                                 *)
THEOREM AccountIsKept == Spec => []PendingIsAccounted
<1>1. ProcessorInv => PendingIsAccounted
  BY DEF ProcessorInv, CountInv, PendingIsAccounted, Held, Leaked
<1>. QED
  BY <1>1, ProcessorStaysSound, PTL

(* However proposals expire, are cleaned up or fail to be sent, no more    *)
(* than max_pending_proposals are in the batches.                          *)
THEOREM LimitIsKept == Spec => []LimitHolds
<1>1. ProcessorInv => LimitHolds
  <2>1. SUFFICES ASSUME ProcessorInv, mode = "traditional" PROVE Cardinality(Held) <= MaxPending
    BY DEF LimitHolds, Held
  <2>2. Cardinality(Held) \in Nat /\ Cardinality(Leaked) \in Nat
    BY <2>1, ApartFacts, ProposalsAreFinite
  <2>3. pending = Cardinality(Held) + Cardinality(Leaked) /\ pending <= MaxPending /\ MaxPending \in Nat
    BY <2>1, BatchAssumption DEF ProcessorInv, CountInv
  <2>. QED
    BY <2>2, <2>3
<1>. QED
  BY <1>1, ProcessorStaysSound, PTL

(* No proposal waits under a label below its own priority, so should_flush *)
(* never gives it a longer timeout than its own.                           *)
THEOREM UrgentStaysLabelled == Spec => []UrgentIsLabelled
<1>1. ProcessorInv => UrgentIsLabelled
  <2>1. SUFFICES ASSUME ProcessorInv PROVE UrgentIsLabelled
    OBVIOUS
  <2>2. DOMAIN batches = 1..Len(batches)
    BY <2>1, LenProperties DEF ProcessorInv, BatchTypes
  <2>. QED
    BY <2>1, <2>2 DEF ProcessorInv, BatchInv, Tidy, Sound, UrgentIsLabelled
<1>. QED
  BY <1>1, ProcessorStaysSound, PTL

(* Traditional mode hands proposals of one priority above Normal to the    *)
(* raft task in the order their clients sent them, and a flushed batch     *)
(* leaves no elder of its members behind.                                  *)
THEOREM OrderIsKept == Spec => KeepsOrder
<1>1. ProcessorInv /\ [Next]_vars => [mode = "traditional" => \A b \in raftq' \ raftq : InOrder(b)]_vars
  BY NextKeeps DEF StepKeeps, OrderStep
<1>. QED
  BY <1>1, ProcessorStaysSound, PTL DEF Spec, KeepsOrder

(* In all three modes the stage implements ProposalPipe: a proposal whose  *)
(* client was refused, timed out or dropped is never sent, and none is     *)
(* sent twice.                                                             *)
THEOREM PipeIsRefined == Spec => RefinesPipe
<1>1. Init => Pipe!PipeInit
  <2>1. SUFFICES ASSUME Init PROVE Fates = [p \in Proposal |-> "new"]
    BY DEF Pipe!PipeInit, Fates
  <2>2. \A p \in Proposal : p > 0
    BY ProposalIsInt
  <2>3. WithRaft = {} /\ Len(prio) = 0 /\ \A p \in Proposal : reply[p] = "none"
    <3>1. Len(<< >>) = 0
      OBVIOUS
    <3>. QED
      BY <2>1, <3>1 DEF Init, WithRaft
  <2>4. \A p \in Proposal : FateOf(p) = "new"
    <3>1. \A p \in Proposal : p \notin WithRaft /\ reply[p] = "none" /\ p > Len(prio)
      BY <2>2, <2>3
    <3>2. FateRules
      BY FatesAreRuled
    <3>. QED
      BY <3>1, <3>2 DEF FateRules
  <2>. QED
    BY <2>4 DEF Fates
<1>2. ProcessorInv /\ [Next]_vars => [Pipe!PipeNext]_Fates
  BY NextKeeps, MovesRefinePipe DEF StepKeeps, ProcessorInv
<1>3. ProcessorInv /\ [Next]_vars => [Pipe!PipeNext]_[p \in Proposal |-> FateOf(p)]
  BY <1>2 DEF Fates
<1>. QED
  BY <1>1, <1>3, ProcessorStaysSound, PTL DEF Spec, RefinesPipe, Pipe!PipeSpec
===========================================================================
