-------------------------- MODULE RawNodeProofs --------------------------
(***************************************************************************)
(* Lemmas about the operators of RawNode and RedbRaftStorage, for every    *)
(* set of nodes and proposals and every bound.                             *)
(*                                                                         *)
(* Each operator that yields a RawNode is shown to be an evolution of the  *)
(* one it is applied to: a RawNode again, of the same or a later term, the *)
(* same hard state of the last Ready, and with no message added that is    *)
(* from another node or of a later term.                                   *)
(*                                                                         *)
(* The second half follows how far the log reaches.  No call commits past  *)
(* its end or promises an entry past it in a response (Sound), and only an *)
(* append from another leader may cut it (the others satisfy Grows).  What *)
(* a call adds lies past what is committed (Adds).                         *)
(*                                                                         *)
(* The last part follows a node that hears of nobody: its own storage      *)
(* decides what is committed (Own), a call only lengthens its log          *)
(* (Continues), and the log it stores has no gap (Gapless, JoinsOn).       *)
(***************************************************************************)
EXTENDS RawNode, QueueLemmas, FiniteSetTheorems, TLAPS

---------------------------------------------------------------------------
(* The greatest element: what a CHOOSE of it returns.                      *)

LEMMA GreatestExists ==
    ASSUME NEW n \in Nat, NEW S, S \subseteq 0..n, S # {}
    PROVE  \E x \in S : \A y \in S : y <= x
<1>. DEFINE T == {n - i : i \in S}
<1>1. T \subseteq Nat
  <2>. SUFFICES ASSUME NEW i \in S PROVE n - i \in Nat
    OBVIOUS
  <2>1. i \in 0..n
    OBVIOUS
  <2>. QED
    BY <2>1
<1>2. T # {}
  OBVIOUS
<1>3. PICK x \in T : \A y \in T : x <= y
  BY <1>1, <1>2, LeastExists
<1>4. PICK i \in S : x = n - i
  BY <1>3
<1>5. ASSUME NEW j \in S PROVE j <= i
  <2>1. n - i <= n - j
    BY <1>3, <1>4
  <2>. QED
    BY <2>1
<1>. QED
  BY <1>5

---------------------------------------------------------------------------
(* The log *)

LEMMA IndexFacts == MaxIndex \in Nat /\ MaxIndex > 0 /\ Index \subseteq 0..MaxIndex
                    /\ Index \subseteq Nat
                    /\ 1 \in Index /\ 0 \in Term /\ 0 \notin Server
BY BoundAssumption, ServerAssumption DEF Index, Term

LEMMA NoEntryType == NoEntry \in Entry /\ NoEntry.term = 0
BY IndexFacts DEF NoEntry, Entry

LEMMA EntryTermType == ASSUME NEW e \in Entry PROVE e.term \in Term
BY DEF Entry

LEMMA EmptyLogType == EmptyLog \in [Index -> Entry] /\ Rows(EmptyLog) = {}
BY NoEntryType DEF EmptyLog, Rows

LEMMA LastIndexType ==
    ASSUME NEW log
    PROVE  /\ LastIndex(log) \in 0..MaxIndex
           /\ Rows(log) # {} => LastIndex(log) \in Rows(log)
           /\ \A j \in Rows(log) : j <= LastIndex(log)
<1>1. CASE Rows(log) = {}
  BY <1>1, IndexFacts DEF LastIndex
<1>2. CASE Rows(log) # {}
  <2>1. Rows(log) \subseteq 0..MaxIndex
    BY IndexFacts DEF Rows
  <2>2. \E i \in Rows(log) : \A j \in Rows(log) : j <= i
    BY <1>2, <2>1, IndexFacts, GreatestExists
  <2>3. LastIndex(log) \in Rows(log) /\ \A j \in Rows(log) : j <= LastIndex(log)
    BY <1>2, <2>2 DEF LastIndex
  <2>. QED
    BY <2>1, <2>3
<1>. QED
  BY <1>1, <1>2

LEMMA FirstIndexType ==
    ASSUME NEW log
    PROVE  FirstIndex(log) \in 1..MaxIndex
<1>1. CASE Rows(log) = {}
  BY <1>1, IndexFacts DEF FirstIndex
<1>2. CASE Rows(log) # {}
  <2>1. Rows(log) \subseteq Index /\ Rows(log) \subseteq Nat
    BY IndexFacts DEF Rows
  <2>2. \E i \in Rows(log) : \A j \in Rows(log) : i <= j
    BY <1>2, <2>1, LeastExists
  <2>3. FirstIndex(log) \in Rows(log)
    BY <1>2, <2>2 DEF FirstIndex
  <2>. QED
    BY <2>1, <2>3 DEF Index
<1>. QED
  BY <1>1, <1>2

LEMMA LastLogIndexType ==
    ASSUME NEW r, NEW d
    PROVE  LastLogIndex(r, d) \in 0..MaxIndex
BY LastIndexType DEF LastLogIndex

LEMMA EntryAtType ==
    ASSUME NEW r \in RawNodeState, NEW d \in Disk, NEW i
    PROVE  EntryAt(r, d, i) \in Entry /\ EntryAt(r, d, i).term \in Term
<1>1. r.unst \in [Index -> Entry] /\ d.log \in [Index -> Entry]
  BY DEF RawNodeState, Disk
<1>2. EntryAt(r, d, i) \in Entry
  <2>1. CASE i \notin Index \/ i > LastLogIndex(r, d)
    BY <2>1, NoEntryType DEF EntryAt
  <2>2. CASE ~(i \notin Index \/ i > LastLogIndex(r, d))
    BY <1>1, <2>2 DEF EntryAt
  <2>. QED
    BY <2>1, <2>2
<1>. QED
  BY <1>2, EntryTermType

---------------------------------------------------------------------------
(* Messages *)

Msgs(self, term) == {m \in Message : m.from = self /\ m.term <= term}

LEMMA MessageTermType == ASSUME NEW m \in Message PROVE m.term \in Term /\ m.from \in Server
BY DEF Message

LEMMA TermsAreOrdered ==
    ASSUME NEW self, NEW a \in Term, NEW b \in Term, a <= b
    PROVE  Msgs(self, a) \subseteq Msgs(self, b)
<1>. SUFFICES ASSUME NEW m \in Msgs(self, a) PROVE m.term <= b
  BY DEF Msgs
<1>1. m.term \in Term /\ m.term <= a
  BY MessageTermType DEF Msgs
<1>. QED
  BY <1>1, BoundAssumption DEF Term

LEMMA AppendMsgType ==
    ASSUME NEW r \in RawNodeState, NEW d \in Disk, NEW self \in Server, NEW f \in Server
    PROVE  AppendMsg(r, d, self, f) \in Msgs(self, r.term)
<1>1. /\ r.next[f] - 1 \in 0..MaxIndex /\ r.term \in Term /\ r.committed \in 0..MaxIndex
      /\ r.term <= r.term
  BY IndexFacts, BoundAssumption DEF RawNodeState, Term
<1>2. EntryAt(r, d, r.next[f] - 1).term \in Term
  BY EntryAtType
<1>3. [i \in Index |-> IF i >= r.next[f] THEN EntryAt(r, d, i) ELSE NoEntry] \in [Index -> Entry]
  BY EntryAtType, NoEntryType
<1>. QED
  BY <1>1, <1>2, <1>3 DEF AppendMsg, Message, Msgs

LEMMA AppendRespType ==
    ASSUME NEW self \in Server, NEW f \in Server, NEW t \in Term, NEW i \in 0..MaxIndex
    PROVE  [type |-> "appendResp", from |-> self, to |-> f, term |-> t, index |-> i]
             \in Msgs(self, t)
BY BoundAssumption DEF Message, Msgs, Term

LEMMA AppendRejectType ==
    ASSUME NEW self \in Server, NEW f \in Server, NEW t \in Term, NEW i \in 0..MaxIndex,
           NEW h \in 0..MaxIndex
    PROVE  [type |-> "appendReject", from |-> self, to |-> f, term |-> t, index |-> i, hint |-> h]
             \in Msgs(self, t)
BY BoundAssumption DEF Message, Msgs, Term

LEMMA VoteReqType ==
    ASSUME NEW self \in Server, NEW f \in Server, NEW t \in Term, NEW i \in 0..MaxIndex,
           NEW lt \in Term
    PROVE  [type |-> "voteReq", from |-> self, to |-> f, term |-> t, last |-> i, lastTerm |-> lt]
             \in Msgs(self, t)
BY BoundAssumption DEF Message, Msgs, Term

LEMMA VoteRespType ==
    ASSUME NEW self \in Server, NEW f \in Server, NEW t \in Term, NEW g \in BOOLEAN
    PROVE  [type |-> "voteResp", from |-> self, to |-> f, term |-> t, grant |-> g]
             \in Msgs(self, t)
BY BoundAssumption DEF Message, Msgs, Term

---------------------------------------------------------------------------
(* Evolution *)

Evolves(r, q, self) ==
    /\ q \in RawNodeState
    /\ q.term >= r.term
    /\ q.prevHs = r.prevHs /\ q.csi = r.csi
    /\ q.msgs \subseteq r.msgs \cup Msgs(self, q.term)

(* Nor does committing change the entries, or pass the end of the log.     *)
Commits(r, q, d) ==
    q.unst = r.unst /\ (q.committed = r.committed \/ q.committed <= LastLogIndex(r, d))

LEMMA EvolvesRefl == ASSUME NEW r \in RawNodeState, NEW self PROVE Evolves(r, r, self)
BY BoundAssumption DEF Evolves, RawNodeState, Term

LEMMA EvolvesTrans ==
    ASSUME NEW r \in RawNodeState, NEW q, NEW p, NEW self, Evolves(r, q, self), Evolves(q, p, self)
    PROVE  Evolves(r, p, self)
<1>1. r.term \in Term /\ q.term \in Term /\ p.term \in Term
  BY DEF Evolves, RawNodeState
<1>2. p.term >= r.term /\ q.term <= p.term
  BY <1>1, BoundAssumption DEF Evolves, Term
<1>3. Msgs(self, q.term) \subseteq Msgs(self, p.term)
  BY <1>1, <1>2, TermsAreOrdered
<1>. QED
  BY <1>2, <1>3 DEF Evolves

LEMMA BcastEvolves ==
    ASSUME NEW r \in RawNodeState, NEW d \in Disk, NEW self \in Server
    PROVE  /\ Evolves(r, Bcast(r, d, self), self) /\ Bcast(r, d, self).term = r.term
           /\ Bcast(r, d, self).unst = r.unst /\ Bcast(r, d, self).committed = r.committed
<1>. DEFINE new == {AppendMsg(r, d, self, f) : f \in {g \in r.voters \ {self} : ~NeedsSnapshot(r, d, g)}}
<1>1. new \subseteq Msgs(self, r.term)
  BY AppendMsgType DEF RawNodeState
<1>2. Bcast(r, d, self) = [r EXCEPT !.msgs = r.msgs \cup new]
  BY DEF Bcast
<1>3. new \subseteq Message
  BY <1>1 DEF Msgs
<1>. HIDE DEF new
<1>4. Bcast(r, d, self) \in RawNodeState
  BY <1>2, <1>3 DEF RawNodeState
<1>5. r.term >= r.term
  BY BoundAssumption DEF RawNodeState, Term
<1>. QED
  BY <1>1, <1>2, <1>4, <1>5 DEF Evolves, RawNodeState

LEMMA NormalEntryType ==
    ASSUME NEW t \in Term, NEW q \in Req \cup {NoReq}
    PROVE  [term |-> t, kind |-> "normal", ctx |-> q, node |-> 0] \in Entry
BY DEF Entry

LEMMA AppendAsLeaderEvolves ==
    ASSUME NEW r \in RawNodeState, NEW d \in Disk, NEW self \in Server, NEW e \in Entry
    PROVE  Evolves(r, AppendAsLeader(r, d, e), self)
<1>. DEFINE i == LastLogIndex(r, d) + 1
<1>1. AppendAsLeader(r, d, e) = [r EXCEPT !.unst = [r.unst EXCEPT ![i] = e]]
  BY DEF AppendAsLeader, Put, RawNodeState
<1>2. [r.unst EXCEPT ![i] = e] \in [Index -> Entry]
  BY DEF RawNodeState
<1>. HIDE DEF i
<1>3. AppendAsLeader(r, d, e) \in RawNodeState
  BY <1>1, <1>2 DEF RawNodeState
<1>4. r.term >= r.term
  BY BoundAssumption DEF RawNodeState, Term
<1>. QED
  BY <1>1, <1>3, <1>4 DEF Evolves, RawNodeState

LEMMA BecomeLeaderEvolves ==
    ASSUME NEW r \in RawNodeState, NEW d \in Disk, NEW self \in Server
    PROVE  Evolves(r, BecomeLeader(r, d, self), self)
<1>. DEFINE match == [f \in Server |-> IF f = self THEN LastIndex(d.log) ELSE 0]
            next  == [f \in Server |-> LastLogIndex(r, d) + 1]
            led   == [r EXCEPT !.role = "leader", !.votes = {},
                               !.pendingConf = LastLogIndex(r, d),
                               !.match = match, !.next = next]
            e     == [term |-> r.term, kind |-> "normal", ctx |-> NoReq, node |-> 0]
<1>1. match \in [Server -> 0..MaxIndex]
  BY LastIndexType, IndexFacts
<1>2. next \in [Server -> 1..(MaxIndex + 1)] /\ LastLogIndex(r, d) \in 0..MaxIndex
  BY LastLogIndexType, IndexFacts
<1>3. BecomeLeader(r, d, self) = Bcast(AppendAsLeader(led, d, e), d, self)
  BY DEF BecomeLeader
<1>4. e \in Entry
  BY NormalEntryType DEF RawNodeState
<1>. HIDE DEF match, next, e
<1>5. led \in RawNodeState
  BY <1>1, <1>2 DEF RawNodeState, Role
<1>6. Evolves(r, led, self)
  <2>1. led.term = r.term /\ led.prevHs = r.prevHs /\ led.msgs = r.msgs /\ r.term >= r.term
    BY BoundAssumption DEF RawNodeState, Term
  <2>. QED
    BY <1>5, <2>1 DEF Evolves
<1>. HIDE DEF led
<1>7. Evolves(led, AppendAsLeader(led, d, e), self)
  BY <1>4, <1>5, AppendAsLeaderEvolves
<1>8. AppendAsLeader(led, d, e) \in RawNodeState
  BY <1>7 DEF Evolves
<1>9. Evolves(AppendAsLeader(led, d, e), BecomeLeader(r, d, self), self)
  BY <1>3, <1>8, BcastEvolves
<1>. QED
  BY <1>5, <1>6, <1>7, <1>8, <1>9, EvolvesTrans

LEMMA CommittableFacts ==
    ASSUME NEW r \in RawNodeState, NEW d \in Disk
    PROVE  /\ Committable(r, d) \subseteq 0..MaxIndex
           /\ \A i \in Committable(r, d) : i <= LastLogIndex(r, d)
<1>1. r.committed \in 0..MaxIndex /\ LastLogIndex(r, d) \in 0..MaxIndex
  BY LastLogIndexType DEF RawNodeState
<1>. QED
  BY <1>1, IndexFacts DEF Committable

LEMMA MaybeCommitEvolves ==
    ASSUME NEW r \in RawNodeState, NEW d \in Disk, NEW self \in Server
    PROVE  /\ Evolves(r, MaybeCommit(r, d, self), self) /\ MaybeCommit(r, d, self).term = r.term
           /\ Commits(r, MaybeCommit(r, d, self), d)
<1>. DEFINE top == CHOOSE i \in Committable(r, d) : \A j \in Committable(r, d) : j <= i
            q   == [r EXCEPT !.committed = top]
<1>1. CASE r.role = "leader" /\ Committable(r, d) # {}
  <2>1. \E i \in Committable(r, d) : \A j \in Committable(r, d) : j <= i
    BY <1>1, CommittableFacts, GreatestExists, IndexFacts
  <2>2. top \in 0..MaxIndex /\ top <= LastLogIndex(r, d)
    BY <2>1, CommittableFacts
  <2>3. MaybeCommit(r, d, self) = Bcast(q, d, self)
    BY <1>1 DEF MaybeCommit
  <2>. HIDE DEF top
  <2>4. q \in RawNodeState
    BY <2>2 DEF RawNodeState
  <2>5. Evolves(r, q, self) /\ q.term = r.term
    <3>1. q.term = r.term /\ q.prevHs = r.prevHs /\ q.msgs = r.msgs /\ r.term >= r.term
      BY BoundAssumption DEF RawNodeState, Term
    <3>. QED
      BY <2>4, <3>1 DEF Evolves
  <2>6. q.unst = r.unst /\ q.committed = top
    BY DEF RawNodeState
  <2>7. Commits(r, Bcast(q, d, self), d)
    BY <2>2, <2>4, <2>6, BcastEvolves DEF Commits
  <2>8. Evolves(q, Bcast(q, d, self), self) /\ Bcast(q, d, self).term = q.term
    BY <2>4, BcastEvolves
  <2>. HIDE DEF q
  <2>9. Evolves(r, Bcast(q, d, self), self)
    BY <2>4, <2>5, <2>8, EvolvesTrans
  <2>. QED
    BY <2>3, <2>5, <2>7, <2>8, <2>9
<1>2. CASE ~(r.role = "leader" /\ Committable(r, d) # {})
  BY <1>2, EvolvesRefl DEF MaybeCommit, Commits
<1>. QED
  BY <1>1, <1>2

LEMMA BecomeFollowerEvolves ==
    ASSUME NEW r \in RawNodeState, NEW self \in Server, NEW t \in Term, t >= r.term
    PROVE  Evolves(r, BecomeFollower(r, t), self) /\ BecomeFollower(r, t).term = t
<1>1. BecomeFollower(r, t) \in RawNodeState
  BY DEF BecomeFollower, RawNodeState, Role
<1>2. /\ BecomeFollower(r, t).term = t /\ BecomeFollower(r, t).prevHs = r.prevHs
      /\ BecomeFollower(r, t).msgs = r.msgs /\ BecomeFollower(r, t).csi = r.csi
  BY DEF BecomeFollower, RawNodeState
<1>. QED
  BY <1>1, <1>2 DEF Evolves

LEMMA CampaignEvolves ==
    ASSUME NEW r \in RawNodeState, NEW d \in Disk, NEW self \in Server, CanCampaign(r, d, self)
    PROVE  Evolves(r, Campaign(r, d, self), self)
<1>. DEFINE c    == [r EXCEPT !.role = "candidate", !.term = r.term + 1, !.vote = self,
                              !.votes = {self}]
            last == LastLogIndex(r, d)
            new  == {[type |-> "voteReq", from |-> self, to |-> f, term |-> c.term,
                      last |-> last, lastTerm |-> EntryAt(r, d, last).term]
                        : f \in r.voters \ {self}}
            q    == [c EXCEPT !.msgs = c.msgs \cup new]
<1>1. r.term \in Term /\ r.term + 1 \in Term
  BY BoundAssumption DEF CanCampaign, RawNodeState, Term
<1>2. c \in RawNodeState
  BY <1>1 DEF RawNodeState, Role
<1>3. c.term = r.term + 1 /\ c.prevHs = r.prevHs /\ c.msgs = r.msgs
  BY DEF RawNodeState
<1>4. Evolves(r, c, self)
  BY <1>1, <1>2, <1>3, BoundAssumption DEF Evolves, Term
<1>. HIDE DEF c
<1>5. CASE IsQuorum({self}, r.voters)
  <2>1. Campaign(r, d, self) = BecomeLeader(c, d, self)
    BY <1>5 DEF Campaign, c
  <2>. QED
    BY <1>2, <1>4, <2>1, BecomeLeaderEvolves, EvolvesTrans
<1>6. CASE ~IsQuorum({self}, r.voters)
  <2>1. Campaign(r, d, self) = q
    BY <1>6 DEF Campaign, c
  <2>2. new \subseteq Msgs(self, c.term)
    <3>. SUFFICES ASSUME NEW f \in r.voters \ {self}
                  PROVE  [type |-> "voteReq", from |-> self, to |-> f, term |-> c.term,
                          last |-> last, lastTerm |-> EntryAt(r, d, last).term]
                            \in Msgs(self, c.term)
      OBVIOUS
    <3>1. f \in Server /\ c.term \in Term /\ last \in 0..MaxIndex
      BY <1>1, <1>3, LastLogIndexType DEF RawNodeState
    <3>. QED
      BY <3>1, EntryAtType, VoteReqType
  <2>3. new \subseteq Message
    BY <2>2 DEF Msgs
  <2>. HIDE DEF new
  <2>4. q \in RawNodeState
    BY <1>2, <2>3 DEF RawNodeState
  <2>5. q.term = c.term /\ q.prevHs = c.prevHs /\ q.msgs = c.msgs \cup new
    BY <1>2 DEF RawNodeState
  <2>6. c.term >= c.term
    BY <1>1, <1>3, BoundAssumption DEF Term
  <2>7. Evolves(c, q, self)
    BY <2>2, <2>4, <2>5, <2>6 DEF Evolves
  <2>. QED
    BY <1>4, <2>1, <2>7, EvolvesTrans
<1>. QED
  BY <1>5, <1>6

LEMMA ProposeEvolves ==
    ASSUME NEW r \in RawNodeState, NEW d \in Disk, NEW self \in Server, NEW q \in Req \cup {NoReq}
    PROVE  Evolves(r, Propose(r, d, self, q), self)
<1>. DEFINE e == [term |-> r.term, kind |-> "normal", ctx |-> q, node |-> 0]
            a == AppendAsLeader(r, d, e)
<1>1. e \in Entry
  BY NormalEntryType DEF RawNodeState
<1>2. Evolves(r, a, self)
  BY <1>1, AppendAsLeaderEvolves
<1>3. a \in RawNodeState /\ Propose(r, d, self, q) = Bcast(a, d, self)
  BY <1>2 DEF Evolves, Propose
<1>. QED
  BY <1>2, <1>3, BcastEvolves, EvolvesTrans

LEMMA ProposeConfChangeEvolves ==
    ASSUME NEW r \in RawNodeState, NEW d \in Disk, NEW self \in Server,
           NEW kind \in {"add", "remove"}, NEW node \in Server, LastLogIndex(r, d) < MaxIndex
    PROVE  Evolves(r, ProposeConfChange(r, d, self, kind, node), self)
<1>. DEFINE pending == r.pendingConf > r.applied
            e == IF pending
                 THEN [term |-> r.term, kind |-> "normal", ctx |-> NoReq, node |-> 0]
                 ELSE [term |-> r.term, kind |-> kind, ctx |-> NoReq, node |-> node]
            at == IF pending THEN r.pendingConf ELSE LastLogIndex(r, d) + 1
            p  == [r EXCEPT !.pendingConf = at]
            a  == AppendAsLeader(p, d, e)
<1>1. e \in Entry
  BY DEF Entry, RawNodeState
<1>2. at \in 0..MaxIndex
  BY LastLogIndexType, IndexFacts DEF RawNodeState
<1>3. ProposeConfChange(r, d, self, kind, node) = Bcast(a, d, self)
  BY DEF ProposeConfChange
<1>. HIDE DEF e, at
<1>4. p \in RawNodeState
  BY <1>2 DEF RawNodeState
<1>5. Evolves(r, p, self)
  <2>1. p.term = r.term /\ p.prevHs = r.prevHs /\ p.msgs = r.msgs /\ r.term >= r.term
    BY BoundAssumption DEF RawNodeState, Term
  <2>. QED
    BY <1>4, <2>1 DEF Evolves
<1>. HIDE DEF p
<1>6. Evolves(p, a, self)
  BY <1>1, <1>4, AppendAsLeaderEvolves
<1>7. a \in RawNodeState
  BY <1>6 DEF Evolves
<1>. QED
  BY <1>3, <1>4, <1>5, <1>6, <1>7, BcastEvolves, EvolvesTrans

LEMMA NewVotersType ==
    ASSUME NEW r \in RawNodeState, NEW e \in Entry, e.kind \in {"add", "remove"}
    PROVE  NewVoters(r, e) \subseteq Server /\ e.node \in Server
BY DEF NewVoters, Entry, RawNodeState

LEMMA ApplyConfChangeEvolves ==
    ASSUME NEW r \in RawNodeState, NEW d \in Disk, NEW self \in Server,
           NEW e \in Entry, e.kind \in {"add", "remove"}, LastLogIndex(r, d) >= 1
    PROVE  /\ Evolves(r, ApplyConfChange(r, d, self, e), self)
           /\ ApplyConfChange(r, d, self, e).term = r.term
           /\ Commits(r, ApplyConfChange(r, d, self, e), d)
<1>. DEFINE v == [r EXCEPT !.voters = NewVoters(r, e)]
            c == IF e.kind = "add" /\ e.node \notin r.voters
                 THEN [v EXCEPT !.match[e.node] = 0, !.next[e.node] = LastLogIndex(r, d)] ELSE v
<1>1. NewVoters(r, e) \in SUBSET Server /\ e.node \in Server
  BY NewVotersType
<1>2. v \in RawNodeState /\ v.term = r.term /\ v.prevHs = r.prevHs /\ v.msgs = r.msgs
      /\ v.csi = r.csi /\ v.unst = r.unst /\ v.committed = r.committed
  BY <1>1 DEF RawNodeState
<1>. HIDE DEF v
<1>3. c \in RawNodeState /\ c.term = v.term /\ c.prevHs = v.prevHs /\ c.msgs = v.msgs
      /\ c.csi = v.csi /\ c.unst = v.unst /\ c.committed = v.committed
  <2>1. CASE e.kind = "add" /\ e.node \notin r.voters
    <3>1. LastLogIndex(r, d) \in 1..(MaxIndex + 1) /\ 0 \in 0..MaxIndex
      BY LastLogIndexType, IndexFacts
    <3>. DEFINE m == [v.match EXCEPT ![e.node] = 0]
                n == [v.next EXCEPT ![e.node] = LastLogIndex(r, d)]
    <3>2. m \in [Server -> 0..MaxIndex] /\ n \in [Server -> 1..(MaxIndex + 1)]
      BY <1>1, <1>2, <3>1 DEF RawNodeState
    <3>3. c = [v EXCEPT !.match = m, !.next = n]
      BY <1>2, <2>1 DEF RawNodeState
    <3>. HIDE DEF c, m, n
    <3>. QED
      BY <1>2, <3>2, <3>3 DEF RawNodeState
  <2>2. CASE ~(e.kind = "add" /\ e.node \notin r.voters)
    BY <1>2, <2>2
  <2>. QED
    BY <2>1, <2>2
<1>4. \/ ApplyConfChange(r, d, self, e) = c
      \/ ApplyConfChange(r, d, self, e) = MaybeCommit(c, d, self)
      \/ ApplyConfChange(r, d, self, e) = Bcast(c, d, self)
  BY DEF ApplyConfChange, v
<1>. HIDE DEF c
<1>5. Evolves(r, c, self)
  BY <1>2, <1>3, BoundAssumption DEF Evolves, RawNodeState, Term
<1>6. CASE ApplyConfChange(r, d, self, e) = c
  BY <1>2, <1>3, <1>5, <1>6 DEF Commits
<1>7. CASE ApplyConfChange(r, d, self, e) = MaybeCommit(c, d, self)
  <2>1. c.unst = r.unst /\ c.committed = r.committed /\ LastLogIndex(c, d) = LastLogIndex(r, d)
    BY <1>2, <1>3 DEF LastLogIndex
  <2>2. Commits(c, MaybeCommit(c, d, self), d)
    BY <1>3, MaybeCommitEvolves
  <2>3. Commits(r, MaybeCommit(c, d, self), d)
    BY <2>1, <2>2 DEF Commits
  <2>. QED
    BY <1>2, <1>3, <1>5, <1>7, <2>3, MaybeCommitEvolves, EvolvesTrans
<1>8. CASE ApplyConfChange(r, d, self, e) = Bcast(c, d, self)
  <2>1. Commits(r, Bcast(c, d, self), d)
    BY <1>2, <1>3, BcastEvolves DEF Commits
  <2>. QED
    BY <1>2, <1>3, <1>5, <1>8, <2>1, BcastEvolves, EvolvesTrans
<1>. QED
  BY <1>4, <1>6, <1>7, <1>8

---------------------------------------------------------------------------
(* step() *)

LEMMA AddMsgEvolves ==
    ASSUME NEW r \in RawNodeState, NEW self \in Server, NEW m \in Msgs(self, r.term)
    PROVE  Evolves(r, [r EXCEPT !.msgs = r.msgs \cup {m}], self)
<1>. DEFINE q == [r EXCEPT !.msgs = r.msgs \cup {m}]
<1>1. q \in RawNodeState
  BY DEF RawNodeState, Msgs
<1>2. q.term = r.term /\ q.prevHs = r.prevHs /\ q.msgs = r.msgs \cup {m} /\ r.term >= r.term
  BY BoundAssumption DEF RawNodeState, Term
<1>. QED
  BY <1>1, <1>2 DEF Evolves

LEMMA AckEvolves ==
    ASSUME NEW r \in RawNodeState, NEW self \in Server, NEW f \in Server, NEW i \in 0..MaxIndex
    PROVE  Evolves(r, [r EXCEPT !.msgs = r.msgs \cup
                         {[type |-> "appendResp", from |-> self, to |-> f,
                           term |-> r.term, index |-> i]}], self)
BY AppendRespType, AddMsgEvolves DEF RawNodeState

(* The hint of a rejection: index 0 has term 0, so there always is one.    *)
LEMMA HintType ==
    ASSUME NEW r \in RawNodeState, NEW d \in Disk, NEW last \in 0..MaxIndex, NEW t \in Term
    PROVE  (CHOOSE i \in 0..last : /\ EntryAt(r, d, i).term <= t
                                   /\ \A j \in (i + 1)..last : EntryAt(r, d, j).term > t)
             \in 0..last
<1>. DEFINE S == {i \in 0..last : EntryAt(r, d, i).term <= t}
<1>1. EntryAt(r, d, 0).term = 0
  BY NoEntryType DEF EntryAt, Index
<1>2. 0 \in S
  BY <1>1, BoundAssumption DEF Term
<1>3. PICK i \in S : \A j \in S : j <= i
  <2>1. last \in Nat /\ S \subseteq 0..last /\ S # {}
    BY <1>2, IndexFacts
  <2>. HIDE DEF S
  <2>. QED
    BY <2>1, GreatestExists
<1>4. ASSUME NEW j \in (i + 1)..last PROVE EntryAt(r, d, j).term > t
  <2>1. j \in 0..last /\ ~(j <= i)
    BY <1>3
  <2>2. ~(EntryAt(r, d, j).term <= t)
    BY <1>3, <2>1
  <2>. QED
    BY <2>2, EntryAtType, BoundAssumption DEF Term
<1>. QED
  BY <1>3, <1>4

LEMMA LeastRow ==
    ASSUME NEW S, S \subseteq Index, S # {}
    PROVE  (CHOOSE i \in S : \A j \in S : i <= j) \in S
<1>1. \E i \in S : \A j \in S : i <= j
  BY LeastExists, IndexFacts
<1>. QED
  BY <1>1

LEMMA StepAppendEvolves ==
    ASSUME NEW r0 \in RawNodeState, NEW d \in Disk, NEW self \in Server, NEW m \in Message,
           m.type = "append", m.term >= r0.term
    PROVE  Evolves(r0, StepAppend(r0, d, self, m), self)
<1>. DEFINE r    == BecomeFollower(r0, m.term)
            last == IF m.prev < LastLogIndex(r, d) THEN m.prev ELSE LastLogIndex(r, d)
            hint == CHOOSE i \in 0..last :
                        /\ EntryAt(r, d, i).term <= m.prevTerm
                        /\ \A j \in (i + 1)..last : EntryAt(r, d, j).term > m.prevTerm
            new  == NewEntries(r, d, m)
            from == CHOOSE i \in new : \A j \in new : i <= j
            lastNew == IF Rows(m.ents) = {} THEN m.prev ELSE LastIndex(m.ents)
            unst == [i \in Index |-> IF i < from THEN r.unst[i] ELSE m.ents[i]]
            appended == IF new = {} THEN r ELSE [r EXCEPT !.unst = unst]
            commit == IF m.commit < lastNew THEN m.commit ELSE lastNew
            committed == IF commit > appended.committed THEN commit ELSE appended.committed
            moved == [appended EXCEPT !.committed = committed]
            ack(s, i) == [s EXCEPT !.msgs = s.msgs \cup
                            {[type |-> "appendResp", from |-> self, to |-> m.from,
                              term |-> s.term, index |-> i]}]
            reject == [r EXCEPT !.msgs = r.msgs \cup
                         {[type |-> "appendReject", from |-> self, to |-> m.from, term |-> r.term,
                           index |-> m.prev, hint |-> hint]}]
<1>1. /\ m.from \in Server /\ m.term \in Term /\ m.prev \in 0..MaxIndex /\ m.prevTerm \in Term
      /\ m.ents \in [Index -> Entry] /\ m.commit \in 0..MaxIndex
  BY DEF Message
<1>2. r \in RawNodeState /\ Evolves(r0, r, self)
  BY <1>1, BecomeFollowerEvolves DEF Evolves
<1>3. \/ StepAppend(r0, d, self, m) = ack(r, r.committed)
      \/ StepAppend(r0, d, self, m) = reject
      \/ StepAppend(r0, d, self, m) = ack(moved, lastNew)
  BY DEF StepAppend
<1>. HIDE DEF r
<1>4. last \in 0..MaxIndex
  BY <1>1, LastLogIndexType
<1>. HIDE DEF last
<1>5. hint \in 0..MaxIndex
  <2>1. hint \in 0..last
    BY <1>1, <1>2, <1>4, HintType
  <2>. HIDE DEF hint
  <2>. QED
    BY <1>4, <2>1, IndexFacts
<1>. HIDE DEF hint
<1>6. lastNew \in 0..MaxIndex
  BY <1>1, LastIndexType
<1>7. commit \in 0..MaxIndex
  BY <1>1, <1>6
<1>. HIDE DEF lastNew, commit
<1>8. unst \in [Index -> Entry]
  BY <1>1, <1>2 DEF RawNodeState
<1>. HIDE DEF unst
<1>9. appended \in RawNodeState /\ Evolves(r, appended, self)
  <2>1. appended \in RawNodeState
    BY <1>2, <1>8 DEF RawNodeState
  <2>2. /\ appended.term = r.term /\ appended.prevHs = r.prevHs /\ appended.msgs = r.msgs
        /\ r.term >= r.term
    BY <1>2, BoundAssumption DEF RawNodeState, Term
  <2>. QED
    BY <2>1, <2>2 DEF Evolves
<1>. HIDE DEF appended
<1>10. moved \in RawNodeState /\ Evolves(appended, moved, self)
  <2>1. committed \in 0..MaxIndex
    BY <1>7, <1>9 DEF RawNodeState
  <2>. HIDE DEF committed
  <2>2. moved \in RawNodeState
    BY <1>9, <2>1 DEF RawNodeState
  <2>3. /\ moved.term = appended.term /\ moved.prevHs = appended.prevHs
        /\ moved.msgs = appended.msgs /\ appended.term >= appended.term
    BY <1>9, BoundAssumption DEF RawNodeState, Term
  <2>. QED
    BY <2>2, <2>3 DEF Evolves
<1>. HIDE DEF moved
<1>11. r.committed \in 0..MaxIndex /\ r.term \in Term
  BY <1>2 DEF RawNodeState
<1>12. CASE StepAppend(r0, d, self, m) = ack(r, r.committed)
  <2>1. Evolves(r, ack(r, r.committed), self)
    BY <1>1, <1>2, <1>11, AckEvolves
  <2>. HIDE DEF ack
  <2>. QED
    BY <1>2, <1>12, <2>1, EvolvesTrans
<1>13. CASE StepAppend(r0, d, self, m) = reject
  <2>1. Evolves(r, reject, self)
    BY <1>1, <1>2, <1>5, <1>11, AppendRejectType, AddMsgEvolves
  <2>. HIDE DEF reject
  <2>. QED
    BY <1>2, <1>13, <2>1, EvolvesTrans
<1>14. CASE StepAppend(r0, d, self, m) = ack(moved, lastNew)
  <2>1. Evolves(moved, ack(moved, lastNew), self)
    BY <1>1, <1>6, <1>10, AckEvolves
  <2>. HIDE DEF ack
  <2>2. Evolves(r, moved, self)
    BY <1>2, <1>9, <1>10, EvolvesTrans
  <2>3. Evolves(r0, moved, self)
    BY <1>2, <2>2, EvolvesTrans
  <2>. QED
    BY <1>14, <2>1, <2>3, EvolvesTrans
<1>. QED
  BY <1>3, <1>12, <1>13, <1>14

LEMMA StepAppendRespEvolves ==
    ASSUME NEW r \in RawNodeState, NEW d \in Disk, NEW self \in Server, NEW m \in Message,
           m.type = "appendResp"
    PROVE  Evolves(r, StepAppendResp(r, d, self, m), self)
<1>. DEFINE match == [r.match EXCEPT ![m.from] = m.index]
            next  == [r.next EXCEPT ![m.from] = IF m.index < @ THEN @ ELSE m.index + 1]
            q     == [r EXCEPT !.match = match, !.next = next]
<1>1. m.from \in Server /\ m.index \in 0..MaxIndex
  BY DEF Message
<1>2. match \in [Server -> 0..MaxIndex] /\ next \in [Server -> 1..(MaxIndex + 1)]
  BY <1>1, IndexFacts DEF RawNodeState
<1>3. \/ StepAppendResp(r, d, self, m) = MaybeCommit(q, d, self)
      \/ StepAppendResp(r, d, self, m) = r
  BY DEF StepAppendResp, RawNodeState
<1>. HIDE DEF match, next
<1>4. q \in RawNodeState
  BY <1>2 DEF RawNodeState
<1>5. Evolves(r, q, self)
  <2>1. q.term = r.term /\ q.prevHs = r.prevHs /\ q.msgs = r.msgs /\ r.term >= r.term
    BY BoundAssumption DEF RawNodeState, Term
  <2>. QED
    BY <1>4, <2>1 DEF Evolves
<1>. HIDE DEF q
<1>. QED
  BY <1>3, <1>4, <1>5, MaybeCommitEvolves, EvolvesTrans, EvolvesRefl

LEMMA StepAppendRejectEvolves ==
    ASSUME NEW r \in RawNodeState, NEW d \in Disk, NEW self \in Server, NEW m \in Message,
           m.type = "appendReject"
    PROVE  Evolves(r, StepAppendReject(r, d, self, m), self)
<1>. DEFINE back == IF m.hint < m.index THEN m.hint + 1 ELSE m.index
            next == [r.next EXCEPT ![m.from] = back]
            p    == [r EXCEPT !.next = next]
            q    == [p EXCEPT !.msgs = p.msgs \cup {AppendMsg(p, d, self, m.from)}]
<1>1. m.from \in Server /\ m.index \in 0..MaxIndex /\ m.hint \in 0..MaxIndex
  BY DEF Message
<1>2. CASE r.role = "leader" /\ m.index > r.match[m.from] /\ m.index + 1 = r.next[m.from]
  <2>1. m.index >= 1
    BY <1>1, <1>2, IndexFacts DEF RawNodeState
  <2>2. back \in 1..(MaxIndex + 1)
    BY <1>1, <2>1, IndexFacts
  <2>. HIDE DEF back
  <2>3. next \in [Server -> 1..(MaxIndex + 1)]
    BY <1>1, <2>2 DEF RawNodeState
  <2>4. StepAppendReject(r, d, self, m) = q
    BY <1>2 DEF StepAppendReject, RawNodeState, back
  <2>. HIDE DEF next
  <2>5. p \in RawNodeState
    BY <2>3 DEF RawNodeState
  <2>6. Evolves(r, p, self)
    <3>1. p.term = r.term /\ p.prevHs = r.prevHs /\ p.msgs = r.msgs /\ r.term >= r.term
      BY BoundAssumption DEF RawNodeState, Term
    <3>. QED
      BY <2>5, <3>1 DEF Evolves
  <2>. HIDE DEF p
  <2>7. Evolves(p, q, self)
    BY <1>1, <2>5, AppendMsgType, AddMsgEvolves
  <2>. QED
    BY <2>4, <2>6, <2>7, EvolvesTrans
<1>3. CASE ~(r.role = "leader" /\ m.index > r.match[m.from] /\ m.index + 1 = r.next[m.from])
  BY <1>3, EvolvesRefl DEF StepAppendReject
<1>. QED
  BY <1>2, <1>3

LEMMA StepVoteReqEvolves ==
    ASSUME NEW r0 \in RawNodeState, NEW d \in Disk, NEW self \in Server, NEW m \in Message,
           m.type = "voteReq"
    PROVE  Evolves(r0, StepVoteReq(r0, d, self, m), self)
<1>. DEFINE r    == IF m.term > r0.term THEN BecomeFollower(r0, m.term) ELSE r0
            last == LastLogIndex(r, d)
            grant == /\ r.vote \in {0, m.from}
                     /\ \/ m.lastTerm > EntryAt(r, d, last).term
                        \/ (m.lastTerm = EntryAt(r, d, last).term /\ m.last >= last)
            vote == IF grant THEN m.from ELSE r.vote
            v    == [r EXCEPT !.vote = vote]
            resp == [type |-> "voteResp", from |-> self, to |-> m.from,
                     term |-> r.term, grant |-> grant]
            q    == [v EXCEPT !.msgs = v.msgs \cup {resp}]
<1>1. m.from \in Server /\ m.term \in Term
  BY DEF Message
<1>2. r \in RawNodeState /\ Evolves(r0, r, self)
  <2>1. CASE m.term > r0.term
    <3>1. m.term >= r0.term
      BY <1>1, <2>1, BoundAssumption DEF RawNodeState, Term
    <3>. QED
      BY <1>1, <2>1, <3>1, BecomeFollowerEvolves DEF Evolves
  <2>2. CASE ~(m.term > r0.term)
    BY <2>2, EvolvesRefl
  <2>. QED
    BY <2>1, <2>2
<1>3. StepVoteReq(r0, d, self, m) = [r EXCEPT !.vote = vote, !.msgs = r.msgs \cup {resp}]
  BY DEF StepVoteReq
<1>. HIDE DEF r
<1>4. vote \in Server \cup {0} /\ grant \in BOOLEAN
  BY <1>1, <1>2 DEF RawNodeState
<1>5. resp \in Msgs(self, r.term)
  BY <1>1, <1>2, <1>4, VoteRespType DEF RawNodeState
<1>. HIDE DEF vote, resp
<1>6. v \in RawNodeState
  BY <1>2, <1>4 DEF RawNodeState
<1>7. Evolves(r, v, self) /\ v.term = r.term /\ v.msgs = r.msgs
  <2>1. v.term = r.term /\ v.prevHs = r.prevHs /\ v.msgs = r.msgs /\ r.term >= r.term
    BY <1>2, BoundAssumption DEF RawNodeState, Term
  <2>. QED
    BY <1>6, <2>1 DEF Evolves
<1>8. StepVoteReq(r0, d, self, m) = q
  BY <1>2, <1>3 DEF RawNodeState
<1>. HIDE DEF v
<1>9. Evolves(v, q, self)
  BY <1>5, <1>6, <1>7, AddMsgEvolves
<1>. QED
  BY <1>2, <1>7, <1>8, <1>9, EvolvesTrans

LEMMA StepVoteRespEvolves ==
    ASSUME NEW r \in RawNodeState, NEW d \in Disk, NEW self \in Server, NEW m \in Message,
           m.type = "voteResp"
    PROVE  Evolves(r, StepVoteResp(r, d, self, m), self)
<1>. DEFINE votes == IF m.grant THEN r.votes \cup {m.from} ELSE r.votes
            v     == [r EXCEPT !.votes = votes]
<1>1. m.from \in Server
  BY DEF Message
<1>2. votes \in SUBSET Server
  BY <1>1 DEF RawNodeState
<1>3. \/ StepVoteResp(r, d, self, m) = r
      \/ StepVoteResp(r, d, self, m) = BecomeLeader(v, d, self)
      \/ StepVoteResp(r, d, self, m) = v
  BY DEF StepVoteResp
<1>. HIDE DEF votes
<1>4. v \in RawNodeState
  BY <1>2 DEF RawNodeState
<1>5. Evolves(r, v, self)
  <2>1. v.term = r.term /\ v.prevHs = r.prevHs /\ v.msgs = r.msgs /\ r.term >= r.term
    BY BoundAssumption DEF RawNodeState, Term
  <2>. QED
    BY <1>4, <2>1 DEF Evolves
<1>. HIDE DEF v
<1>. QED
  BY <1>3, <1>4, <1>5, BecomeLeaderEvolves, EvolvesTrans, EvolvesRefl

LEMMA StepEvolves ==
    ASSUME NEW r \in RawNodeState, NEW d \in Disk, NEW self \in Server, NEW m \in Message
    PROVE  Evolves(r, Step(r, d, self, m), self)
<1>1. m.term \in Term /\ r.term \in Term
  BY MessageTermType DEF RawNodeState
<1>2. m.type \in {"append", "voteReq", "appendResp", "appendReject", "voteResp"}
  BY DEF Message
<1>3. CASE m.term < r.term
  BY <1>1, <1>3, EvolvesRefl, BoundAssumption DEF Step, Term
<1>4. CASE m.term >= r.term
  <2>0. ~(m.term < r.term)
    BY <1>1, <1>4, BoundAssumption DEF Term
  <2>1. CASE m.type = "append"
    BY <1>4, <2>0, <2>1, StepAppendEvolves DEF Step
  <2>2. CASE m.type = "voteReq"
    BY <1>4, <2>0, <2>2, StepVoteReqEvolves DEF Step
  <2>3. CASE m.type = "appendResp" /\ m.term = r.term
    BY <1>4, <2>0, <2>3, StepAppendRespEvolves DEF Step
  <2>4. CASE m.type = "appendReject" /\ m.term = r.term
    BY <1>4, <2>0, <2>4, StepAppendRejectEvolves DEF Step
  <2>5. CASE m.type = "voteResp" /\ m.term = r.term
    BY <1>4, <2>0, <2>5, StepVoteRespEvolves DEF Step
  <2>6. CASE m.type \notin {"append", "voteReq"} /\ m.term # r.term
    <3>1. Step(r, d, self, m) = BecomeFollower(r, m.term)
      BY <1>2, <2>0, <2>6 DEF Step
    <3>. QED
      BY <1>1, <1>4, <3>1, BecomeFollowerEvolves
  <2>. QED
    BY <1>2, <2>1, <2>2, <2>3, <2>4, <2>5, <2>6
<1>. QED
  BY <1>1, <1>3, <1>4, BoundAssumption DEF Term

---------------------------------------------------------------------------
(* RawNode::new, ready() and advance() *)

LEMMA NewRawNodeType ==
    ASSUME NEW d \in Disk
    PROVE  /\ NewRawNode(d) \in RawNodeState
           /\ NewRawNode(d).term = d.hs.term
           /\ NewRawNode(d).prevHs = d.hs
           /\ NewRawNode(d).msgs = {}
<1>1. FirstIndex(d.log) - 1 \in 0..MaxIndex
  BY FirstIndexType, IndexFacts
<1>2. d.hs \in HardState /\ d.conf \in SUBSET Server
  BY DEF Disk
<1>3. /\ [f \in Server |-> 0] \in [Server -> 0..MaxIndex]
      /\ [f \in Server |-> 1] \in [Server -> 1..(MaxIndex + 1)]
  BY IndexFacts
<1>4. NewRawNode(d) \in RawNodeState
  BY <1>1, <1>2, <1>3, EmptyLogType, IndexFacts DEF NewRawNode, RawNodeState, HardState, Role
<1>. QED
  BY <1>4 DEF NewRawNode

LEMMA HardStateOfType ==
    ASSUME NEW r \in RawNodeState
    PROVE  HardStateOf(r) \in HardState /\ HardStateOf(r).term = r.term
BY DEF HardStateOf, HardState, RawNodeState

LEMMA HandOutType ==
    ASSUME NEW r \in RawNodeState, NEW d
    PROVE  HandOut(r, d) \in 0..MaxIndex /\ FirstToHandOut(r, d) \in 1..(MaxIndex + 1)
BY LastIndexType, FirstIndexType, IndexFacts DEF HandOut, FirstToHandOut, RawNodeState

LEMMA ReadyOfType ==
    ASSUME NEW r \in RawNodeState, NEW d \in Disk, NEW stage \in {"inline", "ready", "late"}
    PROVE  /\ ReadyOf(r, d, stage) \in Ready
           /\ ReadyOf(r, d, stage).hs = HardStateOf(r)
           /\ ReadyOf(r, d, stage).hsChanged = (HardStateOf(r) # r.prevHs)
           /\ ReadyOf(r, d, stage).msgs = r.msgs
<1>1. r.unst \in [Index -> Entry] /\ r.msgs \in SUBSET Message
  BY DEF RawNodeState
<1>2. /\ (IF HasEntriesToHandOut(r, d) THEN FirstToHandOut(r, d) ELSE 1) \in 1..(MaxIndex + 1)
      /\ (IF HasEntriesToHandOut(r, d) THEN HandOut(r, d) ELSE 0) \in 0..MaxIndex
  BY HandOutType, IndexFacts
<1>. QED
  BY <1>1, <1>2, HardStateOfType DEF ReadyOf, Ready

LEMMA AfterHandOutType ==
    ASSUME NEW r \in RawNodeState, NEW d
    PROVE  /\ AfterHandOut(r, d) \in RawNodeState
           /\ AfterHandOut(r, d).term = r.term
           /\ AfterHandOut(r, d).prevHs = r.prevHs
           /\ AfterHandOut(r, d).committed = r.committed
           /\ AfterHandOut(r, d).msgs = {}
           /\ AfterHandOut(r, d).unst = r.unst
           /\ AfterHandOut(r, d).csi = IF HasEntriesToHandOut(r, d) THEN HandOut(r, d) ELSE r.csi
<1>. DEFINE csi == IF HasEntriesToHandOut(r, d) THEN HandOut(r, d) ELSE r.csi
<1>1. csi \in 0..MaxIndex
  BY HandOutType DEF RawNodeState
<1>2. AfterHandOut(r, d) = [r EXCEPT !.csi = csi, !.msgs = {}]
  BY DEF AfterHandOut
<1>3. AfterHandOut(r, d).csi = csi
  BY <1>2 DEF RawNodeState
<1>. HIDE DEF csi
<1>4. /\ AfterHandOut(r, d) \in RawNodeState
      /\ AfterHandOut(r, d).term = r.term
      /\ AfterHandOut(r, d).prevHs = r.prevHs
      /\ AfterHandOut(r, d).committed = r.committed
      /\ AfterHandOut(r, d).msgs = {}
      /\ AfterHandOut(r, d).unst = r.unst
  BY <1>1, <1>2 DEF RawNodeState
<1>. QED
  BY <1>3, <1>4 DEF csi

LEMMA AfterReadyType ==
    ASSUME NEW r \in RawNodeState, NEW d
    PROVE  /\ AfterReady(r, d) \in RawNodeState
           /\ AfterReady(r, d).term = r.term
           /\ AfterReady(r, d).prevHs = HardStateOf(r)
           /\ AfterReady(r, d).msgs = {}
           /\ AfterReady(r, d).unst = r.unst
           /\ AfterReady(r, d).committed = r.committed
           /\ AfterReady(r, d).csi = IF HasEntriesToHandOut(r, d) THEN HandOut(r, d) ELSE r.csi
<1>. DEFINE a == AfterHandOut(r, d)
<1>1. /\ a \in RawNodeState /\ a.term = r.term /\ a.msgs = {}
      /\ a.unst = r.unst /\ a.committed = r.committed
      /\ a.csi = IF HasEntriesToHandOut(r, d) THEN HandOut(r, d) ELSE r.csi
  BY AfterHandOutType
<1>2. AfterReady(r, d) = [a EXCEPT !.prevHs = HardStateOf(r)]
  BY DEF AfterReady
<1>. HIDE DEF a
<1>3. /\ AfterReady(r, d) \in RawNodeState
      /\ AfterReady(r, d).term = a.term /\ AfterReady(r, d).msgs = a.msgs
      /\ AfterReady(r, d).prevHs = HardStateOf(r)
      /\ AfterReady(r, d).unst = a.unst /\ AfterReady(r, d).committed = a.committed
      /\ AfterReady(r, d).csi = a.csi
  BY <1>1, <1>2, HardStateOfType DEF RawNodeState
<1>. QED
  BY <1>1, <1>3

LEMMA PersistedEvolves ==
    ASSUME NEW r \in RawNodeState, NEW d \in Disk, NEW self \in Server
    PROVE  /\ Evolves(r, Persisted(r, d, self), self) /\ Persisted(r, d, self).term = r.term
           /\ \/ Persisted(r, d, self).committed = r.committed
              \/ Persisted(r, d, self).committed <= LastIndex(d.log)
<1>. DEFINE top   == IF r.role = "leader" THEN LastIndex(d.log) ELSE r.match[self]
            match == [r.match EXCEPT ![self] = top]
            q     == [r EXCEPT !.unst = EmptyLog, !.match = match]
<1>1. match \in [Server -> 0..MaxIndex]
  BY LastIndexType DEF RawNodeState
<1>2. Persisted(r, d, self) = MaybeCommit(q, d, self)
  BY DEF Persisted, RawNodeState
<1>. HIDE DEF match
<1>3. q \in RawNodeState
  BY <1>1, EmptyLogType DEF RawNodeState
<1>4. Evolves(r, q, self) /\ q.term = r.term
  <2>1. q.term = r.term /\ q.prevHs = r.prevHs /\ q.msgs = r.msgs /\ r.term >= r.term
    BY BoundAssumption DEF RawNodeState, Term
  <2>. QED
    BY <1>3, <2>1 DEF Evolves
<1>5. q.committed = r.committed /\ LastLogIndex(q, d) = LastIndex(d.log)
  BY EmptyLogType DEF RawNodeState, LastLogIndex
<1>. HIDE DEF q
<1>6. Commits(q, MaybeCommit(q, d, self), d)
  BY <1>3, MaybeCommitEvolves
<1>. QED
  BY <1>2, <1>3, <1>4, <1>5, <1>6, MaybeCommitEvolves, EvolvesTrans DEF Commits

LEMMA AdvanceType ==
    ASSUME NEW r \in RawNodeState, NEW d \in Disk, NEW self \in Server
    PROVE  /\ Advance(r, d, self) \in RawNodeState
           /\ Advance(r, d, self).term = r.term
           /\ Advance(r, d, self).prevHs.term = r.prevHs.term
           /\ Advance(r, d, self).msgs = {}
           /\ LightMsgs(r, d, self) \subseteq r.msgs \cup Msgs(self, r.term)
           /\ LightMsgs(r, d, self) \subseteq Message
           /\ Advance(r, d, self).applied = r.csi
           /\ Advance(r, d, self).committed = Persisted(r, d, self).committed
           /\ Advance(r, d, self).csi = AfterHandOut(Persisted(r, d, self), d).csi
<1>. DEFINE p == Persisted(r, d, self)
            a == AfterHandOut(p, d)
            prev == [a.prevHs EXCEPT !.commit = p.committed]
<1>1. /\ p \in RawNodeState /\ p.term = r.term /\ p.prevHs = r.prevHs
      /\ p.msgs \subseteq r.msgs \cup Msgs(self, r.term)
  BY PersistedEvolves DEF Evolves
<1>2. LightMsgs(r, d, self) = p.msgs
  BY DEF LightMsgs
<1>3. Advance(r, d, self) = [a EXCEPT !.applied = r.csi, !.prevHs.commit = p.committed]
  BY DEF Advance
<1>. HIDE DEF p
<1>4. /\ a \in RawNodeState /\ a.term = r.term /\ a.prevHs = r.prevHs /\ a.msgs = {}
      /\ a.committed = p.committed
  BY <1>1, AfterHandOutType
<1>. HIDE DEF a
<1>5. Advance(r, d, self) = [a EXCEPT !.applied = r.csi, !.prevHs = prev]
  BY <1>3, <1>4 DEF RawNodeState
<1>6. prev \in HardState /\ prev.term = r.prevHs.term
  BY <1>1, <1>4 DEF RawNodeState, HardState
<1>. HIDE DEF prev
<1>7. r.csi \in 0..MaxIndex
  BY DEF RawNodeState
<1>8. Advance(r, d, self) \in RawNodeState
  BY <1>4, <1>5, <1>6, <1>7 DEF RawNodeState
<1>9. /\ Advance(r, d, self).term = a.term /\ Advance(r, d, self).prevHs = prev
      /\ Advance(r, d, self).msgs = a.msgs
      /\ Advance(r, d, self).csi = a.csi /\ Advance(r, d, self).applied = r.csi
      /\ Advance(r, d, self).committed = a.committed
  BY <1>4, <1>5 DEF RawNodeState
<1>10. p.msgs \subseteq Message
  BY <1>1 DEF RawNodeState
<1>. QED
  BY <1>1, <1>2, <1>4, <1>6, <1>8, <1>9, <1>10 DEF p, a

---------------------------------------------------------------------------
(* The disk *)

LEMMA NewDiskType ==
    ASSUME NEW conf \in SUBSET Server
    PROVE  NewDisk(conf) \in Disk
BY EmptyLogType, IndexFacts DEF NewDisk, Disk, HardState

LEMMA AppendEntriesType ==
    ASSUME NEW d \in Disk, NEW ents \in [Index -> Entry]
    PROVE  AppendEntries(d, ents) \in Disk /\ AppendEntries(d, ents).hs = d.hs
BY DEF AppendEntries, Disk

LEMMA SaveHardStateType ==
    ASSUME NEW d \in Disk, NEW hs \in HardState
    PROVE  SaveHardState(d, hs) \in Disk /\ SaveHardState(d, hs).hs = hs
BY DEF SaveHardState, Disk

LEMMA CompactType ==
    ASSUME NEW d \in Disk, NEW i
    PROVE  CompactLogBefore(d, i) \in Disk /\ CompactLogBefore(d, i).hs = d.hs
BY NoEntryType DEF CompactLogBefore, Disk

---------------------------------------------------------------------------
(* How far a log reaches.  An entry has the term of the leader that made   *)
(* it, at least 1; a place without a row answers term 0.                   *)

Written(log) == \A i \in Index : log[i] # NoEntry => log[i].term >= 1

(* An append message that begins behind a place f's disk does not reach    *)
(* carries entries, or names an entry there.  H[f] is the last index on    *)
(* f's disk.                                                               *)
Anchored(m, H) ==
    /\ \A i \in Rows(m.ents) : i > m.prev /\ m.ents[i].term >= 1
    /\ Rows(m.ents) # {} \/ m.prev <= H[m.to] \/ m.prevTerm >= 1

(* n bounds what the responses among the messages promise.                 *)
Honest(msgs, H, n) ==
    \A m \in msgs : /\ m.type = "append" => Anchored(m, H)
                    /\ m.type = "appendResp" => m.index <= n

(* Where the leader takes f's log to continue is within its own log or     *)
(* within what f has stored.                                               *)
Within(next, last, H) == \A f \in Server : next[f] <= last + 1 \/ next[f] <= H[f] + 1

Sound(r, d, H, n) ==
    /\ Written(r.unst) /\ Written(d.log)
    /\ r.committed <= LastLogIndex(r, d)
    /\ r.role # "follower" => r.term >= 1
    /\ r.role = "leader" => Within(r.next, LastLogIndex(r, d), H)
    /\ Honest(r.msgs, H, n)

(* A call that may add to the end of the log.                              *)
Grows(r, q, d, H, n) == Sound(q, d, H, n) /\ LastLogIndex(q, d) >= LastLogIndex(r, d)

Heights == [Server -> 0..MaxIndex]

LEMMA LastIndexIs ==
    ASSUME NEW log, NEW i \in Rows(log), \A j \in Rows(log) : j <= i
    PROVE  LastIndex(log) = i
<1>1. LastIndex(log) \in Rows(log) /\ i <= LastIndex(log) /\ LastIndex(log) <= i
  BY LastIndexType
<1>2. Rows(log) \subseteq Nat
  BY IndexFacts DEF Rows
<1>3. LastIndex(log) \in Nat /\ i \in Nat
  BY <1>1, <1>2
<1>. QED
  BY <1>1, <1>3

LEMMA EntryTerms ==
    ASSUME NEW r \in RawNodeState, NEW d \in Disk, Written(r.unst), Written(d.log), NEW i
    PROVE  /\ EntryAt(r, d, i).term \in Nat
           /\ EntryAt(r, d, i).term >= 1 => i \in Index /\ i <= LastLogIndex(r, d)
           /\ EntryAt(r, d, i) # NoEntry => EntryAt(r, d, i).term >= 1
           /\ i = LastLogIndex(r, d) /\ i # 0 => EntryAt(r, d, i) # NoEntry
<1>1. NoEntry.term = 0 /\ ~(NoEntry.term >= 1)
  BY NoEntryType
<1>2. EntryAt(r, d, i).term \in Nat
  BY EntryAtType, BoundAssumption DEF Term
<1>3. EntryAt(r, d, i) = NoEntry \/ (i \in Index /\ ~(i > LastLogIndex(r, d)))
  BY DEF EntryAt
<1>4. i \in Index /\ ~(i > LastLogIndex(r, d)) => i <= LastLogIndex(r, d)
  BY LastLogIndexType, IndexFacts
<1>5. EntryAt(r, d, i) \in {NoEntry, r.unst[i], d.log[i]}
  BY DEF EntryAt
<1>6. ASSUME EntryAt(r, d, i) # NoEntry PROVE EntryAt(r, d, i).term >= 1
  BY <1>3, <1>5, <1>6 DEF Written
<1>7. ASSUME i = LastLogIndex(r, d), i # 0 PROVE EntryAt(r, d, i) # NoEntry
  <2>1. i \in Index /\ ~(i > i)
    BY <1>7, LastLogIndexType, IndexFacts DEF Index
  <2>2. EntryAt(r, d, i) = IF r.unst[i] # NoEntry THEN r.unst[i] ELSE d.log[i]
    BY <1>7, <2>1 DEF EntryAt
  <2>3. i \in Rows(r.unst) \/ i \in Rows(d.log)
    <3>1. CASE Rows(r.unst) # {}
      BY <1>7, <3>1, LastIndexType DEF LastLogIndex
    <3>2. CASE Rows(r.unst) = {}
      <4>1. i = LastIndex(d.log)
        BY <1>7, <3>2 DEF LastLogIndex
      <4>2. Rows(d.log) # {}
        BY <1>7, <4>1 DEF LastIndex
      <4>. QED
        BY <4>1, <4>2, LastIndexType
    <3>. QED
      BY <3>1, <3>2
  <2>. QED
    BY <2>2, <2>3 DEF Rows
<1>. QED
  BY <1>1, <1>2, <1>3, <1>4, <1>6, <1>7

(* An append without entries begins at the end of the leader's log.        *)
LEMMA AppendMsgAnchored ==
    ASSUME NEW r \in RawNodeState, NEW d \in Disk, NEW self \in Server, NEW f \in Server,
           NEW H \in Heights, Written(r.unst), Written(d.log),
           Within(r.next, LastLogIndex(r, d), H)
    PROVE  Anchored(AppendMsg(r, d, self, f), H) /\ AppendMsg(r, d, self, f).type = "append"
<1>. DEFINE m == AppendMsg(r, d, self, f)
            next == r.next[f]
            last == LastLogIndex(r, d)
<1>1. /\ m.type = "append" /\ m.to = f /\ m.prev = next - 1 /\ m.prevTerm = EntryAt(r, d, next - 1).term
      /\ m.ents = [i \in Index |-> IF i >= next THEN EntryAt(r, d, i) ELSE NoEntry]
  BY DEF AppendMsg
<1>2. next \in Nat /\ next >= 1 /\ last \in Nat /\ H[f] \in Nat /\ last \in 0..MaxIndex
  BY LastLogIndexType, IndexFacts DEF RawNodeState, Heights
<1>3. \A i \in Rows(m.ents) : i \in Index /\ i \in Int /\ i >= next /\ m.ents[i] = EntryAt(r, d, i)
                              /\ EntryAt(r, d, i) # NoEntry
  BY <1>1, IndexFacts DEF Rows
<1>4. \A i \in Rows(m.ents) : i > m.prev /\ m.ents[i].term >= 1
  <2>1. \A i : EntryAt(r, d, i) # NoEntry => EntryAt(r, d, i).term >= 1
    BY EntryTerms
  <2>. QED
    BY <1>1, <1>2, <1>3, <2>1
<1>5. ASSUME Rows(m.ents) = {}, ~(m.prev <= H[f]) PROVE m.prevTerm >= 1
  <2>1. next <= last + 1 /\ next > 1
    BY <1>1, <1>2, <1>5 DEF Within
  <2>2. last # 0 /\ EntryAt(r, d, last).term >= 1 /\ EntryAt(r, d, last) # NoEntry
    BY <1>2, <2>1, EntryTerms
  <2>3. ~(last >= next)
    <3>1. last \in Index
      BY <1>2, <2>2, IndexFacts DEF Index
    <3>. QED
      BY <1>1, <1>5, <2>2, <3>1 DEF Rows
  <2>4. next - 1 = last
    BY <1>2, <2>1, <2>3
  <2>. QED
    BY <1>1, <2>2, <2>4
<1>. HIDE DEF m
<1>. QED
  BY <1>1, <1>4, <1>5 DEF Anchored, m

(* The messages a call adds.                                               *)
LEMMA HonestUnion ==
    ASSUME NEW A, NEW B, NEW H, NEW n, Honest(A, H, n), Honest(B, H, n)
    PROVE  Honest(A \cup B, H, n)
BY DEF Honest

LEMMA BcastSound ==
    ASSUME NEW r \in RawNodeState, NEW d \in Disk, NEW self \in Server, NEW H \in Heights,
           NEW n, r.role = "leader", Sound(r, d, H, n)
    PROVE  Grows(r, Bcast(r, d, self), d, H, n)
<1>. DEFINE new == {AppendMsg(r, d, self, f) : f \in {g \in r.voters \ {self} : ~NeedsSnapshot(r, d, g)}}
            q == Bcast(r, d, self)
<1>1. r.voters \subseteq Server
  BY DEF RawNodeState
<1>2. \A m \in new : Anchored(m, H) /\ m.type = "append"
  BY <1>1, AppendMsgAnchored DEF Sound
<1>3. Honest(new, H, n)
  BY <1>2 DEF Honest
<1>4. /\ q.msgs = r.msgs \cup new /\ q.unst = r.unst /\ q.committed = r.committed
      /\ q.role = r.role /\ q.term = r.term /\ q.next = r.next
  BY DEF Bcast, RawNodeState
<1>. HIDE DEF new, q
<1>5. LastLogIndex(q, d) = LastLogIndex(r, d)
  BY <1>4 DEF LastLogIndex
<1>6. Honest(q.msgs, H, n)
  BY <1>3, <1>4, HonestUnion DEF Sound
<1>7. LastLogIndex(r, d) >= LastLogIndex(r, d)
  BY LastLogIndexType
<1>. QED
  BY <1>4, <1>5, <1>6, <1>7 DEF Sound, Grows, q

(* Put at the end of the log.                                              *)
LEMMA PutReaches ==
    ASSUME NEW r \in RawNodeState, NEW d \in Disk, NEW e \in Entry, e.term >= 1
    PROVE  LET q == AppendAsLeader(r, d, e)
           IN  /\ LastLogIndex(q, d) >= LastLogIndex(r, d)
               /\ Written(r.unst) => Written(q.unst)
               /\ q.role = r.role /\ q.term = r.term /\ q.next = r.next
               /\ q.committed = r.committed /\ q.msgs = r.msgs
<1>. DEFINE last == LastLogIndex(r, d)
            q == AppendAsLeader(r, d, e)
<1>1. q = [r EXCEPT !.unst = [r.unst EXCEPT ![last + 1] = e]]
  BY DEF AppendAsLeader, Put, RawNodeState
<1>2. /\ q.role = r.role /\ q.term = r.term /\ q.next = r.next
      /\ q.committed = r.committed /\ q.msgs = r.msgs
      /\ q.unst = [r.unst EXCEPT ![last + 1] = e]
  BY <1>1 DEF RawNodeState
<1>3. last \in Nat /\ r.unst \in [Index -> Entry]
  BY LastLogIndexType, IndexFacts DEF RawNodeState
<1>4. e # NoEntry
  BY NoEntryType
<1>5. CASE last + 1 \notin Index
  <2>1. q.unst = r.unst
    BY <1>2, <1>3, <1>5
  <2>. HIDE DEF q
  <2>2. LastLogIndex(q, d) = last
    BY <2>1 DEF LastLogIndex
  <2>. QED
    BY <1>2, <1>3, <2>1, <2>2 DEF q
<1>6. CASE last + 1 \in Index
  <2>. HIDE DEF last, q
  <2>1. \A i \in Index : q.unst[i] = IF i = last + 1 THEN e ELSE r.unst[i]
    BY <1>2, <1>3, <1>6
  <2>2. Rows(q.unst) = Rows(r.unst) \cup {last + 1}
    BY <1>4, <1>6, <2>1 DEF Rows
  <2>3. \A j \in Rows(r.unst) : j <= last
    BY LastIndexType DEF LastLogIndex, last
  <2>4. \A j \in Rows(q.unst) : j <= last + 1
    BY <1>3, <2>2, <2>3, IndexFacts DEF Rows
  <2>5. LastIndex(q.unst) = last + 1
    BY <2>2, <2>4, LastIndexIs
  <2>6. LastLogIndex(q, d) = last + 1
    BY <2>2, <2>5 DEF LastLogIndex
  <2>7. Written(r.unst) => Written(q.unst)
    BY <2>1 DEF Written
  <2>. QED
    BY <1>2, <1>3, <2>6, <2>7 DEF q, last
<1>. QED
  BY <1>5, <1>6

LEMMA FurtherWithin ==
    ASSUME NEW next, NEW a \in Int, NEW b \in Int, b >= a, NEW H,
           \A f \in Server : next[f] \in Int, Within(next, a, H)
    PROVE  Within(next, b, H)
BY DEF Within

LEMMA PutSound ==
    ASSUME NEW r \in RawNodeState, NEW d \in Disk, NEW H \in Heights, NEW n, NEW e \in Entry,
           e.term >= 1, Sound(r, d, H, n)
    PROVE  Grows(r, AppendAsLeader(r, d, e), d, H, n)
<1>1. PICK q : q = AppendAsLeader(r, d, e)
  OBVIOUS
<1>2. /\ LastLogIndex(q, d) >= LastLogIndex(r, d)
      /\ Written(r.unst) => Written(q.unst)
      /\ q.role = r.role /\ q.term = r.term /\ q.next = r.next
      /\ q.committed = r.committed /\ q.msgs = r.msgs
  BY <1>1, PutReaches
<1>3. /\ LastLogIndex(q, d) \in Int /\ LastLogIndex(r, d) \in Int /\ r.committed \in Int
      /\ \A f \in Server : r.next[f] \in Int
  BY LastLogIndexType, IndexFacts DEF RawNodeState
<1>4. r.role = "leader" => Within(r.next, LastLogIndex(q, d), H)
  BY <1>2, <1>3, FurtherWithin DEF Sound
<1>5. q.committed <= LastLogIndex(q, d)
  BY <1>2, <1>3 DEF Sound
<1>. QED
  BY <1>1, <1>2, <1>4, <1>5 DEF Sound, Grows

LEMMA GrowsTrans ==
    ASSUME NEW r, NEW q, NEW p, NEW d, NEW H, NEW n, Grows(r, q, d, H, n), Grows(q, p, d, H, n)
    PROVE  Grows(r, p, d, H, n)
BY LastLogIndexType DEF Grows

LEMMA GrowsRefl ==
    ASSUME NEW r, NEW d, NEW H, NEW n, Sound(r, d, H, n)
    PROVE  Grows(r, r, d, H, n)
BY LastLogIndexType DEF Grows

(* Fields the promises do not look at may change.                          *)
LEMMA SameSound ==
    ASSUME NEW r, NEW q, NEW d, NEW H, NEW n, Sound(r, d, H, n),
           q.unst = r.unst, q.committed = r.committed, q.msgs = r.msgs,
           q.role # "follower" => q.term >= 1,
           q.role = "leader" => Within(q.next, LastLogIndex(r, d), H)
    PROVE  Grows(r, q, d, H, n)
<1>1. LastLogIndex(q, d) = LastLogIndex(r, d) /\ LastLogIndex(r, d) >= LastLogIndex(r, d)
  BY LastLogIndexType DEF LastLogIndex
<1>. QED
  BY <1>1 DEF Sound, Grows

LEMMA MaybeCommitSound ==
    ASSUME NEW r \in RawNodeState, NEW d \in Disk, NEW self \in Server, NEW H \in Heights,
           NEW n, Sound(r, d, H, n)
    PROVE  Grows(r, MaybeCommit(r, d, self), d, H, n)
<1>. DEFINE top == CHOOSE i \in Committable(r, d) : \A j \in Committable(r, d) : j <= i
            q   == [r EXCEPT !.committed = top]
<1>1. CASE r.role = "leader" /\ Committable(r, d) # {}
  <2>1. \E i \in Committable(r, d) : \A j \in Committable(r, d) : j <= i
    BY <1>1, CommittableFacts, GreatestExists, IndexFacts
  <2>2. top \in 0..MaxIndex /\ top <= LastLogIndex(r, d)
    BY <2>1, CommittableFacts
  <2>3. MaybeCommit(r, d, self) = Bcast(q, d, self)
    BY <1>1 DEF MaybeCommit
  <2>. HIDE DEF top
  <2>4. q \in RawNodeState
    BY <2>2 DEF RawNodeState
  <2>5. /\ q.committed = top /\ q.unst = r.unst /\ q.msgs = r.msgs /\ q.role = r.role
        /\ q.term = r.term /\ q.next = r.next
    BY DEF RawNodeState
  <2>. HIDE DEF q
  <2>6. LastLogIndex(q, d) = LastLogIndex(r, d) /\ LastLogIndex(r, d) >= LastLogIndex(r, d)
    BY <2>5, LastLogIndexType DEF LastLogIndex
  <2>7. Grows(r, q, d, H, n)
    BY <2>2, <2>5, <2>6 DEF Sound, Grows
  <2>8. Grows(q, Bcast(q, d, self), d, H, n)
    BY <1>1, <2>4, <2>5, <2>7, BcastSound DEF Grows
  <2>. QED
    BY <2>3, <2>7, <2>8, GrowsTrans
<1>2. CASE ~(r.role = "leader" /\ Committable(r, d) # {})
  BY <1>2, GrowsRefl DEF MaybeCommit
<1>. QED
  BY <1>1, <1>2

LEMMA BecomeLeaderSound ==
    ASSUME NEW r \in RawNodeState, NEW d \in Disk, NEW self \in Server, NEW H \in Heights,
           NEW n, Sound(r, d, H, n), r.term >= 1
    PROVE  Grows(r, BecomeLeader(r, d, self), d, H, n)
<1>. DEFINE match == [f \in Server |-> IF f = self THEN LastIndex(d.log) ELSE 0]
            next  == [f \in Server |-> LastLogIndex(r, d) + 1]
            led   == [r EXCEPT !.role = "leader", !.votes = {},
                               !.pendingConf = LastLogIndex(r, d),
                               !.match = match, !.next = next]
            e     == [term |-> r.term, kind |-> "normal", ctx |-> NoReq, node |-> 0]
            a     == AppendAsLeader(led, d, e)
<1>1. match \in [Server -> 0..MaxIndex]
  BY LastIndexType, IndexFacts
<1>2. next \in [Server -> 1..(MaxIndex + 1)] /\ LastLogIndex(r, d) \in 0..MaxIndex
  BY LastLogIndexType, IndexFacts
<1>3. BecomeLeader(r, d, self) = Bcast(a, d, self)
  BY DEF BecomeLeader
<1>4. e \in Entry /\ e.term >= 1
  BY NormalEntryType DEF RawNodeState
<1>5. Within(next, LastLogIndex(r, d), H)
  <2>1. \A f \in Server : next[f] <= LastLogIndex(r, d) + 1
    BY <1>2
  <2>. QED
    BY <2>1 DEF Within
<1>. HIDE DEF match, next, e
<1>6. led \in RawNodeState
  BY <1>1, <1>2 DEF RawNodeState, Role
<1>7. /\ led.unst = r.unst /\ led.committed = r.committed /\ led.msgs = r.msgs
      /\ led.term = r.term /\ led.next = next /\ led.role = "leader"
  BY DEF RawNodeState
<1>. HIDE DEF led
<1>8. Grows(r, led, d, H, n)
  BY <1>5, <1>7, SameSound
<1>9. Grows(led, a, d, H, n)
  BY <1>4, <1>6, <1>8, PutSound DEF Grows
<1>10. a.role = "leader" /\ a \in RawNodeState
  BY <1>4, <1>6, <1>7, PutReaches, AppendAsLeaderEvolves DEF Evolves
<1>. HIDE DEF a
<1>11. Grows(a, Bcast(a, d, self), d, H, n)
  BY <1>9, <1>10, BcastSound DEF Grows
<1>. QED
  BY <1>3, <1>8, <1>9, <1>11, GrowsTrans

(* Messages that neither append nor acknowledge promise nothing.           *)
LEMMA OtherMsgsSound ==
    ASSUME NEW r \in RawNodeState, NEW d, NEW H, NEW n, NEW new,
           Sound(r, d, H, n), \A m \in new : m.type \notin {"append", "appendResp"}
    PROVE  Grows(r, [r EXCEPT !.msgs = r.msgs \cup new], d, H, n)
<1>. DEFINE q == [r EXCEPT !.msgs = r.msgs \cup new]
<1>1. Honest(r.msgs, H, n) /\ Honest(new, H, n)
  BY DEF Sound, Honest
<1>2. /\ q.unst = r.unst /\ q.committed = r.committed /\ q.msgs = r.msgs \cup new
      /\ q.role = r.role /\ q.term = r.term /\ q.next = r.next
  BY DEF RawNodeState
<1>. HIDE DEF q
<1>3. Honest(q.msgs, H, n)
  BY <1>1, <1>2, HonestUnion
<1>4. LastLogIndex(q, d) = LastLogIndex(r, d) /\ LastLogIndex(r, d) >= LastLogIndex(r, d)
  BY <1>2, LastLogIndexType DEF LastLogIndex
<1>5. Grows(r, q, d, H, n)
  BY <1>2, <1>3, <1>4 DEF Sound, Grows
<1>. QED
  BY <1>5 DEF q

LEMMA CampaignSound ==
    ASSUME NEW r \in RawNodeState, NEW d \in Disk, NEW self \in Server, NEW H \in Heights,
           NEW n, Sound(r, d, H, n), CanCampaign(r, d, self)
    PROVE  Grows(r, Campaign(r, d, self), d, H, n)
<1>. DEFINE c    == [r EXCEPT !.role = "candidate", !.term = r.term + 1, !.vote = self,
                              !.votes = {self}]
            last == LastLogIndex(r, d)
            new  == {[type |-> "voteReq", from |-> self, to |-> f, term |-> c.term,
                      last |-> last, lastTerm |-> EntryAt(r, d, last).term]
                        : f \in r.voters \ {self}}
<1>1. r.term \in Term /\ r.term + 1 \in Term /\ r.term + 1 >= 1
  BY BoundAssumption DEF CanCampaign, RawNodeState, Term
<1>2. c \in RawNodeState
  BY <1>1 DEF RawNodeState, Role
<1>3. /\ c.term = r.term + 1 /\ c.unst = r.unst /\ c.committed = r.committed
      /\ c.msgs = r.msgs /\ c.role = "candidate"
  BY DEF RawNodeState
<1>4. \A m \in new : m.type \notin {"append", "appendResp"}
  OBVIOUS
<1>5. \/ Campaign(r, d, self) = BecomeLeader(c, d, self)
      \/ Campaign(r, d, self) = [c EXCEPT !.msgs = c.msgs \cup new]
  BY DEF Campaign
<1>. HIDE DEF c, new
<1>6. Grows(r, c, d, H, n)
  BY <1>1, <1>3, SameSound
<1>7. Sound(c, d, H, n) /\ c.term >= 1
  BY <1>1, <1>3, <1>6 DEF Grows
<1>8. CASE Campaign(r, d, self) = BecomeLeader(c, d, self)
  BY <1>2, <1>6, <1>7, <1>8, BecomeLeaderSound, GrowsTrans
<1>9. CASE Campaign(r, d, self) = [c EXCEPT !.msgs = c.msgs \cup new]
  <2>1. Grows(c, [c EXCEPT !.msgs = c.msgs \cup new], d, H, n)
    BY <1>2, <1>4, <1>7, OtherMsgsSound
  <2>. QED
    BY <1>6, <1>9, <2>1, GrowsTrans
<1>. QED
  BY <1>5, <1>8, <1>9

LEMMA ProposeSound ==
    ASSUME NEW r \in RawNodeState, NEW d \in Disk, NEW self \in Server, NEW H \in Heights,
           NEW n, NEW q \in Req \cup {NoReq}, Sound(r, d, H, n), r.role = "leader"
    PROVE  Grows(r, Propose(r, d, self, q), d, H, n)
<1>. DEFINE e == [term |-> r.term, kind |-> "normal", ctx |-> q, node |-> 0]
            a == AppendAsLeader(r, d, e)
<1>1. e \in Entry /\ e.term >= 1
  BY NormalEntryType DEF RawNodeState, Sound
<1>. HIDE DEF e
<1>2. Grows(r, a, d, H, n)
  BY <1>1, PutSound
<1>3. a.role = "leader" /\ a \in RawNodeState
  BY <1>1, PutReaches, AppendAsLeaderEvolves DEF Evolves
<1>4. Propose(r, d, self, q) = Bcast(a, d, self)
  BY DEF Propose, e
<1>. HIDE DEF a
<1>5. Grows(a, Bcast(a, d, self), d, H, n)
  BY <1>2, <1>3, BcastSound DEF Grows
<1>. QED
  BY <1>2, <1>4, <1>5, GrowsTrans

LEMMA ProposeConfChangeSound ==
    ASSUME NEW r \in RawNodeState, NEW d \in Disk, NEW self \in Server, NEW H \in Heights,
           NEW n, NEW kind \in {"add", "remove"}, NEW node \in Server,
           LastLogIndex(r, d) < MaxIndex, Sound(r, d, H, n), r.role = "leader"
    PROVE  Grows(r, ProposeConfChange(r, d, self, kind, node), d, H, n)
<1>. DEFINE pending == r.pendingConf > r.applied
            e == IF pending
                 THEN [term |-> r.term, kind |-> "normal", ctx |-> NoReq, node |-> 0]
                 ELSE [term |-> r.term, kind |-> kind, ctx |-> NoReq, node |-> node]
            at == IF pending THEN r.pendingConf ELSE LastLogIndex(r, d) + 1
            p  == [r EXCEPT !.pendingConf = at]
            a  == AppendAsLeader(p, d, e)
<1>1. e \in Entry /\ e.term >= 1
  BY DEF Entry, RawNodeState, Sound
<1>2. at \in 0..MaxIndex
  BY LastLogIndexType, IndexFacts DEF RawNodeState
<1>3. ProposeConfChange(r, d, self, kind, node) = Bcast(a, d, self)
  BY DEF ProposeConfChange
<1>. HIDE DEF e, at
<1>4. p \in RawNodeState
  BY <1>2 DEF RawNodeState
<1>5. /\ p.unst = r.unst /\ p.committed = r.committed /\ p.msgs = r.msgs
      /\ p.term = r.term /\ p.next = r.next /\ p.role = r.role
  BY DEF RawNodeState
<1>. HIDE DEF p
<1>6. Grows(r, p, d, H, n)
  BY <1>5, SameSound DEF Sound
<1>7. Grows(p, a, d, H, n)
  BY <1>1, <1>4, <1>6, PutSound DEF Grows
<1>8. a.role = "leader" /\ a \in RawNodeState
  BY <1>1, <1>4, <1>5, PutReaches, AppendAsLeaderEvolves DEF Evolves
<1>. HIDE DEF a
<1>9. Grows(a, Bcast(a, d, self), d, H, n)
  BY <1>7, <1>8, BcastSound DEF Grows
<1>. QED
  BY <1>3, <1>6, <1>7, <1>9, GrowsTrans

LEMMA ApplyConfChangeSound ==
    ASSUME NEW r \in RawNodeState, NEW d \in Disk, NEW self \in Server, NEW H \in Heights, NEW n,
           NEW e \in Entry, e.kind \in {"add", "remove"}, LastLogIndex(r, d) >= 1,
           Sound(r, d, H, n)
    PROVE  Grows(r, ApplyConfChange(r, d, self, e), d, H, n)
<1>. DEFINE v == [r EXCEPT !.voters = NewVoters(r, e)]
            c == IF e.kind = "add" /\ e.node \notin r.voters
                 THEN [v EXCEPT !.match[e.node] = 0, !.next[e.node] = LastLogIndex(r, d)] ELSE v
<1>1. NewVoters(r, e) \in SUBSET Server /\ e.node \in Server
  BY NewVotersType
<1>2. v \in RawNodeState /\ v.term = r.term /\ v.msgs = r.msgs /\ v.role = r.role
      /\ v.unst = r.unst /\ v.committed = r.committed /\ v.next = r.next
  BY <1>1 DEF RawNodeState
<1>. HIDE DEF v
<1>3. /\ c \in RawNodeState /\ c.term = v.term /\ c.msgs = v.msgs /\ c.role = v.role
      /\ c.unst = v.unst /\ c.committed = v.committed
      /\ c.next = v.next \/ c.next = [v.next EXCEPT ![e.node] = LastLogIndex(r, d)]
  <2>1. CASE e.kind = "add" /\ e.node \notin r.voters
    <3>1. LastLogIndex(r, d) \in 1..(MaxIndex + 1) /\ 0 \in 0..MaxIndex
      BY LastLogIndexType, IndexFacts
    <3>. DEFINE m == [v.match EXCEPT ![e.node] = 0]
                k == [v.next EXCEPT ![e.node] = LastLogIndex(r, d)]
    <3>2. m \in [Server -> 0..MaxIndex] /\ k \in [Server -> 1..(MaxIndex + 1)]
      BY <1>1, <1>2, <3>1 DEF RawNodeState
    <3>3. c = [v EXCEPT !.match = m, !.next = k]
      BY <1>2, <2>1 DEF RawNodeState
    <3>. HIDE DEF c, m
    <3>4. c.next = k
      BY <1>2, <3>3 DEF RawNodeState
    <3>. HIDE DEF k
    <3>5. /\ c \in RawNodeState /\ c.term = v.term /\ c.msgs = v.msgs /\ c.role = v.role
          /\ c.unst = v.unst /\ c.committed = v.committed
      BY <1>2, <3>2, <3>3 DEF RawNodeState
    <3>. QED
      BY <3>4, <3>5 DEF k
  <2>2. CASE ~(e.kind = "add" /\ e.node \notin r.voters)
    BY <1>2, <2>2
  <2>. QED
    BY <2>1, <2>2
<1>4. \/ ApplyConfChange(r, d, self, e) = c
      \/ ApplyConfChange(r, d, self, e) = MaybeCommit(c, d, self)
      \/ ApplyConfChange(r, d, self, e) = Bcast(c, d, self) /\ r.role = "leader"
  BY DEF ApplyConfChange, v
<1>. HIDE DEF c
<1>5. ASSUME r.role = "leader" PROVE Within(c.next, LastLogIndex(r, d), H)
  <2>1. Within(r.next, LastLogIndex(r, d), H)
    BY <1>5 DEF Sound
  <2>2. \A f \in Server : c.next[f] = r.next[f] \/ c.next[f] = LastLogIndex(r, d)
    BY <1>1, <1>2, <1>3 DEF RawNodeState
  <2>3. LastLogIndex(r, d) <= LastLogIndex(r, d) + 1
    BY LastLogIndexType
  <2>. QED
    BY <2>1, <2>2, <2>3 DEF Within
<1>6. Grows(r, c, d, H, n)
  BY <1>2, <1>3, <1>5, SameSound DEF Sound
<1>7. Sound(c, d, H, n)
  BY <1>6 DEF Grows
<1>8. CASE ApplyConfChange(r, d, self, e) = MaybeCommit(c, d, self)
  BY <1>3, <1>6, <1>7, <1>8, MaybeCommitSound, GrowsTrans
<1>9. CASE ApplyConfChange(r, d, self, e) = Bcast(c, d, self) /\ r.role = "leader"
  BY <1>2, <1>3, <1>6, <1>7, <1>9, BcastSound, GrowsTrans
<1>. QED
  BY <1>4, <1>6, <1>8, <1>9

LEMMA BecomeFollowerSound ==
    ASSUME NEW r \in RawNodeState, NEW d, NEW H, NEW n, NEW t \in Term, Sound(r, d, H, n)
    PROVE  /\ Grows(r, BecomeFollower(r, t), d, H, n)
           /\ LastLogIndex(BecomeFollower(r, t), d) = LastLogIndex(r, d)
<1>. DEFINE q == BecomeFollower(r, t)
<1>1. /\ q.unst = r.unst /\ q.committed = r.committed /\ q.msgs = r.msgs
      /\ q.role = "follower"
  BY DEF BecomeFollower, RawNodeState
<1>. HIDE DEF q
<1>2. Grows(r, q, d, H, n) /\ LastLogIndex(q, d) = LastLogIndex(r, d)
  BY <1>1, SameSound DEF LastLogIndex
<1>. QED
  BY <1>2 DEF q

(* What messages promise holds still when more is stored.                  *)
LEMMA HonestMore ==
    ASSUME NEW msgs, msgs \subseteq Message, NEW H \in Heights, NEW K \in Heights,
           NEW n \in Int, NEW k \in Int, n <= k, \A f \in Server : H[f] <= K[f],
           Honest(msgs, H, n)
    PROVE  Honest(msgs, K, k)
<1>1. \A f \in Server : H[f] \in Int /\ K[f] \in Int
  BY IndexFacts DEF Heights
<1>2. ASSUME NEW m \in msgs
      PROVE  /\ m.type = "append" => Anchored(m, K)
             /\ m.type = "appendResp" => m.index <= k
  <2>1. m \in Message
    OBVIOUS
  <2>2. CASE m.type = "append"
    <3>1. m.to \in Server /\ m.prev \in Int
      BY <2>1, <2>2, IndexFacts DEF Message
    <3>2. Anchored(m, H)
      BY <2>2 DEF Honest
    <3>. QED
      BY <1>1, <2>2, <3>1, <3>2 DEF Anchored
  <2>3. CASE m.type = "appendResp"
    <3>1. m.index \in Int
      BY <2>1, <2>3, IndexFacts DEF Message
    <3>2. m.index <= n
      BY <2>3 DEF Honest
    <3>. QED
      BY <2>3, <3>1, <3>2
  <2>. QED
    BY <2>2, <2>3
<1>. QED
  BY <1>2 DEF Honest

LEMMA MoreSound ==
    ASSUME NEW r \in RawNodeState, NEW d, NEW H \in Heights, NEW K \in Heights,
           NEW n \in Int, NEW k \in Int, n <= k, \A f \in Server : H[f] <= K[f],
           Sound(r, d, H, n)
    PROVE  Sound(r, d, K, k)
<1>1. \A f \in Server : H[f] \in Int /\ K[f] \in Int /\ r.next[f] \in Int
  BY IndexFacts DEF Heights, RawNodeState
<1>2. Honest(r.msgs, K, k)
  <2>1. r.msgs \subseteq Message
    BY DEF RawNodeState
  <2>. QED
    BY <2>1, HonestMore DEF Sound
<1>3. r.role = "leader" => Within(r.next, LastLogIndex(r, d), K)
  <2>1. LastLogIndex(r, d) \in Int
    BY LastLogIndexType
  <2>. QED
    BY <1>1, <2>1 DEF Sound, Within
<1>. QED
  BY <1>2, <1>3 DEF Sound

Acked(r, self, f, i) ==
    [r EXCEPT !.msgs = r.msgs \cup {[type |-> "appendResp", from |-> self, to |-> f,
                                     term |-> r.term, index |-> i]}]

LEMMA AckSound ==
    ASSUME NEW r \in RawNodeState, NEW d, NEW H, NEW n, NEW self, NEW f, NEW i,
           Sound(r, d, H, n), i <= n
    PROVE  /\ Sound(Acked(r, self, f, i), d, H, n)
           /\ LastLogIndex(Acked(r, self, f, i), d) = LastLogIndex(r, d)
<1>. DEFINE a == [type |-> "appendResp", from |-> self, to |-> f, term |-> r.term, index |-> i]
            q == [r EXCEPT !.msgs = r.msgs \cup {a}]
<1>1. a.type = "appendResp" /\ a.index = i
  OBVIOUS
<1>. HIDE DEF a
<1>2. Honest({a}, H, n)
  BY <1>1 DEF Honest
<1>3. /\ q.unst = r.unst /\ q.committed = r.committed /\ q.msgs = r.msgs \cup {a}
      /\ q.role = r.role /\ q.term = r.term /\ q.next = r.next
  BY DEF RawNodeState
<1>. HIDE DEF q
<1>4. Honest(q.msgs, H, n)
  BY <1>2, <1>3, HonestUnion DEF Sound
<1>5. LastLogIndex(q, d) = LastLogIndex(r, d)
  BY <1>3 DEF LastLogIndex
<1>6. Sound(q, d, H, n)
  BY <1>3, <1>4, <1>5 DEF Sound
<1>. QED
  BY <1>5, <1>6 DEF q, a, Acked

---------------------------------------------------------------------------
(* step() *)

(* What an answered append leaves: the log reaches its last entry.         *)
LEMMA AppendReaches ==
    ASSUME NEW r \in RawNodeState, NEW d \in Disk, NEW self \in Server, NEW H \in Heights,
           NEW m \in Message, m.type = "append", m.to = self, Anchored(m, H),
           H[self] <= LastLogIndex(r, d), Written(r.unst), Written(d.log),
           EntryAt(r, d, m.prev).term = m.prevTerm,
           Rows(m.ents) = {} \/
             EntryAt(r, d, LastIndex(m.ents)).term = m.ents[LastIndex(m.ents)].term
    PROVE  (IF Rows(m.ents) = {} THEN m.prev ELSE LastIndex(m.ents)) <= LastLogIndex(r, d)
<1>1. CASE Rows(m.ents) = {}
  <2>1. m.prev \in Int /\ H[self] \in Int /\ LastLogIndex(r, d) \in Int
    BY LastLogIndexType, IndexFacts DEF Message, Heights
  <2>2. CASE m.prev <= H[self]
    BY <1>1, <2>1, <2>2
  <2>3. CASE m.prevTerm >= 1
    BY <1>1, <2>3, EntryTerms
  <2>. QED
    BY <1>1, <2>2, <2>3 DEF Anchored
<1>2. CASE Rows(m.ents) # {}
  <2>1. LastIndex(m.ents) \in Rows(m.ents)
    BY <1>2, LastIndexType
  <2>2. EntryAt(r, d, LastIndex(m.ents)).term >= 1
    BY <1>2, <2>1 DEF Anchored
  <2>. QED
    BY <1>2, <2>2, EntryTerms
<1>. QED
  BY <1>1, <1>2

(* The log behind an append that replaced entries from a place on.         *)
LEMMA ReplacedReaches ==
    ASSUME NEW r \in RawNodeState, NEW d \in Disk, NEW H, NEW m \in Message, m.type = "append",
           Anchored(m, H), Written(r.unst), NEW from \in Rows(m.ents),
           NEW unst, unst = [i \in Index |-> IF i < from THEN r.unst[i] ELSE m.ents[i]]
    PROVE  /\ Written(unst) /\ Rows(unst) # {} /\ LastIndex(unst) = LastIndex(m.ents)
           /\ m.prev < LastIndex(m.ents)
<1>. DEFINE last == LastIndex(m.ents)
<1>1. last \in Rows(m.ents) /\ from <= last /\ \A j \in Rows(m.ents) : j <= last
  BY LastIndexType
<1>2. \A j \in Rows(m.ents) : j \in Index /\ j \in Nat
  BY IndexFacts DEF Rows
<1>3. from \in Nat /\ last \in Nat /\ m.prev \in Nat
  BY <1>1, <1>2, IndexFacts DEF Message
<1>. HIDE DEF last
<1>4. Written(unst)
  <2>1. \A i \in Index : unst[i] = IF i < from THEN r.unst[i] ELSE m.ents[i]
    OBVIOUS
  <2>2. \A i \in Index : m.ents[i] # NoEntry => m.ents[i].term >= 1
    BY DEF Anchored, Rows
  <2>. QED
    BY <2>1, <2>2 DEF Written
<1>5. last \in Rows(unst)
  <2>1. last \in Index /\ m.ents[last] # NoEntry /\ ~(last < from)
    BY <1>1, <1>3 DEF Rows
  <2>2. unst[last] = m.ents[last]
    BY <2>1
  <2>. QED
    BY <2>1, <2>2 DEF Rows
<1>6. ASSUME NEW j \in Rows(unst) PROVE j <= last
  <2>1. j \in Index /\ unst[j] # NoEntry /\ j \in Nat
    BY IndexFacts DEF Rows
  <2>2. CASE j < from
    BY <1>1, <1>3, <2>1, <2>2
  <2>3. CASE ~(j < from)
    <3>1. unst[j] = m.ents[j]
      BY <2>1, <2>3
    <3>2. j \in Rows(m.ents)
      BY <2>1, <3>1 DEF Rows
    <3>. QED
      BY <1>1, <3>2
  <2>. QED
    BY <2>2, <2>3
<1>7. LastIndex(unst) = last
  BY <1>5, <1>6, LastIndexIs
<1>8. m.prev < last
  BY <1>1, <1>3 DEF Anchored
<1>. QED
  BY <1>4, <1>5, <1>7, <1>8 DEF last

LEMMA StepAppendSound ==
    ASSUME NEW r0 \in RawNodeState, NEW d \in Disk, NEW self \in Server, NEW H \in Heights,
           NEW m \in Message, m.type = "append", m.term >= r0.term, m.to = self, Anchored(m, H),
           H[self] <= LastLogIndex(r0, d), Sound(r0, d, H, -1)
    PROVE  LET q == StepAppend(r0, d, self, m) IN Sound(q, d, H, LastLogIndex(q, d))
<1>. DEFINE r    == BecomeFollower(r0, m.term)
            last == IF m.prev < LastLogIndex(r, d) THEN m.prev ELSE LastLogIndex(r, d)
            hint == CHOOSE i \in 0..last :
                        /\ EntryAt(r, d, i).term <= m.prevTerm
                        /\ \A j \in (i + 1)..last : EntryAt(r, d, j).term > m.prevTerm
            new  == NewEntries(r, d, m)
            from == CHOOSE i \in new : \A j \in new : i <= j
            lastNew == IF Rows(m.ents) = {} THEN m.prev ELSE LastIndex(m.ents)
            unst == [i \in Index |-> IF i < from THEN r.unst[i] ELSE m.ents[i]]
            appended == IF new = {} THEN r ELSE [r EXCEPT !.unst = unst]
            commit == IF m.commit < lastNew THEN m.commit ELSE lastNew
            committed == IF commit > appended.committed THEN commit ELSE appended.committed
            moved == [appended EXCEPT !.committed = committed]
            ack(s, i) == Acked(s, self, m.from, i)
            reject == [r EXCEPT !.msgs = r.msgs \cup
                         {[type |-> "appendReject", from |-> self, to |-> m.from, term |-> r.term,
                           index |-> m.prev, hint |-> hint]}]
            q == StepAppend(r0, d, self, m)
<1>1. /\ m.from \in Server /\ m.term \in Term /\ m.prev \in 0..MaxIndex
      /\ m.ents \in [Index -> Entry] /\ m.commit \in 0..MaxIndex
  BY DEF Message
<1>2. /\ r \in RawNodeState /\ Sound(r, d, H, -1) /\ r.role = "follower"
      /\ LastLogIndex(r, d) = LastLogIndex(r0, d)
  <2>1. r \in RawNodeState
    BY <1>1, BecomeFollowerEvolves DEF Evolves
  <2>2. r.role = "follower"
    BY DEF BecomeFollower, RawNodeState
  <2>. QED
    BY <1>1, <2>1, <2>2, BecomeFollowerSound DEF Grows
<1>3. \/ q = ack(r, r.committed)
      \/ q = reject
      \/ q = ack(moved, lastNew) /\ ~(m.prev < r.committed) /\ EntryAt(r, d, m.prev).term = m.prevTerm
  <2>1. r.committed \in 0..MaxIndex
    BY <1>2 DEF RawNodeState
  <2>2. m.prev < r.committed \/ m.prev >= r.committed
    BY <1>1, <2>1, IndexFacts
  <2>. QED
    BY <2>2 DEF StepAppend, Acked
<1>. HIDE DEF q, r, last, hint
<1>4. LastLogIndex(r, d) \in Nat /\ -1 <= LastLogIndex(r, d) /\ r.committed \in Nat
      /\ Sound(r, d, H, LastLogIndex(r, d))
  <2>1. LastLogIndex(r, d) \in Nat /\ -1 <= LastLogIndex(r, d) /\ -1 \in Int
        /\ r.committed \in Nat /\ LastLogIndex(r, d) \in Int
    BY <1>2, LastLogIndexType, IndexFacts DEF RawNodeState
  <2>2. \A f \in Server : H[f] <= H[f]
    BY DEF Heights
  <2>. QED
    BY <1>2, <2>1, <2>2, MoreSound
<1>5. CASE q = ack(r, r.committed)
  <2>1. r.committed <= LastLogIndex(r, d)
    BY <1>2 DEF Sound
  <2>2. /\ Sound(ack(r, r.committed), d, H, LastLogIndex(r, d))
        /\ LastLogIndex(ack(r, r.committed), d) = LastLogIndex(r, d)
    BY <1>2, <1>4, <2>1, AckSound
  <2>. HIDE DEF ack
  <2>. QED
    BY <1>5, <2>2 DEF q
<1>6. CASE q = reject
  <2>. DEFINE no == [type |-> "appendReject", from |-> self, to |-> m.from, term |-> r.term,
                     index |-> m.prev, hint |-> hint]
  <2>1. \A x \in {no} : x.type \notin {"append", "appendResp"}
    OBVIOUS
  <2>. HIDE DEF no
  <2>2. Grows(r, [r EXCEPT !.msgs = r.msgs \cup {no}], d, H, LastLogIndex(r, d))
    BY <1>2, <1>4, <2>1, OtherMsgsSound
  <2>3. LastLogIndex([r EXCEPT !.msgs = r.msgs \cup {no}], d) = LastLogIndex(r, d)
    BY <1>2 DEF LastLogIndex, RawNodeState
  <2>4. q = [r EXCEPT !.msgs = r.msgs \cup {no}]
    BY <1>6 DEF no
  <2>. QED
    BY <2>2, <2>3, <2>4 DEF Grows, q
<1>7. CASE q = ack(moved, lastNew) /\ ~(m.prev < r.committed) /\ EntryAt(r, d, m.prev).term = m.prevTerm
  <2>1. lastNew \in Nat /\ lastNew >= m.prev /\ commit \in Nat /\ commit <= lastNew
    <3>1. CASE Rows(m.ents) = {}
      BY <1>1, <3>1, IndexFacts
    <3>2. CASE Rows(m.ents) # {}
      <4>1. LastIndex(m.ents) \in Rows(m.ents) /\ LastIndex(m.ents) \in Nat
        BY <3>2, LastIndexType, IndexFacts
      <4>. QED
        BY <1>1, <3>2, <4>1, IndexFacts DEF Anchored
    <3>. QED
      BY <3>1, <3>2
  <2>2. /\ appended \in RawNodeState /\ Written(appended.unst) /\ lastNew <= LastLogIndex(appended, d)
        /\ appended.committed = r.committed /\ appended.msgs = r.msgs /\ appended.role = "follower"
    <3>1. CASE new = {}
      <4>1. Rows(m.ents) = {} \/
              EntryAt(r, d, LastIndex(m.ents)).term = m.ents[LastIndex(m.ents)].term
        BY <3>1, LastIndexType DEF NewEntries
      <4>2. lastNew <= LastLogIndex(r, d)
        BY <1>2, <1>7, <4>1, AppendReaches DEF Sound
      <4>3. appended = r
        BY <3>1
      <4>. HIDE DEF appended, lastNew
      <4>. QED
        BY <1>2, <4>2, <4>3 DEF Sound
    <3>2. CASE new # {}
      <4>1. from \in new
        BY <3>2, LeastRow DEF Rows, NewEntries
      <4>2. from \in Rows(m.ents)
        BY <4>1 DEF NewEntries
      <4>. HIDE DEF new, from
      <4>3. unst \in [Index -> Entry]
        BY <1>1, <1>2 DEF RawNodeState
      <4>4. /\ Written(unst) /\ Rows(unst) # {} /\ LastIndex(unst) = LastIndex(m.ents)
        BY <1>2, <4>2, ReplacedReaches DEF Sound
      <4>5. appended = [r EXCEPT !.unst = unst]
        BY <3>2
      <4>6. lastNew = LastIndex(m.ents) /\ LastIndex(m.ents) \in Nat
        BY <4>2, LastIndexType
      <4>. HIDE DEF unst, appended, lastNew
      <4>7. /\ appended \in RawNodeState /\ appended.unst = unst
            /\ appended.committed = r.committed /\ appended.msgs = r.msgs
            /\ appended.role = r.role
        BY <1>2, <4>3, <4>5 DEF RawNodeState
      <4>8. LastLogIndex(appended, d) = LastIndex(m.ents)
        BY <4>4, <4>7 DEF LastLogIndex
      <4>. QED
        BY <1>2, <4>4, <4>6, <4>7, <4>8
    <3>. QED
      BY <3>1, <3>2
  <2>. HIDE DEF appended, lastNew, commit
  <2>3. /\ committed \in Nat /\ committed \in 0..MaxIndex /\ committed <= lastNew
    BY <1>1, <1>4, <1>7, <2>1, <2>2, IndexFacts DEF RawNodeState, commit
  <2>. HIDE DEF committed
  <2>4. /\ moved \in RawNodeState /\ moved.unst = appended.unst /\ moved.msgs = appended.msgs
        /\ moved.role = appended.role /\ moved.committed = committed
    BY <2>2, <2>3 DEF RawNodeState
  <2>. HIDE DEF moved
  <2>5. LastLogIndex(moved, d) = LastLogIndex(appended, d)
    BY <2>4 DEF LastLogIndex
  <2>6. lastNew <= LastLogIndex(moved, d) /\ LastLogIndex(moved, d) \in Int
        /\ -1 <= LastLogIndex(moved, d) /\ -1 \in Int
    BY <2>2, <2>5, LastLogIndexType
  <2>7. Sound(moved, d, H, -1)
    <3>1. committed <= LastLogIndex(moved, d)
      BY <2>1, <2>3, <2>6
    <3>. QED
      BY <1>2, <2>2, <2>4, <3>1 DEF Sound
  <2>8. Sound(moved, d, H, LastLogIndex(moved, d))
    <3>1. \A f \in Server : H[f] <= H[f]
      BY DEF Heights
    <3>. QED
      BY <2>4, <2>6, <2>7, <3>1, MoreSound
  <2>9. /\ Sound(ack(moved, lastNew), d, H, LastLogIndex(moved, d))
        /\ LastLogIndex(ack(moved, lastNew), d) = LastLogIndex(moved, d)
    BY <2>4, <2>6, <2>8, AckSound
  <2>. HIDE DEF ack
  <2>. QED
    BY <1>7, <2>9 DEF q
<1>. QED
  BY <1>3, <1>5, <1>6, <1>7

(* Below what it may still promise, a RawNode is sound for its own end.    *)
LEMMA SoundAtItsEnd ==
    ASSUME NEW r \in RawNodeState, NEW d, NEW H \in Heights, Sound(r, d, H, -1)
    PROVE  Sound(r, d, H, LastLogIndex(r, d))
<1>1. -1 \in Int /\ LastLogIndex(r, d) \in Int /\ -1 <= LastLogIndex(r, d)
  BY LastLogIndexType
<1>2. \A f \in Server : H[f] <= H[f]
  BY DEF Heights
<1>. QED
  BY <1>1, <1>2, MoreSound

LEMMA StepAppendRespSound ==
    ASSUME NEW r \in RawNodeState, NEW d \in Disk, NEW self \in Server, NEW H \in Heights,
           NEW m \in Message, m.type = "appendResp", m.index <= H[m.from], Sound(r, d, H, -1)
    PROVE  Sound(StepAppendResp(r, d, self, m), d, H, -1)
<1>. DEFINE match == [r.match EXCEPT ![m.from] = m.index]
            next  == [r.next EXCEPT ![m.from] = IF m.index < r.next[m.from] THEN r.next[m.from]
                                                ELSE m.index + 1]
            q     == [r EXCEPT !.match = match, !.next = next]
<1>1. m.from \in Server /\ m.index \in 0..MaxIndex
  BY DEF Message
<1>2. match \in [Server -> 0..MaxIndex] /\ next \in [Server -> 1..(MaxIndex + 1)]
  BY <1>1, IndexFacts DEF RawNodeState
<1>3. \/ StepAppendResp(r, d, self, m) = MaybeCommit(q, d, self)
      \/ StepAppendResp(r, d, self, m) = r
  BY DEF StepAppendResp, RawNodeState
<1>4. ASSUME r.role = "leader" PROVE Within(next, LastLogIndex(r, d), H)
  <2>1. \A f \in Server : next[f] = r.next[f] \/ (f = m.from /\ next[f] = m.index + 1)
    BY <1>1 DEF RawNodeState
  <2>2. m.index + 1 <= H[m.from] + 1
    BY <1>1, IndexFacts DEF Heights
  <2>. HIDE DEF next
  <2>. QED
    BY <1>4, <2>1, <2>2 DEF Sound, Within
<1>. HIDE DEF match, next
<1>5. q \in RawNodeState
  BY <1>2 DEF RawNodeState
<1>6. /\ q.unst = r.unst /\ q.committed = r.committed /\ q.msgs = r.msgs
      /\ q.role = r.role /\ q.term = r.term /\ q.next = next
  BY DEF RawNodeState
<1>. HIDE DEF q
<1>7. Sound(q, d, H, -1)
  BY <1>4, <1>6, SameSound DEF Grows, Sound
<1>. QED
  BY <1>3, <1>5, <1>7, MaybeCommitSound DEF Grows

LEMMA StepAppendRejectSound ==
    ASSUME NEW r \in RawNodeState, NEW d \in Disk, NEW self \in Server, NEW H \in Heights,
           NEW m \in Message, m.type = "appendReject", Sound(r, d, H, -1)
    PROVE  Sound(StepAppendReject(r, d, self, m), d, H, -1)
<1>. DEFINE back == IF m.hint < m.index THEN m.hint + 1 ELSE m.index
            next == [r.next EXCEPT ![m.from] = back]
            p    == [r EXCEPT !.next = next]
            probe == AppendMsg(p, d, self, m.from)
            q    == [p EXCEPT !.msgs = p.msgs \cup {probe}]
<1>1. m.from \in Server /\ m.index \in 0..MaxIndex /\ m.hint \in 0..MaxIndex
  BY DEF Message
<1>2. CASE r.role = "leader" /\ m.index > r.match[m.from] /\ m.index + 1 = r.next[m.from]
  <2>1. m.index >= 1
    BY <1>1, <1>2, IndexFacts DEF RawNodeState
  <2>2. back \in 1..(MaxIndex + 1) /\ back <= r.next[m.from]
    BY <1>1, <1>2, <2>1, IndexFacts DEF RawNodeState
  <2>. HIDE DEF back
  <2>3. next \in [Server -> 1..(MaxIndex + 1)]
    BY <1>1, <2>2 DEF RawNodeState
  <2>4. StepAppendReject(r, d, self, m) = q
    BY <1>2 DEF StepAppendReject, RawNodeState, back
  <2>5. Within(next, LastLogIndex(r, d), H)
    <3>1. \A f \in Server : next[f] \in Int /\ next[f] <= r.next[f] /\ r.next[f] \in Int
                            /\ H[f] \in Int
      BY <1>1, <2>2, <2>3, IndexFacts DEF RawNodeState, Heights
    <3>2. LastLogIndex(r, d) \in Int
      BY LastLogIndexType
    <3>. HIDE DEF next
    <3>. QED
      BY <1>2, <3>1, <3>2 DEF Sound, Within
  <2>. HIDE DEF next
  <2>6. p \in RawNodeState
    BY <2>3 DEF RawNodeState
  <2>7. /\ p.unst = r.unst /\ p.committed = r.committed /\ p.msgs = r.msgs
        /\ p.role = r.role /\ p.term = r.term /\ p.next = next
    BY DEF RawNodeState
  <2>8. LastLogIndex(p, d) = LastLogIndex(r, d)
    BY <2>7 DEF LastLogIndex
  <2>. HIDE DEF p
  <2>9. Sound(p, d, H, -1)
    BY <2>5, <2>7, SameSound DEF Grows, Sound
  <2>10. Anchored(probe, H) /\ probe.type = "append"
    BY <1>1, <2>5, <2>6, <2>7, <2>8, <2>9, AppendMsgAnchored DEF Sound
  <2>. HIDE DEF probe
  <2>11. Honest({probe}, H, -1)
    BY <2>10 DEF Honest
  <2>12. /\ q.unst = p.unst /\ q.committed = p.committed /\ q.msgs = p.msgs \cup {probe}
         /\ q.role = p.role /\ q.term = p.term /\ q.next = p.next
    BY <2>6 DEF RawNodeState
  <2>. HIDE DEF q
  <2>13. Honest(q.msgs, H, -1)
    BY <2>9, <2>11, <2>12, HonestUnion DEF Sound
  <2>14. LastLogIndex(q, d) = LastLogIndex(p, d)
    BY <2>12 DEF LastLogIndex
  <2>. QED
    BY <2>4, <2>9, <2>12, <2>13, <2>14 DEF Sound
<1>3. CASE ~(r.role = "leader" /\ m.index > r.match[m.from] /\ m.index + 1 = r.next[m.from])
  BY <1>3 DEF StepAppendReject
<1>. QED
  BY <1>2, <1>3

LEMMA StepVoteReqSound ==
    ASSUME NEW r0 \in RawNodeState, NEW d \in Disk, NEW self \in Server, NEW H \in Heights,
           NEW m \in Message, m.type = "voteReq", Sound(r0, d, H, -1)
    PROVE  Sound(StepVoteReq(r0, d, self, m), d, H, -1)
<1>. DEFINE r    == IF m.term > r0.term THEN BecomeFollower(r0, m.term) ELSE r0
            last == LastLogIndex(r, d)
            grant == /\ r.vote \in {0, m.from}
                     /\ \/ m.lastTerm > EntryAt(r, d, last).term
                        \/ (m.lastTerm = EntryAt(r, d, last).term /\ m.last >= last)
            vote == IF grant THEN m.from ELSE r.vote
            v    == [r EXCEPT !.vote = vote]
            resp == [type |-> "voteResp", from |-> self, to |-> m.from,
                     term |-> r.term, grant |-> grant]
            q    == [v EXCEPT !.msgs = v.msgs \cup {resp}]
<1>1. m.from \in Server /\ m.term \in Term
  BY DEF Message
<1>2. r \in RawNodeState /\ Sound(r, d, H, -1)
  <2>1. CASE m.term > r0.term
    <3>1. m.term >= r0.term
      BY <1>1, <2>1, BoundAssumption DEF RawNodeState, Term
    <3>. QED
      BY <1>1, <2>1, <3>1, BecomeFollowerEvolves, BecomeFollowerSound DEF Evolves, Grows
  <2>2. CASE ~(m.term > r0.term)
    BY <2>2
  <2>. QED
    BY <2>1, <2>2
<1>3. StepVoteReq(r0, d, self, m) = [r EXCEPT !.vote = vote, !.msgs = r.msgs \cup {resp}]
  BY DEF StepVoteReq
<1>. HIDE DEF r
<1>4. vote \in Server \cup {0}
  BY <1>1, <1>2 DEF RawNodeState
<1>5. \A x \in {resp} : x.type \notin {"append", "appendResp"}
  OBVIOUS
<1>. HIDE DEF vote, resp
<1>6. v \in RawNodeState
  BY <1>2, <1>4 DEF RawNodeState
<1>7. /\ v.unst = r.unst /\ v.committed = r.committed /\ v.msgs = r.msgs
      /\ v.role = r.role /\ v.term = r.term /\ v.next = r.next
  BY <1>2 DEF RawNodeState
<1>8. StepVoteReq(r0, d, self, m) = q
  BY <1>2, <1>3 DEF RawNodeState
<1>. HIDE DEF v
<1>9. Sound(v, d, H, -1)
  BY <1>2, <1>7, SameSound DEF Grows, Sound
<1>10. Grows(v, q, d, H, -1)
  BY <1>5, <1>6, <1>9, OtherMsgsSound
<1>. QED
  BY <1>8, <1>10 DEF Grows

LEMMA StepVoteRespSound ==
    ASSUME NEW r \in RawNodeState, NEW d \in Disk, NEW self \in Server, NEW H \in Heights,
           NEW m \in Message, m.type = "voteResp", Sound(r, d, H, -1)
    PROVE  Sound(StepVoteResp(r, d, self, m), d, H, -1)
<1>. DEFINE votes == IF m.grant THEN r.votes \cup {m.from} ELSE r.votes
            v     == [r EXCEPT !.votes = votes]
<1>1. m.from \in Server
  BY DEF Message
<1>2. votes \in SUBSET Server
  BY <1>1 DEF RawNodeState
<1>3. \/ StepVoteResp(r, d, self, m) = r
      \/ StepVoteResp(r, d, self, m) = BecomeLeader(v, d, self) /\ r.role = "candidate"
      \/ StepVoteResp(r, d, self, m) = v
  BY DEF StepVoteResp
<1>. HIDE DEF votes
<1>4. v \in RawNodeState
  BY <1>2 DEF RawNodeState
<1>5. /\ v.unst = r.unst /\ v.committed = r.committed /\ v.msgs = r.msgs
      /\ v.role = r.role /\ v.term = r.term /\ v.next = r.next
  BY DEF RawNodeState
<1>. HIDE DEF v
<1>6. Sound(v, d, H, -1)
  BY <1>5, SameSound DEF Grows, Sound
<1>7. r.role = "candidate" => v.term >= 1
  BY <1>5 DEF Sound
<1>. QED
  BY <1>3, <1>4, <1>6, <1>7, BecomeLeaderSound DEF Grows

(* The disk of the node the message came from reaches what it answers, and *)
(* the node's own log reaches its disk's.                                  *)
LEMMA StepSound ==
    ASSUME NEW r \in RawNodeState, NEW d \in Disk, NEW self \in Server, NEW H \in Heights,
           NEW m \in Message, m.to = self, H[self] <= LastLogIndex(r, d), Sound(r, d, H, -1),
           m.type = "append" => Anchored(m, H), m.type = "appendResp" => m.index <= H[m.from]
    PROVE  LET q == Step(r, d, self, m) IN Sound(q, d, H, LastLogIndex(q, d))
<1>. DEFINE q == Step(r, d, self, m)
<1>1. m.term \in Term /\ r.term \in Term
  BY MessageTermType DEF RawNodeState
<1>2. m.type \in {"append", "voteReq", "appendResp", "appendReject", "voteResp"}
  BY DEF Message
<1>3. \/ Sound(q, d, H, -1)
      \/ Sound(q, d, H, LastLogIndex(q, d))
  <2>1. CASE m.term < r.term
    BY <1>1, <2>1, BoundAssumption DEF Step, Term
  <2>2. CASE ~(m.term < r.term)
    <3>0. m.term >= r.term
      BY <1>1, <2>2, BoundAssumption DEF Term
    <3>1. CASE m.type = "append"
      <4>1. q = StepAppend(r, d, self, m)
        BY <2>2, <3>0, <3>1 DEF Step
      <4>. HIDE DEF q
      <4>. QED
        BY <3>0, <3>1, <4>1, StepAppendSound
    <3>2. CASE m.type = "voteReq"
      BY <2>2, <3>0, <3>2, StepVoteReqSound DEF Step
    <3>3. CASE m.type = "appendResp" /\ m.term = r.term
      BY <2>2, <3>0, <3>3, StepAppendRespSound DEF Step
    <3>4. CASE m.type = "appendReject" /\ m.term = r.term
      BY <2>2, <3>0, <3>4, StepAppendRejectSound DEF Step
    <3>5. CASE m.type = "voteResp" /\ m.term = r.term
      BY <2>2, <3>0, <3>5, StepVoteRespSound DEF Step
    <3>6. CASE m.type \notin {"append", "voteReq"} /\ m.term # r.term
      <4>1. q = BecomeFollower(r, m.term)
        BY <1>2, <2>2, <3>6 DEF Step
      <4>. HIDE DEF q
      <4>. QED
        BY <1>1, <4>1, BecomeFollowerSound DEF Grows
    <3>. QED
      BY <1>2, <3>1, <3>2, <3>3, <3>4, <3>5, <3>6
  <2>. QED
    BY <2>1, <2>2
<1>4. q \in RawNodeState
  BY StepEvolves DEF Evolves
<1>. HIDE DEF q
<1>5. Sound(q, d, H, LastLogIndex(q, d))
  BY <1>3, <1>4, SoundAtItsEnd
<1>. QED
  BY <1>5 DEF q

---------------------------------------------------------------------------
(* RawNode::new, ready(), advance() and the disk *)

LEMMA NewRawNodeSound ==
    ASSUME NEW d \in Disk, NEW H, Written(d.log), d.hs.commit <= LastIndex(d.log)
    PROVE  Sound(NewRawNode(d), d, H, -1) /\ LastLogIndex(NewRawNode(d), d) = LastIndex(d.log)
<1>. DEFINE q == NewRawNode(d)
<1>1. /\ q.unst = EmptyLog /\ q.committed = d.hs.commit /\ q.msgs = {} /\ q.role = "follower"
  BY DEF NewRawNode
<1>. HIDE DEF q
<1>2. Written(q.unst) /\ Rows(q.unst) = {}
  BY <1>1, EmptyLogType DEF Written, EmptyLog
<1>3. LastLogIndex(q, d) = LastIndex(d.log)
  BY <1>2 DEF LastLogIndex
<1>4. Sound(q, d, H, -1)
  BY <1>1, <1>2, <1>3 DEF Sound, Honest
<1>. QED
  BY <1>3, <1>4 DEF q

LEMMA AfterReadySound ==
    ASSUME NEW r \in RawNodeState, NEW d, NEW H, NEW n, NEW k, Sound(r, d, H, n)
    PROVE  /\ Sound(AfterReady(r, d), d, H, k)
           /\ LastLogIndex(AfterReady(r, d), d) = LastLogIndex(r, d)
<1>. DEFINE q == AfterReady(r, d)
<1>1. /\ q.unst = r.unst /\ q.committed = r.committed /\ q.msgs = {} /\ q.term = r.term
  BY AfterReadyType
<1>2. q.role = r.role /\ q.next = r.next
  BY DEF AfterReady, AfterHandOut, RawNodeState
<1>. HIDE DEF q
<1>3. LastLogIndex(q, d) = LastLogIndex(r, d)
  BY <1>1 DEF LastLogIndex
<1>4. Sound(q, d, H, k)
  BY <1>1, <1>2, <1>3 DEF Sound, Honest
<1>. QED
  BY <1>3, <1>4 DEF q

(* Once what is unstable is stored, advance() counts on the disk alone.    *)
LEMMA AdvanceSound ==
    ASSUME NEW r \in RawNodeState, NEW d \in Disk, NEW self \in Server, NEW H \in Heights,
           Sound(r, d, H, -1), LastIndex(r.unst) <= LastIndex(d.log)
    PROVE  /\ Sound(Advance(r, d, self), d, H, -1)
           /\ Honest(LightMsgs(r, d, self), H, -1)
           /\ Advance(r, d, self).unst = EmptyLog
<1>. DEFINE top   == IF r.role = "leader" THEN LastIndex(d.log) ELSE r.match[self]
            match == [r.match EXCEPT ![self] = top]
            q     == [r EXCEPT !.unst = EmptyLog, !.match = match]
            p     == Persisted(r, d, self)
            a     == Advance(r, d, self)
<1>1. match \in [Server -> 0..MaxIndex]
  BY LastIndexType DEF RawNodeState
<1>2. p = MaybeCommit(q, d, self)
  BY DEF Persisted, RawNodeState
<1>. HIDE DEF match
<1>3. q \in RawNodeState
  BY <1>1, EmptyLogType DEF RawNodeState
<1>4. /\ q.unst = EmptyLog /\ q.committed = r.committed /\ q.msgs = r.msgs
      /\ q.role = r.role /\ q.term = r.term /\ q.next = r.next
  BY DEF RawNodeState
<1>. HIDE DEF q, p
<1>5. Written(q.unst) /\ LastLogIndex(q, d) = LastIndex(d.log)
  BY <1>4, EmptyLogType DEF Written, EmptyLog, LastLogIndex
<1>6. /\ LastLogIndex(r, d) <= LastLogIndex(q, d) /\ LastLogIndex(r, d) \in Int
      /\ LastLogIndex(q, d) \in Int /\ r.committed \in Int
      /\ \A f \in Server : r.next[f] \in Int
  BY <1>5, LastIndexType, IndexFacts DEF LastLogIndex, RawNodeState
<1>7. Sound(q, d, H, -1)
  <2>1. r.role = "leader" => Within(r.next, LastLogIndex(q, d), H)
    BY <1>6, FurtherWithin DEF Sound
  <2>2. r.committed <= LastLogIndex(q, d)
    BY <1>6 DEF Sound
  <2>. QED
    BY <1>4, <1>5, <2>1, <2>2 DEF Sound
<1>8. Sound(p, d, H, -1) /\ p.unst = q.unst /\ p \in RawNodeState
  BY <1>2, <1>3, <1>7, MaybeCommitSound, MaybeCommitEvolves DEF Grows, Commits, Evolves
<1>9. LightMsgs(r, d, self) = p.msgs
  BY DEF LightMsgs, p
<1>10. /\ a.unst = p.unst /\ a.committed = p.committed /\ a.msgs = {} /\ a.term = p.term
       /\ a.role = p.role /\ a.next = p.next
  BY <1>8 DEF Advance, AfterHandOut, RawNodeState, p
<1>. HIDE DEF a
<1>11. LastLogIndex(a, d) = LastLogIndex(p, d)
  BY <1>10 DEF LastLogIndex
<1>12. Sound(a, d, H, -1)
  BY <1>8, <1>10, <1>11 DEF Sound, Honest
<1>. QED
  BY <1>4, <1>8, <1>9, <1>10, <1>12 DEF a, Sound

(* A disk that reaches further.                                            *)
LEMMA DiskSound ==
    ASSUME NEW r \in RawNodeState, NEW d, NEW e, NEW H, NEW n, Sound(r, d, H, n), Written(e.log),
           LastIndex(d.log) <= LastIndex(e.log)
    PROVE  Sound(r, e, H, n) /\ LastLogIndex(r, d) <= LastLogIndex(r, e)
<1>1. /\ LastLogIndex(r, d) <= LastLogIndex(r, e) /\ LastLogIndex(r, d) \in Int
      /\ LastLogIndex(r, e) \in Int /\ r.committed \in Int
      /\ \A f \in Server : r.next[f] \in Int
  BY LastIndexType, LastLogIndexType, IndexFacts DEF LastLogIndex, RawNodeState
<1>2. r.role = "leader" => Within(r.next, LastLogIndex(r, e), H)
  BY <1>1, FurtherWithin DEF Sound
<1>3. r.committed <= LastLogIndex(r, e)
  BY <1>1 DEF Sound
<1>. QED
  BY <1>1, <1>2, <1>3 DEF Sound

LEMMA LastIndexGrows ==
    ASSUME NEW log, NEW more, Rows(log) \subseteq Rows(more)
    PROVE  LastIndex(log) <= LastIndex(more)
<1>1. LastIndex(log) \in Nat /\ LastIndex(more) \in Nat /\ 0 <= LastIndex(more)
  BY LastIndexType, IndexFacts
<1>2. CASE Rows(log) = {}
  BY <1>1, <1>2 DEF LastIndex
<1>3. CASE Rows(log) # {}
  BY <1>3, LastIndexType
<1>. QED
  BY <1>2, <1>3

LEMMA StoreReaches ==
    ASSUME NEW d \in Disk, NEW ents, Written(ents), Written(d.log)
    PROVE  LET e == AppendEntries(d, ents)
           IN  /\ Written(e.log) /\ e.hs = d.hs
               /\ LastIndex(d.log) <= LastIndex(e.log) /\ LastIndex(ents) <= LastIndex(e.log)
<1>. DEFINE e == AppendEntries(d, ents)
<1>1. e.hs = d.hs /\ \A i \in Index : e.log[i] = IF ents[i] # NoEntry THEN ents[i] ELSE d.log[i]
  BY DEF AppendEntries, Disk
<1>. HIDE DEF e
<1>2. Written(e.log)
  BY <1>1 DEF Written
<1>3. Rows(d.log) \subseteq Rows(e.log) /\ Rows(ents) \subseteq Rows(e.log)
  BY <1>1 DEF Rows
<1>4. LastIndex(d.log) <= LastIndex(e.log) /\ LastIndex(ents) <= LastIndex(e.log)
  BY <1>3, LastIndexGrows
<1>. QED
  BY <1>1, <1>2, <1>4 DEF e

(* Compaction removes no row from the snapshot's index on, so the log ends *)
(* where it did.                                                           *)
LEMMA CompactReaches ==
    ASSUME NEW d \in Disk, NEW request \in 0..MaxIndex, Written(d.log)
    PROVE  LET e == CompactLogBefore(d, SnapshotIndex(d, request))
           IN  Written(e.log) /\ e.hs = d.hs /\ LastIndex(e.log) = LastIndex(d.log)
<1>. DEFINE upTo == SnapshotIndex(d, request)
            e == CompactLogBefore(d, upTo)
            last == LastIndex(d.log)
<1>1. upTo \in Nat /\ last \in Nat /\ upTo <= last
  BY LastIndexType, IndexFacts DEF SnapshotIndex
<1>. HIDE DEF upTo
<1>2. e.hs = d.hs /\ \A i \in Index : e.log[i] = IF i < upTo THEN NoEntry ELSE d.log[i]
  BY DEF CompactLogBefore, Disk
<1>. HIDE DEF e
<1>3. Written(e.log)
  BY <1>2 DEF Written
<1>4. Rows(e.log) \subseteq Rows(d.log)
  BY <1>2 DEF Rows
<1>5. ASSUME Rows(d.log) = {} PROVE LastIndex(e.log) = LastIndex(d.log)
  BY <1>4, <1>5 DEF LastIndex
<1>6. ASSUME Rows(d.log) # {} PROVE LastIndex(e.log) = LastIndex(d.log)
  <2>1. last \in Rows(d.log) /\ \A j \in Rows(d.log) : j <= last
    BY <1>6, LastIndexType
  <2>2. last \in Index /\ d.log[last] # NoEntry /\ ~(last < upTo)
    BY <1>1, <2>1 DEF Rows
  <2>3. last \in Rows(e.log)
    BY <1>2, <2>2 DEF Rows
  <2>. HIDE DEF last
  <2>4. LastIndex(e.log) = last
    BY <1>4, <2>1, <2>3, LastIndexIs
  <2>. QED
    BY <2>4 DEF last
<1>7. LastIndex(e.log) = LastIndex(d.log)
  BY <1>5, <1>6
<1>. QED
  BY <1>2, <1>3, <1>7 DEF e, upTo

---------------------------------------------------------------------------
(* What a call adds to the log lies past what is committed, and nothing    *)
(* that is committed is taken back.                                        *)

Adds(r, q) ==
    /\ q.committed >= r.committed
    /\ \A i \in Rows(q.unst) : i \in Rows(r.unst) \/ i > r.committed

LEMMA AddsTrans ==
    ASSUME NEW r \in RawNodeState, NEW q \in RawNodeState, NEW p \in RawNodeState,
           Adds(r, q), Adds(q, p)
    PROVE  Adds(r, p)
<1>1. r.committed \in Nat /\ q.committed \in Nat /\ p.committed \in Nat
  BY IndexFacts DEF RawNodeState
<1>2. Rows(p.unst) \subseteq Nat
  BY IndexFacts DEF Rows
<1>. QED
  BY <1>1, <1>2 DEF Adds

LEMMA SameAdds ==
    ASSUME NEW r \in RawNodeState, NEW q, q.unst = r.unst, q.committed = r.committed
    PROVE  Adds(r, q)
BY IndexFacts DEF Adds, RawNodeState

LEMMA PutAdds ==
    ASSUME NEW r \in RawNodeState, NEW d \in Disk, NEW e \in Entry, r.committed <= LastLogIndex(r, d)
    PROVE  Adds(r, AppendAsLeader(r, d, e))
<1>. DEFINE last == LastLogIndex(r, d)
            q == AppendAsLeader(r, d, e)
<1>1. /\ q.committed = r.committed /\ q.unst = [r.unst EXCEPT ![last + 1] = e]
      /\ r.unst \in [Index -> Entry]
  BY DEF AppendAsLeader, Put, RawNodeState
<1>2. last \in Int /\ r.committed \in Int
  BY LastLogIndexType, IndexFacts DEF RawNodeState
<1>. HIDE DEF last, q
<1>3. ASSUME NEW i \in Rows(q.unst), i \notin Rows(r.unst) PROVE i > r.committed
  <2>1. i \in Index /\ q.unst[i] # NoEntry /\ r.unst[i] = NoEntry
    BY <1>3 DEF Rows
  <2>2. i = last + 1
    BY <1>1, <2>1
  <2>. QED
    BY <1>2, <2>2 DEF last
<1>4. q.committed >= r.committed
  BY <1>1, <1>2
<1>. QED
  BY <1>3, <1>4 DEF Adds, q

LEMMA MaybeCommitAdds ==
    ASSUME NEW r \in RawNodeState, NEW d \in Disk, NEW self \in Server
    PROVE  Adds(r, MaybeCommit(r, d, self))
<1>. DEFINE top == CHOOSE i \in Committable(r, d) : \A j \in Committable(r, d) : j <= i
            q   == [r EXCEPT !.committed = top]
<1>1. CASE r.role = "leader" /\ Committable(r, d) # {}
  <2>1. \E i \in Committable(r, d) : \A j \in Committable(r, d) : j <= i
    BY <1>1, CommittableFacts, GreatestExists, IndexFacts
  <2>2. top \in 0..MaxIndex /\ top \in Committable(r, d)
    BY <2>1, CommittableFacts
  <2>3. top > r.committed
    <3>1. r.committed \in Int /\ LastLogIndex(r, d) \in Int
      BY LastLogIndexType, IndexFacts DEF RawNodeState
    <3>2. top \in (r.committed + 1)..LastLogIndex(r, d)
      BY <2>2 DEF Committable
    <3>. QED
      BY <3>1, <3>2
  <2>4. MaybeCommit(r, d, self) = Bcast(q, d, self)
    BY <1>1 DEF MaybeCommit
  <2>. HIDE DEF top
  <2>5. q \in RawNodeState /\ q.committed = top /\ q.unst = r.unst
    BY <2>2 DEF RawNodeState
  <2>. HIDE DEF q
  <2>6. Bcast(q, d, self).unst = r.unst /\ Bcast(q, d, self).committed = top
    BY <2>5, BcastEvolves
  <2>7. r.committed \in Int /\ top \in Int
    BY <2>2, IndexFacts DEF RawNodeState
  <2>. QED
    BY <2>3, <2>4, <2>6, <2>7 DEF Adds
<1>2. CASE ~(r.role = "leader" /\ Committable(r, d) # {})
  BY <1>2, SameAdds DEF MaybeCommit
<1>. QED
  BY <1>1, <1>2

LEMMA BecomeLeaderAdds ==
    ASSUME NEW r \in RawNodeState, NEW d \in Disk, NEW self \in Server,
           r.committed <= LastLogIndex(r, d)
    PROVE  Adds(r, BecomeLeader(r, d, self))
<1>. DEFINE match == [f \in Server |-> IF f = self THEN LastIndex(d.log) ELSE 0]
            next  == [f \in Server |-> LastLogIndex(r, d) + 1]
            led   == [r EXCEPT !.role = "leader", !.votes = {},
                               !.pendingConf = LastLogIndex(r, d),
                               !.match = match, !.next = next]
            e     == [term |-> r.term, kind |-> "normal", ctx |-> NoReq, node |-> 0]
            a     == AppendAsLeader(led, d, e)
<1>1. match \in [Server -> 0..MaxIndex]
  BY LastIndexType, IndexFacts
<1>2. next \in [Server -> 1..(MaxIndex + 1)] /\ LastLogIndex(r, d) \in 0..MaxIndex
  BY LastLogIndexType, IndexFacts
<1>3. BecomeLeader(r, d, self) = Bcast(a, d, self)
  BY DEF BecomeLeader
<1>4. e \in Entry
  BY NormalEntryType DEF RawNodeState
<1>. HIDE DEF match, next, e
<1>5. led \in RawNodeState
  BY <1>1, <1>2 DEF RawNodeState, Role
<1>6. led.unst = r.unst /\ led.committed = r.committed
  BY DEF RawNodeState
<1>. HIDE DEF led
<1>7. led.committed <= LastLogIndex(led, d)
  BY <1>6 DEF LastLogIndex
<1>8. Adds(led, a) /\ a \in RawNodeState
  BY <1>4, <1>5, <1>7, PutAdds, AppendAsLeaderEvolves DEF Evolves
<1>. HIDE DEF a
<1>9. Bcast(a, d, self).unst = a.unst /\ Bcast(a, d, self).committed = a.committed
  BY <1>8, BcastEvolves
<1>. QED
  BY <1>3, <1>6, <1>8, <1>9 DEF Adds

LEMMA CampaignAdds ==
    ASSUME NEW r \in RawNodeState, NEW d \in Disk, NEW self \in Server,
           r.committed <= LastLogIndex(r, d), CanCampaign(r, d, self)
    PROVE  Adds(r, Campaign(r, d, self))
<1>. DEFINE c    == [r EXCEPT !.role = "candidate", !.term = r.term + 1, !.vote = self,
                              !.votes = {self}]
            last == LastLogIndex(r, d)
            new  == {[type |-> "voteReq", from |-> self, to |-> f, term |-> c.term,
                      last |-> last, lastTerm |-> EntryAt(r, d, last).term]
                        : f \in r.voters \ {self}}
<1>1. r.term + 1 \in Term
  BY BoundAssumption DEF CanCampaign, RawNodeState, Term
<1>2. c \in RawNodeState
  BY <1>1 DEF RawNodeState, Role
<1>3. c.unst = r.unst /\ c.committed = r.committed
  BY DEF RawNodeState
<1>4. \/ Campaign(r, d, self) = BecomeLeader(c, d, self)
      \/ Campaign(r, d, self) = [c EXCEPT !.msgs = c.msgs \cup new]
  BY DEF Campaign
<1>. HIDE DEF c, new
<1>5. CASE Campaign(r, d, self) = BecomeLeader(c, d, self)
  <2>1. c.committed <= LastLogIndex(c, d)
    BY <1>3 DEF LastLogIndex
  <2>2. Adds(c, BecomeLeader(c, d, self))
    BY <1>2, <2>1, BecomeLeaderAdds
  <2>. QED
    BY <1>3, <1>5, <2>2 DEF Adds
<1>6. CASE Campaign(r, d, self) = [c EXCEPT !.msgs = c.msgs \cup new]
  <2>1. /\ Campaign(r, d, self).unst = r.unst
        /\ Campaign(r, d, self).committed = r.committed
    BY <1>2, <1>3, <1>6 DEF RawNodeState
  <2>. QED
    BY <2>1, SameAdds
<1>. QED
  BY <1>4, <1>5, <1>6

LEMMA ProposeAdds ==
    ASSUME NEW r \in RawNodeState, NEW d \in Disk, NEW self \in Server, NEW q \in Req \cup {NoReq},
           r.committed <= LastLogIndex(r, d)
    PROVE  Adds(r, Propose(r, d, self, q))
<1>. DEFINE e == [term |-> r.term, kind |-> "normal", ctx |-> q, node |-> 0]
            a == AppendAsLeader(r, d, e)
<1>1. e \in Entry /\ Propose(r, d, self, q) = Bcast(a, d, self)
  BY NormalEntryType DEF RawNodeState, Propose
<1>. HIDE DEF e
<1>2. Adds(r, a) /\ a \in RawNodeState
  BY <1>1, PutAdds, AppendAsLeaderEvolves DEF Evolves
<1>. HIDE DEF a
<1>3. Bcast(a, d, self).unst = a.unst /\ Bcast(a, d, self).committed = a.committed
  BY <1>2, BcastEvolves
<1>. QED
  BY <1>1, <1>2, <1>3 DEF Adds

LEMMA ProposeConfChangeAdds ==
    ASSUME NEW r \in RawNodeState, NEW d \in Disk, NEW self \in Server,
           NEW kind \in {"add", "remove"}, NEW node \in Server,
           LastLogIndex(r, d) < MaxIndex, r.committed <= LastLogIndex(r, d)
    PROVE  Adds(r, ProposeConfChange(r, d, self, kind, node))
<1>. DEFINE pending == r.pendingConf > r.applied
            e == IF pending
                 THEN [term |-> r.term, kind |-> "normal", ctx |-> NoReq, node |-> 0]
                 ELSE [term |-> r.term, kind |-> kind, ctx |-> NoReq, node |-> node]
            at == IF pending THEN r.pendingConf ELSE LastLogIndex(r, d) + 1
            p  == [r EXCEPT !.pendingConf = at]
            a  == AppendAsLeader(p, d, e)
<1>1. e \in Entry
  BY DEF Entry, RawNodeState
<1>2. at \in 0..MaxIndex
  BY LastLogIndexType, IndexFacts DEF RawNodeState
<1>3. ProposeConfChange(r, d, self, kind, node) = Bcast(a, d, self)
  BY DEF ProposeConfChange
<1>. HIDE DEF e, at
<1>4. p \in RawNodeState /\ p.unst = r.unst /\ p.committed = r.committed
  BY <1>2 DEF RawNodeState
<1>. HIDE DEF p
<1>5. p.committed <= LastLogIndex(p, d)
  BY <1>4 DEF LastLogIndex
<1>6. Adds(p, a) /\ a \in RawNodeState
  BY <1>1, <1>4, <1>5, PutAdds, AppendAsLeaderEvolves DEF Evolves
<1>. HIDE DEF a
<1>7. Bcast(a, d, self).unst = a.unst /\ Bcast(a, d, self).committed = a.committed
  BY <1>6, BcastEvolves
<1>. QED
  BY <1>3, <1>4, <1>6, <1>7 DEF Adds

LEMMA ApplyConfChangeAdds ==
    ASSUME NEW r \in RawNodeState, NEW d \in Disk, NEW self \in Server, NEW e \in Entry,
           e.kind \in {"add", "remove"}, LastLogIndex(r, d) >= 1
    PROVE  Adds(r, ApplyConfChange(r, d, self, e))
<1>. DEFINE v == [r EXCEPT !.voters = NewVoters(r, e)]
            c == IF e.kind = "add" /\ e.node \notin r.voters
                 THEN [v EXCEPT !.match[e.node] = 0, !.next[e.node] = LastLogIndex(r, d)] ELSE v
<1>1. NewVoters(r, e) \in SUBSET Server /\ e.node \in Server
  BY NewVotersType
<1>2. v \in RawNodeState /\ v.unst = r.unst /\ v.committed = r.committed
  BY <1>1 DEF RawNodeState
<1>. HIDE DEF v
<1>3. c \in RawNodeState /\ c.unst = v.unst /\ c.committed = v.committed
  <2>1. CASE e.kind = "add" /\ e.node \notin r.voters
    <3>1. LastLogIndex(r, d) \in 1..(MaxIndex + 1) /\ 0 \in 0..MaxIndex
      BY LastLogIndexType, IndexFacts
    <3>. DEFINE m == [v.match EXCEPT ![e.node] = 0]
                k == [v.next EXCEPT ![e.node] = LastLogIndex(r, d)]
    <3>2. m \in [Server -> 0..MaxIndex] /\ k \in [Server -> 1..(MaxIndex + 1)]
      BY <1>1, <1>2, <3>1 DEF RawNodeState
    <3>3. c = [v EXCEPT !.match = m, !.next = k]
      BY <1>2, <2>1 DEF RawNodeState
    <3>. HIDE DEF c, m, k
    <3>. QED
      BY <1>2, <3>2, <3>3 DEF RawNodeState
  <2>2. CASE ~(e.kind = "add" /\ e.node \notin r.voters)
    BY <1>2, <2>2
  <2>. QED
    BY <2>1, <2>2
<1>4. \/ ApplyConfChange(r, d, self, e) = c
      \/ ApplyConfChange(r, d, self, e) = MaybeCommit(c, d, self)
      \/ ApplyConfChange(r, d, self, e) = Bcast(c, d, self)
  BY DEF ApplyConfChange, v
<1>. HIDE DEF c
<1>5. Adds(c, ApplyConfChange(r, d, self, e))
  BY <1>3, <1>4, SameAdds, MaybeCommitAdds, BcastEvolves
<1>. QED
  BY <1>2, <1>3, <1>5 DEF Adds

LEMMA BecomeFollowerAdds ==
    ASSUME NEW r \in RawNodeState, NEW t \in Term
    PROVE  /\ Adds(r, BecomeFollower(r, t)) /\ BecomeFollower(r, t) \in RawNodeState
           /\ BecomeFollower(r, t).unst = r.unst /\ BecomeFollower(r, t).committed = r.committed
<1>. DEFINE q == BecomeFollower(r, t)
<1>1. q \in RawNodeState /\ q.unst = r.unst /\ q.committed = r.committed
  BY DEF BecomeFollower, RawNodeState, Role
<1>. HIDE DEF q
<1>. QED
  BY <1>1, SameAdds DEF q

(* An append overwrites nothing below its first entry, which lies past     *)
(* what is committed.                                                      *)
LEMMA StepAppendAdds ==
    ASSUME NEW r0 \in RawNodeState, NEW d \in Disk, NEW self \in Server, NEW m \in Message,
           m.type = "append", \A i \in Rows(m.ents) : i > m.prev
    PROVE  Adds(r0, StepAppend(r0, d, self, m))
<1>. DEFINE r    == BecomeFollower(r0, m.term)
            last == IF m.prev < LastLogIndex(r, d) THEN m.prev ELSE LastLogIndex(r, d)
            hint == CHOOSE i \in 0..last :
                        /\ EntryAt(r, d, i).term <= m.prevTerm
                        /\ \A j \in (i + 1)..last : EntryAt(r, d, j).term > m.prevTerm
            new  == NewEntries(r, d, m)
            from == CHOOSE i \in new : \A j \in new : i <= j
            lastNew == IF Rows(m.ents) = {} THEN m.prev ELSE LastIndex(m.ents)
            unst == [i \in Index |-> IF i < from THEN r.unst[i] ELSE m.ents[i]]
            appended == IF new = {} THEN r ELSE [r EXCEPT !.unst = unst]
            commit == IF m.commit < lastNew THEN m.commit ELSE lastNew
            committed == IF commit > appended.committed THEN commit ELSE appended.committed
            moved == [appended EXCEPT !.committed = committed]
            ack(s, i) == Acked(s, self, m.from, i)
            reject == [r EXCEPT !.msgs = r.msgs \cup
                         {[type |-> "appendReject", from |-> self, to |-> m.from, term |-> r.term,
                           index |-> m.prev, hint |-> hint]}]
            q == StepAppend(r0, d, self, m)
<1>1. /\ m.term \in Term /\ m.prev \in 0..MaxIndex
      /\ m.ents \in [Index -> Entry] /\ m.commit \in 0..MaxIndex
  BY DEF Message
<1>2. r \in RawNodeState /\ Adds(r0, r) /\ r.committed = r0.committed /\ r.unst = r0.unst
  BY <1>1, BecomeFollowerAdds
<1>3. \/ q = ack(r, r.committed)
      \/ q = reject
      \/ q = ack(moved, lastNew) /\ ~(m.prev < r.committed)
  <2>1. r.committed \in 0..MaxIndex
    BY <1>2 DEF RawNodeState
  <2>2. m.prev < r.committed \/ m.prev >= r.committed
    BY <1>1, <2>1, IndexFacts
  <2>. QED
    BY <2>2 DEF StepAppend, Acked
<1>. HIDE DEF q, r, last, hint
<1>4. CASE q = ack(r, r.committed) \/ q = reject
  <2>1. q.unst = r.unst /\ q.committed = r.committed
    BY <1>2, <1>4 DEF Acked, RawNodeState
  <2>. QED
    BY <1>2, <2>1, SameAdds DEF q
<1>5. CASE q = ack(moved, lastNew) /\ ~(m.prev < r.committed)
  <2>1. /\ r.committed \in Int /\ m.prev \in Int /\ m.commit \in Int /\ LastIndex(m.ents) \in Int
    BY <1>1, <1>2, LastIndexType, IndexFacts DEF RawNodeState
  <2>2. /\ appended.committed = r.committed /\ appended \in RawNodeState
        /\ \A i \in Rows(appended.unst) : i \in Rows(r.unst) \/ i > r.committed
    <3>1. CASE new = {}
      BY <1>2, <3>1
    <3>2. CASE new # {}
      <4>1. from \in new
        BY <3>2, LeastRow DEF Rows, NewEntries
      <4>2. from \in Rows(m.ents)
        BY <4>1 DEF NewEntries
      <4>. HIDE DEF new, from
      <4>3. unst \in [Index -> Entry] /\ from \in Int
        BY <1>1, <1>2, <4>2, IndexFacts DEF RawNodeState, Rows
      <4>4. ASSUME NEW i \in Rows(unst) PROVE i \in Rows(r.unst) \/ i > r.committed
        <5>1. i \in Index /\ unst[i] # NoEntry /\ i \in Int
          BY <4>4, IndexFacts DEF Rows
        <5>2. CASE i < from
          BY <5>1, <5>2 DEF Rows
        <5>3. CASE ~(i < from)
          <6>1. i \in Rows(m.ents)
            BY <5>1, <5>3 DEF Rows
          <6>2. i > m.prev
            BY <6>1
          <6>. QED
            BY <1>5, <2>1, <5>1, <6>2
        <5>. QED
          BY <5>2, <5>3
      <4>5. appended = [r EXCEPT !.unst = unst]
        BY <3>2
      <4>. HIDE DEF unst, appended
      <4>6. appended \in RawNodeState /\ appended.unst = unst /\ appended.committed = r.committed
        BY <1>2, <4>3, <4>5 DEF RawNodeState
      <4>. QED
        BY <4>4, <4>6
    <3>. QED
      BY <3>1, <3>2
  <2>. HIDE DEF appended
  <2>3. committed >= r.committed
    BY <2>1, <2>2
  <2>. HIDE DEF committed, lastNew
  <2>4. q.committed = committed /\ q.unst = appended.unst
    BY <1>5, <2>2 DEF Acked, RawNodeState
  <2>5. Adds(r, q)
    BY <2>2, <2>3, <2>4 DEF Adds
  <2>. QED
    BY <1>2, <2>5 DEF Adds, q
<1>. QED
  BY <1>3, <1>4, <1>5

LEMMA StepAppendRespAdds ==
    ASSUME NEW r \in RawNodeState, NEW d \in Disk, NEW self \in Server,
           NEW m \in Message, m.type = "appendResp"
    PROVE  Adds(r, StepAppendResp(r, d, self, m))
<1>. DEFINE match == [r.match EXCEPT ![m.from] = m.index]
            next  == [r.next EXCEPT ![m.from] = IF m.index < r.next[m.from] THEN r.next[m.from]
                                                ELSE m.index + 1]
            q     == [r EXCEPT !.match = match, !.next = next]
<1>1. m.from \in Server /\ m.index \in 0..MaxIndex
  BY DEF Message
<1>2. match \in [Server -> 0..MaxIndex] /\ next \in [Server -> 1..(MaxIndex + 1)]
  BY <1>1, IndexFacts DEF RawNodeState
<1>3. \/ StepAppendResp(r, d, self, m) = MaybeCommit(q, d, self)
      \/ StepAppendResp(r, d, self, m) = r
  BY DEF StepAppendResp, RawNodeState
<1>. HIDE DEF match, next
<1>4. q \in RawNodeState /\ q.unst = r.unst /\ q.committed = r.committed
  BY <1>2 DEF RawNodeState
<1>. HIDE DEF q
<1>5. Adds(q, MaybeCommit(q, d, self))
  BY <1>4, MaybeCommitAdds
<1>. QED
  BY <1>3, <1>4, <1>5, SameAdds DEF Adds

LEMMA StepVoteRespAdds ==
    ASSUME NEW r \in RawNodeState, NEW d \in Disk, NEW self \in Server,
           NEW m \in Message, m.type = "voteResp", r.committed <= LastLogIndex(r, d)
    PROVE  Adds(r, StepVoteResp(r, d, self, m))
<1>. DEFINE votes == IF m.grant THEN r.votes \cup {m.from} ELSE r.votes
            v     == [r EXCEPT !.votes = votes]
<1>1. m.from \in Server
  BY DEF Message
<1>2. votes \in SUBSET Server
  BY <1>1 DEF RawNodeState
<1>3. \/ StepVoteResp(r, d, self, m) = r
      \/ StepVoteResp(r, d, self, m) = BecomeLeader(v, d, self)
      \/ StepVoteResp(r, d, self, m) = v
  BY DEF StepVoteResp
<1>. HIDE DEF votes
<1>4. v \in RawNodeState /\ v.unst = r.unst /\ v.committed = r.committed
  BY <1>2 DEF RawNodeState
<1>. HIDE DEF v
<1>5. v.committed <= LastLogIndex(v, d)
  BY <1>4 DEF LastLogIndex
<1>6. Adds(v, BecomeLeader(v, d, self))
  BY <1>4, <1>5, BecomeLeaderAdds
<1>. QED
  BY <1>3, <1>4, <1>6, SameAdds DEF Adds

LEMMA StepVoteReqAdds ==
    ASSUME NEW r \in RawNodeState, NEW d \in Disk, NEW self \in Server,
           NEW m \in Message, m.type = "voteReq"
    PROVE  Adds(r, StepVoteReq(r, d, self, m))
<1>. DEFINE b == IF m.term > r.term THEN BecomeFollower(r, m.term) ELSE r
<1>1. b \in RawNodeState /\ b.unst = r.unst /\ b.committed = r.committed
  <2>1. m.term \in Term
    BY DEF Message
  <2>2. /\ BecomeFollower(r, m.term) \in RawNodeState
        /\ BecomeFollower(r, m.term).unst = r.unst
        /\ BecomeFollower(r, m.term).committed = r.committed
    BY <2>1, BecomeFollowerAdds
  <2>. QED
    BY <2>2
<1>. HIDE DEF b
<1>2. PICK vote, msgs : StepVoteReq(r, d, self, m) = [b EXCEPT !.vote = vote, !.msgs = msgs]
  BY DEF StepVoteReq, b
<1>3. /\ StepVoteReq(r, d, self, m).unst = b.unst
      /\ StepVoteReq(r, d, self, m).committed = b.committed
  BY <1>1, <1>2 DEF RawNodeState
<1>. QED
  BY <1>1, <1>3, SameAdds

LEMMA StepAppendRejectAdds ==
    ASSUME NEW r \in RawNodeState, NEW d \in Disk, NEW self \in Server, NEW m
    PROVE  Adds(r, StepAppendReject(r, d, self, m))
<1>1. \/ StepAppendReject(r, d, self, m) = r
      \/ \E next, msgs : StepAppendReject(r, d, self, m) = [r EXCEPT !.next = next, !.msgs = msgs]
  BY DEF StepAppendReject, RawNodeState
<1>2. /\ StepAppendReject(r, d, self, m).unst = r.unst
      /\ StepAppendReject(r, d, self, m).committed = r.committed
  BY <1>1 DEF RawNodeState
<1>. QED
  BY <1>2, SameAdds

LEMMA StepAdds ==
    ASSUME NEW r \in RawNodeState, NEW d \in Disk, NEW self \in Server, NEW m \in Message,
           r.committed <= LastLogIndex(r, d),
           m.type = "append" => \A i \in Rows(m.ents) : i > m.prev
    PROVE  Adds(r, Step(r, d, self, m))
<1>. DEFINE q == Step(r, d, self, m)
<1>1. m.term \in Term /\ r.term \in Term
  BY MessageTermType DEF RawNodeState
<1>2. m.type \in {"append", "voteReq", "appendResp", "appendReject", "voteResp"}
  BY DEF Message
<1>3. CASE m.term < r.term
  <2>1. q = r
    BY <1>1, <1>3, BoundAssumption DEF Step, Term
  <2>. QED
    BY <2>1, SameAdds
<1>4. CASE ~(m.term < r.term)
  <2>1. m.term >= r.term
    BY <1>1, <1>4, BoundAssumption DEF Term
  <2>2. \/ q = StepAppend(r, d, self, m) /\ m.type = "append"
        \/ q = StepVoteReq(r, d, self, m) /\ m.type = "voteReq"
        \/ q = StepAppendResp(r, d, self, m) /\ m.type = "appendResp"
        \/ q = StepAppendReject(r, d, self, m) /\ m.type = "appendReject"
        \/ q = StepVoteResp(r, d, self, m) /\ m.type = "voteResp"
        \/ q = BecomeFollower(r, m.term)
    BY <1>2, <1>4, <2>1 DEF Step
  <2>. HIDE DEF q
  <2>3. Adds(r, q)
    BY <1>1, <2>2, StepAppendAdds, StepVoteReqAdds, StepAppendRespAdds, StepAppendRejectAdds,
       StepVoteRespAdds, BecomeFollowerAdds
  <2>. QED
    BY <2>3 DEF q
<1>. QED
  BY <1>3, <1>4

---------------------------------------------------------------------------
(* What advance() leaves to hand out lies past what it commits.            *)

LEMMA CaughtUp ==
    ASSUME NEW r \in RawNodeState, NEW d \in Disk, NEW s \in Server,
           Advance(r, d, s).committed <= LastIndex(d.log)
    PROVE  LET a == Advance(r, d, s)
           IN  /\ a.prevHs.commit = a.committed /\ r.committed <= a.committed
               /\ a.committed < FirstToHandOut(a, d)
<1>. DEFINE top   == IF r.role = "leader" THEN LastIndex(d.log) ELSE r.match[s]
            match == [r.match EXCEPT ![s] = top]
            q     == [r EXCEPT !.unst = EmptyLog, !.match = match]
            p     == Persisted(r, d, s)
            a     == Advance(r, d, s)
<1>1. p \in RawNodeState /\ a.csi = AfterHandOut(p, d).csi /\ a.committed = p.committed
  BY PersistedEvolves, AdvanceType DEF Evolves
<1>2. a.prevHs.commit = a.committed
  BY <1>1 DEF Advance, AfterHandOut, RawNodeState, HardState, p
<1>3. r.committed <= p.committed
  <2>1. match \in [Server -> 0..MaxIndex]
    BY LastIndexType DEF RawNodeState
  <2>2. p = MaybeCommit(q, d, s)
    BY DEF Persisted, RawNodeState
  <2>. HIDE DEF match, p
  <2>3. q \in RawNodeState /\ q.committed = r.committed
    BY <2>1, EmptyLogType DEF RawNodeState
  <2>. HIDE DEF q
  <2>4. p.committed >= q.committed
    BY <2>2, <2>3, MaybeCommitAdds DEF Adds
  <2>. QED
    BY <1>1, <2>3, <2>4, IndexFacts DEF RawNodeState
<1>. HIDE DEF p, a
<1>4. /\ p.committed \in Int /\ p.csi \in Int /\ LastIndex(d.log) \in Int
      /\ FirstIndex(d.log) \in Int
  BY <1>1, LastIndexType, FirstIndexType, IndexFacts DEF RawNodeState
<1>5. HandOut(p, d) = p.committed
  BY <1>1, <1>4 DEF HandOut, a
<1>6. a.csi = IF p.committed >= FirstToHandOut(p, d) THEN p.committed ELSE p.csi
  BY <1>1, <1>5, AfterHandOutType DEF HasEntriesToHandOut
<1>7. a.committed < FirstToHandOut(a, d)
  BY <1>1, <1>4, <1>6 DEF FirstToHandOut
<1>. QED
  BY <1>1, <1>2, <1>3, <1>7 DEF a

(* No row comes before the first.                                          *)
LEMMA FirstIndexLeast ==
    ASSUME NEW log, Rows(log) # {}
    PROVE  FirstIndex(log) \in Rows(log) /\ \A k \in Rows(log) : FirstIndex(log) <= k
<1>1. Rows(log) \subseteq Nat
  BY IndexFacts DEF Rows
<1>2. \E j \in Rows(log) : \A k \in Rows(log) : j <= k
  BY <1>1, LeastExists
<1>. QED
  BY <1>2 DEF FirstIndex

(* Compaction keeps the last row, so the first index does not fall.        *)
LEMMA FirstRises ==
    ASSUME NEW d \in Disk, NEW request \in 0..MaxIndex
    PROVE  FirstIndex(d.log) <= FirstIndex(CompactLogBefore(d, SnapshotIndex(d, request)).log)
<1>. DEFINE upTo == SnapshotIndex(d, request)
            e == CompactLogBefore(d, upTo)
            first == FirstIndex(e.log)
            last == LastIndex(d.log)
<1>1. upTo \in Nat /\ upTo <= last /\ last \in Nat
  BY LastIndexType, IndexFacts DEF SnapshotIndex
<1>. HIDE DEF upTo
<1>2. \A i \in Index : e.log[i] = IF i < upTo THEN NoEntry ELSE d.log[i]
  BY DEF CompactLogBefore, Disk
<1>. HIDE DEF e
<1>3. Rows(e.log) \subseteq Rows(d.log)
  BY <1>2 DEF Rows
<1>4. CASE Rows(d.log) = {}
  <2>1. first = 1 /\ FirstIndex(d.log) = 1
    BY <1>3, <1>4 DEF FirstIndex
  <2>. QED
    BY <2>1 DEF e, upTo
<1>5. CASE Rows(d.log) # {}
  <2>1. last \in Index /\ d.log[last] # NoEntry /\ ~(last < upTo)
    BY <1>1, <1>5, LastIndexType DEF Rows
  <2>2. Rows(e.log) # {}
    BY <1>2, <2>1 DEF Rows
  <2>3. first \in Rows(e.log)
    BY <2>2, FirstIndexLeast
  <2>4. first \in Rows(d.log)
    BY <1>3, <2>3
  <2>. HIDE DEF first
  <2>5. FirstIndex(d.log) <= first
    BY <1>5, <2>4, FirstIndexLeast
  <2>. QED
    BY <2>5 DEF first, e, upTo
<1>. QED
  BY <1>4, <1>5

---------------------------------------------------------------------------
(* A node that no message reaches is the only one to write its log and,    *)
(* with the progress of every other node at 0, the only one whose storage  *)
(* decides what is committed (Own).  A call adds at most one entry, at the *)
(* end of the log, and no message to the node itself (Continues).          *)

Own(r, d, self) ==
    /\ \A f \in Server : f # self => r.match[f] = 0
    /\ r.match[self] <= LastIndex(d.log)
    /\ r.committed <= LastIndex(d.log)

(* The unstable log u with an entry put at place i, or as it was.          *)
Lengthened(u, v, i) == v = u \/ (i \in Index /\ \E e \in Entry \ {NoEntry} : v = [u EXCEPT ![i] = e])

Continues(r, q, d, self) ==
    /\ q \in RawNodeState /\ Own(q, d, self)
    /\ q.csi = r.csi /\ q.applied = r.applied /\ q.prevHs = r.prevHs
    /\ q.committed >= r.committed
    /\ Lengthened(r.unst, q.unst, LastLogIndex(r, d) + 1)
    /\ \A m \in q.msgs : m \in r.msgs \/ m.to # self

LEMMA QuorumMeets ==
    ASSUME NEW S, NEW voters, voters \subseteq Server, IsQuorum(S, voters)
    PROVE  S \cap voters # {}
<1>1. IsFiniteSet(voters)
  BY ServerAssumption, FS_Subset
<1>2. Cardinality(voters) \in Nat /\ Cardinality({}) = 0
  BY <1>1, FS_CardinalityType, FS_EmptySet
<1>. QED
  BY <1>2 DEF IsQuorum

LEMMA CommitIsOwn ==
    ASSUME NEW r \in RawNodeState, NEW d, NEW self \in Server, Own(r, d, self),
           NEW i \in Committable(r, d)
    PROVE  i <= LastIndex(d.log) /\ i > r.committed
<1>1. /\ i \in (r.committed + 1)..LastLogIndex(r, d)
      /\ IsQuorum({f \in Server : r.match[f] >= i}, r.voters)
  BY DEF Committable
<1>2. r.committed \in Int /\ r.committed >= 0 /\ LastLogIndex(r, d) \in Int /\ r.voters \subseteq Server
  BY LastLogIndexType, IndexFacts DEF RawNodeState
<1>3. i \in Int /\ i > r.committed /\ i > 0
  BY <1>1, <1>2
<1>4. PICK f \in Server : r.match[f] >= i
  BY <1>1, <1>2, QuorumMeets
<1>5. f = self
  BY <1>3, <1>4 DEF Own
<1>6. r.match[self] \in Int /\ LastIndex(d.log) \in Int
  BY LastIndexType, IndexFacts DEF RawNodeState
<1>. QED
  BY <1>3, <1>4, <1>5, <1>6 DEF Own

(* A call that changes neither log nor progress.                           *)
LEMMA SameContinues ==
    ASSUME NEW r \in RawNodeState, NEW q \in RawNodeState, NEW d, NEW self, Own(r, d, self),
           q.match = r.match, q.committed = r.committed, q.unst = r.unst,
           q.csi = r.csi, q.applied = r.applied, q.prevHs = r.prevHs,
           \A m \in q.msgs : m \in r.msgs \/ m.to # self
    PROVE  Continues(r, q, d, self)
<1>1. q.committed >= r.committed
  BY IndexFacts DEF RawNodeState
<1>. QED
  BY <1>1 DEF Continues, Own, Lengthened

LEMMA ContinuesTrans ==
    ASSUME NEW r \in RawNodeState, NEW q \in RawNodeState, NEW p, NEW d, NEW self,
           Continues(r, q, d, self), Continues(q, p, d, self), p.unst = q.unst \/ q.unst = r.unst
    PROVE  Continues(r, p, d, self)
<1>1. p.committed >= r.committed
  BY IndexFacts DEF Continues, RawNodeState
<1>2. Lengthened(r.unst, p.unst, LastLogIndex(r, d) + 1)
  BY DEF Continues, Lengthened, LastLogIndex
<1>. QED
  BY <1>1, <1>2 DEF Continues

LEMMA BcastContinues ==
    ASSUME NEW r \in RawNodeState, NEW d \in Disk, NEW self \in Server, Own(r, d, self)
    PROVE  Continues(r, Bcast(r, d, self), d, self) /\ Bcast(r, d, self).unst = r.unst
<1>. DEFINE new == {AppendMsg(r, d, self, f) : f \in {g \in r.voters \ {self} : ~NeedsSnapshot(r, d, g)}}
            q == Bcast(r, d, self)
<1>1. q = [r EXCEPT !.msgs = r.msgs \cup new]
  BY DEF Bcast
<1>2. \A m \in new : m.to # self
  BY DEF AppendMsg
<1>3. q \in RawNodeState
  BY BcastEvolves DEF Evolves
<1>. HIDE DEF new, q
<1>4. /\ q.match = r.match /\ q.committed = r.committed /\ q.unst = r.unst
      /\ q.csi = r.csi /\ q.applied = r.applied /\ q.prevHs = r.prevHs
      /\ q.msgs = r.msgs \cup new
  BY <1>1 DEF RawNodeState
<1>5. Continues(r, q, d, self)
  BY <1>2, <1>3, <1>4, SameContinues
<1>. QED
  BY <1>4, <1>5 DEF q

LEMMA MaybeCommitContinues ==
    ASSUME NEW r \in RawNodeState, NEW d \in Disk, NEW self \in Server, Own(r, d, self)
    PROVE  /\ Continues(r, MaybeCommit(r, d, self), d, self)
           /\ MaybeCommit(r, d, self).unst = r.unst
<1>. DEFINE top == CHOOSE i \in Committable(r, d) : \A j \in Committable(r, d) : j <= i
            q   == [r EXCEPT !.committed = top]
            p   == Bcast(q, d, self)
<1>1. CASE r.role = "leader" /\ Committable(r, d) # {}
  <2>1. \E i \in Committable(r, d) : \A j \in Committable(r, d) : j <= i
    BY <1>1, CommittableFacts, GreatestExists, IndexFacts
  <2>2. top \in 0..MaxIndex /\ top \in Committable(r, d)
    BY <2>1, CommittableFacts
  <2>3. top > r.committed /\ top <= LastIndex(d.log)
    BY <2>2, CommitIsOwn
  <2>4. MaybeCommit(r, d, self) = p
    BY <1>1 DEF MaybeCommit
  <2>. HIDE DEF top
  <2>5. /\ q \in RawNodeState /\ q.committed = top /\ q.unst = r.unst /\ q.match = r.match
        /\ q.csi = r.csi /\ q.applied = r.applied /\ q.prevHs = r.prevHs /\ q.msgs = r.msgs
    BY <2>2 DEF RawNodeState
  <2>. HIDE DEF q
  <2>6. Own(q, d, self)
    BY <2>3, <2>5 DEF Own
  <2>7. Continues(q, p, d, self) /\ p.unst = q.unst
    BY <2>5, <2>6, BcastContinues
  <2>8. Continues(r, q, d, self)
    <3>1. q.committed >= r.committed
      BY <2>2, <2>3, <2>5, IndexFacts DEF RawNodeState
    <3>. QED
      BY <2>5, <2>6, <3>1 DEF Continues, Lengthened
  <2>. HIDE DEF p
  <2>9. Continues(r, p, d, self)
    BY <2>5, <2>7, <2>8, ContinuesTrans
  <2>. QED
    BY <2>4, <2>5, <2>7, <2>9
<1>2. CASE ~(r.role = "leader" /\ Committable(r, d) # {})
  <2>1. MaybeCommit(r, d, self) = r
    BY <1>2 DEF MaybeCommit
  <2>. QED
    BY <2>1, SameContinues
<1>. QED
  BY <1>1, <1>2

LEMMA PutContinues ==
    ASSUME NEW r \in RawNodeState, NEW d \in Disk, NEW self \in Server, NEW e \in Entry \ {NoEntry},
           Own(r, d, self), LastLogIndex(r, d) < MaxIndex
    PROVE  /\ Continues(r, AppendAsLeader(r, d, e), d, self)
           /\ AppendAsLeader(r, d, e).unst = [r.unst EXCEPT ![LastLogIndex(r, d) + 1] = e]
<1>. DEFINE i == LastLogIndex(r, d) + 1
            q == AppendAsLeader(r, d, e)
<1>1. q = [r EXCEPT !.unst = [r.unst EXCEPT ![i] = e]]
  BY DEF AppendAsLeader, Put, RawNodeState
<1>2. q \in RawNodeState
  BY AppendAsLeaderEvolves DEF Evolves
<1>3. i \in Index
  BY LastLogIndexType, IndexFacts DEF Index
<1>. HIDE DEF i, q
<1>4. /\ q.unst = [r.unst EXCEPT ![i] = e] /\ q.committed = r.committed /\ q.match = r.match
      /\ q.csi = r.csi /\ q.applied = r.applied /\ q.prevHs = r.prevHs /\ q.msgs = r.msgs
  BY <1>1 DEF RawNodeState
<1>5. q.committed >= r.committed
  BY <1>4, IndexFacts DEF RawNodeState
<1>6. Own(q, d, self)
  BY <1>4 DEF Own
<1>7. Lengthened(r.unst, q.unst, i)
  BY <1>3, <1>4 DEF Lengthened
<1>8. Continues(r, q, d, self)
  BY <1>2, <1>4, <1>5, <1>6, <1>7 DEF Continues, i
<1>. QED
  BY <1>4, <1>8 DEF i, q

LEMMA BecomeLeaderContinues ==
    ASSUME NEW r \in RawNodeState, NEW d \in Disk, NEW self \in Server, Own(r, d, self),
           LastLogIndex(r, d) < MaxIndex
    PROVE  Continues(r, BecomeLeader(r, d, self), d, self)
<1>. DEFINE match == [f \in Server |-> IF f = self THEN LastIndex(d.log) ELSE 0]
            next  == [f \in Server |-> LastLogIndex(r, d) + 1]
            led   == [r EXCEPT !.role = "leader", !.votes = {},
                               !.pendingConf = LastLogIndex(r, d),
                               !.match = match, !.next = next]
            e     == [term |-> r.term, kind |-> "normal", ctx |-> NoReq, node |-> 0]
            a     == AppendAsLeader(led, d, e)
            b     == Bcast(a, d, self)
<1>1. match \in [Server -> 0..MaxIndex] /\ match[self] = LastIndex(d.log)
      /\ \A f \in Server : f # self => match[f] = 0
  BY LastIndexType, IndexFacts
<1>2. next \in [Server -> 1..(MaxIndex + 1)] /\ LastLogIndex(r, d) \in 0..MaxIndex
  BY LastLogIndexType, IndexFacts
<1>3. BecomeLeader(r, d, self) = b
  BY DEF BecomeLeader
<1>4. e \in Entry \ {NoEntry}
  <2>1. e \in Entry
    BY NormalEntryType DEF RawNodeState
  <2>2. e.kind # NoEntry.kind
    BY DEF NoEntry
  <2>. QED
    BY <2>1, <2>2
<1>. HIDE DEF match, next, e
<1>5. led \in RawNodeState
  BY <1>1, <1>2 DEF RawNodeState, Role
<1>6. /\ led.unst = r.unst /\ led.committed = r.committed /\ led.match = match
      /\ led.csi = r.csi /\ led.applied = r.applied /\ led.prevHs = r.prevHs /\ led.msgs = r.msgs
  BY DEF RawNodeState
<1>. HIDE DEF led
<1>7. Own(led, d, self)
  <2>1. LastIndex(d.log) <= LastIndex(d.log)
    BY LastIndexType, IndexFacts
  <2>. QED
    BY <1>1, <1>6, <2>1 DEF Own
<1>8. Continues(r, led, d, self)
  <2>1. led.committed >= r.committed
    BY <1>6, IndexFacts DEF RawNodeState
  <2>. QED
    BY <1>5, <1>6, <1>7, <2>1 DEF Continues, Lengthened
<1>9. LastLogIndex(led, d) = LastLogIndex(r, d)
  BY <1>6 DEF LastLogIndex
<1>10. Continues(led, a, d, self)
  BY <1>4, <1>5, <1>7, <1>9, PutContinues
<1>. HIDE DEF a
<1>11. a \in RawNodeState /\ Own(a, d, self)
  BY <1>10 DEF Continues
<1>12. Continues(a, b, d, self) /\ b.unst = a.unst
  BY <1>11, BcastContinues
<1>. HIDE DEF b
<1>13. Continues(r, a, d, self)
  BY <1>5, <1>6, <1>8, <1>10, ContinuesTrans
<1>14. Continues(r, b, d, self)
  BY <1>11, <1>12, <1>13, ContinuesTrans
<1>. QED
  BY <1>3, <1>14

LEMMA CampaignContinues ==
    ASSUME NEW r \in RawNodeState, NEW d \in Disk, NEW self \in Server, Own(r, d, self),
           CanCampaign(r, d, self)
    PROVE  Continues(r, Campaign(r, d, self), d, self)
<1>. DEFINE c    == [r EXCEPT !.role = "candidate", !.term = r.term + 1, !.vote = self,
                              !.votes = {self}]
            last == LastLogIndex(r, d)
            new  == {[type |-> "voteReq", from |-> self, to |-> f, term |-> c.term,
                      last |-> last, lastTerm |-> EntryAt(r, d, last).term]
                        : f \in r.voters \ {self}}
            q    == Campaign(r, d, self)
<1>1. r.term + 1 \in Term
  BY BoundAssumption DEF CanCampaign, RawNodeState, Term
<1>2. c \in RawNodeState
  BY <1>1 DEF RawNodeState, Role
<1>3. /\ c.unst = r.unst /\ c.committed = r.committed /\ c.match = r.match
      /\ c.csi = r.csi /\ c.applied = r.applied /\ c.prevHs = r.prevHs /\ c.msgs = r.msgs
  BY DEF RawNodeState
<1>4. \/ q = BecomeLeader(c, d, self)
      \/ q = [c EXCEPT !.msgs = c.msgs \cup new]
  BY DEF Campaign
<1>5. \A m \in new : m.to # self
  <2>. SUFFICES ASSUME NEW f \in r.voters \ {self}
                PROVE  f # self
    OBVIOUS
  <2>. QED
    OBVIOUS
<1>6. q \in RawNodeState
  BY CampaignEvolves DEF Evolves
<1>. HIDE DEF c, new, q
<1>7. CASE q = BecomeLeader(c, d, self)
  <2>1. Own(c, d, self) /\ LastLogIndex(c, d) = LastLogIndex(r, d)
    BY <1>3 DEF Own, LastLogIndex
  <2>2. LastLogIndex(r, d) < MaxIndex
    BY DEF CanCampaign
  <2>3. Continues(c, q, d, self)
    BY <1>2, <1>7, <2>1, <2>2, BecomeLeaderContinues
  <2>4. Continues(r, c, d, self)
    BY <1>2, <1>3, SameContinues
  <2>. QED
    BY <1>2, <1>3, <2>3, <2>4, ContinuesTrans DEF q
<1>8. CASE q = [c EXCEPT !.msgs = c.msgs \cup new]
  <2>1. /\ q.unst = r.unst /\ q.committed = r.committed /\ q.match = r.match
        /\ q.csi = r.csi /\ q.applied = r.applied /\ q.prevHs = r.prevHs
        /\ q.msgs = r.msgs \cup new
    BY <1>2, <1>3, <1>8 DEF RawNodeState
  <2>2. Continues(r, q, d, self)
    BY <1>5, <1>6, <2>1, SameContinues
  <2>. QED
    BY <2>2 DEF q
<1>. QED
  BY <1>4, <1>7, <1>8

LEMMA ProposeContinues ==
    ASSUME NEW r \in RawNodeState, NEW d \in Disk, NEW self \in Server, NEW q \in Req \cup {NoReq},
           Own(r, d, self), LastLogIndex(r, d) < MaxIndex
    PROVE  /\ Continues(r, Propose(r, d, self, q), d, self)
           /\ \E e \in Entry \ {NoEntry} :
                 /\ e.ctx = q
                 /\ Propose(r, d, self, q).unst = [r.unst EXCEPT ![LastLogIndex(r, d) + 1] = e]
<1>. DEFINE e == [term |-> r.term, kind |-> "normal", ctx |-> q, node |-> 0]
            a == AppendAsLeader(r, d, e)
            b == Bcast(a, d, self)
<1>1. e \in Entry \ {NoEntry} /\ e.ctx = q /\ Propose(r, d, self, q) = b
  <2>1. e \in Entry
    BY NormalEntryType DEF RawNodeState
  <2>2. e.kind # NoEntry.kind
    BY DEF NoEntry
  <2>. QED
    BY <2>1, <2>2 DEF Propose
<1>. HIDE DEF e
<1>2. /\ Continues(r, a, d, self)
      /\ a.unst = [r.unst EXCEPT ![LastLogIndex(r, d) + 1] = e]
  BY <1>1, PutContinues
<1>3. a \in RawNodeState /\ Own(a, d, self)
  BY <1>2 DEF Continues
<1>. HIDE DEF a
<1>4. Continues(a, b, d, self) /\ b.unst = a.unst
  BY <1>3, BcastContinues
<1>. HIDE DEF b
<1>5. Continues(r, b, d, self)
  BY <1>2, <1>3, <1>4, ContinuesTrans
<1>. QED
  BY <1>1, <1>2, <1>4, <1>5

LEMMA ProposeConfChangeContinues ==
    ASSUME NEW r \in RawNodeState, NEW d \in Disk, NEW self \in Server,
           NEW kind \in {"add", "remove"}, NEW node \in Server,
           Own(r, d, self), LastLogIndex(r, d) < MaxIndex
    PROVE  Continues(r, ProposeConfChange(r, d, self, kind, node), d, self)
<1>. DEFINE pending == r.pendingConf > r.applied
            e == IF pending
                 THEN [term |-> r.term, kind |-> "normal", ctx |-> NoReq, node |-> 0]
                 ELSE [term |-> r.term, kind |-> kind, ctx |-> NoReq, node |-> node]
            at == IF pending THEN r.pendingConf ELSE LastLogIndex(r, d) + 1
            p  == [r EXCEPT !.pendingConf = at]
            a  == AppendAsLeader(p, d, e)
            b  == Bcast(a, d, self)
<1>1. e \in Entry \ {NoEntry}
  <2>1. e \in Entry
    BY DEF Entry, RawNodeState
  <2>2. e.kind # NoEntry.kind
    BY DEF NoEntry
  <2>. QED
    BY <2>1, <2>2
<1>2. at \in 0..MaxIndex
  BY LastLogIndexType, IndexFacts DEF RawNodeState
<1>3. ProposeConfChange(r, d, self, kind, node) = b
  BY DEF ProposeConfChange
<1>. HIDE DEF e, at
<1>4. /\ p \in RawNodeState /\ p.unst = r.unst /\ p.committed = r.committed /\ p.match = r.match
      /\ p.csi = r.csi /\ p.applied = r.applied /\ p.prevHs = r.prevHs /\ p.msgs = r.msgs
  BY <1>2 DEF RawNodeState
<1>. HIDE DEF p
<1>5. Continues(r, p, d, self)
  BY <1>4, SameContinues
<1>6. Own(p, d, self) /\ LastLogIndex(p, d) = LastLogIndex(r, d)
  BY <1>4 DEF Own, LastLogIndex
<1>7. Continues(p, a, d, self)
  BY <1>1, <1>4, <1>6, PutContinues
<1>8. a \in RawNodeState /\ Own(a, d, self)
  BY <1>7 DEF Continues
<1>. HIDE DEF a
<1>9. Continues(a, b, d, self) /\ b.unst = a.unst
  BY <1>8, BcastContinues
<1>. HIDE DEF b
<1>10. Continues(r, a, d, self)
  BY <1>4, <1>5, <1>7, ContinuesTrans
<1>11. Continues(r, b, d, self)
  BY <1>8, <1>9, <1>10, ContinuesTrans
<1>. QED
  BY <1>3, <1>11

LEMMA ApplyConfChangeContinues ==
    ASSUME NEW r \in RawNodeState, NEW d \in Disk, NEW self \in Server, NEW e \in Entry,
           e.kind \in {"add", "remove"}, LastLogIndex(r, d) >= 1, Own(r, d, self)
    PROVE  /\ Continues(r, ApplyConfChange(r, d, self, e), d, self)
           /\ ApplyConfChange(r, d, self, e).unst = r.unst
<1>. DEFINE v == [r EXCEPT !.voters = NewVoters(r, e)]
            c == IF e.kind = "add" /\ e.node \notin r.voters
                 THEN [v EXCEPT !.match[e.node] = 0, !.next[e.node] = LastLogIndex(r, d)] ELSE v
            q == ApplyConfChange(r, d, self, e)
<1>1. NewVoters(r, e) \in SUBSET Server /\ e.node \in Server
  BY NewVotersType
<1>2. /\ v \in RawNodeState /\ v.unst = r.unst /\ v.committed = r.committed /\ v.match = r.match
      /\ v.csi = r.csi /\ v.applied = r.applied /\ v.prevHs = r.prevHs /\ v.msgs = r.msgs
  BY <1>1 DEF RawNodeState
<1>. HIDE DEF v
<1>3. /\ c \in RawNodeState /\ c.unst = r.unst /\ c.committed = r.committed
      /\ c.csi = r.csi /\ c.applied = r.applied /\ c.prevHs = r.prevHs /\ c.msgs = r.msgs
      /\ \A f \in Server : c.match[f] \in {0, r.match[f]}
  <2>1. CASE e.kind = "add" /\ e.node \notin r.voters
    <3>1. LastLogIndex(r, d) \in 1..(MaxIndex + 1) /\ 0 \in 0..MaxIndex
      BY LastLogIndexType, IndexFacts
    <3>. DEFINE m == [v.match EXCEPT ![e.node] = 0]
                k == [v.next EXCEPT ![e.node] = LastLogIndex(r, d)]
    <3>2. m \in [Server -> 0..MaxIndex] /\ k \in [Server -> 1..(MaxIndex + 1)]
          /\ \A f \in Server : m[f] \in {0, r.match[f]}
      BY <1>1, <1>2, <3>1 DEF RawNodeState
    <3>3. c = [v EXCEPT !.match = m, !.next = k]
      BY <1>2, <2>1 DEF RawNodeState
    <3>. HIDE DEF c, m, k
    <3>. QED
      BY <1>2, <3>2, <3>3 DEF RawNodeState
  <2>2. CASE ~(e.kind = "add" /\ e.node \notin r.voters)
    BY <1>2, <2>2
  <2>. QED
    BY <2>1, <2>2
<1>4. \/ q = c
      \/ q = MaybeCommit(c, d, self)
      \/ q = Bcast(c, d, self)
  BY DEF ApplyConfChange, v
<1>. HIDE DEF c, q
<1>5. Own(c, d, self)
  <2>1. LastIndex(d.log) \in Nat
    BY LastIndexType, IndexFacts
  <2>. QED
    BY <1>3, <2>1 DEF Own
<1>6. Continues(r, c, d, self)
  <2>1. c.committed >= r.committed
    BY <1>3, IndexFacts DEF RawNodeState
  <2>. QED
    BY <1>3, <1>5, <2>1 DEF Continues, Lengthened
<1>7. Continues(c, q, d, self) /\ q.unst = c.unst
  BY <1>3, <1>4, <1>5, SameContinues, MaybeCommitContinues, BcastContinues
<1>8. Continues(r, q, d, self)
  BY <1>3, <1>6, <1>7, ContinuesTrans
<1>. QED
  BY <1>3, <1>7, <1>8 DEF q

(* advance() counts the entries of the Ready as applied, and hands out at  *)
(* once what it commits.                                                   *)
LEMMA AdvanceContinues ==
    ASSUME NEW r \in RawNodeState, NEW d \in Disk, NEW self \in Server, Own(r, d, self),
           r.csi = r.prevHs.commit, r.csi <= r.committed, FirstIndex(d.log) <= r.csi + 1
    PROVE  LET a == Advance(r, d, self)
           IN  /\ a \in RawNodeState /\ Own(a, d, self)
               /\ a.unst = EmptyLog /\ a.msgs = {}
               /\ a.applied = r.csi /\ a.csi = a.committed /\ a.prevHs.commit = a.committed
               /\ r.csi <= a.committed
               /\ LightCommit(r, d, self) <=> a.committed > r.csi
               /\ \A m \in LightMsgs(r, d, self) : m \in r.msgs \/ m.to # self
<1>. DEFINE top   == IF r.role = "leader" THEN LastIndex(d.log) ELSE r.match[self]
            match == [r.match EXCEPT ![self] = top]
            q     == [r EXCEPT !.unst = EmptyLog, !.match = match]
            p     == Persisted(r, d, self)
            a     == Advance(r, d, self)
<1>1. match \in [Server -> 0..MaxIndex] /\ match[self] = top
      /\ \A f \in Server : f # self => match[f] = r.match[f]
  BY LastIndexType DEF RawNodeState
<1>2. p = MaybeCommit(q, d, self)
  BY DEF Persisted, RawNodeState
<1>. HIDE DEF match, p
<1>3. /\ q \in RawNodeState /\ q.committed = r.committed /\ q.unst = EmptyLog /\ q.match = match
      /\ q.csi = r.csi /\ q.applied = r.applied /\ q.prevHs = r.prevHs /\ q.msgs = r.msgs
  BY <1>1, EmptyLogType DEF RawNodeState
<1>. HIDE DEF q
<1>4. Own(q, d, self)
  <2>1. top <= LastIndex(d.log)
    BY LastIndexType, IndexFacts DEF Own
  <2>. QED
    BY <1>1, <1>3, <2>1 DEF Own
<1>5. Continues(q, p, d, self) /\ p.unst = EmptyLog
  BY <1>2, <1>3, <1>4, MaybeCommitContinues
<1>6. /\ p \in RawNodeState /\ Own(p, d, self) /\ p.csi = r.csi /\ p.prevHs = r.prevHs
      /\ p.committed >= r.committed
      /\ \A m \in p.msgs : m \in r.msgs \/ m.to # self
  BY <1>3, <1>5 DEF Continues
<1>7. /\ a \in RawNodeState /\ a.applied = r.csi /\ a.committed = p.committed
      /\ a.csi = AfterHandOut(p, d).csi /\ a.msgs = {}
  BY AdvanceType DEF p
<1>8. a.prevHs.commit = a.committed /\ a.unst = EmptyLog /\ a.match = p.match
  BY <1>5, <1>6, <1>7 DEF Advance, AfterHandOut, RawNodeState, HardState, p
<1>. HIDE DEF a
<1>9. /\ p.committed \in Int /\ r.csi \in Int /\ LastIndex(d.log) \in Int
      /\ FirstIndex(d.log) \in Int /\ r.committed \in Int
  BY <1>6, LastIndexType, FirstIndexType, IndexFacts DEF RawNodeState
<1>10. HandOut(p, d) = p.committed
  BY <1>6, <1>9 DEF HandOut, Own
<1>11. a.csi = IF p.committed >= FirstToHandOut(p, d) THEN p.committed ELSE p.csi
  BY <1>6, <1>7, <1>10, AfterHandOutType DEF HasEntriesToHandOut
<1>12. FirstToHandOut(p, d) = r.csi + 1
  BY <1>6, <1>9 DEF FirstToHandOut
<1>13. a.csi = a.committed /\ r.csi <= a.committed
  BY <1>6, <1>7, <1>9, <1>11, <1>12
<1>14. Own(a, d, self)
  BY <1>6, <1>7, <1>8 DEF Own
<1>15. LightCommit(r, d, self) <=> a.committed > r.csi
  BY <1>7 DEF LightCommit, p
<1>16. \A m \in LightMsgs(r, d, self) : m \in r.msgs \/ m.to # self
  BY <1>6 DEF LightMsgs, p
<1>. QED
  BY <1>7, <1>8, <1>13, <1>14, <1>15, <1>16 DEF a

---------------------------------------------------------------------------
(* The log of such a node, in memory and stored.  Until a Ready is taken   *)
(* the unstable entries follow the stored ones without a gap (JoinsOn);    *)
(* once they are saved the storage has them all (InStorage).               *)

LEMMA Places == Index \subseteq Int /\ \A log : Rows(log) \subseteq Index /\ Rows(log) \subseteq Int
BY DEF Index, Rows

Gapless(log) == \A i, j \in Rows(log) : i..j \subseteq Rows(log)

JoinsOn(r, d) ==
    \A i \in Index : i \in Rows(r.unst) <=> LastIndex(d.log) < i /\ i <= LastLogIndex(r, d)

InStorage(r, d) ==
    /\ \A i \in Rows(r.unst) : d.log[i] = r.unst[i]
    /\ LastLogIndex(r, d) = LastIndex(d.log)

LEMMA FirstIndexIs ==
    ASSUME NEW log, NEW i \in Rows(log), \A j \in Rows(log) : i <= j
    PROVE  FirstIndex(log) = i
<1>1. FirstIndex(log) \in Rows(log) /\ FirstIndex(log) <= i /\ i <= FirstIndex(log)
  BY FirstIndexLeast
<1>2. FirstIndex(log) \in Int /\ i \in Int
  BY <1>1, Places
<1>. QED
  BY <1>1, <1>2

(* Between the first row and the last none is missing.                     *)
LEMMA RowsAre ==
    ASSUME NEW log, Gapless(log), NEW i \in Index, FirstIndex(log) <= i, i <= LastIndex(log)
    PROVE  i \in Rows(log)
<1>1. Rows(log) # {}
  <2>1. i >= 1 /\ i \in Int
    BY IndexFacts DEF Index
  <2>. QED
    BY <2>1 DEF LastIndex
<1>2. FirstIndex(log) \in Rows(log) /\ LastIndex(log) \in Rows(log)
  BY <1>1, FirstIndexLeast, LastIndexType
<1>3. FirstIndex(log) \in Int /\ LastIndex(log) \in Int /\ i \in Int
  BY <1>2, Places
<1>4. i \in FirstIndex(log)..LastIndex(log)
  BY <1>3
<1>. QED
  BY <1>2, <1>4 DEF Gapless

LEMMA JoinedLast ==
    ASSUME NEW r, NEW d, JoinsOn(r, d)
    PROVE  LastIndex(d.log) <= LastLogIndex(r, d)
<1>1. LastIndex(d.log) \in Int /\ LastIndex(r.unst) \in Int
  BY LastIndexType
<1>2. CASE Rows(r.unst) = {}
  BY <1>1, <1>2 DEF LastLogIndex
<1>3. CASE Rows(r.unst) # {}
  <2>1. LastIndex(r.unst) \in Rows(r.unst) /\ LastLogIndex(r, d) = LastIndex(r.unst)
    BY <1>3, LastIndexType DEF LastLogIndex
  <2>2. LastIndex(r.unst) \in Index
    BY <2>1 DEF Rows
  <2>. QED
    BY <1>1, <2>1, <2>2 DEF JoinsOn
<1>. QED
  BY <1>2, <1>3

(* An entry of the log is a row of the memory or of the storage.           *)
LEMMA EntryIsRow ==
    ASSUME NEW r, NEW d, NEW i, EntryAt(r, d, i) # NoEntry
    PROVE  /\ i \in Index /\ i <= LastLogIndex(r, d)
           /\ EntryAt(r, d, i) = IF r.unst[i] # NoEntry THEN r.unst[i] ELSE d.log[i]
           /\ i \in Rows(r.unst) \/ i \in Rows(d.log)
<1>1. ~(i \notin Index \/ i > LastLogIndex(r, d))
  BY Zenon DEF EntryAt
<1>2. EntryAt(r, d, i) = IF r.unst[i] # NoEntry THEN r.unst[i] ELSE d.log[i]
  BY <1>1, Zenon DEF EntryAt
<1>3. LastLogIndex(r, d) \in Int
  BY LastLogIndexType
<1>4. i \in Index /\ i \in Int
  BY <1>1, Places
<1>. QED
  BY <1>1, <1>2, <1>3, <1>4 DEF Rows

LEMMA EntryIs ==
    ASSUME NEW r, NEW d, NEW i \in Index, i <= LastLogIndex(r, d)
    PROVE  EntryAt(r, d, i) = IF r.unst[i] # NoEntry THEN r.unst[i] ELSE d.log[i]
<1>1. ~(i \notin Index \/ i > LastLogIndex(r, d))
  BY LastLogIndexType, IndexFacts
<1>. QED
  BY <1>1, Zenon DEF EntryAt

(* Saving: the first index stays, and the log is the same from then on.    *)
LEMMA SaveJoins ==
    ASSUME NEW r \in RawNodeState, NEW d \in Disk, JoinsOn(r, d), Gapless(d.log)
    PROVE  LET e == AppendEntries(d, r.unst)
           IN  /\ Gapless(e.log) /\ InStorage(r, e)
               /\ FirstIndex(e.log) = FirstIndex(d.log) /\ LastIndex(d.log) <= LastIndex(e.log)
               /\ Rows(d.log) \subseteq Rows(e.log)
               /\ \A i \in Index : EntryAt(r, e, i) = EntryAt(r, d, i)
<1>. DEFINE e == AppendEntries(d, r.unst)
            last == LastIndex(d.log)
            top  == LastLogIndex(r, d)
<1>1. \A i \in Index : e.log[i] = IF r.unst[i] # NoEntry THEN r.unst[i] ELSE d.log[i]
  BY DEF AppendEntries, Disk
<1>. HIDE DEF e
<1>2. Rows(e.log) = Rows(d.log) \cup Rows(r.unst)
  BY <1>1 DEF Rows
<1>3. last \in Int /\ top \in Int /\ top <= MaxIndex /\ last <= top /\ last >= 0
  BY LastIndexType, LastLogIndexType, JoinedLast, IndexFacts
<1>4. \A i \in Index : i \in Rows(r.unst) <=> last < i /\ i <= top
  BY DEF JoinsOn
<1>5. \A i \in Index : i \in Int
  BY IndexFacts
<1>6. \A i \in Rows(d.log) : i <= last
  BY LastIndexType
<1>7. LastIndex(d.log) <= LastIndex(e.log)
  BY <1>2, LastIndexGrows
<1>8. ASSUME NEW i \in Rows(e.log), NEW j \in Rows(e.log), NEW k \in i..j
      PROVE  k \in Rows(e.log)
  <2>1. i \in Index /\ j \in Index
    BY Places
  <2>1a. k \in Index
    BY <2>1, BoundAssumption DEF Index
  <2>2. CASE k <= last
    <3>1. i <= last /\ i \in Rows(d.log)
      BY <1>2, <1>3, <1>4, <1>5, <2>1, <2>1a, <2>2
    <3>2. last \in Rows(d.log)
      BY <3>1, LastIndexType
    <3>3. k \in i..last
      BY <1>3, <1>5, <2>1, <2>1a, <2>2
    <3>. QED
      BY <1>2, <3>1, <3>2, <3>3 DEF Gapless
  <2>3. CASE ~(k <= last)
    <3>1. j \in Rows(r.unst)
      BY <1>2, <1>3, <1>5, <1>6, <2>1, <2>1a, <2>3
    <3>. QED
      BY <1>2, <1>3, <1>4, <1>5, <2>1, <2>1a, <2>3, <3>1
  <2>. QED
    BY <2>2, <2>3
<1>9. FirstIndex(e.log) = FirstIndex(d.log)
  <2>1. CASE Rows(d.log) # {}
    <3>1. FirstIndex(d.log) \in Rows(d.log) /\ \A k \in Rows(d.log) : FirstIndex(d.log) <= k
      BY <2>1, FirstIndexLeast
    <3>2. FirstIndex(d.log) <= last /\ FirstIndex(d.log) \in Int
      BY <1>6, <3>1, Places
    <3>3. \A k \in Rows(r.unst) : FirstIndex(d.log) <= k
      BY <1>3, <1>4, <1>5, <3>2 DEF Rows
    <3>. QED
      BY <1>2, <3>1, <3>3, FirstIndexIs
  <2>2. CASE Rows(d.log) = {} /\ Rows(r.unst) = {}
    BY <1>2, <2>2 DEF FirstIndex
  <2>3. CASE Rows(d.log) = {} /\ Rows(r.unst) # {}
    <3>1. last = 0 /\ FirstIndex(d.log) = 1
      BY <2>3 DEF LastIndex, FirstIndex
    <3>2. top >= 1
      BY <1>3, <1>4, <1>5, <2>3, <3>1 DEF Rows
    <3>3. 1 \in Rows(e.log)
      BY <1>2, <1>4, <3>1, <3>2, IndexFacts
    <3>4. \A k \in Rows(e.log) : 1 <= k
      BY DEF Rows, Index
    <3>. QED
      BY <3>1, <3>3, <3>4, FirstIndexIs
  <2>. QED
    BY <2>1, <2>2, <2>3
<1>10. LastIndex(e.log) = top
  <2>1. CASE Rows(r.unst) = {}
    BY <1>2, <2>1 DEF LastLogIndex, LastIndex
  <2>2. CASE Rows(r.unst) # {}
    <3>1. top \in Rows(r.unst)
      BY <2>2, LastIndexType DEF LastLogIndex
    <3>2. \A k \in Rows(e.log) : k <= top
      BY <1>2, <1>3, <1>4, <1>5, <1>6 DEF Rows
    <3>. QED
      BY <1>2, <3>1, <3>2, LastIndexIs
  <2>. QED
    BY <2>1, <2>2
<1>11. LastLogIndex(r, e) = top
  BY <1>10 DEF LastLogIndex
<1>12. InStorage(r, e)
  <2>1. \A i \in Rows(r.unst) : e.log[i] = r.unst[i]
    BY <1>1 DEF Rows
  <2>. QED
    BY <1>10, <1>11, <2>1 DEF InStorage
<1>13. ASSUME NEW i \in Index PROVE EntryAt(r, e, i) = EntryAt(r, d, i)
  <2>1. CASE i <= top
    BY <1>1, <1>11, <2>1, EntryIs
  <2>2. CASE ~(i <= top)
    <3>1. i > top
      BY <1>3, <1>5, <2>2
    <3>. QED
      BY <1>11, <3>1, Zenon DEF EntryAt
  <2>. QED
    BY <2>1, <2>2
<1>14. Gapless(e.log)
  BY <1>8 DEF Gapless
<1>. QED
  BY <1>2, <1>7, <1>9, <1>12, <1>13, <1>14 DEF e

(* A call between two Readys: what the log held it still holds.            *)
LEMMA JoinsContinue ==
    ASSUME NEW r \in RawNodeState, NEW q, NEW d, NEW self, JoinsOn(r, d), Continues(r, q, d, self)
    PROVE  /\ JoinsOn(q, d) /\ LastLogIndex(r, d) <= LastLogIndex(q, d)
           /\ \A i \in Index : EntryAt(r, d, i) # NoEntry => EntryAt(q, d, i) = EntryAt(r, d, i)
<1>. DEFINE u == r.unst
            v == q.unst
            n == LastLogIndex(r, d)
            last == LastIndex(d.log)
<1>1. n \in Int /\ last \in Int /\ last <= n
  BY LastIndexType, LastLogIndexType, JoinedLast
<1>2. \A i \in Index : i \in Int
  BY Places
<1>3. \A i \in Index : i \in Rows(u) <=> last < i /\ i <= n
  BY DEF JoinsOn
<1>4. CASE v = u
  <2>1. LastLogIndex(q, d) = n /\ \A i : EntryAt(q, d, i) = EntryAt(r, d, i)
    BY <1>4 DEF LastLogIndex, EntryAt
  <2>. QED
    BY <1>1, <1>3, <1>4, <2>1 DEF JoinsOn
<1>5. CASE v # u
  <2>1. PICK e \in Entry \ {NoEntry} : n + 1 \in Index /\ v = [u EXCEPT ![n + 1] = e]
    BY <1>5 DEF Continues, Lengthened
  <2>2. u \in [Index -> Entry]
    BY DEF RawNodeState
  <2>. HIDE DEF n, u, v, last
  <2>3. \A i \in Index : v[i] = IF i = n + 1 THEN e ELSE u[i]
    BY <2>1, <2>2
  <2>4. Rows(v) = Rows(u) \cup {n + 1}
    BY <2>1, <2>3 DEF Rows
  <2>5. \A i \in Rows(v) : i <= n + 1
    BY <1>1, <1>2, <1>3, <2>4 DEF Rows
  <2>6. LastIndex(v) = n + 1
    BY <2>4, <2>5, LastIndexIs
  <2>7. LastLogIndex(q, d) = n + 1
    BY <2>4, <2>6 DEF LastLogIndex, v
  <2>8. \A i \in Index : i \in Rows(v) <=> last < i /\ i <= n + 1
    BY <1>1, <1>2, <1>3, <2>4
  <2>9. JoinsOn(q, d)
    BY <2>7, <2>8 DEF JoinsOn, v, last
  <2>10. ASSUME NEW i \in Index, EntryAt(r, d, i) # NoEntry
         PROVE  EntryAt(q, d, i) = EntryAt(r, d, i)
    <3>1. i <= n /\ EntryAt(r, d, i) = IF u[i] # NoEntry THEN u[i] ELSE d.log[i]
      BY <2>10, EntryIsRow DEF n, u
    <3>2. i <= n + 1 /\ i # n + 1
      BY <1>1, <1>2, <3>1
    <3>3. v[i] = u[i]
      BY <2>3, <3>2
    <3>4. EntryAt(q, d, i) = IF v[i] # NoEntry THEN v[i] ELSE d.log[i]
      BY <2>7, <3>2, EntryIs DEF v
    <3>. QED
      BY <3>1, <3>3, <3>4
  <2>. QED
    BY <1>1, <2>7, <2>9, <2>10 DEF n
<1>. QED
  BY <1>4, <1>5

(* Compaction cuts a gapless log at one of its rows, or not at all.        *)
LEMMA CompactKeeps ==
    ASSUME NEW d \in Disk, NEW request \in 0..MaxIndex, Gapless(d.log)
    PROVE  LET e == CompactLogBefore(d, SnapshotIndex(d, request))
           IN  /\ Gapless(e.log) /\ e.hs = d.hs /\ LastIndex(e.log) = LastIndex(d.log)
               /\ FirstIndex(e.log) = FirstIndex(d.log) \/ FirstIndex(e.log) <= request
               /\ \A i \in Index : i >= request => e.log[i] = d.log[i]
               /\ \A i \in Rows(d.log) : request < FirstIndex(d.log) => e.log[i] = d.log[i]
<1>. DEFINE upTo == SnapshotIndex(d, request)
            e == CompactLogBefore(d, upTo)
            first == FirstIndex(d.log)
            last == LastIndex(d.log)
<1>1. /\ upTo \in Int /\ last \in Int /\ request \in Int /\ upTo <= last /\ upTo <= request
      /\ upTo >= 0 /\ first \in Int
  BY LastIndexType, FirstIndexType, IndexFacts DEF SnapshotIndex
<1>. HIDE DEF upTo
<1>2. e.hs = d.hs /\ \A i \in Index : e.log[i] = IF i < upTo THEN NoEntry ELSE d.log[i]
  BY DEF CompactLogBefore, Disk
<1>. HIDE DEF e
<1>3. \A i : i \in Rows(e.log) <=> i \in Rows(d.log) /\ ~(i < upTo)
  BY <1>2 DEF Rows
<1>4. \A i \in Index : i \in Int
  BY Places
<1>5. \A i \in Rows(d.log) : i \in Index /\ first <= i
  BY Places, FirstIndexLeast
<1>6. Gapless(e.log)
  <2>. SUFFICES ASSUME NEW i \in Rows(e.log), NEW j \in Rows(e.log), NEW k \in i..j
                PROVE  k \in Rows(e.log)
    BY DEF Gapless
  <2>1. i \in Rows(d.log) /\ j \in Rows(d.log) /\ ~(i < upTo)
    BY <1>3
  <2>2. k \in Rows(d.log)
    BY <2>1 DEF Gapless
  <2>3. i \in Int /\ j \in Int /\ k \in Int
    BY Places, <2>1, <2>2
  <2>4. i <= k
    BY <2>3
  <2>. QED
    BY <1>1, <1>3, <2>1, <2>2, <2>3, <2>4
<1>7. LastIndex(e.log) = last
  <2>1. CASE Rows(d.log) = {}
    <3>1. Rows(e.log) = {}
      BY <1>3, <2>1
    <3>. QED
      BY <2>1, <3>1 DEF LastIndex
  <2>2. CASE Rows(d.log) # {}
    <3>1. last \in Rows(d.log) /\ \A i \in Rows(d.log) : i <= last
      BY <2>2, LastIndexType
    <3>2. last \in Rows(e.log) /\ \A i \in Rows(e.log) : i <= last
      BY <1>1, <1>3, <3>1
    <3>. QED
      BY <3>2, LastIndexIs
  <2>. QED
    BY <2>1, <2>2
<1>8. FirstIndex(e.log) = first \/ FirstIndex(e.log) <= request
  <2>1. CASE Rows(d.log) = {}
    <3>1. Rows(e.log) = {}
      BY <1>3, <2>1
    <3>. QED
      BY <2>1, <3>1 DEF FirstIndex
  <2>2. CASE Rows(d.log) # {} /\ ~(first < upTo)
    <3>1. first \in Rows(d.log) /\ \A i \in Rows(d.log) : first <= i
      BY <2>2, FirstIndexLeast
    <3>2. first \in Rows(e.log) /\ \A i \in Rows(e.log) : first <= i
      BY <1>3, <2>2, <3>1
    <3>. QED
      BY <3>2, FirstIndexIs
  <2>3. CASE Rows(d.log) # {} /\ first < upTo
    <3>1. first \in Rows(d.log) /\ last \in Rows(d.log)
      BY <2>3, FirstIndexLeast, LastIndexType
    <3>2. upTo \in first..last
      BY <1>1, <2>3
    <3>3. upTo \in Rows(d.log)
      BY <3>1, <3>2 DEF Gapless
    <3>4. upTo \in Rows(e.log) /\ \A i \in Rows(e.log) : i \in Int /\ ~(i < upTo)
      BY <1>1, <1>3, <1>4, <1>5, <3>3
    <3>5. \A i \in Rows(e.log) : upTo <= i
      BY <1>1, <3>4
    <3>6. FirstIndex(e.log) = upTo
      BY <3>4, <3>5, FirstIndexIs
    <3>. QED
      BY <1>1, <3>6
  <2>. QED
    BY <2>1, <2>2, <2>3
<1>9. \A i \in Index : i >= request => e.log[i] = d.log[i]
  BY <1>1, <1>2, <1>4
<1>10. ASSUME request < first, NEW i \in Rows(d.log) PROVE e.log[i] = d.log[i]
  <2>1. i \in Index /\ i \in Int /\ first <= i
    BY <1>4, <1>5
  <2>. QED
    BY <1>1, <1>2, <1>10, <2>1
<1>. QED
  BY <1>2, <1>6, <1>7, <1>8, <1>9, <1>10 DEF e, upTo

(* ready(): all that is committed is handed out, now or before.            *)
LEMMA HandsOutAll ==
    ASSUME NEW r \in RawNodeState, NEW d \in Disk, NEW self, NEW stage, Own(r, d, self),
           Gapless(d.log), r.csi <= r.prevHs.commit, r.prevHs.commit <= r.committed,
           FirstIndex(d.log) = 1 \/ FirstIndex(d.log) <= r.prevHs.commit
    PROVE  LET a == AfterReady(r, d)
               x == ReadyOf(r, d, stage)
           IN  /\ a.csi = r.committed /\ x.last \in {0, r.committed}
               /\ FirstIndex(d.log) <= r.committed + 1
               /\ x.next..x.last \subseteq Rows(d.log)
               /\ \A i \in FirstIndex(d.log)..r.committed : i <= r.csi \/ i \in x.next..x.last
<1>. DEFINE a == AfterReady(r, d)
            x == ReadyOf(r, d, stage)
            first == FirstIndex(d.log)
            last == LastIndex(d.log)
<1>1. /\ r.csi \in Int /\ r.csi >= 0 /\ r.prevHs.commit \in Int /\ r.committed \in Int
      /\ first \in Int /\ first >= 1 /\ last \in Int /\ last <= MaxIndex /\ MaxIndex \in Int
  BY LastIndexType, FirstIndexType, IndexFacts DEF RawNodeState, HardState
<1>2. HandOut(r, d) = r.committed /\ r.committed <= last
  BY <1>1 DEF HandOut, Own
<1>3. a.csi = IF HasEntriesToHandOut(r, d) THEN r.committed ELSE r.csi
  BY <1>2, AfterReadyType
<1>4. /\ x.next = IF HasEntriesToHandOut(r, d) THEN FirstToHandOut(r, d) ELSE 1
      /\ x.last = IF HasEntriesToHandOut(r, d) THEN r.committed ELSE 0
  BY <1>2 DEF ReadyOf
<1>. HIDE DEF a, x
<1>5. FirstToHandOut(r, d) = IF r.csi + 1 < first THEN first ELSE r.csi + 1
  BY DEF FirstToHandOut
<1>6. HasEntriesToHandOut(r, d) <=> r.committed >= FirstToHandOut(r, d)
  BY <1>2 DEF HasEntriesToHandOut
<1>. HIDE DEF first, last
<1>7. first = 1 \/ first <= r.prevHs.commit
  BY DEF first
<1>8. CASE HasEntriesToHandOut(r, d)
  <2>1. a.csi = r.committed /\ x.next = FirstToHandOut(r, d) /\ x.last = r.committed
    BY <1>3, <1>4, <1>8
  <2>2. first <= x.next /\ x.next \in Int
    BY <1>1, <1>5, <2>1
  <2>3. ASSUME NEW i \in x.next..x.last PROVE i \in Rows(d.log)
    <3>1. i \in Int /\ first <= i /\ i <= last /\ i >= 1 /\ i <= MaxIndex
      BY <1>1, <1>2, <2>1, <2>2
    <3>2. i \in Index
      BY <1>1, <3>1 DEF Index
    <3>. QED
      BY <3>1, <3>2, RowsAre DEF first, last
  <2>4. \A i \in first..r.committed : i <= r.csi \/ i \in x.next..x.last
    BY <1>1, <1>5, <2>1
  <2>5. first <= r.committed + 1
    BY <1>1, <1>7
  <2>. QED
    BY <2>1, <2>3, <2>4, <2>5 DEF a, x, first
<1>9. CASE ~HasEntriesToHandOut(r, d)
  <2>1. a.csi = r.csi /\ x.next = 1 /\ x.last = 0
    BY <1>3, <1>4, <1>9
  <2>2. r.csi = r.committed
    BY <1>1, <1>5, <1>6, <1>7, <1>9
  <2>3. first <= r.committed + 1
    BY <1>1, <1>7
  <2>4. x.next..x.last = {} /\ \A i \in first..r.committed : i <= r.csi
    BY <1>1, <2>1, <2>2
  <2>. QED
    BY <2>1, <2>2, <2>3, <2>4 DEF a, x, first
<1>. QED
  BY <1>8, <1>9

===========================================================================
