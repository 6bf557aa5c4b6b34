----------------------------- MODULE RawNode -----------------------------
(***************************************************************************)
(* The raft library (raft-rs 0.7) as RaftManager uses it: operators from a *)
(* RawNode's state r and its node's disk d to the next RawNode state.  It  *)
(* is code outside the repository, kept to what the driver can observe:    *)
(* what a Ready and a LightReady hold, what advance() does, when a message *)
(* is stepped into a new state and which messages that produces.           *)
(*                                                                         *)
(* Replication progress is match and next, with the probe that looks for a *)
(* new follower's log; sending is not optimistic, and a heartbeat round    *)
(* (heartbeat, response, append) is one append message.  The network may   *)
(* lose, repeat and reorder every message.                                 *)
(***************************************************************************)
EXTENDS RedbRaftStorage

Role == {"follower", "candidate", "leader"}

Message ==
    [type : {"append"}, from : Server, to : Server, term : Term, prev : 0..MaxIndex,
     prevTerm : Term, ents : [Index -> Entry], commit : 0..MaxIndex]
    \cup [type : {"appendResp"}, from : Server, to : Server, term : Term,
          index : 0..MaxIndex]
    \cup [type : {"appendReject"}, from : Server, to : Server, term : Term,
          index : 0..MaxIndex, hint : 0..MaxIndex]
    \cup [type : {"voteReq"}, from : Server, to : Server, term : Term,
          last : 0..MaxIndex, lastTerm : Term]
    \cup [type : {"voteResp"}, from : Server, to : Server, term : Term,
          grant : BOOLEAN]

(* unst: entries not yet handed to storage.  committed, applied and csi    *)
(* (commit_since_index) are the library's counters, prevHs the hard state  *)
(* of the last Ready, msgs the messages not yet taken by a Ready.          *)
NewRawNode(d) ==
    [role |-> "follower", term |-> d.hs.term, vote |-> d.hs.vote,
     votes |-> {}, unst |-> EmptyLog, committed |-> d.hs.commit,
     applied |-> FirstIndex(d.log) - 1, csi |-> 0, voters |-> d.conf,
     match |-> [f \in Server |-> 0], next |-> [f \in Server |-> 1], pendingConf |-> 0,
     prevHs |-> d.hs, msgs |-> {}]

RawNodeState ==
    [role : Role, term : Term, vote : Server \cup {0}, votes : SUBSET Server,
     unst : [Index -> Entry], committed : 0..MaxIndex, applied : 0..MaxIndex, csi : 0..MaxIndex,
     voters : SUBSET Server, match : [Server -> 0..MaxIndex],
     next : [Server -> 1..(MaxIndex + 1)],
     pendingConf : 0..MaxIndex, prevHs : HardState, msgs : SUBSET Message]

HardStateOf(r) == [term |-> r.term, vote |-> r.vote, commit |-> r.committed]

(* The log the library sees: unstable entries shadow stored ones, and end  *)
(* the log when there are any.                                             *)
LastLogIndex(r, d) == IF Rows(r.unst) # {} THEN LastIndex(r.unst) ELSE LastIndex(d.log)

EntryAt(r, d, i) ==
    CASE i \notin Index \/ i > LastLogIndex(r, d) -> NoEntry
      [] OTHER -> IF r.unst[i] # NoEntry THEN r.unst[i] ELSE d.log[i]

IsQuorum(S, voters) == 2 * Cardinality(S \cap voters) > Cardinality(voters)

Put(r, i, e) == [r EXCEPT !.unst[i] = e]

---------------------------------------------------------------------------
(* Messages. *)

AppendMsg(r, d, self, f) ==
    [type |-> "append", from |-> self, to |-> f, term |-> r.term,
     prev |-> r.next[f] - 1, prevTerm |-> EntryAt(r, d, r.next[f] - 1).term,
     ents |-> [i \in Index |-> IF i >= r.next[f] THEN EntryAt(r, d, i) ELSE NoEntry],
     commit |-> r.committed]

(* A follower whose next entry was compacted away needs a snapshot instead *)
(* of an append; the library asks the storage for one with request index 0 *)
(* and aborts the process when the answer has index 0.  It does not ask    *)
(* for a follower it has not heard from, so a broadcast may pass one over. *)
NeedsSnapshot(r, d, f) == r.next[f] < FirstIndex(d.log)

Bcast(r, d, self) ==
    [r EXCEPT !.msgs = @ \cup {AppendMsg(r, d, self, f) :
                                  f \in {g \in r.voters \ {self} : ~NeedsSnapshot(r, d, g)}}]

---------------------------------------------------------------------------
(* Leadership and commitment. *)

AppendAsLeader(r, d, e) == Put(r, LastLogIndex(r, d) + 1, e)

BecomeLeader(r, d, self) ==
    LET led == [r EXCEPT !.role = "leader", !.votes = {},
                         !.pendingConf = LastLogIndex(r, d),
                         !.match = [f \in Server |-> IF f = self THEN LastIndex(d.log) ELSE 0],
                         !.next = [f \in Server |-> LastLogIndex(r, d) + 1]]
    IN  Bcast(AppendAsLeader(led, d, [term |-> r.term, kind |-> "normal",
                                      ctx |-> NoReq, node |-> 0]), d, self)

(* Indices a quorum of the voters holds, in the leader's own term. *)
Committable(r, d) ==
    {i \in (r.committed + 1)..LastLogIndex(r, d) :
        /\ IsQuorum({f \in Server : r.match[f] >= i}, r.voters)
        /\ EntryAt(r, d, i).term = r.term}

MaybeCommit(r, d, self) ==
    IF r.role = "leader" /\ Committable(r, d) # {}
    THEN Bcast([r EXCEPT !.committed = CHOOSE i \in Committable(r, d) :
                                          \A j \in Committable(r, d) : j <= i], d, self)
    ELSE r

BecomeFollower(r, term) ==
    [r EXCEPT !.role = "follower", !.term = term, !.votes = {},
              !.vote = IF term = r.term THEN @ ELSE 0]

(* campaign(): refused by a non-voter, by a leader and while a committed   *)
(* configuration change waits to be applied.                               *)
CanCampaign(r, d, self) ==
    /\ r.role # "leader"
    /\ self \in r.voters
    /\ r.term < MaxTerm
    /\ LastLogIndex(r, d) < MaxIndex
    /\ \A i \in (r.applied + 1)..r.committed : EntryAt(r, d, i).kind \notin {"add", "remove"}

Campaign(r, d, self) ==
    LET c == [r EXCEPT !.role = "candidate", !.term = @ + 1, !.vote = self, !.votes = {self}]
        last == LastLogIndex(r, d)
    IN  IF IsQuorum({self}, r.voters) THEN BecomeLeader(c, d, self)
        ELSE [c EXCEPT !.msgs = @ \cup
                {[type |-> "voteReq", from |-> self, to |-> f, term |-> c.term,
                  last |-> last, lastTerm |-> EntryAt(r, d, last).term]
                    : f \in r.voters \ {self}}]

---------------------------------------------------------------------------
(* propose() and propose_conf_change() on a leader that is still a voter.  *)

Propose(r, d, self, req) ==
    Bcast(AppendAsLeader(r, d, [term |-> r.term, kind |-> "normal",
                                ctx |-> req, node |-> 0]), d, self)

(* While one configuration change is pending the library proposes an empty *)
(* entry in the place of another, and reports success.                     *)
ProposeConfChange(r, d, self, kind, node) ==
    LET pending == r.pendingConf > r.applied
        e == IF pending
             THEN [term |-> r.term, kind |-> "normal", ctx |-> NoReq, node |-> 0]
             ELSE [term |-> r.term, kind |-> kind, ctx |-> NoReq, node |-> node]
        at == LastLogIndex(r, d) + 1
    IN  Bcast(AppendAsLeader([r EXCEPT !.pendingConf = IF pending THEN @ ELSE at], d, e),
              d, self)

NewVoters(r, e) == IF e.kind = "add" THEN r.voters \cup {e.node} ELSE r.voters \ {e.node}

(* apply_conf_change() fails when it would leave no voter. *)
ConfChangeFails(r, e) == NewVoters(r, e) = {}

ApplyConfChange(r, d, self, e) ==
    LET v == [r EXCEPT !.voters = NewVoters(r, e)]
        c == IF e.kind = "add" /\ e.node \notin r.voters
             THEN [v EXCEPT !.match[e.node] = 0, !.next[e.node] = LastLogIndex(r, d)] ELSE v
    IN  IF r.role # "leader" THEN c
        ELSE IF Committable(c, d) # {} THEN MaybeCommit(c, d, self)
        ELSE Bcast(c, d, self)

---------------------------------------------------------------------------
(* step(m) *)

NewEntries(r, d, m) == {i \in Rows(m.ents) : EntryAt(r, d, i).term # m.ents[i].term}

StepAppend(r0, d, self, m) ==
    LET r    == BecomeFollower(r0, m.term)
        ack(s, i) == [s EXCEPT !.msgs = @ \cup
                        {[type |-> "appendResp", from |-> self, to |-> m.from,
                          term |-> s.term, index |-> i]}]
        last == IF m.prev < LastLogIndex(r, d) THEN m.prev ELSE LastLogIndex(r, d)
        hint == CHOOSE i \in 0..last :
                    /\ EntryAt(r, d, i).term <= m.prevTerm
                    /\ \A j \in (i + 1)..last : EntryAt(r, d, j).term > m.prevTerm
        new  == NewEntries(r, d, m)
        from == CHOOSE i \in new : \A j \in new : i <= j
        lastNew == IF Rows(m.ents) = {} THEN m.prev ELSE LastIndex(m.ents)
        appended ==
            IF new = {} THEN r
            ELSE [r EXCEPT !.unst = [i \in Index |->
                     IF i < from THEN r.unst[i] ELSE m.ents[i]]]
        commit == IF m.commit < lastNew THEN m.commit ELSE lastNew
    IN  CASE m.prev < r.committed -> ack(r, r.committed)
          [] m.prev >= r.committed /\ EntryAt(r, d, m.prev).term # m.prevTerm ->
            [r EXCEPT !.msgs = @ \cup
                {[type |-> "appendReject", from |-> self, to |-> m.from, term |-> r.term,
                  index |-> m.prev, hint |-> hint]}]
          [] OTHER -> ack([appended EXCEPT !.committed = IF commit > @ THEN commit ELSE @],
                          lastNew)

StepAppendResp(r, d, self, m) ==
    IF r.role = "leader" /\ m.index > r.match[m.from]
    THEN MaybeCommit([r EXCEPT !.match[m.from] = m.index,
                               !.next[m.from] = IF m.index < @ THEN @ ELSE m.index + 1],
                     d, self)
    ELSE r

(* A rejected probe moves next back; rejections of older probes are stale. *)
StepAppendReject(r, d, self, m) ==
    LET back == IF m.hint < m.index THEN m.hint + 1 ELSE m.index
        p == [r EXCEPT !.next[m.from] = back]
    IN  IF r.role = "leader" /\ m.index > r.match[m.from] /\ m.index + 1 = r.next[m.from]
        THEN [p EXCEPT !.msgs = @ \cup {AppendMsg(p, d, self, m.from)}]
        ELSE r

StepVoteReq(r0, d, self, m) ==
    LET r == IF m.term > r0.term THEN BecomeFollower(r0, m.term) ELSE r0
        last == LastLogIndex(r, d)
        lastTerm == EntryAt(r, d, last).term
        grant == /\ r.vote \in {0, m.from}
                 /\ m.lastTerm > lastTerm \/ (m.lastTerm = lastTerm /\ m.last >= last)
    IN  [r EXCEPT !.vote = IF grant THEN m.from ELSE @,
                  !.msgs = @ \cup {[type |-> "voteResp", from |-> self, to |-> m.from,
                                    term |-> r.term, grant |-> grant]}]

StepVoteResp(r, d, self, m) ==
    LET v == [r EXCEPT !.votes = IF m.grant THEN @ \cup {m.from} ELSE @]
    IN  IF r.role # "candidate" THEN r
        ELSE IF IsQuorum(v.votes, r.voters) /\ LastLogIndex(r, d) < MaxIndex
             THEN BecomeLeader(v, d, self) ELSE v

(* The new entries of m leave a gap behind the log, on which the library   *)
(* aborts.  Where a log was cut the storage answers Ok(0) for the term of  *)
(* the entry in front of it, and so does a log that does not reach there:  *)
(* the two match.                                                          *)
LeavesGap(r, d, m) ==
    /\ m.type = "append" /\ m.term >= r.term
    /\ m.prev >= r.committed /\ EntryAt(r, d, m.prev).term = m.prevTerm
    /\ NewEntries(r, d, m) # {}
    /\ \A i \in NewEntries(r, d, m) : i > LastLogIndex(r, d) + 1

(* A response from a node without progress is refused: StepPeerNotFound. *)
StepFails(r, d, m) ==
    \/ m.type \in {"appendResp", "appendReject", "voteResp"} /\ m.from \notin r.voters
    \/ LeavesGap(r, d, m)

(* Messages of an earlier term are ignored: the configuration sets neither *)
(* check_quorum nor pre_vote, so the sender is not told either.            *)
Step(r, d, self, m) ==
    CASE m.term < r.term         -> r
      [] m.term >= r.term /\ m.type = "append"  -> StepAppend(r, d, self, m)
      [] m.term >= r.term /\ m.type = "voteReq" -> StepVoteReq(r, d, self, m)
      [] m.term = r.term /\ m.type = "appendResp" -> StepAppendResp(r, d, self, m)
      [] m.term = r.term /\ m.type = "appendReject" -> StepAppendReject(r, d, self, m)
      [] m.term = r.term /\ m.type = "voteResp"   -> StepVoteResp(r, d, self, m)
      [] OTHER -> BecomeFollower(r, m.term)

---------------------------------------------------------------------------
(* has_ready(), ready(), advance() *)

(* Committed entries are handed out once stored, from csi on. *)
HandOut(r, d) == IF r.committed < LastIndex(d.log) THEN r.committed ELSE LastIndex(d.log)

FirstToHandOut(r, d) ==
    IF r.csi + 1 < FirstIndex(d.log) THEN FirstIndex(d.log) ELSE r.csi + 1

HasEntriesToHandOut(r, d) == HandOut(r, d) >= FirstToHandOut(r, d)

AfterHandOut(r, d) ==
    [r EXCEPT !.csi = IF HasEntriesToHandOut(r, d) THEN HandOut(r, d) ELSE @, !.msgs = {}]

HasReady(r, d) ==
    \/ r.msgs # {}
    \/ HardStateOf(r) # r.prevHs
    \/ Rows(r.unst) # {}
    \/ HasEntriesToHandOut(r, d)

(* What the driver reads off a Ready.  A non-leader's messages are its     *)
(* persisted_messages(); messages() is empty for it.                       *)
ReadyOf(r, d, stage) ==
    [stage |-> stage, ents |-> r.unst, hs |-> HardStateOf(r), hsChanged |-> HardStateOf(r) # r.prevHs,
     msgs |-> r.msgs, persistedMsgs |-> r.role # "leader",
     next |-> IF HasEntriesToHandOut(r, d) THEN FirstToHandOut(r, d) ELSE 1,
     last |-> IF HasEntriesToHandOut(r, d) THEN HandOut(r, d) ELSE 0]

Ready ==
    [stage : {"inline", "ready", "late"}, ents : [Index -> Entry], hs : HardState,
     hsChanged : BOOLEAN, msgs : SUBSET Message, persistedMsgs : BOOLEAN,
     next : 1..(MaxIndex + 1), last : 0..MaxIndex]

AfterReady(r, d) == [AfterHandOut(r, d) EXCEPT !.prevHs = HardStateOf(r)]

(* on_persist, then a LightReady: messages, committed entries and, when    *)
(* the commit index has moved past prevHs, commit_index().                 *)
Persisted(r, d, self) ==
    MaybeCommit([r EXCEPT !.unst = EmptyLog,
                          !.match[self] = IF r.role = "leader" THEN LastIndex(d.log) ELSE @],
                d, self)

LightCommit(r, d, self) == Persisted(r, d, self).committed > r.prevHs.commit

Advance(r, d, self) ==
    LET p == Persisted(r, d, self)
    IN  [AfterHandOut(p, d) EXCEPT !.applied = r.csi, !.prevHs.commit = p.committed]

LightMsgs(r, d, self) == Persisted(r, d, self).msgs
===========================================================================
