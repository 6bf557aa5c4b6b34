--------------------------- MODULE ProposalPipe ---------------------------
(***************************************************************************)
(* What a stage between clients and the raft task promises, whatever it    *)
(* batches, reorders or times out: a proposal it holds is either handed to *)
(* the raft task, once, or refused, and a client that was refused can rely *)
(* on it that its command never reaches the log.                           *)
(***************************************************************************)
EXTENDS FiniteSets

CONSTANT Client      \* the proposals, one per waiting client

VARIABLE fate        \* fate[p]: how far proposal p has come

PipeInit == fate = [p \in Client |-> "new"]

Move(S, from, to) ==
    /\ S # {}
    /\ \A p \in S : fate[p] = from
    /\ fate' = [p \in Client |-> IF p \in S THEN to ELSE fate[p]]

Hold(p)   == Move({p}, "new", "held")
Hand(S)   == Move(S, "held", "handed")
Refuse(S) == Move(S, "held", "refused")
Answer(S) == Move(S, "handed", "answered")

PipeNext ==
    \/ \E p \in Client : Hold(p)
    \/ \E S \in SUBSET Client : Hand(S) \/ Refuse(S) \/ Answer(S)

PipeSpec == PipeInit /\ [][PipeNext]_fate
===========================================================================
