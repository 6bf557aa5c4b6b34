------------------------------ MODULE Proposals ------------------------------
(***************************************************************************)
(* Proposals gathered into batches: the builder of raft/proposals.rs and   *)
(* the pooled one of raft/optimized_proposals.rs. Of the metadata only the *)
(* priority is kept; ids are fresh, originators and correlation ids are    *)
(* stored as given.                                                        *)
(***************************************************************************)
EXTENDS Integers, Sequences

CONSTANTS
    VmNames,
    MaxBuilt  \* bound on commands in a batch

VmCommands == [op : {"start", "stop", "create"}, name : VmNames]

VARIABLES
    builder,  \* BatchProposalBuilder [proposals, priority]
    built     \* what was built last

proposalVars == <<builder, built>>

EmptyBatch == [proposals |-> <<>>, priority |-> 0]

ProposalsInit == builder = EmptyBatch /\ built = <<>>

(* A command is wrapped in a proposal of its own, of priority 0; proposals *)
(* made elsewhere keep theirs.                                             *)
GenericProposal(c, priority) == [command |-> c, priority |-> priority]

AddCommand(c) ==
    /\ Len(builder.proposals) < MaxBuilt
    /\ builder' = [builder EXCEPT !.proposals = Append(@, GenericProposal(c, 0))]
    /\ UNCHANGED built

AddProposal(proposal) ==
    /\ Len(builder.proposals) < MaxBuilt
    /\ builder' = [builder EXCEPT !.proposals = Append(@, proposal)]
    /\ UNCHANGED built

WithPriority(priority) ==
    /\ builder' = [builder EXCEPT !.priority = priority]
    /\ UNCHANGED built

BuildBatch ==
    /\ built' = [i \in 1..Len(builder.proposals) |-> builder.proposals[i].command]
    /\ builder' = EmptyBatch

(* batch_vm_commands keeps the first Start or Stop of each machine and     *)
(* every other command: of a Start and a Stop of one machine, the second   *)
(* is dropped.                                                             *)
BatchVmCommands(commands) ==
    LET switches(c) == c.op \in {"start", "stop"}
        repeated(i) == switches(commands[i]) /\
            \E j \in 1..(i - 1) : switches(commands[j]) /\ commands[j].name = commands[i].name
        kept == SelectSeq([i \in 1..Len(commands) |-> i], LAMBDA i : ~repeated(i))
    IN  [k \in 1..Len(kept) |-> commands[kept[k]]]

OptimizedBatch ==
    /\ built' = BatchVmCommands([i \in 1..Len(builder.proposals) |-> builder.proposals[i].command])
    /\ builder' = EmptyBatch

ProposalsNext ==
    \/ \E c \in VmCommands : AddCommand(c) \/ AddProposal(GenericProposal(c, 1))
    \/ WithPriority(1) \/ BuildBatch \/ OptimizedBatch
=============================================================================
