-------------------------- MODULE DistributedKvStore --------------------------
(***************************************************************************)
(* The store of examples/distributed_kv_store.rs as a replicated state     *)
(* machine: versions, compare-and-swap, counters and expiry, applied in    *)
(* log order by replicas that may restore each other's snapshots, as       *)
(* raft/generic_state_machine.rs requires of every StateMachine. A tick of *)
(* the clock is the minute between two cleanups. Of an entry, created_at   *)
(* and the metadata, and of the statistics, the counts per operation, are  *)
(* left out: nothing the store does depends on them.                       *)
(***************************************************************************)
EXTENDS Integers, Sequences, FiniteSetsExt

CONSTANTS
    StoreReplicas, StoreKeys,
    MaxStoreLog,  \* bound on the log
    MaxClock      \* bound on the clock

VARIABLES
    storeLog,      \* committed commands
    stores,        \* per replica [at, data, counter, cleaned, total]
    storeSnapshot, \* [at, data, total]
    clock          \* what SystemTime::now tells every replica

storeVars == <<storeLog, stores, storeSnapshot, clock>>

Text == -1    \* a value that does not parse as a number
NoTtl == -1
NoEntry == [value |-> Text, version |-> 0, updated |-> 0, ttl |-> NoTtl]

Commands ==
    [op : {"set"}, key : StoreKeys, value : {Text, 1}, ttl : {NoTtl, 0}]
    \cup [op : {"delete", "increment", "set_new", "expire", "read"}, key : StoreKeys]
    \cup [op : {"cas"}, key : StoreKeys, expected : 1..MaxStoreLog]

StoreInit ==
    /\ storeLog = <<>> /\ clock = 0
    /\ stores = [r \in StoreReplicas |->
          [at |-> 0, data |-> [k \in StoreKeys |-> NoEntry], counter |-> 0, cleaned |-> 0, total |-> 0]]
    /\ storeSnapshot = [at |-> 0, data |-> [k \in StoreKeys |-> NoEntry], total |-> 0]

Held(data) == {k \in StoreKeys : data[k].version > 0}
Expired(entry) == entry.ttl # NoTtl /\ entry.updated + entry.ttl < clock

(* Keys past their time go when a command is applied, once a minute.       *)
CleanupExpiredKeys(s) ==
    IF clock - s.cleaned < 1 THEN s
    ELSE LET data == [k \in StoreKeys |-> IF Expired(s.data[k]) THEN NoEntry ELSE s.data[k]]
         IN  [s EXCEPT !.data = data, !.total = Cardinality(Held(data)), !.cleaned = clock]

Stored(s, k, entry) ==
    [s EXCEPT !.data[k] = entry, !.total = @ + (IF k \in Held(s.data) THEN 0 ELSE 1)]

(* What a command makes of the store s. A compare-and-swap and an          *)
(* increment take a version even when they change nothing.                 *)
Effect(s, c) ==
    LET here == s.data[c.key]
        version == s.counter + 1
        counted == [s EXCEPT !.counter = version]
        held == c.key \in Held(s.data)
        fresh(value, ttl) == [value |-> value, version |-> version, updated |-> clock, ttl |-> ttl]
    IN  CASE c.op = "set"    -> Stored(counted, c.key, fresh(c.value, c.ttl))
          [] c.op = "delete" -> IF held THEN [s EXCEPT !.data[c.key] = NoEntry, !.total = @ - 1] ELSE s
          [] c.op = "cas"    -> IF held /\ here.version = c.expected
                                THEN Stored(counted, c.key, fresh(Text, here.ttl)) ELSE counted
          [] c.op = "increment" ->
                CASE ~held                     -> Stored(counted, c.key, fresh(1, NoTtl))
                  [] held /\ here.value # Text -> Stored(counted, c.key, fresh(here.value + 1, here.ttl))
                  [] OTHER                     -> counted
          [] c.op = "set_new" -> IF held THEN s ELSE Stored(counted, c.key, fresh(Text, NoTtl))
          [] c.op = "expire"  -> IF held THEN [s EXCEPT !.data[c.key].ttl = 0, !.data[c.key].updated = clock]
                                 ELSE s
          [] c.op = "read"    -> s

(* apply_command: it cleans up first, whatever the command.                *)
ApplyStoreCommand(r) ==
    LET s == stores[r]
    IN  /\ s.at < Len(storeLog)
        /\ stores' = [stores EXCEPT ![r] =
              [Effect(CleanupExpiredKeys(s), storeLog[s.at + 1]) EXCEPT !.at = s.at + 1]]
        /\ UNCHANGED <<storeLog, storeSnapshot, clock>>

(* A snapshot holds the entries and the statistics, not the counter.       *)
CreateStoreSnapshot(r) ==
    /\ storeSnapshot' = [at |-> stores[r].at, data |-> stores[r].data, total |-> stores[r].total]
    /\ UNCHANGED <<storeLog, stores, clock>>

(* The counter is taken from the newest entry the snapshot still has.      *)
RestoreStore(r) ==
    /\ stores[r].at < storeSnapshot.at
    /\ stores' = [stores EXCEPT ![r] = [at |-> storeSnapshot.at, data |-> storeSnapshot.data,
          counter |-> Max({storeSnapshot.data[k].version : k \in StoreKeys}),
          cleaned |-> @.cleaned, total |-> storeSnapshot.total]]
    /\ UNCHANGED <<storeLog, storeSnapshot, clock>>

CommitStoreCommand(c) ==
    /\ Len(storeLog) < MaxStoreLog
    /\ storeLog' = Append(storeLog, c)
    /\ UNCHANGED <<stores, storeSnapshot, clock>>

MinutePasses ==
    /\ clock < MaxClock
    /\ clock' = clock + 1
    /\ UNCHANGED <<storeLog, stores, storeSnapshot>>

StoreNext ==
    \/ \E c \in Commands : CommitStoreCommand(c)
    \/ \E r \in StoreReplicas :
        ApplyStoreCommand(r) \/ CreateStoreSnapshot(r) \/ RestoreStore(r)
    \/ MinutePasses

StoreSpec == StoreInit /\ [][StoreNext]_storeVars

----------------------------------------------------------------------------
(* Properties *)

(* "The snapshot should contain all information necessary to reconstruct   *)
(* the current state" (generic_state_machine.rs:52): a replica that        *)
(* restored one holds, behind the same commands, what one that applied     *)
(* them all holds.                                                         *)
ReplicasAgree ==
    \A r, q \in StoreReplicas : stores[r].at = stores[q].at => stores[r].data = stores[q].data
=============================================================================
