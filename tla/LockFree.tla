------------------------------ MODULE LockFree ------------------------------
(***************************************************************************)
(* The lock-free structures of src/src/lock_free.rs, used by threads that  *)
(* interleave between an operation on a structure and the counter that     *)
(* records it: the bounded queue and the connection pool.  The ring buffer *)
(* stores nothing (push and get answer None): there is nothing of it here. *)
(***************************************************************************)
EXTENDS Integers, FiniteSets

CONSTANTS
    Threads, PoolKeys,
    QueueSize,  \* LockFreeBoundedQueue::new(capacity)
    MaxCounted  \* bound on items pushed and connections created

VARIABLES
    threads,   \* per thread: [owes, by]: the counter it must still raise, and by how much
    lfQueue,   \* number of items in the queue
    pool,      \* keys of the connection pool: "none", "fresh" or "stale"
    retaining, \* per thread, in cleanup_stale: the keys it has still to visit
    counters   \* [pushed, popped, dropped, created, removed]

lockFreeVars == <<threads, lfQueue, pool, retaining, counters>>

Idle == [owes |-> "nothing", by |-> 0]

LockFreeInit ==
    /\ threads = [t \in Threads |-> Idle]
    /\ lfQueue = 0
    /\ pool = [k \in PoolKeys |-> "none"]
    /\ retaining = [t \in Threads |-> {}]
    /\ counters = [pushed |-> 0, popped |-> 0, dropped |-> 0, created |-> 0, removed |-> 0]

Begins(t) == threads[t] = Idle
Owe(t, counter, n) == threads' = [threads EXCEPT ![t] = [owes |-> counter, by |-> n]]

(* fetch_add on the counter of the operation just done.                    *)
Count(t) ==
    /\ threads[t].owes \in DOMAIN counters
    /\ counters' = [counters EXCEPT ![threads[t].owes] = @ + threads[t].by]
    /\ threads' = [threads EXCEPT ![t] = Idle]
    /\ UNCHANGED <<lfQueue, pool, retaining>>

---------------------------------------------------------------------------
(* The bounded queue *)

TryPush(t) ==
    /\ Begins(t) /\ counters.pushed + counters.dropped < MaxCounted
    /\ IF lfQueue < QueueSize THEN lfQueue' = lfQueue + 1 /\ Owe(t, "pushed", 1)
       ELSE UNCHANGED lfQueue /\ Owe(t, "dropped", 1)
    /\ UNCHANGED <<pool, retaining, counters>>

Pop(t) ==
    /\ Begins(t) /\ lfQueue > 0
    /\ lfQueue' = lfQueue - 1
    /\ Owe(t, "popped", 1)
    /\ UNCHANGED <<pool, retaining, counters>>

---------------------------------------------------------------------------
(* The connection pool *)

(* A slip: a replaced connection counts as created. *)
SlipInsertConnection(t, k) ==
    /\ Begins(t) /\ counters.created < MaxCounted
    /\ pool' = [pool EXCEPT ![k] = "fresh"]
    /\ Owe(t, "created", 1)
    /\ UNCHANGED <<lfQueue, retaining, counters>>

(* Only an insert that replaces nothing counts as a creation.              *)
InsertConnection(t, k) ==
    /\ Begins(t) /\ counters.created < MaxCounted
    /\ pool' = [pool EXCEPT ![k] = "fresh"]
    /\ IF pool[k] = "none" THEN Owe(t, "created", 1) ELSE UNCHANGED threads
    /\ UNCHANGED <<lfQueue, retaining, counters>>

RemoveKey(t, k) ==
    /\ Begins(t) /\ pool[k] # "none"
    /\ pool' = [pool EXCEPT ![k] = "none"]
    /\ Owe(t, "removed", 1)
    /\ UNCHANGED <<lfQueue, retaining, counters>>

Expire(k) ==
    /\ pool[k] = "fresh"
    /\ pool' = [pool EXCEPT ![k] = "stale"]
    /\ UNCHANGED <<threads, lfQueue, retaining, counters>>

(* cleanup_stale visits one shard after the other while other threads go   *)
(* on, and raises the counter once, at the end.                            *)
CleanupStale(t) ==
    /\ Begins(t)
    /\ Owe(t, "retaining", 0)
    /\ retaining' = [retaining EXCEPT ![t] = PoolKeys]
    /\ UNCHANGED <<lfQueue, pool, counters>>

Retain(t, k) ==
    /\ threads[t].owes = "retaining" /\ k \in retaining[t]
    /\ pool' = [pool EXCEPT ![k] = IF @ = "stale" THEN "none" ELSE @]
    /\ retaining' = [retaining EXCEPT ![t] = @ \ {k}]
    /\ LET n == threads[t].by + (IF pool[k] = "stale" THEN 1 ELSE 0)
       IN  IF retaining'[t] # {} THEN Owe(t, "retaining", n)
           ELSE IF n > 0 THEN Owe(t, "removed", n)
           ELSE threads' = [threads EXCEPT ![t] = Idle]
    /\ UNCHANGED <<lfQueue, counters>>

---------------------------------------------------------------------------
LockFreeNext ==
    \/ \E t \in Threads :
        \/ Count(t) \/ TryPush(t) \/ Pop(t) \/ CleanupStale(t)
        \/ \E k \in PoolKeys : InsertConnection(t, k) \/ RemoveKey(t, k) \/ Retain(t, k)
    \/ \E k \in PoolKeys : Expire(k)

---------------------------------------------------------------------------
(* Properties *)

(* When no thread is inside an operation, the counters add up to what the  *)
(* queue and the pool hold, whatever the threads did at the same time.     *)
CountsSettle ==
    (\A t \in Threads : threads[t] = Idle) =>
        /\ counters.pushed - counters.popped = lfQueue
        /\ counters.created - counters.removed = Cardinality({k \in PoolKeys : pool[k] # "none"})
=============================================================================
