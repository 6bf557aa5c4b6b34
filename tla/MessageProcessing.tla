-------------------------- MODULE MessageProcessing --------------------------
(***************************************************************************)
(* raft/optimized_processing.rs: messages queued in batches by class, tasks*)
(* that take the next batch in the order of the classes, and the cache of  *)
(* messages seen. The lock of the queue a batch is taken from is held to   *)
(* the end of its processing: it is a temporary of the `if let` that takes *)
(* it (edition 2021). Sizes and the reused buffers are left out.           *)
(***************************************************************************)
EXTENDS Integers, Sequences, SequencesExt

CONSTANTS
    Processors,       \* tasks that call process_next_batch
    Hashes,           \* of the messages looked up in the cache
    CacheCapacity,
    MaxQueuedMessages \* bound on messages

(* BatchPriority, in its order.                                            *)
Priorities == <<"election", "heartbeat", "normal", "snapshot">>
Classes == ToSet(Priorities)

VARIABLES
    batches,    \* per class: batches in the queue, of message numbers
    queueLock,  \* per class: who holds the queue's lock: a task, or Free
    processing, \* per task [at, batch]; at: the index of the queue it is at
    bufferLock, \* who holds the serialization buffer
    results,    \* per class: the messages serialized, in the order they were
    queued,     \* messages queued so far
    seenHashes  \* the cache

processingVars == <<batches, queueLock, processing, bufferLock, results, queued, seenHashes>>

Free == "free"
ASSUME ProcessingAssumption == Free \notin Processors

NotProcessing == [at |-> 0, batch |-> <<>>]

ProcessingInit ==
    /\ batches = [c \in Classes |-> <<>>] /\ results = [c \in Classes |-> <<>>]
    /\ queueLock = [c \in Classes |-> Free] /\ bufferLock = Free
    /\ processing = [p \in Processors |-> NotProcessing]
    /\ queued = 0 /\ seenHashes = {}

(* Messages a batch takes: 32, 64, 16 and 4 in the code.                   *)
BatchLimit(c) == IF c = "snapshot" THEN 1 ELSE 2

QueueMessage(c) ==
    LET q == batches[c]
        message == queued + 1
    IN  /\ queueLock[c] = Free /\ queued < MaxQueuedMessages
        /\ batches' = [batches EXCEPT ![c] =
              IF q = <<>> \/ Len(Last(q)) >= BatchLimit(c) THEN Append(q, <<message>>)
              ELSE Append(Front(q), Append(Last(q), message))]
        /\ queued' = message
        /\ UNCHANGED <<queueLock, processing, bufferLock, results, seenHashes>>

ProcessNextBatch(p) ==
    /\ processing[p].at = 0
    /\ processing' = [processing EXCEPT ![p].at = 1]
    /\ UNCHANGED <<batches, queueLock, bufferLock, results, queued, seenHashes>>

(* Locks the queue it is at: an empty one is let go for the next in order, *)
(* and after the last there is nothing to do.                              *)
SlipTakeBatch(p) ==
    \E c \in Classes :
        LET at == processing[p].at
        IN  /\ at > 0 /\ processing[p].batch = <<>> /\ c = Priorities[at]
            /\ queueLock[c] = Free
            /\ IF batches[c] = <<>>
               THEN /\ processing' = [processing EXCEPT ![p].at = (at + 1) % 5]
                    /\ UNCHANGED <<batches, queueLock>>
               ELSE /\ processing' = [processing EXCEPT ![p].batch = Head(batches[c])]
                    /\ batches' = [batches EXCEPT ![c] = Tail(@)]
                    /\ UNCHANGED queueLock
            /\ UNCHANGED <<bufferLock, results, queued, seenHashes>>

TakeBatch(p) ==
    \E c \in Classes :
        LET at == processing[p].at
        IN  /\ at > 0 /\ processing[p].batch = <<>> /\ c = Priorities[at]
            /\ queueLock[c] = Free
            /\ IF batches[c] = <<>>
               THEN /\ processing' = [processing EXCEPT ![p].at = (at + 1) % 5]
                    /\ UNCHANGED <<batches, queueLock>>
               ELSE /\ processing' = [processing EXCEPT ![p].batch = Head(batches[c])]
                    /\ batches' = [batches EXCEPT ![c] = Tail(@)]
                    /\ queueLock' = [queueLock EXCEPT ![c] = p]
            /\ UNCHANGED <<bufferLock, results, queued, seenHashes>>

LockBuffer(p) ==
    /\ processing[p].batch # <<>> /\ bufferLock = Free
    /\ bufferLock' = p
    /\ UNCHANGED <<batches, queueLock, processing, results, queued, seenHashes>>

(* process_message_batch_ref, and both locks released.                     *)
ProcessBatch(p) ==
    LET c == Priorities[processing[p].at]
    IN  /\ bufferLock = p
        /\ results' = [results EXCEPT ![c] = @ \o processing[p].batch]
        /\ bufferLock' = Free
        /\ queueLock' = [queueLock EXCEPT ![c] = Free]
        /\ processing' = [processing EXCEPT ![p] = NotProcessing]
        /\ UNCHANGED <<batches, queued, seenHashes>>

(* The cache forgets every message when one more would not fit.            *)
IsDuplicate(h) ==
    /\ h \notin seenHashes
    /\ seenHashes' = {h} \cup (IF Cardinality(seenHashes) >= CacheCapacity THEN {} ELSE seenHashes)
    /\ UNCHANGED <<batches, queueLock, processing, bufferLock, results, queued>>

ProcessingNext ==
    \/ \E c \in Classes : QueueMessage(c)
    \/ \E p \in Processors :
        ProcessNextBatch(p) \/ TakeBatch(p) \/ LockBuffer(p) \/ ProcessBatch(p)
    \/ \E h \in Hashes : IsDuplicate(h)

----------------------------------------------------------------------------
(* Properties *)

(* However many tasks take batches, the messages of a class are serialized *)
(* in the order they were queued: raft's append messages to a follower are *)
(* not overtaken by later ones.                                            *)
ClassesKeepTheirOrder ==
    \A c \in Classes : \A i, j \in 1..Len(results[c]) : i < j => results[c][i] < results[c][j]
=============================================================================
