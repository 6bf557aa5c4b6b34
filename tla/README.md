# A verification project for iroh-raft

TLA+ models of iroh-raft, the TLC configurations that check them on small
instances, and proofs of their central properties for every instance. Paths
below are relative to the crate root, those of the Rust modules to its `src`;
`PROJECT.json` has the line numbers of every modelled definition, finding and
hazard.

1. [The system](#1-the-system): components, state, operations, interactions
2. [What makes each component correct](#2-what-makes-each-component-correct)
3. [The modules](#3-the-modules) and how they correspond to the code
4. [The runs](#4-the-runs): bounds, results, fairness
5. [Disagreements found](#5-disagreements-found)
6. [The proofs](#6-the-proofs)
7. [What is not covered](#7-what-is-not-covered)
8. [Plan](#8-plan)

Reproduce a run with `tlc -config RaftManagerPair.cfg MCRaftManager.tla`, a
proof with `tlapm RaftManagerProofs.tla`.

## 1. The system

iroh-raft replicates a state machine with raft-rs 0.7 (the `RawNode` API), keeps
the log in redb and talks to its peers over iroh (QUIC). The crate has several
generations of the same parts side by side; `lib.rs` compiles some, and the
redb-based driver of `raft/core.rs` is in the repository but not in the module
tree yet. It is the most complete driver and the centre of this project.

### The raft core

| component | state | operations | talks to |
|---|---|---|---|
| **Raft manager** `raft/core.rs` | `node` (RawNode behind a lock), `pending_proposals`, `peers`, `needs_initial_replication`, `last_compaction_index`, receivers | `run_main_loop` (one `select!` over a tick, a message, a proposal, a configuration change), `on_ready`, `handle_raft_message` (which repeats part of `on_ready` inline), `handle_newly_committed_entries` | storage and state machine by calls, peers through `raft_tx_out`, clients through oneshot channels |
| **Bootstrap** `raft/bootstrap.rs` | none | `should_bootstrap`, `bootstrap_single_node` (campaign, `on_ready`, empty proposal, `on_ready`) | called by `run()` |
| **Configuration changes** `raft/config_manager.rs` | `peers` (shared), CLUSTER_STATE_TABLE | `handle_conf_change` (propose, register the peer, answer), `apply_conf_change` (apply, save, peers, replication flag) | called by the manager |
| **Snapshots** `raft/snapshot.rs` | `last_compaction_index` (shared) | `check_and_trigger_log_compaction`, `perform_log_compaction`, `process_snapshot_if_present` | storage |
| **Log storage** `storage/redb.rs`, `storage/codec.rs` | tables: log, hard state, conf state, snapshot, cluster state | `append`, `save_hard_state`, `entries`, `term`, `snapshot`, `compact_log_before`, `apply_snapshot`, `initialize_joining_node`; row encodings | raft-rs through the `Storage` trait, the manager |
| **RawNode** (raft-rs, external) | term, vote, role, unstable log, progress, `commit_since_index` | `tick`, `step`, `propose`, `campaign`, `ready`, `advance`, `apply_conf_change` | the manager |
| **State machines** `raft/state_machine.rs`, `generic_state_machine.rs`, `kv_example.rs` | application data | apply, snapshot, restore | the manager |
| **Simple storage** `storage/simple.rs` and **node** `node.rs` | the same tables in one struct; a second driver over them | `append`, `apply_snapshot` (one transaction), `compact`; `handle_ready` (hard state before entries) | each other |
| **Event loop and handlers** `raft/event_loop.rs`, `handlers.rs` | receivers, the waiting proposals | a `select!` whose branches call handlers | an alternative nothing calls |
| **Optimized paths** `raft/optimized_*.rs`, `proposals.rs` | priority batches, pending counter, queues by class, duplicate cache | `add`, `flush`, `remove_expired`; enqueue, take a batch, deduplicate | the channel to the raft task |

A proposal's way: a client sends it with a oneshot to the manager; `propose`
gives the entry its id as context and the oneshot waits in `pending_proposals`;
`on_ready` saves entries, then the hard state, then sends messages, then applies
what is committed, answering a oneshot when its context comes by; `advance`
yields a LightReady whose messages are sent and whose commit index is saved, and
the entries it committed are fetched from storage and applied in the same cycle.
A message's way: `handle_raft_message` steps it and, still under the lock, takes
the first Ready itself.

### Around the core

| component | state | operations |
|---|---|---|
| **Backpressure** `backpressure.rs` | per level: mpsc channel, semaphore, metrics | `send`, `try_send`, `recv`, `try_recv`, `recv_prioritized` |
| **Circuit breaker** `circuit_breaker.rs` | state, last failure time, half-open counters, recent failures, each behind its own lock or atomic | `call` (`allow_request`, the operation, `on_success` / `on_failure`), `force_open`, `force_close`; a manager with one breaker per service |
| **Iroh transport** `transport/iroh.rs`, `shared.rs`, `protocol.rs` | connection table, message buffer, peers, batch and health tasks | `send_message`, `buffer_message`, `get_or_create_connection`, the two tasks, `shutdown`; framing |
| **Glue** `transport/{simple,adapter,endpoint_manager,service}.rs` | a map of peers | look-up, forwarding |
| **Timeout manager** `timeout_manager.rs` | statistics per operation, adaptive timeouts, a global mutex | `execute`, retries, adaptation |
| **Actors** `actor_patterns.rs` | a status record; a map of connections | commands to a task that owns the state; a stale-connection timer |
| **Lock-free structures** `lock_free.rs` | pool, bounded queue, histogram, atomic counters | `acquire`/`remove`, `push`/`pop`, `record` |
| **Cluster facades** `cluster.rs`, `cluster_api.rs` | a command task; clones over a shared handle | propose, query, status, members, leadership, shutdown |
| **Management** `management/` | remembered leader and connections (client), event channels and streams (protocol, events), known clusters (discovery), tokens (auth) | requests with failover, publish/subscribe, streams with a 60 s limit, discovery messages, authorization |
| **Configuration** `config.rs` | one record | presets, setters, files, environment, validation |
| **Examples** `examples/distributed_kv_store.rs`, `cluster_deployment.rs`, `monitoring_integration.rs` | a versioned store with expiry and its nodes; endpoints, health checks, backups; metrics, alerts, spans | the programs a user of the crate starts from |

### What is hard

* *Crashes between transactions.* Every save is its own redb transaction: a crash
  can fall between entries, hard state, messages, state machine commands, the
  answer to a client and the commit index of the LightReady.
* *Two Ready paths.* `on_ready` and the inline path of `handle_raft_message`
  differ in which messages they send and which entries they process.
* *A lossy network.* Messages are dropped, repeated, reordered, and arrive from
  peers that were removed.
* *Compaction* runs inside the cycle that still fetches committed entries.
* *Locks per field, and locks across awaits.* The breaker's transitions take
  several locks, with an await at each; the timeout manager, the management client
  and the transport's batch task hold one lock while they wait for something else.
* *Permits and places.* A channel's semaphore and its queue are changed in
  different steps by different tasks; timeouts and drops fall in between.
* *Retries of what was half done.* A frame sent in part is sent again; a proposal
  expires while its batch is flushed.
* *Counters beside structures.* Queue, pool and batch processor keep a count in a
  separate step from the change it counts.

## 2. What makes each component correct

* Manager and storage: a crash leaves no commit index past the log; no message promises
  what a crash would take back; an answered proposal survives; each committed
  entry is stored when it is handed out and applied once per life; no client
  waits forever; one leader per term; a row that lost its tail is refused.
* Simple storage: a crash or a failure inside a Ready costs that Ready only, and the
  store serves every index of the range it names. Snapshot installation: a crash leaves
  tables of one snapshot.
* Backpressure: permits are conserved and mean room; a scan keeps priorities;
  critical messages are received.
* Circuit breaker: races take its half-open counters past their limits by less than
  one per caller, and it makes an attempt to leave the open state.
* Batch processor: a proposal is handed to raft at most once, and never after its
  client was told it was not; the counter is explained; nobody is kept.
* Message processing: messages of one class leave in order of arrival.
* Transport: every message is in one place; the buffer is ordered and emptied
  unless the peer refuses connections; shutdown ends.
* Timeout manager and management client: calls and requests end.
* Facade: no caller is left without an answer. Events: a stream that is open gets
  every event its filter lets through.
* Lock-free structures: the counters agree with the structure once nothing is in
  flight; a percentile is in the bucket of the true one.
* Stores: replicas that applied the same commands hold the same. Backups: the newest are retained.

## 3. The modules

```
RedbRaftStorage  disk operators                     (storage/redb.rs)
   └ RawNode     library operators, external        (raft-rs 0.7)
       ├ RaftManager  the driver, N nodes, network, crashes
       │    └ MCRaftManager            4 configurations
       └ RawNodeProofs ── RaftManagerProofs
Backpressure ── BackpressureProofs                  (backpressure.rs)
CircuitBreaker ── CircuitBreakerProofs              (circuit_breaker.rs)
ProposalPipe ◁── BatchProcessor ── BatchProcessorProofs (raft/optimized_batch_processor.rs)
IrohTransport ── TransportProofs                    (transport/iroh.rs)
TimeoutManager, ManagementClient ── ClientCalls     two configurations
CircuitBreaker and 23 more ── Services ── MCServices  one configuration
                     └ ServiceProofs
QueueLemmas         sequences and least elements, for the proofs
```

The operators named `Slip…`, each before the definition it would replace, are
plausible mistakes: `PROJECT.json` ("mutants") says which property notices which.

### The raft core

**RedbRaftStorage** holds no variables. A disk is a record of the tables, and
each operator is what one committed transaction does: `AppendEntries` inserts rows
and removes none, `CompactLogBefore` removes rows, `SnapshotIndex` is the index
`snapshot(request_index)` answers with. A missing row reads as term 0, as
`RedbRaftStorage::term` answers.

**RawNode** is code outside the repository, kept to what the driver can see:
what Ready and LightReady contain, what `advance` does, which entries are handed
out (`commit_since_index`, from storage, only once stored), that a follower's
and a candidate's messages are `persisted_messages()`, that a second
configuration change becomes an empty entry, that a snapshot is requested with
index 0. Sending is not optimistic and a heartbeat round is one append.

**RaftManager** is the task of each node as a program counter. `idle` is the
`select!`; each other value is a place between two transactions, library calls
or state machine commands.

| `pc` | code | action |
|---|---|---|
| `bootstrap`, `emptyProposal` | `bootstrap_single_node` | `BootstrapCampaign`, `BootstrapPropose` |
| `idle` | the `select!` of `run_main_loop` | `Tick`, `HandleProposal`, `RefuseProposal`, `DropProposal`, `HandleRaftMessage`, `RefuseRaftMessage`, `AbortOnSnapshot`, `HandleConfChange` |
| `replicate` | the end of `tick` | `TriggerReplication` |
| `ready` | `on_ready` up to the Ready | `TakeReady` |
| `save`, `saveHs`, `send` | entries, hard state, messages | `SaveEntries`, `SaveReadyHardState`, `SendMessages` |
| `apply`, `answer` | committed entries one by one | `ApplyNormal`, `Answer`, `RejectNormal`, `PassOver`, `ApplyConf`, `FailConf`, then `InlineAdvance`, `AdvanceRaft` or `FinishLate` |
| `lightHs` | the LightReady's commit index | `SaveLightCommit` |
| `compact` | `check_and_trigger_log_compaction` | `Compact` |
| `stopped` | `run()` returned | — |

`rd[s].stage` tells the inline path, `on_ready` and the late entries of the
LightReady apart, so the three share their steps where the code shares them.
`Restart` is a crash at any step together with the next start: the disk is what
the committed transactions left, the library restarts with applied index 0, the
clients' channels close. `net` only grows: loss, duplication and reordering are
receiving a message never, twice or late. `done` is a history variable.
`disk[s].sm` is the sequence of applied indices; what a command means to the
application is abstracted away, but for whether it is refused (`Refusable`): then
`apply_entry` returns an error, which the proposer gets. A RawNode panic ends the task
like an error. `entries()` has only the rows there are, so `PassOver` goes past a
missing one.

**SnapshotInstall** is what `on_ready` does of a Ready with a snapshot, one action
per transaction: configuration, hard state, the tables of each key type inside one
transaction, the log, and the tables once more. The leader that sends it is
outside: one of this program aborts before it can. **Codec** writes a record as a
sequence of cells, cuts it off anywhere, and reads it with the code's length
checks. **SimpleStorage** has the three transactions of `handle_ready` as actions,
`HandleReadyFails` for each `?` between them, after which the run loop goes on and the
library hands the same entries and snapshot out again, `Crash`, and a restart that stays
down for good where `RawNode::new` panics. Nothing in the crate calls `compact`; the
caller that is assumed keeps to what is stored whole (`MayCompact`).
**EventLoop** has one action per branch of the `select!` with the handler it calls.
**KeyValueStore**, **DistributedKvStore**: replicas that apply a log in order or
restore one another's snapshot; **DistributedKvNode**: the example's nodes, one
request at a time, and clients that time out.

### Stages before the raft task

**BatchProcessor** has the processor's task in its three modes and the cleanup
task; a flush takes the batches out first and sends them one at a time
(`ProcessBatch`), so that expiry, the end of the raft task and cleanup fall in
between. Time is the age of a batch in the thresholds `should_flush` compares it
with, and a batch that reaches `max_batch_bytes` is `large`. **ProposalPipe** is what it promises: a proposal moves from new to held to
handed or refused, and a refused one is never handed. `RefinesPipe` is the
refinement mapping (`FateOf`). `KeepsOrder` is about priorities above Normal: a batch that
remove_expired has emptied stays, with the label Normal, and the next Normal proposal
joins it although its elders wait in a later batch. (The run's limit of 2 leaks away
before that can happen; with 3 TLC shows it.) **MessageProcessing** keeps the queue locked for as
long as the code's `if let` does. **Proposals** is the plain and the pooled builder.

**Backpressure** has one action per atomic operation of a sender (`Acquire`,
`Enqueue`, `Forget`, and `GiveUp` for a timeout or a dropped future while it
holds a permit) and of the one receiver (`BeginScan`, `TryNext`, `Take`,
`AddPermit`; `BeginRecv` for `recv` on a level of its own; `DropRecv` for a
dropped future).

**CircuitBreaker** has one action per lock acquisition or atomic access.
`allow_request` keeps the read lock of `last_failure_time` across its transition:
`ReadLocked` keeps writers out. `DropCall` drops the future of `call()` at any of
its awaits (`Awaits`). Time is `lastFailure` becoming `elapsed`, and any number
of old failures leaving the window. **BreakerRegistry** is the manager's look-up
under the read lock and insertion under the write lock.

### Peers and clients

**IrohTransport**: `send_message` up to each await (connection table, stream, the
frame in pieces, the buffer), the batch task, which keeps the buffer locked while
it connects, sends and waits for the answer (`BatchAnswered`; `Answered` in
`send_message`), the health checker, the removal of peers, and `shutdown`,
which stops both tasks and closes what is left. A connection is its age; whether it
still carries a stream is the network's choice at every write, and a frame that
breaks off is seen as such by the reader.

**TimeoutManager**: a call takes the global mutex, runs its operation (which may
call the manager again), sleeps between retries and adapts the timeout, all under
the mutex. **ManagementClient**: a request asks the remembered leader, whose lock
is tokio's queueing RwLock, and then the members one after the other, through
pooled connections that may be dead; connecting and opening a stream, which no timeout
covers, are steps of their own. A status may name a leader the client has no address of
(`Strangers`). **ClientCalls** puts the two side by side.

**ManagementEvents** (publish visits a concurrent map while streams come and go),
**ManagementStreams** (a task per stream, 60 seconds for all of it),
**ManagementAuth** (issue, verify and revoke tokens, roles to operations),
**ClusterDiscovery** (messages out of order into a cache), **ClusterFacade** (the
borrow rules decide which methods overlap; `select!` may see the stop signal before
commands that are queued), **ClusterApi** (clones that share one state),
**NodeStatusActor**, **ConnectionPoolActor**, **LockFree**, **LatencyHistogram**,
**Configuration**, **Deployment**, **Monitoring**: each as its header comment says.
A snapshot of the histogram loads one bucket per step; `Monitors` are the calls of
`start_monitoring`, each with a collector, an exporter and an evaluator of its own.

**Services** sets these components, which share no state, side by side: `focus`
chooses one at the start and only it moves. Its behaviours are the union of the
components' behaviours; a product of them would say nothing more about any.

## 4. The runs

All passing runs are exhaustive.

| run | instance | shows |
|---|---|---|
| `single` | 1 node that may be removed, 2 proposals, one of them refused by the state machine, 6 indices, compaction above 2, 1 crash anywhere | `AnsweredIsDurable`, `AppliedIsProcessed`, `PendingHasEntry`, `HandedOutIsStored`, `AppliesOnce`, and under fairness `WaitingIsAnswered` |
| `pair` | 2 nodes, the second joins, either is removed; 1 proposal that its state machine refuses, 4 indices, 2 terms, compaction above 3, 1 crash anywhere | `EveryCrashIsLoadable`, `AcknowledgedIsStored`, `SentTermIsStored` on both Ready paths |
| `backpressure` | 2 senders, 3 levels of 2 places, 4 messages, `recv` on the critical level besides `recv_prioritized` | `PermitsConserved`, `PermitMeansRoom`, `ScanKeepsPriority`, and under fairness `CriticalIsReceived` |
| `batch` | 3 proposals of 3 priorities, a channel of 2, batches of at most 2, a limit of 2, every mode, a raft task that may end | `RefinesPipe`, `PendingIsAccounted`, `LimitHolds`, `UrgentIsLabelled`, `KeepsOrder`, and under fairness `NobodyIsKept` |
| `transport` | 1 sender, 1 peer that comes and goes, 3 messages of 2 priorities, frames of 3 pieces, a buffer of 2 | `OnePlace`, `BufferIsOrdered`, and under fairness `BufferedLeaves`, `ShutdownEnds` |
| `clients` | 2 callers of the timeout manager with 1 retry; 2 requests, 2 members, 1 outage | `CallsEnd`, `RequestsEndOrLeaderFailed` under fairness |
| `services` | 24 components, 2 callers, threads or replicas each, 1 or 2 keys | twelve properties of ten components, below |

`services`: `CountsSettle` (lock-free counters), `QuotaOvershoot` and
`SuccessOvershoot` (circuit breaker, with 2 callers that may drop their calls and an
operator), `PercentileIsTight` (histogram), `OnlyTheCutReadyIsLost` and `ServesItsRange`
(simple storage), `FirstStreamsMissNothing` (events), `NoCallIsCutOff` (facade),
`ClassesKeepTheirOrder` (message processing), `ReadsBackOrRefuses` (row encodings),
`NewestBackupsAreKept` (deployment), `TablesAgree` (snapshot installation). The status
actor, the event loop and the monitoring have properties that are proved rather than run
(section 6), the versioned store one that fails (section 5). The others (connection pool
actor, breaker registry, proposal builders, discovery, streams, authorization, HTTP
facade, configuration, the generic key-value store, the example's nodes) are in the run
as models only; no property of theirs seemed worth stating that does not hold by their
shape.

*Why the bounds are enough.* Six indices let the single node bootstrap (the
leader's empty entry, the empty proposal), take both proposals and a configuration
change, and compact in between; a crash may fall at each of the twelve steps. With
two nodes the interesting log is: empty entry, empty proposal, the joiner's
AddNode, one more. Four entries are enough for a join, a probe that is rejected,
an append that is acknowledged, a commit and a compaction; a second term is enough
for a re-election and a stale message. In `pair` and `leaders` the nodes take turns
(`InTurns`: at most one handler is between its steps): nodes share nothing but the
network, where a message may be received at any later time, so another order of
the steps of two handlers leads to the same states of each. Two senders and
channels of two places let one sender hold a permit while the other is between
enqueueing and forgetting its own, with the receiver between `Take` and
`AddPermit`. Two callers are enough for every two-step race of the breaker;
`QuotaOvershoot` and `SuccessOvershoot` are also proved for any number. Three proposals fill a batch and
leave one over, of the same priority or another. Three messages fill the buffer and
force the limit. Two requests put one behind the other in the queue of a lock.

*Deadlock* is not checked: the models stop at their bounds (indices, terms,
messages), and a node whose task has ended is a state the code allows. Where
everyone could wait on everyone (`transport`, `clients`, `batch`) a temporal property
says who must get on; `transport` leaves the check on, but its peers come and go for
ever, so that it says little.

*Symmetry* is not used: node ids are integers the library orders, and the
temporal runs would not allow it.

*Fairness.* `RaftManager!FairSpec` has weak fairness on `Proceed(s)`: a spawned
task is polled again as long as its process lives, and `tick` fires on an interval.
Clients, the network, restarts and failing calls owe nothing. `Backpressure!FairSpec`
has weak fairness on the receiver alone, a caller that keeps calling
`recv_prioritized`; a sender may stop for good while it holds a permit.
`CircuitBreaker!BreakerFairSpec` assumes that time passes and that each caller calls
again and again, its operations ending. `BatchProcessor!FairSpec`: the processor's
task is scheduled, its interval ticks and time passes; strong fairness of the tick
because `select!` picks among ready branches at random. Clients, the raft task and
the cleanup task owe nothing. `IrohTransport!FairSpec`: the batch task, the health
checker and the shutdown go on, messages age and their `select!`s see the stop signal
at last. One assumption is on the network, which the code puts no timeout on
(`NetworkAnswers`): an attempt to connect, a write and the wait for an answer come to
some end. Each may fail each time. `ClientCalls!FairSpec`: the mutex serves its queue in
order, timers fire, a request's task goes on; nobody has to call. Connecting and opening
a stream are outside the client's timeout, so that they end is assumed of the network
here too (`NetworkAnswers`).

`WaitingIsAnswered` counts a closed channel as an answer, and holds for one node,
where the leader never loses its place; a follower's dropped entries (below) make
no such promise.

## 5. Disagreements found

Five runs state what a text of the repository says, and TLC finds the code doing
otherwise; the findings in `PROJECT.json` quote the line each contradicts.

| run | what the code does |
|---|---|
| `leaders` | A joining node has an empty voter set, so its own AddNode makes it the only voter; it can lead alone. So can the bootstrap node after a restart behind a compacted log (the search is limited by `CrashAfterCompaction`; a restriction can hide a violation, not make one). |
| `snapshot` | The library asks with request index 0, the storage answers with index 0, and the library aborts the leader. |
| `breaker` | One caller closes the breaker between another's failure time and its Open: it is open without a failure time, and `allow_request` refuses every call from then on. |
| `store` | `restore_from_snapshot` takes the newest version in the data for the version counter, which a failed compare-and-swap or a deletion has left behind: a restored replica gives other versions to the same commands. |
| `failover` | A management request whose remembered leader fails asks for the write lock while it still holds the read guard of the same lock: it waits for itself, and every later request behind it. |

More can be read off the code, and the models contain it without a run of its own.

*The driver.* The inline path of `handle_raft_message` (`raft/core.rs:657`, `670`)
processes configuration changes only and drops the LightReady of `advance()`:
committed commands that arrive with a message never reach a follower's state
machine. `on_ready` sends `messages()` only (`core.rs:732`, `796`); vote requests are
`persisted_messages()`, so a campaign reaches nobody and there is no failover.
`save_conf_state` writes a table that `initial_state` does not read (one root of
`leaders`). A configuration change proposed while another is pending is replaced by
an empty entry and still answered Ok (`HandleConfChange`). After a snapshot is
installed there is no row at its index, so a restart aborts in `RawNode::new` and
the node cannot match an append; until the Ready's own hard state is saved, the
stored one has the snapshot's term and no vote (`SnapshotInstall`).

Because the inline path never saves the commit index it drops, the stored one may lag
behind what the library has reported and handed out. `EveryCrashIsLoadable` says how far
this can go: the stored commit index is always within the log, but compaction may cut the
log beyond it until a later index is saved, and a crash then leaves a disk `RawNode::new`
refuses. It takes a leader that commits several entries at once while it applies a removal
on the inline path, in a cluster larger than those of the runs. A new follower that is sent
entries past its empty log matches the missing row, whose term reads as 0 (`redb.rs:242`), if
the leader has compacted the row before them; the library then aborts on the gap
(`LeavesGap`).

*Row encodings.* A configuration row that lost its last flag reads as one with
`auto_leave` false (`ReadsBackOrRefuses` names the exception), and the layout comment at
`codec.rs:15` omits `sync_log`.

*The other node.* `node.rs` is commented out of `lib.rs:63`; in it, `campaign` has no
effect, a configuration entry fails to deserialize before `advance`, entries committed
by a LightReady are dropped, and a timed-out proposal stays pending. `handle_ready` saves
the hard state before the entries: a crash in between leaves a commit index past the log,
which `RawNode::new` refuses, or one that stale rows of an overwritten suffix stand under,
which it takes for committed. `OnlyTheCutReadyIsLost` is what still holds.

*Backpressure and breaker.* `recv_prioritized` falls back to waiting on the
critical queue alone (`backpressure.rs:390`, `408`). `current_pending` is only
decremented, so the first receive wraps it. The call that turns the breaker half-open is not
counted in `half_open_requests`; a call dropped in the half-open state is never taken
off that counter, so that enough of them leave a breaker that refuses every call for good
(`circuit_breaker.rs:211`); and a success that began before the half-open period counts in
it, so that a breaker may close on fewer probes than `success_threshold`, by up to one per
caller but one (`SuccessOvershoot`).

*Batch processor and transport.* With a `max_batch_size` of 1 the adaptive streaming mode
takes batches of 0 proposals for ever (`optimized_batch_processor.rs:306`, `556`;
`ProcessGroup`): `NobodyIsKept` is violated for `MaxBatch = 1`. The batch task looks at the
age of messages only behind a connection, so that those for a peer that refuses
connections are neither sent nor dropped (`iroh.rs:520`, `545`): the premise of
`BufferedLeaves`. Neither connecting nor an answer has a timeout, there
(`iroh.rs:281`, `594`) and in the management client (`client.rs:87`, `261`). A status that
names a leader the client has no address of is remembered, and the next request then
waits for itself as in `failover`, with no node down (`client.rs:232`, `78`).

*Timeout manager.* The branch meant to lower an adaptive timeout takes three times the
average duration and never looks at the maximum (`timeout_manager.rs:333`–`337`): it can
raise the timeout past `max_timeout`, "Maximum timeout duration" (line 17).

*Proposals.* `batch_vm_commands` of `raft/optimized_proposals.rs` deduplicates by name
alone and drops a `Stop` behind a `Start` of the same machine; its test (line 264) calls
it a different command and expects three proposals.

*Facades and management.* `get_status` of `cluster.rs` answers node id 0 where its test
(line 849) expects 1. The management protocol has a header type for events which no
stream is mapped to.

*Examples.* Commands of `distributed_kv_store.rs` read `SystemTime::now`, where
`generic_state_machine.rs` asks for determinism;
`get_current_state` panics (lines 330–335). In `cluster_deployment.rs` a rolling update
of two or more nodes fails at its first verification, because every mock node says it
leads; a wait for health may be satisfied by a check older than the update;
`check_node_health` is a stub that says true. In `monitoring_integration.rs` the rule for
failed proposals looks for its name among the custom metrics and never sees Raft's own
counter, the CPU rule cannot fire at the simulated 35–55 %, a rule's duration is ignored,
and the JSON export drops each guard before the next, so that its parts may be of
different collections.

## 6. The proofs

TLAPS proves these for all values of the constants, from the assumptions named
in the modules (`Server` a finite set of positive integers, `NoReq` not a
proposal, at least one index, one place, one level, thresholds of at least one;
`FacadeAssumption`, `InstallAssumption`, `EventAssumption`: bounds are naturals, and
`ProcessingAssumption`: the mark of a free lock is no task; `CodecAssumption`,
`HistogramAssumption` and `DeploymentAssumption`: what is encoded, measured and retained
are naturals, and strings are finite sequences of them).

* **`RaftManagerProofs!TypeInvariant`**, `Spec => []TypeOK`. By itself `TypeOK` is
  not inductive: `Answer` moves past the entry in hand without looking whether
  there is one. `TypeInv` adds `EntryInHand` (at `answer` an entry is in hand),
  which only `ApplyNormal` establishes and every other step leaves alone
  (`OnlyApplyAnswers`, `StepIsLocal`). The library's operators keep their types by
  the lemmas of **RawNodeProofs**, which say more than the types: `Evolves(r, q, s)`,
  that a call leaves a well-typed state whose term has not fallen, whose
  last-Ready hard state and count of handed-out entries are the same, and whose new
  messages come from `s` and carry no later term; `Commits`, how a call may move the
  commit index.
* **`RaftManagerProofs!SentTerms`**, `Spec => []SentTermIsStored`: nothing in the
  network carries a term its sender could forget in a crash. A step can only be
  judged knowing how far its handler has come, so `TermInv` relates, for each
  place of the program counter, the term of the RawNode, of the last Ready and
  of the stored hard state: before a Ready is taken the stored term is the last
  Ready's; while it is saved the Ready's hard state has the node's term and, if
  it holds none, the stored term already is that; behind the save all three are
  equal, until the next Ready. `Keeps(s)` is what a step of `s` owes, shown action
  by action; other nodes are untouched (`StepIsLocal`).
* **`RaftManagerProofs!OnceEach`**, `Spec => AppliesOnce`: no life of a node applies an
  index twice, though the Ready and the fetch behind the LightReady both hand entries
  out. The invariant `Placed` has four parts for each place of the program counter.
  `Behind`: everything processed lies behind the library's `commit_since_index` and
  behind the entry in hand. `Bounded`: what is in hand ends where the library counts
  entries as handed out. `Committed`: until `advance()` a new commit index is one the storage
  has reached, so that what it commits is counted. `Fetching`: where the late fetch
  begins and ends. Without the third the second fails at the fetch; without the
  fourth the first fails at its start.
* **`RaftManagerProofs!CommitsReachNoFurther`** (`[]CommitsStored`, the upper bound of
  `EveryCrashIsLoadable`: the stored commit index is within the stored log) and
  **`AcknowledgedStays`** (`[]AcknowledgedIsStored`). The lower bound, which compares the
  commit index with what compaction has cut, is model-checked only: it needs a log
  without gaps on every node, so that the entries of every message in the network are
  without gaps too. Neither needs to know that two logs
  agree; both need to know how far a log *reaches*. `LogInv` says it for each place of the
  program counter (`Ends`), of the RawNode (`Sound`), of the Ready and of the disk: no
  commit index passes the end of the log it came with, a response promises nothing past
  what will be stored when it leaves (`Honest`), and from the save until `advance()` the
  disk reaches as far as the unstable log. What threatens it is an append message whose
  first entry lies past the receiver's log: if it carries no entries and the term it
  names is 0, the missing row matches it and the receiver acknowledges what it does not
  have. So the invariant follows the messages too: one that begins past what its
  receiver's disk holds carries entries or names an entry there (`Anchored`), and the
  place where a leader resumes is within its own log or the follower's (`Within`). An
  append may still cut the log in memory; the disk it never shortens, so that what was
  said of the heights of the disks stays true (`StepExtends`, `MoreSound`).
* **`RaftManagerProofs!AnswersStay`** (`[]AnsweredIsDurable`): no crash takes back an
  answered command. Two things have to hold: when the command is applied its index lies
  behind the stored commit index, and what is saved later leaves its row alone.
  The first is `CoverInv`, which relates, for each place of the program counter, the commit
  index on the disk, the one the library counts as announced, and the entries in hand
  (`Counted`, `Held`): the Ready's hard state is saved before its entries are applied. The
  delicate case is the inline path of the message handler, which drops the LightReady: the
  library then counts a commit index as announced that no disk holds, and it will not
  be in the next hard state. That is harmless because everything below it was handed
  out with that LightReady, so nothing below it is handed out again and answered
  (`Lag`). The second is `Adds` of RawNodeProofs: what a call adds to the unstable log
  lies past what is committed. `Secures(s)` joins the two as what a step of `s` owes.
* **`RaftManagerProofs!SoloProcesses`** (`[]AppliedIsProcessed`), **`SoloAwaits`**
  (`[]PendingHasEntry`) and **`SoloFinds`** (`[]HandedOutIsStored`), for a cluster of one
  node (`Server = {Boot}`), with any number of crashes, starts and compactions; and
  **`UnreachedInOrder`**, the same for one node of a cluster of any size as long as no step
  handles a message at that node (`Unreached`). A single node is such a node, because
  nothing is ever sent to oneself (`SoloIsUnreached`). The premise is where the code draws
  the line: the inline path of `handle_raft_message` drops the LightReady of `advance()`
  and passes the commands of its Ready over. The invariant, `Alone`, says for
  each place of the program counter what holds of the node and its disk. `Rooted`: the
  stored log has no hole and begins at 1 or behind the stored commit index, which is all a
  start needs. `Own`: the match index of every other node is 0, so that only the node's
  own storage commits. `Joined`: the unstable log joins on to the stored one, and from the
  save on is in it. `Tallied`: how the count of handed-out entries, the last hard state,
  the commit index and the entries in hand relate. `Worked`: what counts as handed
  out is processed or in hand. `Awaited`: a pending proposal has an entry that is in hand or
  still to be handed out. Of the library they need that a call adds at most one entry, at
  the end (`Continues` of RawNodeProofs), and leaves no hole (`Gapless`).
  The invariant stands on those of the theorems above.
* **`BackpressureProofs!TypeInvariant`**, **`Conservation`**, **`PermitIsRoom`**: for
  any number of senders and levels and any capacity. The strengthening counts
  the holders of a permit; each step moves one permit between the four summands,
  and room follows because a held permit is one the queue cannot be using.
* **`BackpressureProofs!Priority`**: a scan never returns a message past one that
  waited on a higher level when it began. The invariant `ScanInv` says that what
  was seen above the level reached has been empty, and that the receiver alone
  shortens queues.
* **`CircuitBreakerProofs!TypeInvariant`**, **`QuotaBound`**: for any number of
  callers `requests` plus the callers that have checked and not yet counted is at
  most `HalfOpenMax - 1 + |Caller|` (`QuotaInv`).
* **`CircuitBreakerProofs!SuccessBound`**, `BreakerSpec => []SuccessOvershoot`, for any
  number of callers and operators and with dropped calls: `half_open_successes` plus the
  callers whose success is not counted yet is less than the successes of the period plus
  the number of callers (`SuccessInv`); the one that turned the breaker half-open is not
  among them when the counter is reset.
* **`ServiceProofs`**: theorems of `Services`. A `View` lemma per component shows that
  a behaviour of `Services` is one of the component, stuttering included, whatever is
  in focus; the rest is an inductive invariant of the component alone.
  **`TablesOfOneSnapshot`** (`[]TablesAgree`): the open transaction holds
  the snapshot's index wherever the step reached is behind that kind, and only the commit
  makes it visible.
  **`CallsAreAnswered`** (`[]NoCallIsCutOff`): a command in the channel is
  that of one running call or of one that gave up; a call runs only while the cluster is
  owned, and the task stops only when it no longer is. **`Refusals`**
  (`[]RefusedIsNotProposed`): a proposal in the queue is there once, neither
  answered nor proposed. **`Exports`**
  (`[]ExportIsOfOneMoment`), for any number of collectors and exporters: while any
  guard is held its metrics stand still.
  **`Alerts`** (`[]OneActiveAlert`): the look-up and the insertion are one step.
  **`StatusReads`** (`[]ReadsAreCurrent`): an answered status has every update sent before
  the question and none after, though callers give up meanwhile. The mailbox holds the
  tail of the commands sent, in order; the status is the last write among those served
  (`StatusIsLast`), and an answer is the last write before its question
  (`AnswersAreLast`). The arithmetic of taking a head and appending an end is
  **QueueLemmas**.
  **`CountersAgree`** (`[]CountsSettle`): counters run behind the contents, so
  `Balanced` adds what the threads still owe them, as a set of tokens, one for each unit
  of each thread (`Tokens`); an operation changes the tokens of its own thread only
  (`TokensChange`), and with every thread idle there are none.
  **`ClassesInOrder`** (`[]ClassesKeepTheirOrder`): the results of a class, the batch in the
  shared buffer and the batches waiting are three rising sequences, each before the
  next (`ClassInOrder`, `HandInOrder`); whoever holds the buffer holds the class.
  **`NoEventIsMissed`** (`[]FirstStreamsMissNothing`): every event is with the stream,
  still to be brought by the publisher that has not visited it, or refused by the filter
  (`Accounted`), and no publisher removes an id whose first stream is open
  (`FirstStreamsStay`).
  **`RowsReadBack`** (`[]ReadsBackOrRefuses`): a row is what was serialized or a prefix
  of it (`CodecInv`). The decoder reads length and contents by position, so each
  field is found where the encoder put it (`StartsAs`, `HoldsString`), and a prefix lacks
  a byte that some field asks for, the last flag of a configuration excepted.
  **`PercentilesAreTight`** (`[]PercentileIsTight`): what the loaded counters count are
  samples of the loaded buckets, those before the snapshot among them; a sample is in one bucket
  (`BucketIsUnique`), a cumulative count is the number of samples below the next edge, and
  the sample of a rank, defined by how many are smaller and not larger, always exists
  (`RankExists`) and lies in the first bucket whose count reaches the rank
  (`BucketIsReached`, `RankIsInBucket`).
  **`BackupsAreRetained`** (`[]NewestBackupsAreKept`): a record is named once, with a time
  stamp of its own (`StampedOnce`), and is in the history once it is pushed
  (`HistoryIsPushed`). A cleanup keeps the records of the first ranks by time; that every
  rank is taken is an injection between sets of one size (`EveryRank`).
  **`SettledIsKept`** (`[]OnlyTheCutReadyIsLost`) and **`RangeIsThere`** (`[]ServesItsRange`):
  `append` leaves rows behind what it overwrites, so that the log in the tables is not
  one the library knows, and a failure or a crash may fall between the three transactions
  of a Ready. What survives is that the rows lie behind the snapshot, that none is missing
  up to the commit index of the last Ready stored whole, that what the library has not
  been told is stored joins on to the rows, and that only the snapshot such entries were
  to follow may be missing below them (`StorageInv`).
* **`TransportProofs!OneHome`** (`[]OnePlace`) and **`UrgentFirst`**
  (`[]BufferIsOrdered`): for any number of peers, senders and messages, any sizes and
  limits. The two hang together in `TransportInv`: the order within one priority needs
  that what a sender is about to buffer is the latest it sent and in no buffer yet
  (`InHand`), and that in turn needs every message in one place; a message at its end is
  in no buffer because its fate is still `"none"` there (`InBuffer`). Insertion is the
  hard step: the place found is behind every message that goes first and before every
  other (`PlaceFacts`, from the order of the queue), so that the queue stays in order
  (`OrderedInsertion`) and cutting it at the limit keeps its beginning
  (`LimitedFacts`). Every action that moves no message is one of three lemmas
  (`NothingMoves`, `BatchMoves`, `SenderMoves`).

* **`BatchProcessorProofs`**, for any number of proposals, any priorities and limits:
  **`AccountIsKept`**, **`LimitIsKept`**, **`UrgentStaysLabelled`**, **`OrderIsKept`** and
  **`PipeIsRefined`** (`Spec => RefinesPipe`: the processor implements `ProposalPipe`). One
  inductive invariant, `ProcessorInv`, carries all five. `Tidy`: no proposal is in two
  batches, an urgent label belongs to one batch, and such a batch holds that priority and
  no other; so a flushed batch takes all its equals along (`TakesAll`), which is the order.
  `InboxInv`: what is in the channel was sent later than all that was taken from it.
  `CountInv`: the counter is held plus leaked, and below the limit. `PipeInv`: a
  proposal that waits is unanswered, and waits in one place. Each action is shown to be one
  of the five moves of the abstract stage (`Moves`), which keep `PipeInv`
  (`MovesKeepPipeInv`) and are steps of `ProposalPipe` (`MovesRefinePipe`). What
  `Only` selects is proved by a least counterexample over the prefixes (`KeptExists`,
  `PicksMore`): this induction is within reach because `Only` is a recursive function.

Only model-checked:

* liveness (fairness and ENABLED are outside the prover): `WaitingIsAnswered`,
  `CriticalIsReceived`, `NobodyIsKept`,
  `BufferedLeaves`, `ShutdownEnds`, `CallsEnd`, `RequestsEndOrLeaderFailed`;
* the lower bound of `EveryCrashIsLoadable`, as said above;
* of nodes that messages reach, nothing is claimed of `HandedOutIsStored`,
  `AppliedIsProcessed` and `PendingHasEntry`, and no run checks them there. The second and
  the third fail on the inline path of the message handler. The first would need log
  matching and leader completeness, which the library does not have in this driver in
  general: a compacted row has term 0 and matches a follower that has no such row, and two
  nodes can lead one term.

Every other safety property a passing run checks is stated by a theorem, the three above
with the premises named there.

## 7. What is not covered

* In the modelled modules: latency statistics and metrics counters,
  `aggregate_metrics`, closing of a channel; the size of a batch of committed entries;
  a replay's effect on the application's state machine; `initialize_joining_node` on
  a disk that is in use; `wait_for_shutdown` of the transport; prost messages.
* That a level other than the critical one wakes a waiting `recv_prioritized`: the
  code does not do it, and no text promises it.
* Diverging logs in `redb.rs`: `append` leaves the rows behind an overwritten suffix.
  It takes two leaders with different entries; votes that are never sent keep this
  driver from it. `ServesItsRange` covers the same code in `simple.rs`.
* The building of snapshot data by a leader: the library aborts before it runs.
* `node.rs` beyond its storage: it is not compiled, no sender of its message channel is
  kept, and a fresh directory has no voter, so that it never elects a leader.
* `management/server.rs` and `handlers.rs` forward to the facade or answer
  placeholders. `error.rs`, `metrics.rs`, health and type definitions are formatting,
  counters and data. The transport glue forwards and looks up. The comparison and
  demonstration examples print. Serialization formats, buffers and logging stay out:
  they are sequential and their tests reach them.

## 8. Plan

Done, in this order: storage and library operators, the manager, its runs and
proofs; backpressure; circuit breaker; batch processor against `ProposalPipe`;
transport; simple storage, installation of snapshots, row encodings; timeout manager
and management client; actors, lock-free structures, event loop, facades, management,
configuration; the stores, deployment and monitoring of the examples; the
proofs of `Services` (`SimpleStorage` with them), of the transport and of the batch
processor; `AppliesOnce`,
the upper bound of `EveryCrashIsLoadable`, `AcknowledgedIsStored` and `AnsweredIsDurable`
of the manager;
`AppliedIsProcessed`, `PendingHasEntry` and `HandedOutIsStored` of a node no message
reaches; the row encodings, the percentiles and the retention of backups.

Left, the most important first:

1. Closing of a backpressure channel with senders waiting; `initialize_joining_node`
   on a disk in use, as one more start of `RaftManager`.
2. The HTTP layer of the management service, once its handlers do more than answer
   placeholders.
