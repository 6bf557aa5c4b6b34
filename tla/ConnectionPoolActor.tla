------------------------- MODULE ConnectionPoolActor -------------------------
(***************************************************************************)
(* The connection pool actor of src/src/actor_patterns.rs: a task that     *)
(* owns a map of connections, serves a bounded mailbox and drops stale     *)
(* connections on a timer.  select! takes a command or a tick, whichever   *)
(* comes; when the handles are gone only ticks are left, and the task      *)
(* never ends.                                                             *)
(***************************************************************************)
EXTENDS Integers, Sequences, FiniteSets

CONSTANTS
    PoolCallers, PoolPeers,
    PoolCapacity, \* of the mailbox (1000 in the code)
    MaxPoolAdded  \* bound on connections added

VARIABLES
    connections, \* per peer: "none", "fresh", or "stale" (idle for 5 minutes)
    poolCounts,  \* ConnectionPoolMetrics [active, created, removed, failures]
    poolBox      \* commands [kind, peer, from] not yet served; from: the caller
                 \* that waits for the answer, or nobody once it gave up

poolVars == <<connections, poolCounts, poolBox>>

Nobody == "nobody"
PoolKinds == {"get", "add", "remove", "health", "metrics"}

PoolInit ==
    /\ connections = [p \in PoolPeers |-> "none"]
    /\ poolCounts = [active |-> 0, created |-> 0, removed |-> 0, failures |-> 0]
    /\ poolBox = <<>>

Present(conns) == {p \in PoolPeers : conns[p] # "none"}
StaleConnections == {p \in PoolPeers : connections[p] = "stale"}
Waits(c) == \E i \in DOMAIN poolBox : poolBox[i].from = c

SendPoolCommand(c, kind, peer) ==
    /\ ~Waits(c) /\ Len(poolBox) < PoolCapacity
    /\ poolBox' = Append(poolBox, [kind |-> kind, peer |-> peer, from |-> c])
    /\ UNCHANGED <<connections, poolCounts>>

(* 100 ms without an answer: the command stays in the mailbox.             *)
GiveUpPool(c) ==
    /\ Waits(c)
    /\ poolBox' = [i \in DOMAIN poolBox |->
                    IF poolBox[i].from = c THEN [poolBox[i] EXCEPT !.from = Nobody]
                    ELSE poolBox[i]]
    /\ UNCHANGED <<connections, poolCounts>>

Serve(kinds) ==
    /\ poolBox # <<>> /\ Head(poolBox).kind \in kinds
    /\ poolBox' = Tail(poolBox)

Answer == Serve({"get", "health"}) /\ UNCHANGED <<connections, poolCounts>>

(* An add overwrites the connection to the same peer, and counts both.     *)
AddConnection ==
    /\ Serve({"add"}) /\ poolCounts.created < MaxPoolAdded
    /\ connections' = [connections EXCEPT ![Head(poolBox).peer] = "fresh"]
    /\ poolCounts' = [poolCounts EXCEPT !.created = @ + 1,
                                        !.active = Cardinality(Present(connections'))]

RemoveConnection ==
    LET p == Head(poolBox).peer
    IN  /\ Serve({"remove"})
        /\ connections' = [connections EXCEPT ![p] = "none"]
        /\ poolCounts' = IF connections[p] = "none" THEN poolCounts
                         ELSE [poolCounts EXCEPT !.removed = @ + 1,
                                  !.active = Cardinality(Present(connections'))]

PoolMetrics ==
    /\ Serve({"metrics"})
    /\ poolCounts' = [poolCounts EXCEPT !.active = Cardinality(Present(connections))]
    /\ UNCHANGED connections

PerformHealthCheck ==
    /\ connections' = [p \in PoolPeers |->
                        IF p \in StaleConnections THEN "none" ELSE connections[p]]
    /\ poolCounts' = [poolCounts EXCEPT !.failures = @ + Cardinality(StaleConnections),
                                        !.active = Cardinality(Present(connections'))]
    /\ UNCHANGED poolBox

(* Only an add sets a connection's time: however much it is used, it gets  *)
(* stale.                                                                  *)
GetStale(p) ==
    /\ connections[p] = "fresh"
    /\ connections' = [connections EXCEPT ![p] = "stale"]
    /\ UNCHANGED <<poolCounts, poolBox>>

PoolNext ==
    \/ \E c \in PoolCallers :
        \/ \E kind \in PoolKinds, p \in PoolPeers : SendPoolCommand(c, kind, p)
        \/ GiveUpPool(c)
    \/ Answer \/ AddConnection \/ RemoveConnection \/ PoolMetrics
    \/ PerformHealthCheck
    \/ \E p \in PoolPeers : GetStale(p)
=============================================================================
