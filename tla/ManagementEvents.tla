-------------------------- MODULE ManagementEvents --------------------------
(***************************************************************************)
(* Cluster events from publishers to subscribers: subscribe_to_events and  *)
(* publish_event of ManagementProtocolHandler                              *)
(* (src/src/management/protocol.rs), which visits a concurrent map of      *)
(* channels while subscribers come and go, and the EventStream with its    *)
(* EventFilter (src/src/management/events.rs) that reads one of them.      *)
(***************************************************************************)
EXTENDS Integers, Sequences, SequencesExt

CONSTANTS
    Publishers,    \* tasks that call publish_event
    Subscriptions, \* subscription ids
    Occurrences,   \* what happens: [kind, node], node = NoNode where there is none
    Filters,       \* EventFilters [types, nodes]; empty sets filter nothing
    NoNode,
    MaxEvents,     \* bound on events published by a publisher
    MaxOpened      \* bound on subscriptions opened

VARIABLES
    subscribers, \* per id: the channel registered (its number under that id), 0: none
    streams,     \* per id: the last stream opened [number, open, filter, channel, missed];
                 \* missed: events whose publication began before it was opened
    seen,        \* per id: what try_next of that stream has answered, in order
    publishers   \* per publisher [events, busy, left, closed]: what it published, whether
                 \* the last is in work, ids still to visit and ids found closed

ASSUME EventAssumption == MaxEvents \in Nat

eventVars == <<subscribers, streams, seen, publishers>>

EventInit ==
    /\ subscribers = [i \in Subscriptions |-> 0]
    /\ streams = [i \in Subscriptions |->
          [number |-> 0, open |-> FALSE, filter |-> [types |-> {}, nodes |-> {}],
           channel |-> <<>>, missed |-> {}]]
    /\ seen = [i \in Subscriptions |-> <<>>]
    /\ publishers = [p \in Publishers |->
          [events |-> <<>>, busy |-> FALSE, left |-> {}, closed |-> {}]]

---------------------------------------------------------------------------
(* Events and filters *)

NodeKinds == {"leader_elected", "leadership_transferred", "leader_stepped_down",
              "member_added", "member_removed", "member_role_changed", "member_health_changed"}

(* An event is known as <<publisher, number>>.                             *)
Event(e) == publishers[e[1]].events[e[2]]
EventNode(e) == IF Event(e).kind \in NodeKinds THEN Event(e).node ELSE NoNode

(* An event without a node passes every filter of nodes.                   *)
Matches(filter, e) ==
    /\ filter.types = {} \/ Event(e).kind \in filter.types
    /\ filter.nodes = {} \/ EventNode(e) = NoNode \/ EventNode(e) \in filter.nodes

---------------------------------------------------------------------------
(* Subscribers *)

(* A subscription under an id in use replaces the sender, and so ends the  *)
(* stream that had it.                                                     *)
Subscribe(i, filter) ==
    /\ MapThenSumSet(LAMBDA j : streams[j].number, Subscriptions) < MaxOpened
    /\ streams' = [streams EXCEPT ![i] =
          [number |-> @.number + 1, open |-> TRUE, filter |-> filter, channel |-> <<>>,
           missed |-> {e \in Publishers \X (1..MaxEvents) : e[2] <= Len(publishers[e[1]].events)}]]
    /\ subscribers' = [subscribers EXCEPT ![i] = streams'[i].number]
    /\ seen' = [seen EXCEPT ![i] = <<>>]
    /\ UNCHANGED publishers

CloseStream(i) ==
    /\ streams[i].open
    /\ streams' = [streams EXCEPT ![i].open = FALSE, ![i].channel = <<>>]
    /\ UNCHANGED <<subscribers, seen, publishers>>

(* try_next skips what the filter refuses; poll_next does the same.        *)
TryNext(i) ==
    LET c == streams[i].channel
        passing == {k \in DOMAIN c : Matches(streams[i].filter, c[k])}
    IN  /\ c # <<>>
        /\ IF passing = {}
           THEN streams' = [streams EXCEPT ![i].channel = <<>>] /\ UNCHANGED seen
           ELSE LET k == CHOOSE k \in passing : \A j \in passing : k <= j
                IN  /\ streams' = [streams EXCEPT ![i].channel = SubSeq(c, k + 1, Len(c))]
                    /\ seen' = [seen EXCEPT ![i] = Append(@, c[k])]
        /\ UNCHANGED <<subscribers, publishers>>

---------------------------------------------------------------------------
(* Publishers *)

Publish(p, what) ==
    /\ ~publishers[p].busy /\ Len(publishers[p].events) < MaxEvents
    /\ publishers' = [publishers EXCEPT ![p] =
          [events |-> Append(@.events, what), busy |-> TRUE,
           left |-> Subscriptions, closed |-> {}]]
    /\ UNCHANGED <<subscribers, streams, seen>>

(* The iterator comes to an id: a send to its channel, if it has one.      *)
Visit(p, i) ==
    /\ i \in publishers[p].left
    /\ LET delivered == subscribers[i] = streams[i].number /\ streams[i].open
       IN  /\ publishers' = [publishers EXCEPT ![p].left = @ \ {i},
                ![p].closed = IF subscribers[i] # 0 /\ ~delivered THEN @ \cup {i} ELSE @]
           /\ streams' = IF subscribers[i] # 0 /\ delivered
                         THEN [streams EXCEPT ![i].channel = Append(@, <<p, Len(publishers[p].events)>>)]
                         ELSE streams
    /\ UNCHANGED <<subscribers, seen>>

(* A slip: one send that failed clears every subscription. *)
SlipCleanUp(p) ==
    /\ publishers[p].busy /\ publishers[p].left = {}
    /\ subscribers' = [i \in Subscriptions |->
                        IF publishers[p].closed # {} THEN 0 ELSE subscribers[i]]
    /\ publishers' = [publishers EXCEPT ![p].busy = FALSE, ![p].closed = {}]
    /\ UNCHANGED <<streams, seen>>

(* Ids that were found closed are removed, by id: also one that has been   *)
(* subscribed anew since.                                                  *)
CleanUp(p) ==
    /\ publishers[p].busy /\ publishers[p].left = {}
    /\ subscribers' = [i \in Subscriptions |->
                        IF i \in publishers[p].closed THEN 0 ELSE subscribers[i]]
    /\ publishers' = [publishers EXCEPT ![p].busy = FALSE, ![p].closed = {}]
    /\ UNCHANGED <<streams, seen>>

EventNext ==
    \/ \E p \in Publishers :
        \/ \E what \in Occurrences : Publish(p, what)
        \/ \E i \in Subscriptions : Visit(p, i)
        \/ CleanUp(p)
    \/ \E i \in Subscriptions :
        (\E filter \in Filters : Subscribe(i, filter)) \/ CloseStream(i) \/ TryNext(i)

---------------------------------------------------------------------------
(* Properties *)

Got(i) == ToSet(seen[i]) \cup ToSet(streams[i].channel)

(* The first stream under an id gets every event that is published from    *)
(* its subscription on, unless its filter refuses it, however publishers   *)
(* interleave and other subscribers come and go.  Only a stream that       *)
(* reuses an id can be cut off, by the removal of the one before it.       *)
FirstStreamsMissNothing ==
    \A i \in Subscriptions :
        streams[i].number = 1 /\ streams[i].open =>
            \A p \in Publishers : \A n \in DOMAIN publishers[p].events :
                \/ <<p, n>> \in streams[i].missed \cup Got(i)
                \/ publishers[p].busy /\ n = Len(publishers[p].events)
                \/ ~Matches(streams[i].filter, <<p, n>>)
=============================================================================
