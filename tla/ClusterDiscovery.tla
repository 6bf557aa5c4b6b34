-------------------------- MODULE ClusterDiscovery --------------------------
(***************************************************************************)
(* ClusterDiscovery (src/src/management/discovery.rs): what a coordinator  *)
(* knows of clusters, from its own (placeholder) discovery and from the    *)
(* messages of members and of other coordinators, which arrive in any      *)
(* order, late, or more than once.  Each message is handled under the      *)
(* write lock of the cache.                                                *)
(***************************************************************************)
EXTENDS Integers, FiniteSets

CONSTANTS
    Clusters,      \* cluster ids
    LocalCluster,  \* local_cluster_id, that bootstrap requests are answered for
    DiscoveryNodes,\* node ids that appear in messages
    Placeholder,   \* the members the placeholder discovery answers (1, 2 and 3)
    NoLeader

VARIABLES
    known,    \* per cluster: [cached, recent, members, leader]; members: a set of
              \* [id, healthy, fresh]; recent: discovered_at is within 60 seconds
    heard     \* the last answer: a cluster's information, or Nothing

discoveryVars == <<known, heard>>

Nothing == [leader |-> NoLeader, members |-> {}]
Unknown == [cached |-> FALSE, recent |-> FALSE, members |-> {}, leader |-> NoLeader]
Member(n, healthy) == [id |-> n, healthy |-> healthy, fresh |-> TRUE]

DiscoveryInit ==
    /\ known = [c \in Clusters |-> Unknown]
    /\ heard = Nothing

Information(c) == [leader |-> known[c].leader, members |-> known[c].members]
Discovered(members, lead) == [cached |-> TRUE, recent |-> TRUE, members |-> members, leader |-> lead]

(* Information younger than a minute is answered as it is, be it no more   *)
(* than one announcement; else discovery replaces it.                      *)
DiscoverCluster(c) ==
    /\ known' = IF known[c].recent THEN known
                ELSE [known EXCEPT ![c] = Discovered({Member(n, TRUE) : n \in Placeholder},
                                                     CHOOSE n \in Placeholder : \A m \in Placeholder : n <= m)]
    /\ heard' = [leader |-> known'[c].leader, members |-> known'[c].members]

(* QueryCluster, and BootstrapRequest for the local cluster.               *)
AnswerQuery(c) ==
    /\ heard' = IF known[c].cached THEN Information(c) ELSE Nothing
    /\ UNCHANGED known

AnswerBootstrap(c) ==
    /\ heard' = IF c = LocalCluster /\ known[c].cached THEN Information(c) ELSE Nothing
    /\ UNCHANGED known

(* ClusterInfo of another coordinator replaces all that was known.         *)
ReceiveInfo(c, members, lead) ==
    /\ known' = [known EXCEPT ![c] = Discovered(members, lead)]
    /\ heard' = Nothing

(* The first announcement of a cluster begins its information, which then  *)
(* counts as discovered.                                                   *)
Announce(c, n, healthy) ==
    /\ known' = [known EXCEPT ![c] =
          IF known[c].cached
          THEN [@ EXCEPT !.members = {m \in @ : m.id # n} \cup {Member(n, healthy)}]
          ELSE Discovered({Member(n, healthy)}, NoLeader)]
    /\ heard' = Nothing

Heartbeat(c, n, healthy) ==
    /\ known' = [known EXCEPT ![c].members =
          {IF m.id = n THEN Member(n, healthy) ELSE m : m \in @}]
    /\ heard' = Nothing

(* A departure leaves the leader as it was, also when it departed.         *)
Departure(c, n) ==
    /\ known' = [known EXCEPT ![c].members = {m \in @ : m.id # n}]
    /\ heard' = Nothing

ClearCache ==
    /\ known' = [c \in Clusters |-> Unknown]
    /\ UNCHANGED heard

CleanupStaleMembers ==
    /\ known' = [c \in Clusters |-> [known[c] EXCEPT !.members = {m \in @ : m.fresh}]]
    /\ UNCHANGED heard

(* Time: a member not heard of for max_age, and information a minute old.  *)
MemberAges(c, n) ==
    /\ known' = [known EXCEPT ![c].members =
          {IF m.id = n THEN [m EXCEPT !.fresh = FALSE] ELSE m : m \in @}]
    /\ UNCHANGED heard

InformationAges(c) ==
    /\ known' = [known EXCEPT ![c].recent = FALSE]
    /\ UNCHANGED heard

DiscoveryNext ==
    \/ \E c \in Clusters :
        \/ DiscoverCluster(c) \/ AnswerQuery(c) \/ AnswerBootstrap(c) \/ InformationAges(c)
        \/ \E ids \in SUBSET DiscoveryNodes, lead \in DiscoveryNodes \cup {NoLeader} :
                ReceiveInfo(c, {Member(n, TRUE) : n \in ids}, lead)
        \/ \E n \in DiscoveryNodes :
            \/ \E healthy \in BOOLEAN : Announce(c, n, healthy) \/ Heartbeat(c, n, healthy)
            \/ Departure(c, n) \/ MemberAges(c, n)
    \/ ClearCache \/ CleanupStaleMembers
=============================================================================
