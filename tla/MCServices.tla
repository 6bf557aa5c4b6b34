---------------------------- MODULE MCServices ----------------------------
(* Services for TLC; constants that are records get their values here, the *)
(* others in Services.cfg.                                                 *)
EXTENDS Services

SomeOccurrences ==
    {[kind |-> "member_added", node |-> "n1"], [kind |-> "snapshot_completed", node |-> NoNode]}

SomeFilters == {[types |-> {}, nodes |-> {"n2"}]}

Local ==
    {"status", "connections", "lock free", "latencies", "breaker", "breakers",
     "event loop", "proposals", "processing", "storage", "events", "discovery", "streams",
     "authorization", "facade", "api", "configuration", "key values", "store", "store node",
     "codec", "installation", "deployment", "backups"} \cup MonitoringParts

SomeStrings == {<<>>, <<0>>, <<1, 2>>}

SomeNodes(ids, places) == [i \in 1..3 |-> [node_id |-> ids[i], endpoint |-> places[i]]]
SomeDeployments ==
    {SomeNodes(<<1, 2, 3>>, <<1, 2, 3>>), SomeNodes(<<1, 2, 2>>, <<1, 2, 3>>),
     SomeNodes(<<1, 2, 3>>, <<1, 2, 2>>), SubSeq(SomeNodes(<<1, 2, 3>>, <<1, 2, 3>>), 1, 2)}
===========================================================================
