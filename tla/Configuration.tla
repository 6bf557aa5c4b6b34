---------------------------- MODULE Configuration ----------------------------
(***************************************************************************)
(* How a configuration comes about (config.rs): a preset changed by the    *)
(* builder's setters, or the defaults or a file overridden by environment  *)
(* variables; and the validation it must pass. Modelled are the fields the *)
(* validation reads and those the overrides share with the setters; the    *)
(* others are stored as given and read back. Durations are milliseconds.   *)
(***************************************************************************)
EXTENDS Integers, Sequences, SequencesExt

CONSTANTS
    Durations,   \* inputs of the timeout setters and of a file
    Addresses,   \* parsable addresses; "bad" stands for the others
    MaxPeers     \* bound on peers

VARIABLES
    config,      \* the configuration so far
    stage        \* "builder", "file", "overridden" (may be validated), "accepted", "rejected"

configVars == <<config, stage>>

Preset(min, max, heartbeat, level, metrics) ==
    [id |-> FALSE, dir |-> TRUE, min |-> min, max |-> max, heartbeat |-> heartbeat,
     peers |-> <<>>, bind |-> "random", level |-> level, rate |-> 10,
     metrics |-> metrics, tracing |-> FALSE]

DefaultConfig == Preset(3000, 5000, 1000, "info", TRUE)

Presets ==
    {DefaultConfig,
     Preset(1000, 2000, 250, "debug", TRUE),    \* development
     Preset(5000, 10000, 1000, "info", TRUE),   \* production
     Preset(500, 1000, 100, "warn", FALSE)}     \* testing

ConfigInit == config \in Presets /\ stage = "builder"

Set(c) == config' = c /\ UNCHANGED stage

NodeId == Set([config EXCEPT !.id = TRUE])
DataDir(given) == Set([config EXCEPT !.dir = given])

(* The upper end is always two seconds above the lower one.                *)
ElectionTimeout(d) == Set([config EXCEPT !.min = d, !.max = d + 2000])
HeartbeatInterval(d) == Set([config EXCEPT !.heartbeat = d])

(* An address that does not parse: a peer is skipped, a bind address gives *)
(* way to a random port.                                                   *)
AddPeer(a) ==
    /\ Len(config.peers) < MaxPeers
    /\ Set([config EXCEPT !.peers = IF a = "bad" THEN @ ELSE Append(@, a)])
SetPeers(given) == Set([config EXCEPT !.peers = SelectSeq(given, LAMBDA a : a # "bad")])
BindAddress(a) == Set([config EXCEPT !.bind = IF a = "bad" THEN "random" ELSE a])

LogLevel(level) == Set([config EXCEPT !.level = level])
Metrics(enabled) == Set([config EXCEPT !.metrics = enabled])
Tracing == Set([config EXCEPT !.tracing = TRUE])
TracingSampleRate(rate) == Set([config EXCEPT !.rate = rate])

PeerLists == {<<a, b>> : a, b \in Addresses \cup {"bad"}}

Setter ==
    /\ stage = "builder"
    /\ \/ NodeId \/ Tracing
       \/ \E given \in BOOLEAN : DataDir(given) \/ Metrics(given)
       \/ \E d \in Durations : ElectionTimeout(d) \/ HeartbeatInterval(d)
       \/ \E a \in Addresses \cup {"bad"} : AddPeer(a) \/ BindAddress(a)
       \/ \E given \in PeerLists : SetPeers(given)
       \/ LogLevel("loud")
       \/ TracingSampleRate(150)

(* A file sets any field it names, in any combination.                     *)
FromFile ==
    /\ stage = "builder" /\ config = DefaultConfig
    /\ \E min, max, heartbeat \in Durations, id \in BOOLEAN :
          config' = [config EXCEPT !.min = min, !.max = max, !.heartbeat = heartbeat, !.id = id]
    /\ stage' = "file"

FromEnv ==
    /\ stage = "builder" /\ config = DefaultConfig
    /\ stage' = "file" /\ UNCHANGED config

(* Variables are read in a fixed order, and those that do not parse end    *)
(* the load, but for the two switches, which take a default instead; "":   *)
(* the variable is not set. Unlike a setter, a bad peer or bind address is *)
(* an error.                                                               *)
ApplyEnvOverrides ==
    /\ stage = "file"
    /\ \E id, metrics \in {"", "good", "bad"}, bind \in {"", "bad"} \cup Addresses,
          peers \in {<<>>, <<"bad">>} \cup {<<a>> : a \in Addresses}, d \in Durations \cup {0} :
        /\ stage' = IF "bad" \in {id, bind} \cup ToSet(peers) THEN "rejected" ELSE "overridden"
        /\ config' = [config EXCEPT
              !.id = @ \/ id = "good",
              !.bind = IF bind = "" THEN @ ELSE bind,
              !.peers = IF peers = <<>> THEN @ ELSE peers,
              !.min = IF d = 0 THEN @ ELSE d,
              !.max = IF d = 0 THEN @ ELSE d + 2000,
              !.metrics = CASE metrics = "" -> @ [] metrics = "good" -> FALSE [] OTHER -> TRUE]

Valid(c) ==
    /\ c.id /\ c.dir
    /\ c.heartbeat < c.min
    /\ c.min < c.max
    /\ IsInjective(c.peers)
    /\ c.level \in {"trace", "debug", "info", "warn", "error"}
    /\ c.rate \in 0..100

(* build() for the builder, the end of from_file and from_env.             *)
Build ==
    /\ stage \in {"builder", "overridden"}
    /\ stage' = IF Valid(config) THEN "accepted" ELSE "rejected"
    /\ UNCHANGED config

ConfigNext == Setter \/ FromFile \/ FromEnv \/ ApplyEnvOverrides \/ Build
=============================================================================
