--------------------------- MODULE BreakerRegistry ---------------------------
(***************************************************************************)
(* CircuitBreakerManager (circuit_breaker.rs:329): a map from services to  *)
(* breakers, looked up under the read lock and filled under the write lock.*)
(* What a breaker does is the module CircuitBreaker; here it has a number  *)
(* and counts the failures its holders recorded in it.                     *)
(***************************************************************************)
EXTENDS Integers

CONSTANTS
    BreakerUsers, BreakerServices,
    MaxBreakers  \* bound on breakers created and failures recorded

VARIABLES
    registry,    \* per service: the number of its breaker, 0 for none
    users,       \* per user [pc, service, breaker]
    breakers,    \* number of breakers created
    failures     \* per breaker: failures recorded

registryVars == <<registry, users, breakers, failures>>

RegistryInit ==
    /\ registry = [s \in BreakerServices |-> 0]
    /\ users = [u \in BreakerUsers |-> [pc |-> "idle", service |-> "none", breaker |-> 0]]
    /\ breakers = 0 /\ failures = [b \in 1..MaxBreakers |-> 0]

(* get_breaker: the breaker found, or a new one to be inserted.            *)
GetBreaker(u, s) ==
    /\ users[u].pc = "idle"
    /\ IF registry[s] # 0
       THEN /\ users' = [users EXCEPT ![u] = [pc |-> "idle", service |-> s, breaker |-> registry[s]]]
            /\ UNCHANGED breakers
       ELSE /\ breakers < MaxBreakers /\ breakers' = breakers + 1
            /\ users' = [users EXCEPT ![u] = [pc |-> "insert", service |-> s, breaker |-> breakers']]
    /\ UNCHANGED <<registry, failures>>

(* The write lock: whatever was inserted since the lookup is replaced.     *)
InsertBreaker(u) ==
    /\ users[u].pc = "insert"
    /\ registry' = [registry EXCEPT ![users[u].service] = users[u].breaker]
    /\ users' = [users EXCEPT ![u].pc = "idle"]
    /\ UNCHANGED <<breakers, failures>>

(* External: a user calls through the breaker it was given.                *)
RecordBreakerFailure(u) ==
    LET b == users[u].breaker
    IN  /\ users[u].pc = "idle" /\ b # 0 /\ failures[b] < MaxBreakers
        /\ failures' = [failures EXCEPT ![b] = @ + 1]
        /\ UNCHANGED <<registry, users, breakers>>

RegistryNext ==
    \E u \in BreakerUsers :
        (\E s \in BreakerServices : GetBreaker(u, s)) \/ InsertBreaker(u) \/ RecordBreakerFailure(u)

(* get_all_metrics: what the registered breakers counted.                  *)
AllMetrics == [s \in {t \in BreakerServices : registry[t] # 0} |-> failures[registry[s]]]
=============================================================================
