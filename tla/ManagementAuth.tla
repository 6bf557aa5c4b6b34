--------------------------- MODULE ManagementAuth ---------------------------
(***************************************************************************)
(* AuthManager and IrohAuth (src/src/management/auth.rs).  A token is      *)
(* known by its node, peer, role and issuer, and by whether it is still    *)
(* valid in time; its signature is a function of the rest.                 *)
(***************************************************************************)
EXTENDS Integers, FiniteSets

CONSTANTS AuthNodes, Peers, Issuers

Roles == {"Admin", "Observer", "MemberManager", "Monitor"}

ReadOnly == {"get_cluster_status", "get_configuration", "get_metrics", "get_health_status",
             "get_log_info", "get_log_entries", "get_snapshot_info", "list_backups"}
MemberOperations == {"add_member", "remove_member", "update_member_role"}
OtherOperations == {"transfer_leadership", "step_down", "update_configuration", "compact_log",
                    "trigger_snapshot", "create_backup", "restore_backup"}
AllOperations == ReadOnly \cup MemberOperations \cup OtherOperations

(* The default permissions of a role.                                      *)
Allowed(role) ==
    CASE role = "Admin" -> AllOperations
      [] role = "Observer" -> ReadOnly
      [] role = "MemberManager" -> MemberOperations \cup
            {"get_cluster_status", "get_configuration", "get_health_status"}
      [] role = "Monitor" -> {"get_cluster_status", "get_metrics", "get_health_status"}

VARIABLES
    issuers,    \* trusted issuers
    tokens,     \* active_tokens: per node the token issued last [peer, role, by, valid], or none
    restricted, \* per role: nodes its operations may not target
    whitelist,  \* peers allowed to connect; empty: all
    admitted    \* the node last let through, or NotAdmitted

authVars == <<issuers, tokens, restricted, whitelist, admitted>>

NoToken == [peer |-> "none", role |-> "none", by |-> "none", valid |-> FALSE]
NotAdmitted == "nobody"

AuthInit ==
    /\ issuers = {} /\ whitelist = {}
    /\ tokens = [n \in AuthNodes |-> NoToken]
    /\ restricted = [r \in Roles |-> {}]
    /\ admitted = NotAdmitted

SetIssuer(i) ==
    /\ issuers' \in {issuers \cup {i}, issuers \ {i}}
    /\ UNCHANGED <<tokens, restricted, whitelist, admitted>>

SetWhitelist(p) ==
    /\ whitelist' \in {whitelist \cup {p}, whitelist \ {p}}
    /\ UNCHANGED <<issuers, tokens, restricted, admitted>>

UpdateRolePermission(r, nodes) ==
    /\ restricted' = [restricted EXCEPT ![r] = nodes]
    /\ UNCHANGED <<issuers, tokens, whitelist, admitted>>

(* A token replaces the one its node had.                                  *)
IssueToken(n, p, r, i) ==
    /\ i \in issuers
    /\ tokens' = [tokens EXCEPT ![n] = [peer |-> p, role |-> r, by |-> i, valid |-> TRUE]]
    /\ UNCHANGED <<issuers, restricted, whitelist, admitted>>

RevokeToken(n) ==
    /\ tokens' = [tokens EXCEPT ![n] = NoToken]
    /\ UNCHANGED <<issuers, restricted, whitelist, admitted>>

Active == {n \in AuthNodes : tokens[n] # NoToken}

CleanupExpired ==
    /\ tokens' = [n \in AuthNodes |->
            IF n \in Active /\ ~tokens[n].valid THEN NoToken ELSE tokens[n]]
    /\ UNCHANGED <<issuers, restricted, whitelist, admitted>>

TokenExpires(n) ==
    /\ n \in Active
    /\ tokens' = [tokens EXCEPT ![n].valid = FALSE]
    /\ UNCHANGED <<issuers, restricted, whitelist, admitted>>

(* validate_token does not ask whether the token is active.                *)
ValidateToken(t) == t.valid /\ t.by \in issuers

CheckPermission(t, operation, target) ==
    /\ ValidateToken(t)
    /\ operation \in Allowed(t.role)
    /\ operation \in MemberOperations \cup {"transfer_leadership"} => target \notin restricted[t.role]

AuthenticateConnection(p, n) ==
    /\ admitted' = IF /\ whitelist = {} \/ p \in whitelist
                      /\ n \in Active /\ tokens[n].peer = p /\ ValidateToken(tokens[n])
                   THEN n ELSE NotAdmitted
    /\ UNCHANGED <<issuers, tokens, restricted, whitelist>>

(* A request that comes with the token of its node.                        *)
UseToken(n, operation, target) ==
    /\ n \in Active
    /\ admitted' = IF CheckPermission(tokens[n], operation, target) THEN n ELSE NotAdmitted
    /\ UNCHANGED <<issuers, tokens, restricted, whitelist>>

AuthNext ==
    \/ \E i \in Issuers : SetIssuer(i)
    \/ \E p \in Peers : SetWhitelist(p)
    \/ \E r \in {"Monitor", "MemberManager"}, nodes \in SUBSET AuthNodes : UpdateRolePermission(r, nodes)
    \/ \E n \in AuthNodes :
        \/ \E p \in Peers, r \in Roles, i \in Issuers : IssueToken(n, p, r, i)
        \/ RevokeToken(n) \/ TokenExpires(n)
        \/ \E p \in Peers : AuthenticateConnection(p, n)
        \/ \E operation \in AllOperations, target \in AuthNodes : UseToken(n, operation, target)
    \/ CleanupExpired
=============================================================================
