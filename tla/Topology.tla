------------------------------- MODULE Topology -------------------------------
(***************************************************************************)
(* What the Controller promises about its route table, and the part of     *)
(* runtime_state.rs that keeps the promise: a version that only a durable  *)
(* counter hands out, the table of one model instance, and the bounded     *)
(* list of revisions from which a watcher is brought up to date.           *)
(*                                                                         *)
(* The Controller serves one instance (its resolver rejects every other),  *)
(* so the map of topologies is one table. A route is the set of Worker     *)
(* processes that serve an expert: the code's list is sorted, so a set     *)
(* carries the same information, and a removed route is the empty set.     *)
(* `version = 0' is "no topology entry yet".                               *)
(***************************************************************************)
EXTENDS Integers, Sequences

CONSTANTS
    Experts,       \* expert keys (layer, expert) of the model
    Replicas,      \* Worker processes a route may name
    HistoryLimit,  \* revisions kept for watchers
    MaxVersion     \* bound: versions handed out by the store

ASSUME HistoryLimitAssumption == HistoryLimit \in Nat \ {0}
ASSUME MaxVersionAssumption == MaxVersion \in Nat

VARIABLES
    version,  \* InstanceTopology.version, in memory
    routes,   \* InstanceTopology.routes, in memory
    history,  \* InstanceTopology.history, in memory
    stored    \* the counter in controller_v2_topology, durable

topologyVars == <<version, routes, history, stored>>

RouteTables == [Experts -> SUBSET Replicas]

NoRoutes == [k \in Experts |-> {}]

Revisions ==
    [previous : Nat, version : Nat,
     changes  : UNION {[keys -> SUBSET Replicas] : keys \in SUBSET Experts}]

TopologyTypeOK ==
    /\ version \in Nat
    /\ routes \in RouteTables
    /\ history \in Seq(Revisions)
    /\ stored \in Nat

-----------------------------------------------------------------------------
\* Faulty variant: a counter that trusts memory alone.
NextVersionFromMemory == version + 1

(* advance_topology_version: newer than the stored and the current value. *)
NextVersion == (IF stored > version THEN stored ELSE version) + 1

(* The same call made by restore, where the current value is the stored one. *)
RestoredVersion == stored + 1

Changed(new) == {k \in Experts : new[k] # routes[k]}

Revision(new) ==
    [previous |-> version, version |-> NextVersion,
     changes  |-> [k \in Changed(new) |-> new[k]]]

(* History never exceeds the limit, so one pop restores the bound. *)
Retained(revisions) ==
    IF Len(revisions) > HistoryLimit THEN Tail(revisions) ELSE revisions

(***************************************************************************)
(* The second half of publish_routes: the store advances first, then the   *)
(* table, the version and the history change together.                     *)
(***************************************************************************)
Publish(new) ==
    /\ new # routes
    /\ NextVersion =< MaxVersion
    /\ routes' = new
    /\ version' = NextVersion
    /\ history' = Retained(Append(history, Revision(new)))
    /\ stored' = NextVersion

(* The store reports an error; the row may have been written all the same. *)
AdvanceFails ==
    /\ NextVersion =< MaxVersion
    /\ stored' \in {stored, NextVersion}
    /\ UNCHANGED <<version, routes, history>>

(***************************************************************************)
(* A new Controller process. An instance the store knows resumes with an   *)
(* empty table under a version no watcher has seen; an unknown one has no  *)
(* entry yet.                                                              *)
(***************************************************************************)
Restore(known) ==
    /\ IF known
         THEN /\ RestoredVersion =< MaxVersion
              /\ version' = RestoredVersion
              /\ stored' = RestoredVersion
         ELSE version' = 0 /\ UNCHANGED stored
    /\ routes' = NoRoutes
    /\ history' = <<>>

TopologyInit ==
    /\ version = 0
    /\ routes = NoRoutes
    /\ history = <<>>
    /\ stored = 0

TopologyNext ==
    \/ \E new \in RouteTables : Publish(new)
    \/ AdvanceFails
    \/ \E known \in BOOLEAN : (stored > 0 => known) /\ Restore(known)

TopologySpec == TopologyInit /\ [][TopologyNext]_topologyVars

-----------------------------------------------------------------------------
(* The revisions kept for watchers join end to end and end at the current
   version, so topology_messages can replay them. (publish_routes) *)
HistoryJoined ==
    /\ Len(history) =< HistoryLimit
    /\ \A i \in 1..Len(history) :
         /\ history[i].previous < history[i].version
         /\ history[i].version =
              IF i = Len(history) THEN version ELSE history[i + 1].previous

(* No version ever names two route tables, through failed store calls and
   restarts alike: whenever the table or the process changes, the version
   moves to a value above every one handed out before. (publish_routes,
   restore, advance_topology_version) *)
VersionNeverReused ==
    [][ /\ version' >= version
        /\ (routes' # routes => version' > version)
        /\ (version' # version => version' > stored) ]_topologyVars
=============================================================================
