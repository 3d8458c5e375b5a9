---------------------------- MODULE ControllerState ----------------------------
(***************************************************************************)
(* The Controller's runtime state (controller/runtime_state.rs) over its   *)
(* durable store (controller/state_store.rs): registrations, heartbeat     *)
(* leases, placements with their generations, expert state reports, drain  *)
(* authorizations and the published routes.                                *)
(*                                                                         *)
(* Every operation holds the write lock from its first read to its last    *)
(* write, so each is one action. What interrupts it is the store: a call   *)
(* that fails after or before it took effect, or the request handler being *)
(* dropped while the call is pending. An operation that returns early      *)
(* without a change (a replaced start, a stale lease, an old sequence, a   *)
(* generation mismatch, a placement that is too large) is not enabled.     *)
(*                                                                         *)
(* Data kept abstract: a start id, an expert key and a peer list are model *)
(* values; the static registration fields are left out; EXPERT_FAILED and  *)
(* EXPERT_REMOVED are one kind, since every reader only asks for READY; a  *)
(* drain list is a set, ordered by the ids it carries. Sequence number 0,  *)
(* generation 0 and lease 0 stand for None, no placement and no stream.    *)
(***************************************************************************)
EXTENDS Integers, Sequences, FiniteSets

CONSTANTS
    Workers,            \* logical Worker ids
    Starts,             \* process start ids
    NoStart,            \* the start of a Worker that is not registered
    Experts,            \* expert keys of the model
    Peers,              \* peer endpoint lists a target may carry
    MaxExperts,         \* device capacity of a registration
    HandlersCancelled,  \* may a request handler be dropped mid-operation?
    HistoryLimit,       \* revisions kept for watchers
    MaxVersion,         \* bound: topology versions
    MaxGeneration,      \* bound: placement generations
    MaxLease,           \* bound: heartbeat streams per Controller process
    MaxSequence,        \* bound: heartbeat sequence numbers
    MaxReport,          \* bound: report sequence numbers
    MaxDrain            \* bound: drain ids per Controller process

ASSUME StartAssumption == NoStart \notin Starts
ASSUME CancelAssumption == HandlersCancelled \in BOOLEAN
ASSUME LimitAssumption == HistoryLimit \in Nat \ {0}
ASSUME BoundAssumption ==
    /\ MaxVersion \in Nat /\ MaxGeneration \in Nat /\ MaxLease \in Nat
    /\ MaxSequence \in Nat /\ MaxReport \in Nat /\ MaxDrain \in Nat

VARIABLES
    workers,     \* Inner.workers; start = NoStart is an absent entry
    persisted,   \* Inner.persisted_placements, the in-memory mirror
    placements,  \* controller_v2_placement, durable
    nextLease,   \* Inner.next_heartbeat_lease
    nextDrain,   \* Inner.next_drain_id
    version, routes, history, stored

Processes == Workers \X Starts

Table == INSTANCE Topology WITH Replicas <- Processes

topologyVars == <<version, routes, history, stored>>
counters == <<nextLease, nextDrain>>
vars == <<workers, persisted, placements, counters, topologyVars>>

-----------------------------------------------------------------------------
TargetLists == UNION {[keys -> Peers] : keys \in SUBSET Experts}
NoTargets == [k \in {} |-> NoStart]

Kinds == {"READY", "FAILED"}
StateMaps == UNION {[keys -> Kinds] : keys \in SUBSET Experts}
NoStates == [k \in {} |-> "FAILED"]

RunStates == {"RUNNING", "SHUTTING_DOWN"}

Placements == [gen : Nat, targets : TargetLists]
NoPlacement == [gen |-> 0, targets |-> NoTargets]

DrainRecords ==
    [id : Nat, gen : Nat, minVersion : Nat, stopAll : BOOLEAN,
     experts : SUBSET Experts, completed : BOOLEAN]

WorkerRecords ==
    [start : Starts \union {NoStart}, live : BOOLEAN, included : BOOLEAN,
     lease : Nat, open : BOOLEAN, sequence : Nat, run : RunStates,
     gen : Nat, targets : TargetLists, states : StateMaps, report : Nat,
     drains : SUBSET DrainRecords]

\* Faulty variant: "no heartbeat yet" as -1, outside the unsigned range.
FreshRecordSigned(s, carried) ==
    [start |-> s, live |-> FALSE, included |-> TRUE, lease |-> 0,
     open |-> FALSE, sequence |-> -1, run |-> "RUNNING", gen |-> carried.gen,
     targets |-> carried.targets, states |-> NoStates, report |-> 0,
     drains |-> {}]

(* The record register() inserts. *)
FreshRecord(s, carried) ==
    [start |-> s, live |-> FALSE, included |-> TRUE, lease |-> 0,
     open |-> FALSE, sequence |-> 0, run |-> "RUNNING", gen |-> carried.gen,
     targets |-> carried.targets, states |-> NoStates, report |-> 0,
     drains |-> {}]

Registered(w) == workers[w].start # NoStart

(* ensure_current_start *)
Current(w, s) == workers[w].start = s

PlacementOf(rec) == [gen |-> rec.gen, targets |-> rec.targets]

IsReady(rec, k) == k \in DOMAIN rec.states /\ rec.states[k] = "READY"

(* ready_keys: reported ready, a target or not *)
ReadyKeys(rec) == {k \in Experts : IsReady(rec, k)}

Process(w, rec) == <<w, rec.start>>

TypeOK ==
    /\ workers \in [Workers -> WorkerRecords]
    /\ persisted \in [Workers -> Placements]
    /\ placements \in [Workers -> Placements]
    /\ nextLease \in Nat
    /\ nextDrain \in Nat
    /\ Table!TopologyTypeOK

-----------------------------------------------------------------------------
(* Who publish_routes lists for an expert. *)
Serves(rec, k) ==
    /\ rec.start # NoStart
    /\ rec.live
    /\ rec.included
    /\ k \in DOMAIN rec.targets
    /\ IsReady(rec, k)

Serving(ws, k) == {Process(w, ws[w]) : w \in {v \in Workers : Serves(ws[v], k)}}

\* Faulty variant: replicas are added to a route and never taken out.
NewRoutesOnlyAdding(ws, affected) ==
    [k \in Experts |-> routes[k] \union (IF k \in affected THEN Serving(ws, k) ELSE {})]

(* Only the affected keys are recomputed; every other route is kept. *)
NewRoutes(ws, affected) ==
    [k \in Experts |-> IF k \in affected THEN Serving(ws, k) ELSE routes[k]]

(* publish_routes succeeds; nothing is published when no route changes. *)
Published(ws, affected) ==
    LET new == NewRoutes(ws, affected)
    IN  IF new = routes THEN UNCHANGED topologyVars ELSE Table!Publish(new)

(* publish_routes reaches the store and does not get past it. *)
Unpublished(ws, affected) == NewRoutes(ws, affected) # routes /\ Table!AdvanceFails

(***************************************************************************)
(* The end every operation shares: publish_routes and what its caller does *)
(* with the result. On an error the caller puts the previous record back.  *)
(* A handler dropped at the store call leaves the record as it was already *)
(* changed, and neither publishes nor puts anything back.                  *)
(***************************************************************************)
Outcome(ws, affected, result) ==
    \/ result = "ok" /\ Published(ws, affected) /\ workers' = ws
    \/ result = "error" /\ Unpublished(ws, affected) /\ UNCHANGED workers
    \/ result = "cancelled" /\ Unpublished(ws, affected) /\ workers' = ws

(* The control session runs in a task of its own and is never dropped. *)
SessionResults == {"ok", "error"}

(* Registration and heartbeats run inside the request handler's future. *)
HandlerResults ==
    SessionResults \union (IF HandlersCancelled THEN {"cancelled"} ELSE {})

-----------------------------------------------------------------------------
\* Faulty variant: an unknown Worker always starts at generation 0.
CarriedFromMemory(w) == IF Registered(w) THEN PlacementOf(workers[w]) ELSE NoPlacement

(* A replaced process leaves its placement to the next one; after a restart the
   store's row does. *)
Carried(w) == IF Registered(w) THEN PlacementOf(workers[w]) ELSE persisted[w]

(* register; the same start again is idempotent *)
Register(w, s, result) ==
    /\ ~Current(w, s)
    /\ Outcome([workers EXCEPT ![w] = FreshRecord(s, Carried(w))],
               IF Registered(w) THEN ReadyKeys(workers[w]) ELSE {}, result)
    /\ UNCHANGED <<persisted, placements, counters>>

(* open_heartbeat *)
OpenHeartbeat(w, s) ==
    /\ Current(w, s)
    /\ nextLease < MaxLease
    /\ nextLease' = nextLease + 1
    /\ workers' = [workers EXCEPT ![w] = [@ EXCEPT !.lease = nextLease + 1, !.open = TRUE]]
    /\ UNCHANGED <<persisted, placements, nextDrain, topologyVars>>

(* heartbeat; the lease is checked, whether the stream is open is not *)
Heartbeat(w, s, l, n, run, result) ==
    LET rec == workers[w] IN
    /\ Current(w, s)
    /\ rec.lease = l
    /\ n > rec.sequence
    /\ rec.run = "SHUTTING_DOWN" => run = "SHUTTING_DOWN"
    /\ Outcome([workers EXCEPT ![w] =
                  [rec EXCEPT !.live = TRUE, !.sequence = n, !.run = run]],
               IF rec.live THEN {} ELSE ReadyKeys(rec), result)
    /\ UNCHANGED <<persisted, placements, counters>>

(* close_heartbeat *)
CloseHeartbeat(w, s, l, result) ==
    LET rec == workers[w] IN
    /\ Current(w, s)
    /\ rec.lease = l
    /\ rec.open
    /\ Outcome([workers EXCEPT ![w] = [rec EXCEPT !.open = FALSE, !.live = FALSE]],
               ReadyKeys(rec), result)
    /\ UNCHANGED <<persisted, placements, counters>>

-----------------------------------------------------------------------------
\* Faulty variant: a newer placement leaves older drains outstanding.
SupersededKept(drains) == drains

(* A newer placement ends every unfinished expert drain. *)
Superseded(drains) ==
    {[d EXCEPT !.completed = @ \/ ~d.stopAll] : d \in drains}

(* Ready experts that leave the target list, and those an unfinished drain
   still names. *)
ToDrain(rec, targets) ==
    {k \in ReadyKeys(rec) \ DOMAIN targets :
        \/ k \in DOMAIN rec.targets
        \/ \E d \in rec.drains : ~d.completed /\ ~d.stopAll /\ k \in d.experts}

PlacementChanged(w, targets) ==
    \/ workers[w].targets # targets
    \/ persisted[w].gen = 0
    \/ persisted[w] # PlacementOf(workers[w])

\* Faulty variant: the save error is dropped and memory moves on without the row.
SetTargetsUnsavedIgnored(w, place) ==
    /\ workers' = [workers EXCEPT ![w].gen = place.gen, ![w].targets = place.targets]
    /\ UNCHANGED <<persisted, placements, counters, topologyVars>>

(* save_placement reports an error, before or after the row was written. *)
SetTargetsUnsaved(w, place) ==
    /\ placements' \in {placements, [placements EXCEPT ![w] = place]}
    /\ UNCHANGED <<workers, persisted, counters, topologyVars>>

(* The row is written; publishing then fails and only memory is put back. *)
SetTargetsUnpublished(w, place) ==
    LET moved == [workers[w] EXCEPT !.gen = place.gen, !.targets = place.targets]
    IN  /\ Outcome([workers EXCEPT ![w] = moved],
                   DOMAIN workers[w].targets \union DOMAIN place.targets, "error")
        /\ placements' = [placements EXCEPT ![w] = place]
        /\ UNCHANGED <<persisted, counters>>

SetTargetsApplied(w, place) ==
    LET rec == workers[w]
        affected == DOMAIN rec.targets \union DOMAIN place.targets
        drained == ToDrain(rec, place.targets)
        moved == [rec EXCEPT !.gen = place.gen, !.targets = place.targets]
        drain == [id |-> nextDrain + 1, gen |-> place.gen, minVersion |-> version',
                  stopAll |-> FALSE, experts |-> drained, completed |-> FALSE]
    IN  /\ drained # {} => nextDrain < MaxDrain
        /\ Published([workers EXCEPT ![w] = moved], affected)
        /\ nextDrain' = IF drained = {} THEN nextDrain ELSE nextDrain + 1
        /\ workers' = [workers EXCEPT ![w] =
              [moved EXCEPT !.drains = Superseded(rec.drains) \union
                                       (IF drained = {} THEN {} ELSE {drain})]]
        /\ placements' = [placements EXCEPT ![w] = place]
        /\ persisted' = [persisted EXCEPT ![w] = place]
        /\ UNCHANGED nextLease

(* set_targets *)
SetTargets(w, s, targets) ==
    LET place == [gen |-> workers[w].gen + 1, targets |-> targets] IN
    /\ Current(w, s)
    /\ Cardinality(DOMAIN targets) =< MaxExperts
    /\ PlacementChanged(w, targets)
    /\ place.gen =< MaxGeneration
    /\ \/ SetTargetsUnsaved(w, place)
       \/ SetTargetsUnpublished(w, place)
       \/ SetTargetsApplied(w, place)

-----------------------------------------------------------------------------
Reported(states, full, report) ==
    LET kept == IF full THEN {} ELSE DOMAIN states \ DOMAIN report
    IN  [k \in kept \union DOMAIN report |->
            IF k \in DOMAIN report THEN report[k] ELSE states[k]]

(* apply_state_report *)
ApplyStateReport(w, s, g, n, full, report, result) ==
    LET rec == workers[w] IN
    /\ Current(w, s)
    /\ g = rec.gen
    /\ n > rec.report
    /\ Outcome([workers EXCEPT ![w] =
                  [rec EXCEPT !.states = Reported(rec.states, full, report),
                              !.report = n]],
               DOMAIN report \union (IF full THEN DOMAIN rec.states ELSE {}),
               result)
    /\ UNCHANGED <<persisted, placements, counters>>

\* Faulty variant: another Worker's READY report counts, also when a shutdown of its own
\* has already taken it out of the routes.
ReplacementsReadyReported(w) ==
    \A k \in ReadyKeys(workers[w]) : \E v \in Workers \ {w} : k \in ReadyKeys(workers[v])

(* shutdown_replacements_ready *)
ReplacementsReady(w) ==
    \A k \in ReadyKeys(workers[w]) : routes[k] \ {Process(w, workers[w])} # {}

(* drain_authorizations, when it creates the whole-Worker drain; otherwise it
   only reads *)
DrainAuthorizations(w, s, result) ==
    LET rec == workers[w]
        excluded == [rec EXCEPT !.included = FALSE]
        ws == [workers EXCEPT ![w] = excluded]
        drain == [id |-> nextDrain + 1, gen |-> rec.gen, minVersion |-> version',
                  stopAll |-> TRUE, experts |-> ReadyKeys(rec), completed |-> FALSE]
    IN  /\ Current(w, s)
        /\ rec.run = "SHUTTING_DOWN"
        /\ ~\E d \in rec.drains : d.stopAll
        /\ ReplacementsReady(w)
        /\ nextDrain < MaxDrain
        /\ \/ /\ result = "ok"
              /\ Published(ws, ReadyKeys(rec))
              /\ workers' = [workers EXCEPT ![w] =
                    [excluded EXCEPT !.drains = @ \union {drain}]]
              /\ nextDrain' = nextDrain + 1
           \/ /\ result = "error"
              /\ Unpublished(ws, ReadyKeys(rec))
              /\ UNCHANGED <<workers, nextDrain>>
        /\ UNCHANGED <<persisted, placements, nextLease>>

(* complete_drain *)
CompleteDrain(w, s, id, result) ==
    LET rec == workers[w] IN
    /\ Current(w, s)
    /\ \E d \in rec.drains :
         /\ d.id = id
         /\ ~d.completed
         /\ LET done == (rec.drains \ {d}) \union {[d EXCEPT !.completed = TRUE]}
            IN  Outcome([workers EXCEPT ![w] =
                           [rec EXCEPT !.drains = done, !.live = @ /\ ~d.stopAll]],
                        IF d.stopAll THEN ReadyKeys(rec) ELSE {}, result)
    /\ UNCHANGED <<persisted, placements, counters>>

\* Faulty variant: a restarted Controller starts like a new one.
KnownNever == FALSE

(* The instances restore() walks: those with a version row or a placement. *)
KnownInstance == stored > 0 \/ \E w \in Workers : placements[w].gen > 0

(* The Controller process stops and restore() starts another. *)
Restart ==
    /\ workers' = [w \in Workers |-> FreshRecord(NoStart, NoPlacement)]
    /\ persisted' = placements
    /\ nextLease' = 0
    /\ nextDrain' = 0
    /\ Table!Restore(KnownInstance)
    /\ UNCHANGED placements

-----------------------------------------------------------------------------
Init ==
    /\ workers = [w \in Workers |-> FreshRecord(NoStart, NoPlacement)]
    /\ persisted = [w \in Workers |-> NoPlacement]
    /\ placements = [w \in Workers |-> NoPlacement]
    /\ nextLease = 0
    /\ nextDrain = 0
    /\ Table!TopologyInit

Step(w, s) ==
    \/ \E result \in HandlerResults : Register(w, s, result)
    \/ OpenHeartbeat(w, s)
    \/ \E l \in 1..MaxLease, n \in 1..MaxSequence, run \in RunStates,
          result \in HandlerResults : Heartbeat(w, s, l, n, run, result)
    \/ \E l \in 1..MaxLease, result \in HandlerResults :
          CloseHeartbeat(w, s, l, result)
    \/ \E targets \in TargetLists : SetTargets(w, s, targets)
    \/ \E g \in 1..MaxGeneration, n \in 1..MaxReport, full \in BOOLEAN,
          report \in StateMaps, result \in SessionResults :
          ApplyStateReport(w, s, g, n, full, report, result)
    \/ \E result \in SessionResults : DrainAuthorizations(w, s, result)
    \/ \E id \in 1..MaxDrain, result \in SessionResults :
          CompleteDrain(w, s, id, result)

Next == Restart \/ \E w \in Workers, s \in Starts : Step(w, s)

Spec == Init /\ [][Next]_vars

-----------------------------------------------------------------------------
(* The published table lists exactly the processes that may be called: live,
   not excluded, holding the expert as a target and reporting it ready. No
   operation forgets a key it affects, and a failed store call takes back the
   record together with the routes. (publish_routes and every caller; the test
   ready_routes_require_target_and_live_worker) *)
RoutesExact == \A k \in Experts : routes[k] = Serving(workers, k)

(* While a drain is outstanding no route leads to what is being drained, from
   the version the drain names onwards; a whole-Worker drain keeps every route
   off the process for the rest of its registration. (set_targets,
   drain_authorizations; DrainAuthorizationPart "applies after publication") *)
DrainedNotRouted ==
    \A w \in Workers : \A d \in workers[w].drains :
        /\ d.minVersion =< version
        /\ \A k \in Experts :
             d.stopAll \/ (~d.completed /\ k \in d.experts)
                => Process(w, workers[w]) \notin routes[k]

(* A placement is durable before a Worker can be told of it: the mirror agrees
   with the Worker, and the row is the mirror's or, after an operation that
   failed half way, a later generation's. (set_targets, register, restore) *)
PlacementDurable ==
    \A w \in Workers :
        /\ Registered(w) => persisted[w] = PlacementOf(workers[w])
        /\ \/ placements[w] = persisted[w]
           \/ placements[w].gen > persisted[w].gen

(* A generation names one target list for good, across restarts too: rows never
   go back to an earlier generation, and a registered Worker that keeps its
   generation keeps its targets. (set_targets, register, restore) *)
GenerationsGrow ==
    [][\A w \in Workers :
         /\ placements'[w].gen >= placements[w].gen
         /\ Registered(w) /\ workers'[w].start # NoStart =>
              /\ workers'[w].gen >= workers[w].gen
              /\ workers'[w].gen = workers[w].gen =>
                    workers'[w].targets = workers[w].targets]_vars

(* Taking a shutting-down process out of the topology never removes the last
   route of an expert it was ready to serve, also when the process that could replace
   it is shutting down at the same time. (shutdown_replacements_ready) *)
ShutdownKeepsRoutes ==
    [][\A w \in Workers :
         /\ workers[w].included
         /\ ~workers'[w].included
         => \A k \in ReadyKeys(workers[w]) : routes'[k] # {}]_vars

(* The Controller implements the abstract route table: whatever the order of
   registrations, heartbeats, placements, reports, drains, failed store calls
   and restarts, a new table appears only under a version newer than every one
   handed out. (publish_routes, restore) *)
TopologyRefined == Table!TopologySpec
=============================================================================
