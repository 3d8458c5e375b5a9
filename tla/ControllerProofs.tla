---------------------------- MODULE ControllerProofs ----------------------------
(***************************************************************************)
(* The Controller, for every value of the constants, in three parts:       *)
(*                                                                         *)
(* 1. types and routes. RoutesExact is inductive together with TypeOK:     *)
(*    each operation names every expert whose servers it may change, which *)
(*    is what the lemmas ...Exact show one operation at a time;            *)
(* 2. what survives failed store calls, dropped handlers and restarts: the *)
(*    placements and their generations, the topology versions, the drains' *)
(*    promise and the routes at a planned shutdown;                        *)
(* 3. the heartbeat streams of WorkerLifecycle: whichever way a stream     *)
(*    ends, the record of its Worker follows the newest stream.            *)
(***************************************************************************)
EXTENDS WorkerLifecycle, TLAPS

(* The record register() inserts has the type of Worker records. *)
LEMMA FreshRecordType ==
    ASSUME NEW s \in Starts \union {NoStart}, NEW carried \in Placements
    PROVE  FreshRecord(s, carried) \in WorkerRecords
<1>1. NoStates \in StateMaps
  <2>1. NoStates \in [{} -> Kinds]
    BY Zenon DEF NoStates, Kinds
  <2> QED
    BY <2>1, Zenon DEF StateMaps
<1>2. {} \in SUBSET DrainRecords
  BY Zenon
<1> QED
  BY <1>1, <1>2, Zenon DEF FreshRecord, WorkerRecords, Placements, RunStates

(* "No placement yet" is a placement. *)
LEMMA NoPlacementType == NoPlacement \in Placements
<1>1. NoTargets \in [{} -> Peers]
  BY Zenon DEF NoTargets
<1>2. NoTargets \in TargetLists
  BY <1>1, Zenon DEF TargetLists
<1> QED
  BY <1>2, Zenon DEF NoPlacement, Placements

(* publish_routes lists only registered processes. *)
LEMMA ServingType ==
    ASSUME NEW ws \in [Workers -> WorkerRecords], NEW k \in Experts
    PROVE  Serving(ws, k) \in SUBSET Processes
BY StartAssumption DEF Serving, Serves, Process, Processes, WorkerRecords

(* The table publish_routes computes is a route table. *)
LEMMA NewRoutesType ==
    ASSUME NEW ws \in [Workers -> WorkerRecords], NEW affected,
           Table!TopologyTypeOK
    PROVE  NewRoutes(ws, affected) \in Table!RouteTables
BY ServingType, Zenon DEF NewRoutes, Table!TopologyTypeOK, Table!RouteTables

(* The revision of a publication is one the history may hold. *)
LEMMA RevisionType ==
    ASSUME NEW new \in Table!RouteTables, Table!TopologyTypeOK
    PROVE  /\ Table!NextVersion \in Nat
           /\ Table!Revision(new) \in Table!Revisions
<1>1. Table!NextVersion \in Nat
  BY DEF Table!NextVersion, Table!TopologyTypeOK
<1>2. [k \in Table!Changed(new) |-> new[k]] \in
        UNION {[keys -> SUBSET Processes] : keys \in SUBSET Experts}
  <2>1. Table!Changed(new) \in SUBSET Experts
    BY Zenon DEF Table!Changed
  <2>2. [k \in Table!Changed(new) |-> new[k]] \in [Table!Changed(new) -> SUBSET Processes]
    BY <2>1, Zenon DEF Table!RouteTables
  <2> QED
    BY <2>1, <2>2, Zenon
<1> QED
  BY <1>1, <1>2, Zenon DEF Table!Revision, Table!Revisions, Table!TopologyTypeOK

(* A publication keeps the types of the table. *)
LEMMA PublishType ==
    ASSUME NEW new \in Table!RouteTables, Table!TopologyTypeOK, Table!Publish(new)
    PROVE  Table!TopologyTypeOK'
<1>1. Table!NextVersion \in Nat /\ Table!Revision(new) \in Table!Revisions
  BY RevisionType, Zenon
<1>2. Append(history, Table!Revision(new)) \in Seq(Table!Revisions)
  BY <1>1 DEF Table!TopologyTypeOK
<1>3. history' \in Seq(Table!Revisions)
  BY <1>2, LimitAssumption DEF Table!Publish, Table!Retained
<1> QED
  BY <1>1, <1>3, Zenon DEF Table!Publish, Table!TopologyTypeOK

(* A failed advance_topology_version keeps the types of the table. *)
LEMMA AdvanceFailsType ==
    ASSUME Table!TopologyTypeOK, Table!AdvanceFails
    PROVE  Table!TopologyTypeOK'
BY DEF Table!AdvanceFails, Table!TopologyTypeOK, Table!NextVersion

(* restore() starts from a well-typed table. *)
LEMMA RestoreType ==
    ASSUME NEW known, Table!TopologyTypeOK, Table!Restore(known)
    PROVE  Table!TopologyTypeOK'
<1>1. Table!NoRoutes \in Table!RouteTables
  BY Zenon DEF Table!NoRoutes, Table!RouteTables
<1> QED
  BY <1>1 DEF Table!Restore, Table!RestoredVersion, Table!TopologyTypeOK

(* publish_routes, successful or not, keeps the types of the table. *)
LEMMA PublishedType ==
    ASSUME TypeOK, NEW ws \in [Workers -> WorkerRecords], NEW affected,
           Published(ws, affected)
    PROVE  Table!TopologyTypeOK'
<1>1. Table!TopologyTypeOK /\ NewRoutes(ws, affected) \in Table!RouteTables
  BY NewRoutesType, Zenon DEF TypeOK
<1>2. CASE Table!Publish(NewRoutes(ws, affected))
  BY <1>1, <1>2, PublishType, Zenon
<1>3. CASE UNCHANGED topologyVars
  BY <1>1, <1>3, Zenon DEF topologyVars, Table!TopologyTypeOK
<1> QED
  BY <1>2, <1>3, Zenon DEF Published

(* The end every operation shares keeps the types, whatever the result. *)
LEMMA OutcomeType ==
    ASSUME TypeOK, NEW ws \in [Workers -> WorkerRecords], NEW affected, NEW result,
           Outcome(ws, affected, result)
    PROVE  workers' \in [Workers -> WorkerRecords] /\ Table!TopologyTypeOK'
<1>1. CASE Published(ws, affected) /\ workers' = ws
  BY <1>1, PublishedType, Zenon
<1>2. CASE Unpublished(ws, affected) /\ workers' \in {ws, workers}
  BY <1>2, AdvanceFailsType, Zenon DEF TypeOK, Unpublished
<1> QED
  BY <1>1, <1>2, Zenon DEF Outcome

(* Merging a full or a partial report gives a state map. *)
LEMMA ReportedType ==
    ASSUME NEW states \in StateMaps, NEW full \in BOOLEAN, NEW report \in StateMaps
    PROVE  Reported(states, full, report) \in StateMaps
<1> DEFINE kept == IF full THEN {} ELSE DOMAIN states \ DOMAIN report
<1>1. PICK D \in SUBSET Experts : states \in [D -> Kinds]
  BY Zenon DEF StateMaps
<1>2. PICK E \in SUBSET Experts : report \in [E -> Kinds]
  BY Zenon DEF StateMaps
<1>3. kept \union DOMAIN report \in SUBSET Experts
  BY <1>1, <1>2, Zenon
<1>4. Reported(states, full, report) \in [kept \union DOMAIN report -> Kinds]
  BY <1>1, <1>2, Zenon DEF Reported
<1> QED
  BY <1>3, <1>4, Zenon DEF StateMaps

(* What a replaced process or a stored row leaves is a placement. *)
LEMMA CarriedType == ASSUME TypeOK, NEW w \in Workers PROVE Carried(w) \in Placements
BY Zenon DEF TypeOK, Carried, PlacementOf, Placements, WorkerRecords

(* register keeps the types. *)
LEMMA RegisterType ==
    ASSUME TypeOK, NEW w \in Workers, NEW s \in Starts, NEW result,
           Register(w, s, result)
    PROVE  TypeOK'
<1>1. FreshRecord(s, Carried(w)) \in WorkerRecords
  BY CarriedType, FreshRecordType, Zenon
<1>2. [workers EXCEPT ![w] = FreshRecord(s, Carried(w))] \in [Workers -> WorkerRecords]
  BY <1>1, Zenon DEF TypeOK
<1>3. workers' \in [Workers -> WorkerRecords] /\ Table!TopologyTypeOK'
  BY <1>2, OutcomeType, Zenon DEF Register
<1> QED
  BY <1>3, Zenon DEF Register, TypeOK, counters

(* open_heartbeat keeps the types. *)
LEMMA OpenHeartbeatType ==
    ASSUME TypeOK, NEW w \in Workers, NEW s \in Starts, OpenHeartbeat(w, s)
    PROVE  TypeOK'
<1>0. workers[w] \in WorkerRecords /\ nextLease + 1 \in Nat
  BY DEF TypeOK
<1>r. [workers[w] EXCEPT !.lease = nextLease + 1, !.open = TRUE] \in WorkerRecords
  BY <1>0, Zenon DEF WorkerRecords
<1>1. workers' \in [Workers -> WorkerRecords]
  BY <1>r, Zenon DEF TypeOK, OpenHeartbeat
<1> QED
  BY <1>1 DEF TypeOK, OpenHeartbeat, topologyVars, Table!TopologyTypeOK

(* heartbeat keeps the types. *)
LEMMA HeartbeatType ==
    ASSUME TypeOK, NEW w \in Workers, NEW s \in Starts, NEW l \in Nat, NEW n \in Nat,
           NEW run \in RunStates, NEW result, Heartbeat(w, s, l, n, run, result)
    PROVE  TypeOK'
<1> DEFINE rec == [workers[w] EXCEPT !.live = TRUE, !.sequence = n, !.run = run]
           ws == [workers EXCEPT ![w] = rec]
<1>0. workers[w] \in WorkerRecords
  BY Zenon DEF TypeOK
<1>r. rec \in WorkerRecords
  BY <1>0, Zenon DEF WorkerRecords
<1>1. ws \in [Workers -> WorkerRecords]
  BY <1>r, Zenon DEF TypeOK
<1> HIDE DEF ws
<1> QED
  BY <1>1, OutcomeType, Zenon DEF Heartbeat, TypeOK, counters, ws

(* close_heartbeat keeps the types. *)
LEMMA CloseHeartbeatType ==
    ASSUME TypeOK, NEW w \in Workers, NEW s \in Starts, NEW l \in Nat, NEW result,
           CloseHeartbeat(w, s, l, result)
    PROVE  TypeOK'
<1>0. workers[w] \in WorkerRecords
  BY Zenon DEF TypeOK
<1>r. [workers[w] EXCEPT !.open = FALSE, !.live = FALSE] \in WorkerRecords
  BY <1>0, Zenon DEF WorkerRecords
<1>1. [workers EXCEPT ![w] = [workers[w] EXCEPT !.open = FALSE, !.live = FALSE]]
        \in [Workers -> WorkerRecords]
  BY <1>r, Zenon DEF TypeOK
<1> QED
  BY <1>1, OutcomeType, Zenon DEF CloseHeartbeat, TypeOK, counters

(* Ending the unfinished drains gives drain records. *)
LEMMA SupersededType ==
    ASSUME NEW drains \in SUBSET DrainRecords
    PROVE  Superseded(drains) \in SUBSET DrainRecords
BY Zenon DEF Superseded, DrainRecords

(* A record moved to a new placement is a Worker record. *)
LEMMA MovedType ==
    ASSUME TypeOK, NEW w \in Workers, NEW place \in Placements
    PROVE  [workers[w] EXCEPT !.gen = place.gen, !.targets = place.targets] \in WorkerRecords
<1>1. workers[w] \in WorkerRecords /\ place.gen \in Nat /\ place.targets \in TargetLists
  BY Zenon DEF TypeOK, Placements
<1> QED
  BY <1>1, Zenon DEF WorkerRecords

(* set_targets keeps the types on each of its three ways out. *)
LEMMA SetTargetsType ==
    ASSUME TypeOK, NEW w \in Workers, NEW s \in Starts, NEW targets \in TargetLists,
           SetTargets(w, s, targets)
    PROVE  TypeOK'
<1> DEFINE rec == workers[w]
           place == [gen |-> rec.gen + 1, targets |-> targets]
           moved == [rec EXCEPT !.gen = place.gen, !.targets = place.targets]
<1>1. rec \in WorkerRecords /\ place \in Placements
  BY DEF TypeOK, WorkerRecords, Placements
<1>2. moved \in WorkerRecords
  BY <1>1, MovedType, Zenon
<1>3. [workers EXCEPT ![w] = moved] \in [Workers -> WorkerRecords]
  BY <1>2, Zenon DEF TypeOK
<1>4. [placements EXCEPT ![w] = place] \in [Workers -> Placements]
  BY <1>1, Zenon DEF TypeOK
<1>5. CASE SetTargetsUnsaved(w, place)
  BY <1>4, <1>5, Zenon DEF SetTargetsUnsaved, TypeOK, counters, topologyVars, Table!TopologyTypeOK
<1>6. CASE SetTargetsUnpublished(w, place)
  <2>1. workers' \in [Workers -> WorkerRecords] /\ Table!TopologyTypeOK'
    BY <1>3, <1>6, OutcomeType, Zenon DEF SetTargetsUnpublished
  <2> QED
    BY <2>1, <1>4, <1>6, Zenon DEF SetTargetsUnpublished, TypeOK, counters
<1>7. CASE SetTargetsApplied(w, place)
  <2> DEFINE drained == ToDrain(rec, targets)
             drain == [id |-> nextDrain + 1, gen |-> place.gen, minVersion |-> version',
                       stopAll |-> FALSE, experts |-> drained, completed |-> FALSE]
             added == IF drained = {} THEN {} ELSE {drain}
  <2>3. Table!TopologyTypeOK'
    BY <1>3, <1>7, PublishedType, Zenon DEF SetTargetsApplied
  <2>4. version' \in Nat
    BY <2>3, Zenon DEF Table!TopologyTypeOK
  <2>5. drained \in SUBSET Experts
    BY Zenon DEF ToDrain, ReadyKeys
  <2>6. drain \in DrainRecords
    BY <2>4, <2>5, <1>1 DEF DrainRecords, TypeOK, Placements
  <2>7. Superseded(rec.drains) \union added \in SUBSET DrainRecords
    BY <2>6, <1>1, SupersededType, Zenon DEF WorkerRecords
  <2>8. [moved EXCEPT !.drains = Superseded(rec.drains) \union added] \in WorkerRecords
    BY <2>7, <1>2 DEF WorkerRecords
  <2>9. workers' \in [Workers -> WorkerRecords]
    BY <2>8, <1>7, Zenon DEF SetTargetsApplied, TypeOK
  <2> QED
    BY <2>3, <2>9, <1>1, <1>4, <1>7 DEF SetTargetsApplied, TypeOK
<1> QED
  BY <1>5, <1>6, <1>7, Zenon DEF SetTargets

(* apply_state_report keeps the types. *)
LEMMA ApplyStateReportType ==
    ASSUME TypeOK, NEW w \in Workers, NEW s \in Starts, NEW g \in Nat, NEW n \in Nat,
           NEW full \in BOOLEAN, NEW report \in StateMaps, NEW result,
           ApplyStateReport(w, s, g, n, full, report, result)
    PROVE  TypeOK'
<1> DEFINE states == Reported(workers[w].states, full, report)
<1>1. workers[w] \in WorkerRecords
  BY Zenon DEF TypeOK
<1>2. states \in StateMaps
  BY <1>1, ReportedType, Zenon DEF WorkerRecords
<1>3. [workers[w] EXCEPT !.states = states, !.report = n] \in WorkerRecords
  BY <1>1, <1>2, Zenon DEF WorkerRecords
<1>4. [workers EXCEPT ![w] = [workers[w] EXCEPT !.states = states, !.report = n]]
        \in [Workers -> WorkerRecords]
  BY <1>3, Zenon DEF TypeOK
<1>5. workers' \in [Workers -> WorkerRecords] /\ Table!TopologyTypeOK'
  BY <1>4, OutcomeType, Zenon DEF ApplyStateReport
<1> QED
  BY <1>5, Zenon DEF ApplyStateReport, TypeOK, counters

(* drain_authorizations keeps the types. *)
LEMMA DrainAuthorizationsType ==
    ASSUME TypeOK, NEW w \in Workers, NEW s \in Starts, NEW result,
           DrainAuthorizations(w, s, result)
    PROVE  TypeOK'
<1> DEFINE rec == workers[w]
           excluded == [rec EXCEPT !.included = FALSE]
           ws == [workers EXCEPT ![w] = excluded]
           drain == [id |-> nextDrain + 1, gen |-> rec.gen, minVersion |-> version',
                     stopAll |-> TRUE, experts |-> ReadyKeys(rec), completed |-> FALSE]
<1>1. rec \in WorkerRecords
  BY Zenon DEF TypeOK
<1>2. excluded \in WorkerRecords
  BY <1>1, Zenon DEF WorkerRecords
<1>3. ws \in [Workers -> WorkerRecords]
  BY <1>2, Zenon DEF TypeOK
<1>4. CASE result = "ok"
  <2>1. Table!TopologyTypeOK'
    BY <1>3, <1>4, PublishedType, Zenon DEF DrainAuthorizations
  <2>2. drain \in DrainRecords
    BY <2>1, <1>1 DEF DrainRecords, TypeOK, WorkerRecords, ReadyKeys, Table!TopologyTypeOK
  <2>3. excluded.drains \union {drain} \in SUBSET DrainRecords
    BY <2>2, <1>2, Zenon DEF WorkerRecords
  <2>4. [excluded EXCEPT !.drains = @ \union {drain}] \in WorkerRecords
    BY <2>3, <1>2, Zenon DEF WorkerRecords
  <2> QED
    BY <2>1, <2>4, <1>4 DEF DrainAuthorizations, TypeOK
<1>5. CASE result = "error"
  BY <1>5, AdvanceFailsType, Zenon DEF DrainAuthorizations, TypeOK, Unpublished
<1> QED
  BY <1>4, <1>5, Zenon DEF DrainAuthorizations

(* complete_drain keeps the types. *)
LEMMA CompleteDrainType ==
    ASSUME TypeOK, NEW w \in Workers, NEW s \in Starts, NEW id \in Nat, NEW result,
           CompleteDrain(w, s, id, result)
    PROVE  TypeOK'
<1> DEFINE rec == workers[w]
           done(d) == (rec.drains \ {d}) \union {[d EXCEPT !.completed = TRUE]}
           after(d) == [rec EXCEPT !.drains = done(d), !.live = @ /\ ~d.stopAll]
<1>1. rec \in WorkerRecords
  BY Zenon DEF TypeOK
<1>2. PICK d \in rec.drains :
        Outcome([workers EXCEPT ![w] = after(d)],
                IF d.stopAll THEN ReadyKeys(rec) ELSE {}, result)
  BY Zenon DEF CompleteDrain
<1>3. d \in DrainRecords
  BY <1>1, Zenon DEF WorkerRecords
<1>4. done(d) \in SUBSET DrainRecords
  BY <1>1, <1>3, Zenon DEF WorkerRecords, DrainRecords
<1>5. (rec.live /\ ~d.stopAll) \in BOOLEAN
  BY Zenon
<1> HIDE DEF done
<1>6. after(d) \in WorkerRecords
  BY <1>1, <1>4, <1>5, Zenon DEF WorkerRecords
<1>7. [workers EXCEPT ![w] = after(d)] \in [Workers -> WorkerRecords]
  BY <1>6, Zenon DEF TypeOK
<1>8. workers' \in [Workers -> WorkerRecords] /\ Table!TopologyTypeOK'
  BY <1>2, <1>7, OutcomeType, Zenon
<1> QED
  BY <1>8, Zenon DEF CompleteDrain, TypeOK, counters

(* A restart keeps the types. *)
LEMMA RestartType == ASSUME TypeOK, Restart PROVE TypeOK'
<1>1. FreshRecord(NoStart, NoPlacement) \in WorkerRecords
  BY NoPlacementType, FreshRecordType, Zenon
<1>2. Table!TopologyTypeOK'
  BY RestoreType, Zenon DEF Restart, TypeOK
<1> QED
  BY <1>1, <1>2, Zenon DEF Restart, TypeOK

(* A first Controller process starts well typed. *)
LEMMA InitType == Init => TypeOK
<1>1. FreshRecord(NoStart, NoPlacement) \in WorkerRecords
  BY NoPlacementType, FreshRecordType, Zenon
<1>2. Table!NoRoutes \in Table!RouteTables
  BY Zenon DEF Table!NoRoutes, Table!RouteTables
<1> QED
  BY <1>1, <1>2, NoPlacementType
     DEF Init, TypeOK, Table!TopologyInit, Table!TopologyTypeOK

(* Every step keeps the types. *)
LEMMA NextType == ASSUME TypeOK, [Next]_vars PROVE TypeOK'
<1>1. CASE Restart
  BY <1>1, RestartType, Zenon
<1>2. ASSUME NEW w \in Workers, NEW s \in Starts, Step(w, s) PROVE TypeOK'
  BY <1>2, BoundAssumption, RegisterType, OpenHeartbeatType, HeartbeatType,
     CloseHeartbeatType, SetTargetsType, ApplyStateReportType,
     DrainAuthorizationsType, CompleteDrainType
     DEF Step
<1>3. CASE UNCHANGED vars
  BY <1>3, Zenon DEF vars, counters, topologyVars, TypeOK, Table!TopologyTypeOK
<1> QED
  BY <1>1, <1>2, <1>3, Zenon DEF Next

(* Every operation, failed call, dropped handler and restart keeps the state
   of runtime_state.rs within its types. *)
THEOREM TypeCorrect == Spec => []TypeOK
<1>1. Init => TypeOK
  BY InitType, Zenon
<1>2. TypeOK /\ [Next]_vars => TypeOK'
  BY NextType, Zenon
<1> QED
  BY <1>1, <1>2, PTL DEF Spec

-----------------------------------------------------------------------------
(* Replacing one Worker's record leaves who serves an expert alone when that
   record serves it before and after under the same start, or neither time. *)
LEMMA ServingFrame ==
    ASSUME NEW ws, NEW w \in Workers, NEW rec, NEW k,
           workers \in [Workers -> WorkerRecords],
           ws = [workers EXCEPT ![w] = rec],
           Serves(rec, k) <=> Serves(workers[w], k),
           Serves(rec, k) => rec.start = workers[w].start
    PROVE  Serving(ws, k) = Serving(workers, k)
<1>1. \A v \in Workers : Serves(ws[v], k) <=> Serves(workers[v], k)
  BY Zenon
<1>2. \A v \in Workers : Serves(ws[v], k) => Process(v, ws[v]) = Process(v, workers[v])
  BY Zenon DEF Process
<1> QED
  BY <1>1, <1>2, Zenon DEF Serving

(* A successful publication makes the table exact for the new records when it
   was exact before and covers every expert whose servers change. *)
LEMMA PublishedExact ==
    ASSUME TypeOK, RoutesExact, NEW ws \in [Workers -> WorkerRecords], NEW affected,
           Published(ws, affected),
           \A k \in Experts \ affected : Serving(ws, k) = Serving(workers, k)
    PROVE  \A k \in Experts : routes'[k] = Serving(ws, k)
<1>1. routes' = NewRoutes(ws, affected)
  BY Zenon DEF Published, Table!Publish, topologyVars
<1>2. \A k \in Experts : NewRoutes(ws, affected)[k] = Serving(ws, k)
  BY Zenon DEF NewRoutes, RoutesExact
<1> QED
  BY <1>1, <1>2, Zenon

(* The end every operation shares keeps the routes exact: on success it
   publishes what changed, on an error it takes the change back. *)
LEMMA OutcomeExact ==
    ASSUME TypeOK, RoutesExact, NEW ws \in [Workers -> WorkerRecords], NEW affected,
           NEW result, result # "cancelled", Outcome(ws, affected, result),
           \A k \in Experts \ affected : Serving(ws, k) = Serving(workers, k)
    PROVE  RoutesExact'
<1>1. CASE Published(ws, affected) /\ workers' = ws
  <2>1. \A k \in Experts : routes'[k] = Serving(workers', k)
    BY <1>1, PublishedExact, Zenon
  <2> QED
    BY <2>1, Zenon DEF RoutesExact
<1>2. CASE Unpublished(ws, affected) /\ UNCHANGED workers
  BY <1>2, Zenon DEF Unpublished, Table!AdvanceFails, RoutesExact, Serving
<1> QED
  BY <1>1, <1>2, Zenon DEF Outcome

(* register keeps the routes exact: the new process serves nothing, and every
   expert the replaced one was ready for is recomputed. *)
LEMMA RegisterExact ==
    ASSUME TypeOK, RoutesExact, NEW w \in Workers, NEW s \in Starts, NEW result,
           result # "cancelled", Register(w, s, result)
    PROVE  RoutesExact'
<1> DEFINE rec == FreshRecord(s, Carried(w))
           ws == [workers EXCEPT ![w] = rec]
           affected == IF Registered(w) THEN ReadyKeys(workers[w]) ELSE {}
<1>1. ws \in [Workers -> WorkerRecords]
  BY CarriedType, FreshRecordType, Zenon DEF TypeOK
<1>2. ASSUME NEW k \in Experts \ affected PROVE Serving(ws, k) = Serving(workers, k)
  <2>1. ~Serves(rec, k)
    BY Zenon DEF FreshRecord, Serves
  <2>2. ~Serves(workers[w], k)
    BY Zenon DEF Serves, ReadyKeys, Registered
  <2> QED
    BY <2>1, <2>2, ServingFrame, Zenon DEF TypeOK
<1> HIDE DEF ws, affected
<1>3. Outcome(ws, affected, result)
  BY Zenon DEF Register, ws, affected
<1> QED
  BY <1>1, <1>2, <1>3, OutcomeExact, Zenon

(* open_heartbeat changes nothing that routing reads. *)
LEMMA OpenHeartbeatExact ==
    ASSUME TypeOK, RoutesExact, NEW w \in Workers, NEW s \in Starts, OpenHeartbeat(w, s)
    PROVE  RoutesExact'
<1> DEFINE rec == [workers[w] EXCEPT !.lease = nextLease + 1, !.open = TRUE]
<1>1. workers' = [workers EXCEPT ![w] = rec] /\ routes' = routes
  BY Zenon DEF OpenHeartbeat, topologyVars
<1>2. workers[w] \in WorkerRecords
  BY Zenon DEF TypeOK
<1>3. \A k \in Experts : Serves(rec, k) <=> Serves(workers[w], k)
  BY <1>2, Zenon DEF Serves, IsReady, WorkerRecords
<1>4. rec.start = workers[w].start
  BY <1>2, Zenon DEF WorkerRecords
<1>5. \A k \in Experts : Serving(workers', k) = Serving(workers, k)
  BY <1>1, <1>3, <1>4, ServingFrame, Zenon DEF TypeOK
<1> QED
  BY <1>1, <1>5, Zenon DEF RoutesExact

(* heartbeat keeps the routes exact: only a Worker that becomes live may join
   routes, and only of experts it is ready for. *)
LEMMA HeartbeatExact ==
    ASSUME TypeOK, RoutesExact, NEW w \in Workers, NEW s \in Starts, NEW l \in Nat,
           NEW n \in Nat, NEW run \in RunStates, NEW result, result # "cancelled",
           Heartbeat(w, s, l, n, run, result)
    PROVE  RoutesExact'
<1> DEFINE old == workers[w]
           rec == [old EXCEPT !.live = TRUE, !.sequence = n, !.run = run]
           ws == [workers EXCEPT ![w] = rec]
           affected == IF old.live THEN {} ELSE ReadyKeys(old)
<1>1. old \in WorkerRecords /\ rec \in WorkerRecords
  <2>1. old \in WorkerRecords
    BY Zenon DEF TypeOK
  <2> HIDE DEF old
  <2> QED
    BY <2>1, Zenon DEF WorkerRecords
<1>2. ws \in [Workers -> WorkerRecords]
  BY <1>1, Zenon DEF TypeOK
<1>3. ASSUME NEW k \in Experts \ affected PROVE Serving(ws, k) = Serving(workers, k)
  <2>1. rec.start = old.start
    BY <1>1, Zenon DEF WorkerRecords
  <2>2. Serves(rec, k) <=> Serves(old, k)
    BY <1>1, Zenon DEF Serves, IsReady, ReadyKeys, WorkerRecords
  <2> QED
    BY <2>1, <2>2, ServingFrame, Zenon DEF TypeOK
<1> HIDE DEF ws, affected
<1>4. Outcome(ws, affected, result)
  BY Zenon DEF Heartbeat, ws, affected
<1> QED
  BY <1>2, <1>3, <1>4, OutcomeExact, Zenon

(* close_heartbeat keeps the routes exact: every ready expert is recomputed. *)
LEMMA CloseHeartbeatExact ==
    ASSUME TypeOK, RoutesExact, NEW w \in Workers, NEW s \in Starts, NEW l \in Nat,
           NEW result, result # "cancelled", CloseHeartbeat(w, s, l, result)
    PROVE  RoutesExact'
<1> DEFINE old == workers[w]
           rec == [old EXCEPT !.open = FALSE, !.live = FALSE]
           ws == [workers EXCEPT ![w] = rec]
           affected == ReadyKeys(old)
<1>1. old \in WorkerRecords /\ rec \in WorkerRecords
  BY Zenon DEF TypeOK, WorkerRecords
<1>2. ws \in [Workers -> WorkerRecords]
  BY <1>1, Zenon DEF TypeOK
<1>3. ASSUME NEW k \in Experts \ affected PROVE Serving(ws, k) = Serving(workers, k)
  <2>1. ~Serves(rec, k) /\ ~Serves(old, k)
    BY <1>1, Zenon DEF Serves, ReadyKeys, WorkerRecords
  <2>2. workers \in [Workers -> WorkerRecords]
    BY Zenon DEF TypeOK
  <2> HIDE DEF rec
  <2> QED
    BY <2>1, <2>2, ServingFrame, Zenon
<1> HIDE DEF ws, affected
<1>4. Outcome(ws, affected, result)
  BY Zenon DEF CloseHeartbeat, ws, affected
<1> QED
  BY <1>2, <1>3, <1>4, OutcomeExact, Zenon

(* set_targets keeps the routes exact: old and new targets are recomputed. *)
LEMMA SetTargetsExact ==
    ASSUME TypeOK, RoutesExact, NEW w \in Workers, NEW s \in Starts,
           NEW targets \in TargetLists, SetTargets(w, s, targets)
    PROVE  RoutesExact'
<1> DEFINE old == workers[w]
           place == [gen |-> old.gen + 1, targets |-> targets]
           rec == [old EXCEPT !.gen = place.gen, !.targets = place.targets]
           ws == [workers EXCEPT ![w] = rec]
           affected == DOMAIN old.targets \union DOMAIN place.targets
<1>1. old \in WorkerRecords /\ place \in Placements
  BY DEF TypeOK, WorkerRecords, Placements
<1>2. rec \in WorkerRecords
  BY <1>1, MovedType, Zenon
<1>3. ws \in [Workers -> WorkerRecords]
  BY <1>2, Zenon DEF TypeOK
<1>4. ASSUME NEW k \in Experts \ affected PROVE Serving(ws, k) = Serving(workers, k)
  <2>1. ~Serves(rec, k) /\ ~Serves(old, k)
    BY <1>1, Zenon DEF Serves, WorkerRecords
  <2> HIDE DEF rec
  <2> QED
    BY <2>1, ServingFrame, Zenon DEF TypeOK
<1>5. CASE SetTargetsUnsaved(w, place)
  BY <1>5, Zenon DEF SetTargetsUnsaved, topologyVars, RoutesExact, Serving
<1>6. CASE SetTargetsUnpublished(w, place)
  BY <1>6, Zenon DEF SetTargetsUnpublished, Outcome, Unpublished, Table!AdvanceFails,
              RoutesExact, Serving
<1>7. CASE SetTargetsApplied(w, place)
  <2>1. Published(ws, affected)
    BY <1>7, Zenon DEF SetTargetsApplied
  <2>2. \A k \in Experts : routes'[k] = Serving(ws, k)
    BY <2>1, <1>3, <1>4, PublishedExact, Zenon
  <2>3. PICK drains : workers' = [workers EXCEPT ![w] = [rec EXCEPT !.drains = drains]]
    BY <1>7, Zenon DEF SetTargetsApplied
  <2>4. \A k \in Experts : Serving(workers', k) = Serving(ws, k)
    <3> DEFINE last == [rec EXCEPT !.drains = drains]
    <3>1. \A k \in Experts : Serves(last, k) <=> Serves(rec, k)
      BY <1>2, Zenon DEF Serves, IsReady, WorkerRecords
    <3>2. last.start = rec.start
      BY <1>2, Zenon DEF WorkerRecords
    <3>3. \A v \in Workers : workers'[v] = IF v = w THEN last ELSE ws[v]
      BY <2>3, Zenon DEF TypeOK
    <3>4. ws[w] = rec
      BY Zenon DEF TypeOK
    <3> HIDE DEF last, ws, rec
    <3> QED
      BY <3>1, <3>2, <3>3, <3>4, Zenon DEF Serving, Process
  <2> QED
    BY <2>2, <2>4, Zenon DEF RoutesExact
<1> QED
  BY <1>5, <1>6, <1>7, Zenon DEF SetTargets

(* apply_state_report keeps the routes exact: reported experts are recomputed,
   and for a full report also those it no longer mentions. *)
LEMMA ApplyStateReportExact ==
    ASSUME TypeOK, RoutesExact, NEW w \in Workers, NEW s \in Starts, NEW g \in Nat,
           NEW n \in Nat, NEW full \in BOOLEAN, NEW report \in StateMaps, NEW result,
           result # "cancelled", ApplyStateReport(w, s, g, n, full, report, result)
    PROVE  RoutesExact'
<1> DEFINE old == workers[w]
           states == Reported(old.states, full, report)
           rec == [old EXCEPT !.states = states, !.report = n]
           ws == [workers EXCEPT ![w] = rec]
           affected == DOMAIN report \union (IF full THEN DOMAIN old.states ELSE {})
<1>1. old \in WorkerRecords /\ states \in StateMaps
  BY ReportedType, Zenon DEF TypeOK, WorkerRecords
<1>2. rec \in WorkerRecords
  BY <1>1, Zenon DEF WorkerRecords
<1>3. ws \in [Workers -> WorkerRecords]
  BY <1>2, Zenon DEF TypeOK
<1>4. ASSUME NEW k \in Experts \ affected PROVE Serving(ws, k) = Serving(workers, k)
  <2>1. k \in DOMAIN states <=> k \in DOMAIN old.states
    BY Zenon DEF Reported
  <2>2. k \in DOMAIN states => states[k] = old.states[k]
    BY Zenon DEF Reported
  <2>3. rec.states = states /\ rec.start = old.start /\ rec.live = old.live
        /\ rec.included = old.included /\ rec.targets = old.targets
    BY <1>1, Zenon DEF WorkerRecords
  <2> HIDE DEF rec, states
  <2>4. Serves(rec, k) <=> Serves(old, k)
    BY <2>1, <2>2, <2>3, Zenon DEF Serves, IsReady
  <2> QED
    BY <2>3, <2>4, ServingFrame, Zenon DEF TypeOK
<1> HIDE DEF ws, affected
<1>5. Outcome(ws, affected, result)
  BY Zenon DEF ApplyStateReport, ws, affected
<1> QED
  BY <1>3, <1>4, <1>5, OutcomeExact, Zenon

(* drain_authorizations keeps the routes exact when it excludes a process. *)
LEMMA DrainAuthorizationsExact ==
    ASSUME TypeOK, RoutesExact, NEW w \in Workers, NEW s \in Starts, NEW result,
           DrainAuthorizations(w, s, result)
    PROVE  RoutesExact'
<1> DEFINE old == workers[w]
           rec == [old EXCEPT !.included = FALSE]
           ws == [workers EXCEPT ![w] = rec]
<1>1. old \in WorkerRecords /\ rec \in WorkerRecords
  BY Zenon DEF TypeOK, WorkerRecords
<1>2. ws \in [Workers -> WorkerRecords]
  BY <1>1, Zenon DEF TypeOK
<1>3. ASSUME NEW k \in Experts \ ReadyKeys(old) PROVE Serving(ws, k) = Serving(workers, k)
  <2>1. ~Serves(rec, k) /\ ~Serves(old, k)
    BY <1>1, Zenon DEF Serves, ReadyKeys, WorkerRecords
  <2>2. workers \in [Workers -> WorkerRecords]
    BY Zenon DEF TypeOK
  <2> HIDE DEF rec
  <2> QED
    BY <2>1, <2>2, ServingFrame, Zenon
<1>4. CASE result = "ok"
  <2>1. Published(ws, ReadyKeys(old))
    BY <1>4, Zenon DEF DrainAuthorizations
  <2>2. \A k \in Experts : routes'[k] = Serving(ws, k)
    BY <2>1, <1>2, <1>3, PublishedExact, Zenon
  <2>3. PICK drains : workers' = [workers EXCEPT ![w] = [rec EXCEPT !.drains = drains]]
    BY <1>4, Zenon DEF DrainAuthorizations
  <2>4. \A k \in Experts : Serving(workers', k) = Serving(ws, k)
    <3> DEFINE last == [rec EXCEPT !.drains = drains]
    <3>1. \A k \in Experts : ~Serves(last, k) /\ ~Serves(rec, k)
      BY <1>1, Zenon DEF Serves, WorkerRecords
    <3>2. \A v \in Workers : workers'[v] = IF v = w THEN last ELSE ws[v]
      BY <2>3, Zenon DEF TypeOK
    <3>3. ws[w] = rec
      BY Zenon DEF TypeOK
    <3> HIDE DEF last, ws, rec
    <3> QED
      BY <3>1, <3>2, <3>3, Zenon DEF Serving, Process
  <2> QED
    BY <2>2, <2>4, Zenon DEF RoutesExact
<1>5. CASE result = "error"
  BY <1>5 DEF DrainAuthorizations, Unpublished, Table!AdvanceFails, RoutesExact, Serving
<1> QED
  BY <1>4, <1>5, Zenon DEF DrainAuthorizations

(* complete_drain keeps the routes exact when it ends a process. *)
LEMMA CompleteDrainExact ==
    ASSUME TypeOK, RoutesExact, NEW w \in Workers, NEW s \in Starts, NEW id \in Nat,
           NEW result, result # "cancelled", CompleteDrain(w, s, id, result)
    PROVE  RoutesExact'
<1> DEFINE old == workers[w]
           done(d) == (old.drains \ {d}) \union {[d EXCEPT !.completed = TRUE]}
           rec(d) == [old EXCEPT !.drains = done(d), !.live = @ /\ ~d.stopAll]
<1>1. old \in WorkerRecords
  BY Zenon DEF TypeOK
<1>2. PICK d \in old.drains :
        Outcome([workers EXCEPT ![w] = rec(d)],
                IF d.stopAll THEN ReadyKeys(old) ELSE {}, result)
  BY Zenon DEF CompleteDrain
<1> DEFINE ws == [workers EXCEPT ![w] = rec(d)]
           affected == IF d.stopAll THEN ReadyKeys(old) ELSE {}
<1>3. d \in DrainRecords
  BY <1>1, Zenon DEF WorkerRecords
<1>4. done(d) \in SUBSET DrainRecords /\ (old.live /\ ~d.stopAll) \in BOOLEAN
  BY <1>1, <1>3, Zenon DEF WorkerRecords, DrainRecords
<1> HIDE DEF done
<1>5. rec(d) \in WorkerRecords
  BY <1>1, <1>4, Zenon DEF WorkerRecords
<1>6. ws \in [Workers -> WorkerRecords]
  BY <1>5, Zenon DEF TypeOK
<1>7. ASSUME NEW k \in Experts \ affected PROVE Serving(ws, k) = Serving(workers, k)
  <2>1. /\ rec(d).states = old.states /\ rec(d).start = old.start
        /\ rec(d).included = old.included /\ rec(d).targets = old.targets
        /\ rec(d).live = (old.live /\ ~d.stopAll)
    BY <1>1, Zenon DEF WorkerRecords
  <2> HIDE DEF rec
  <2>2. Serves(rec(d), k) <=> Serves(old, k)
    BY <2>1, <1>3, Zenon DEF Serves, IsReady, ReadyKeys, DrainRecords
  <2> QED
    BY <2>1, <2>2, ServingFrame, Zenon DEF TypeOK
<1> HIDE DEF ws, affected
<1>8. Outcome(ws, affected, result)
  BY <1>2, Zenon DEF ws, affected
<1> QED
  BY <1>6, <1>7, <1>8, OutcomeExact, Zenon

(* After a restart nobody serves anything. *)
LEMMA FreshServesNothing ==
    ASSUME NEW ws, NEW k,
           ws = [w \in Workers |-> FreshRecord(NoStart, NoPlacement)]
    PROVE  Serving(ws, k) = {}
BY Zenon DEF Serving, Serves, FreshRecord

(* Every step keeps the routes exact. *)
LEMMA NextExact ==
    ASSUME ~HandlersCancelled, TypeOK, RoutesExact, [Next]_vars
    PROVE  RoutesExact'
<1>0. \A result \in HandlerResults \union SessionResults : result # "cancelled"
  BY Zenon DEF HandlerResults, SessionResults
<1>1. CASE Restart
  <2>1. \A k \in Experts : routes'[k] = {}
    BY <1>1, Zenon DEF Restart, Table!Restore, Table!NoRoutes
  <2>2. \A k \in Experts : Serving(workers', k) = {}
    BY <1>1, FreshServesNothing, Zenon DEF Restart
  <2> QED
    BY <2>1, <2>2, Zenon DEF RoutesExact
<1>2. ASSUME NEW w \in Workers, NEW s \in Starts, Step(w, s) PROVE RoutesExact'
  BY <1>0, <1>2, BoundAssumption, RegisterExact, OpenHeartbeatExact, HeartbeatExact,
     CloseHeartbeatExact, SetTargetsExact, ApplyStateReportExact,
     DrainAuthorizationsExact, CompleteDrainExact
     DEF Step
<1>3. CASE UNCHANGED vars
  BY <1>3, Zenon DEF vars, topologyVars, RoutesExact, Serving
<1> QED
  BY <1>1, <1>2, <1>3, Zenon DEF Next

(* As long as no request handler is dropped in the middle of an operation, the
   published routes are exactly the live, included, placed and ready processes,
   for any number of Workers, experts, starts, restarts and failed store calls. *)
THEOREM RoutesAreExact == ASSUME ~HandlersCancelled PROVE Spec => []RoutesExact
<1>1. Init => RoutesExact
  BY FreshServesNothing, Zenon DEF Init, RoutesExact, Table!TopologyInit, Table!NoRoutes
<1>2. TypeOK /\ RoutesExact /\ [Next]_vars => RoutesExact'
  BY NextExact, Zenon
<1> QED
  BY <1>1, <1>2, TypeCorrect, PTL DEF Spec

-----------------------------------------------------------------------------
(* Every step but a placement change and a restart goes through Outcome: it
   leaves the rows and the mirror alone and either keeps or replaces the
   Workers' records. *)
LEMMA OutcomeWorkers ==
    ASSUME NEW ws, NEW affected, NEW result, Outcome(ws, affected, result)
    PROVE  workers' \in {ws, workers}
BY Zenon DEF Outcome

(* Replacing one record by one with the same placement, or by one that takes the
   mirror over, keeps PlacementDurable. *)
LEMMA RecordKeepsPlacement ==
    ASSUME TypeOK, PlacementDurable, NEW w \in Workers, NEW rec,
           workers' \in {[workers EXCEPT ![w] = rec], workers},
           UNCHANGED <<persisted, placements>>,
           rec.start # NoStart => persisted[w] = PlacementOf(rec)
    PROVE  PlacementDurable'
<1>1. \A v \in Workers : workers'[v] = workers[v] \/ (v = w /\ workers'[v] = rec)
  BY Zenon DEF TypeOK
<1> QED
  BY <1>1, Zenon DEF PlacementDurable, Registered

(* set_targets keeps PlacementDurable on each of its three ways out. *)
LEMMA SetTargetsDurable ==
    ASSUME TypeOK, PlacementDurable, NEW w \in Workers, NEW s \in Starts,
           NEW targets \in TargetLists, SetTargets(w, s, targets)
    PROVE  PlacementDurable'
<1> DEFINE place == [gen |-> workers[w].gen + 1, targets |-> targets]
<1>1. persisted[w] = PlacementOf(workers[w])
  BY StartAssumption, Zenon DEF SetTargets, Current, PlacementDurable, Registered
<1>2. workers[w].gen \in Nat
  BY Zenon DEF TypeOK, WorkerRecords
<1>3. place.gen > persisted[w].gen
  BY <1>1, <1>2 DEF PlacementOf
<1> HIDE DEF place
<1>4. CASE SetTargetsUnsaved(w, place)
  BY <1>3, <1>4, Zenon DEF SetTargetsUnsaved, PlacementDurable, Registered, TypeOK
<1>5. CASE SetTargetsUnpublished(w, place)
  <2>1. UNCHANGED <<workers, persisted>> /\ placements' = [placements EXCEPT ![w] = place]
    BY <1>5, Zenon DEF SetTargetsUnpublished, Outcome
  <2> QED
    BY <1>3, <2>1, Zenon DEF PlacementDurable, Registered, TypeOK
<1>6. CASE SetTargetsApplied(w, place)
  <2> DEFINE moved == [workers[w] EXCEPT !.gen = place.gen, !.targets = place.targets]
  <2>1. PICK drains : workers' = [workers EXCEPT ![w] = [moved EXCEPT !.drains = drains]]
    BY <1>6, Zenon DEF SetTargetsApplied
  <2>2. PlacementOf([moved EXCEPT !.drains = drains]) = [gen |-> place.gen, targets |-> place.targets]
    BY Zenon DEF PlacementOf, TypeOK, WorkerRecords
  <2>3. place = [gen |-> place.gen, targets |-> place.targets]
    BY Zenon DEF place
  <2>4. \A v \in Workers : v # w => workers'[v] = workers[v]
    BY <2>1, Zenon DEF TypeOK
  <2>5. workers'[w] = [moved EXCEPT !.drains = drains]
    BY <2>1, Zenon DEF TypeOK
  <2>6. /\ placements' = [placements EXCEPT ![w] = place]
        /\ persisted' = [persisted EXCEPT ![w] = place]
    BY <1>6, Zenon DEF SetTargetsApplied
  <2>7. persisted'[w] = PlacementOf(workers'[w]) /\ placements'[w] = persisted'[w]
    BY <2>2, <2>3, <2>5, <2>6, Zenon DEF TypeOK
  <2>8. \A v \in Workers : v # w => UNCHANGED <<workers[v], persisted[v], placements[v]>>
    BY <2>4, <2>6, Zenon DEF TypeOK
  <2> QED
    BY <2>7, <2>8, Zenon DEF PlacementDurable, Registered
<1> QED
  BY <1>4, <1>5, <1>6, Zenon DEF SetTargets, place

(* Every operation of a Worker keeps PlacementDurable. *)
LEMMA StepDurable ==
    ASSUME TypeOK, PlacementDurable, NEW w \in Workers, NEW s \in Starts, Step(w, s)
    PROVE  PlacementDurable'
<1> DEFINE old == workers[w]
<1>0. old \in WorkerRecords
  BY Zenon DEF TypeOK
<1>a. old.start # NoStart => persisted[w] = PlacementOf(old)
  BY Zenon DEF PlacementDurable, Registered
<1> HIDE DEF old
<1>1. ASSUME NEW result, Register(w, s, result) PROVE PlacementDurable'
  <2> DEFINE rec == FreshRecord(s, Carried(w))
  <2>1. PlacementOf(rec) = [gen |-> Carried(w).gen, targets |-> Carried(w).targets]
    BY Zenon DEF PlacementOf, FreshRecord
  <2>2. Carried(w) = persisted[w]
    BY <1>a, Zenon DEF Carried, Registered, old
  <2>3. persisted[w] = [gen |-> persisted[w].gen, targets |-> persisted[w].targets]
    BY Zenon DEF TypeOK, Placements
  <2>4. workers' \in {[workers EXCEPT ![w] = rec], workers}
    BY <1>1, OutcomeWorkers, Zenon DEF Register
  <2>5. UNCHANGED <<persisted, placements>>
    BY <1>1, Zenon DEF Register
  <2>6. persisted[w] = PlacementOf(rec)
    BY <2>1, <2>2, <2>3, Zenon
  <2> HIDE DEF rec
  <2> QED
    BY <2>4, <2>5, <2>6, RecordKeepsPlacement
<1>2. CASE OpenHeartbeat(w, s)
  <2> DEFINE rec == [old EXCEPT !.lease = nextLease + 1, !.open = TRUE]
  <2>1. rec.start = old.start /\ PlacementOf(rec) = PlacementOf(old)
    BY <1>0, Zenon DEF PlacementOf, WorkerRecords
  <2>2. workers' \in {[workers EXCEPT ![w] = rec], workers}
    BY <1>2, Zenon DEF OpenHeartbeat, old
  <2>3. UNCHANGED <<persisted, placements>>
    BY <1>2, Zenon DEF OpenHeartbeat
  <2> HIDE DEF rec
  <2> QED
    BY <1>a, <2>1, <2>2, <2>3, RecordKeepsPlacement
<1>3. ASSUME NEW l, NEW n, NEW run, NEW result, Heartbeat(w, s, l, n, run, result)
      PROVE  PlacementDurable'
  <2> DEFINE rec == [old EXCEPT !.live = TRUE, !.sequence = n, !.run = run]
  <2>1. rec.start = old.start /\ PlacementOf(rec) = PlacementOf(old)
    BY <1>0, Zenon DEF PlacementOf, WorkerRecords
  <2>2. workers' \in {[workers EXCEPT ![w] = rec], workers}
    BY <1>3, OutcomeWorkers, Zenon DEF Heartbeat, old
  <2>3. UNCHANGED <<persisted, placements>>
    BY <1>3, Zenon DEF Heartbeat
  <2> HIDE DEF rec
  <2> QED
    BY <1>a, <2>1, <2>2, <2>3, RecordKeepsPlacement
<1>4. ASSUME NEW l, NEW result, CloseHeartbeat(w, s, l, result) PROVE PlacementDurable'
  <2> DEFINE rec == [old EXCEPT !.open = FALSE, !.live = FALSE]
  <2>1. rec.start = old.start /\ PlacementOf(rec) = PlacementOf(old)
    BY <1>0, Zenon DEF PlacementOf, WorkerRecords
  <2>2. workers' \in {[workers EXCEPT ![w] = rec], workers}
    BY <1>4, OutcomeWorkers, Zenon DEF CloseHeartbeat, old
  <2>3. UNCHANGED <<persisted, placements>>
    BY <1>4, Zenon DEF CloseHeartbeat
  <2> HIDE DEF rec
  <2> QED
    BY <1>a, <2>1, <2>2, <2>3, RecordKeepsPlacement
<1>5. ASSUME NEW targets \in TargetLists, SetTargets(w, s, targets) PROVE PlacementDurable'
  BY <1>5, SetTargetsDurable, Zenon
<1>6. ASSUME NEW g, NEW n, NEW full, NEW report, NEW result,
             ApplyStateReport(w, s, g, n, full, report, result)
      PROVE  PlacementDurable'
  <2> DEFINE rec == [old EXCEPT !.states = Reported(old.states, full, report), !.report = n]
  <2>1. rec.start = old.start /\ PlacementOf(rec) = PlacementOf(old)
    BY <1>0, Zenon DEF PlacementOf, WorkerRecords
  <2>2. workers' \in {[workers EXCEPT ![w] = rec], workers}
    BY <1>6, OutcomeWorkers, Zenon DEF ApplyStateReport, old
  <2>3. UNCHANGED <<persisted, placements>>
    BY <1>6, Zenon DEF ApplyStateReport
  <2> HIDE DEF rec
  <2> QED
    BY <1>a, <2>1, <2>2, <2>3, RecordKeepsPlacement
<1>7. ASSUME NEW result, DrainAuthorizations(w, s, result) PROVE PlacementDurable'
  <2>1. PICK drains : workers' \in
          {[workers EXCEPT ![w] = [[old EXCEPT !.included = FALSE] EXCEPT !.drains = drains]],
           workers}
    BY <1>7, Zenon DEF DrainAuthorizations, old
  <2> DEFINE rec == [[old EXCEPT !.included = FALSE] EXCEPT !.drains = drains]
  <2>2. rec.start = old.start /\ PlacementOf(rec) = PlacementOf(old)
    BY <1>0, Zenon DEF PlacementOf, WorkerRecords
  <2>3. UNCHANGED <<persisted, placements>>
    BY <1>7, Zenon DEF DrainAuthorizations
  <2> HIDE DEF rec
  <2>4. workers' \in {[workers EXCEPT ![w] = rec], workers}
    BY <2>1, Zenon DEF rec
  <2> QED
    BY <1>a, <2>2, <2>3, <2>4, RecordKeepsPlacement
<1>8. ASSUME NEW id, NEW result, CompleteDrain(w, s, id, result) PROVE PlacementDurable'
  <2>1. PICK drains, live : workers' \in
          {[workers EXCEPT ![w] = [old EXCEPT !.drains = drains, !.live = live]], workers}
    BY <1>8, OutcomeWorkers, Zenon DEF CompleteDrain, old
  <2> DEFINE rec == [old EXCEPT !.drains = drains, !.live = live]
  <2>2. rec.start = old.start /\ PlacementOf(rec) = PlacementOf(old)
    BY <1>0, Zenon DEF PlacementOf, WorkerRecords
  <2>3. UNCHANGED <<persisted, placements>>
    BY <1>8, Zenon DEF CompleteDrain
  <2> HIDE DEF rec
  <2>4. workers' \in {[workers EXCEPT ![w] = rec], workers}
    BY <2>1, Zenon DEF rec
  <2> QED
    BY <1>a, <2>2, <2>3, <2>4, RecordKeepsPlacement
<1> QED
  BY <1>1, <1>2, <1>3, <1>4, <1>5, <1>6, <1>7, <1>8, Zenon DEF Step

(* For every instance size, and also when handlers are dropped: a Worker is
   only ever told of a placement whose row is written, and a restart finds that
   row or a later generation's. *)
THEOREM PlacementsAreDurable == Spec => []PlacementDurable
<1>1. Init => PlacementDurable
  BY DEF Init, PlacementDurable, Registered, FreshRecord
<1>2. TypeOK /\ PlacementDurable /\ [Next]_vars => PlacementDurable'
  <2> SUFFICES ASSUME TypeOK, PlacementDurable, [Next]_vars PROVE PlacementDurable'
    BY Zenon
  <2>1. CASE Restart
    BY <2>1, Zenon DEF Restart, PlacementDurable, Registered, FreshRecord
  <2>2. CASE UNCHANGED vars
    BY <2>2, Zenon DEF vars, PlacementDurable, Registered, PlacementOf
  <2> QED
    BY <2>1, <2>2, StepDurable, Zenon DEF Next
<1> QED
  BY <1>1, <1>2, TypeCorrect, PTL DEF Spec

-----------------------------------------------------------------------------
(* Publishing, failing at the store and restoring are steps of the abstract
   route table; nothing else touches it. *)
LEMMA PublishedRefines ==
    ASSUME NEW ws, NEW affected, routes' \in Table!RouteTables, Published(ws, affected)
    PROVE  [Table!TopologyNext]_(Table!topologyVars)
<1>1. CASE Table!Publish(NewRoutes(ws, affected))
  <2>1. NewRoutes(ws, affected) \in Table!RouteTables
    BY <1>1, Zenon DEF Table!Publish
  <2> QED
    BY <1>1, <2>1, Zenon DEF Table!TopologyNext
<1>2. CASE UNCHANGED topologyVars
  BY <1>2, Zenon DEF topologyVars, Table!topologyVars
<1> QED
  BY <1>1, <1>2, Zenon DEF Published

(* The end every operation shares is a step of the abstract table or a stutter. *)
LEMMA OutcomeRefines ==
    ASSUME NEW ws, NEW affected, NEW result, routes' \in Table!RouteTables,
           Outcome(ws, affected, result)
    PROVE  [Table!TopologyNext]_(Table!topologyVars)
<1>1. CASE Published(ws, affected)
  BY <1>1, PublishedRefines, Zenon
<1>2. CASE Unpublished(ws, affected)
  BY <1>2, Zenon DEF Unpublished, Table!TopologyNext
<1> QED
  BY <1>1, <1>2, Zenon DEF Outcome

(* Every operation is a step of the abstract table or a stutter. *)
LEMMA StepRefines ==
    ASSUME NEW w \in Workers, NEW s \in Starts, routes' \in Table!RouteTables, Step(w, s)
    PROVE  [Table!TopologyNext]_(Table!topologyVars)
<1>1. ASSUME NEW result, Register(w, s, result)
      PROVE  [Table!TopologyNext]_(Table!topologyVars)
  BY <1>1, OutcomeRefines, Zenon DEF Register
<1>2. CASE OpenHeartbeat(w, s)
  BY <1>2, Zenon DEF OpenHeartbeat, topologyVars, Table!topologyVars
<1>3. ASSUME NEW l, NEW n, NEW run, NEW result, Heartbeat(w, s, l, n, run, result)
      PROVE  [Table!TopologyNext]_(Table!topologyVars)
  BY <1>3, OutcomeRefines, Zenon DEF Heartbeat
<1>4. ASSUME NEW l, NEW result, CloseHeartbeat(w, s, l, result)
      PROVE  [Table!TopologyNext]_(Table!topologyVars)
  BY <1>4, OutcomeRefines, Zenon DEF CloseHeartbeat
<1>5. ASSUME NEW targets, SetTargets(w, s, targets)
      PROVE  [Table!TopologyNext]_(Table!topologyVars)
  <2> DEFINE place == [gen |-> workers[w].gen + 1, targets |-> targets]
  <2>1. CASE SetTargetsUnsaved(w, place)
    BY <2>1, Zenon DEF SetTargetsUnsaved, topologyVars, Table!topologyVars
  <2>2. CASE SetTargetsUnpublished(w, place)
    BY <2>2, OutcomeRefines, Zenon DEF SetTargetsUnpublished
  <2>3. CASE SetTargetsApplied(w, place)
    BY <2>3, PublishedRefines, Zenon DEF SetTargetsApplied
  <2> QED
    BY <1>5, <2>1, <2>2, <2>3, Zenon DEF SetTargets
<1>6. ASSUME NEW g, NEW n, NEW full, NEW report, NEW result,
             ApplyStateReport(w, s, g, n, full, report, result)
      PROVE  [Table!TopologyNext]_(Table!topologyVars)
  BY <1>6, OutcomeRefines, Zenon DEF ApplyStateReport
<1>7. ASSUME NEW result, DrainAuthorizations(w, s, result)
      PROVE  [Table!TopologyNext]_(Table!topologyVars)
  <2>1. CASE result = "ok"
    BY <1>7, <2>1, PublishedRefines, Zenon DEF DrainAuthorizations
  <2>2. CASE result = "error"
    BY <1>7, <2>2, Zenon DEF DrainAuthorizations, Unpublished, Table!TopologyNext
  <2> QED
    BY <1>7, <2>1, <2>2, Zenon DEF DrainAuthorizations
<1>8. ASSUME NEW id, NEW result, CompleteDrain(w, s, id, result)
      PROVE  [Table!TopologyNext]_(Table!topologyVars)
  BY <1>8, OutcomeRefines, Zenon DEF CompleteDrain
<1> QED
  BY <1>1, <1>2, <1>3, <1>4, <1>5, <1>6, <1>7, <1>8, Zenon DEF Step

(* The Controller implements the abstract route table for every instance size,
   with failed store calls, dropped handlers and restarts included. *)
THEOREM ControllerRefinesTopology == Spec => TopologyRefined
<1>1. Init => Table!TopologyInit
  BY Zenon DEF Init
<1>2. TypeOK /\ TypeOK' /\ [Next]_vars => [Table!TopologyNext]_(Table!topologyVars)
  <2> SUFFICES ASSUME TypeOK, TypeOK', [Next]_vars
               PROVE  [Table!TopologyNext]_(Table!topologyVars)
    BY Zenon
  <2>1. routes' \in Table!RouteTables
    BY Zenon DEF TypeOK, Table!TopologyTypeOK
  <2>2. CASE Restart
    BY <2>2, Zenon DEF Restart, KnownInstance, Table!TopologyNext
  <2>3. CASE UNCHANGED vars
    BY <2>3, Zenon DEF vars, topologyVars, Table!topologyVars
  <2> QED
    BY <2>1, <2>2, <2>3, StepRefines, Zenon DEF Next
<1> QED
  BY <1>1, <1>2, TypeCorrect, PTL DEF Spec, TopologyRefined, Table!TopologySpec

-----------------------------------------------------------------------------
(* What makes a drain safe in a Worker's own record. With exact routes it keeps
   the drained experts out of the table. *)
Apart(rec, v) ==
    \A d \in rec.drains :
        /\ d.minVersion =< v
        /\ d.stopAll => ~rec.included
        /\ ~d.stopAll /\ ~d.completed => d.experts \intersect DOMAIN rec.targets = {}

DrainsApart == \A w \in Workers : Apart(workers[w], version)

(* Exact routes and separated records give DrainedNotRouted. *)
LEMMA ExactAndApart ==
    ASSUME TypeOK, RoutesExact, DrainsApart
    PROVE  DrainedNotRouted
<1> SUFFICES ASSUME NEW w \in Workers, NEW d \in workers[w].drains
             PROVE  /\ d.minVersion =< version
                    /\ \A k \in Experts :
                         d.stopAll \/ (~d.completed /\ k \in d.experts)
                           => Process(w, workers[w]) \notin routes[k]
  BY Zenon DEF DrainedNotRouted
<1>1. d.minVersion =< version
  BY Zenon DEF DrainsApart, Apart
<1>2. ASSUME NEW k \in Experts, d.stopAll \/ (~d.completed /\ k \in d.experts)
      PROVE  ~Serves(workers[w], k)
  BY <1>2, Zenon DEF DrainsApart, Apart, Serves
<1>3. \A k \in Experts : ~Serves(workers[w], k) => Process(w, workers[w]) \notin routes[k]
  BY DEF RoutesExact, Serving, Process
<1> QED
  BY <1>1, <1>2, <1>3, Zenon

(* No step of an operation lowers the version. *)
LEMMA VersionGrows ==
    ASSUME TypeOK, NEW ws, NEW affected,
           Published(ws, affected) \/ Unpublished(ws, affected)
    PROVE  version' >= version /\ version' \in Nat
BY DEF Published, Unpublished, Table!Publish, Table!AdvanceFails, Table!NextVersion,
       topologyVars, TypeOK, Table!TopologyTypeOK

(* Replacing one separated record by another keeps DrainsApart. *)
LEMMA RecordKeepsApart ==
    ASSUME TypeOK, DrainsApart, NEW w \in Workers, NEW rec,
           workers' \in {[workers EXCEPT ![w] = rec], workers},
           version' \in Nat, version' >= version, Apart(rec, version')
    PROVE  DrainsApart'
<1>1. \A v \in Workers : Apart(workers[v], version')
  <2> SUFFICES ASSUME NEW v \in Workers, NEW d \in workers[v].drains
               PROVE  d.minVersion =< version'
    BY Zenon DEF DrainsApart, Apart
  <2>1. d.minVersion \in Nat /\ version \in Nat
    BY DEF TypeOK, WorkerRecords, DrainRecords, Table!TopologyTypeOK
  <2>2. d.minVersion =< version
    BY Zenon DEF DrainsApart, Apart
  <2> QED
    BY <2>1, <2>2
<1>2. \A v \in Workers : workers'[v] = workers[v] \/ workers'[v] = rec
  BY Zenon DEF TypeOK
<1> QED
  BY <1>1, <1>2, Zenon DEF DrainsApart

(* A record that keeps its drains, its place in the topology and its targets. *)
LEMMA OutcomeKeepsApart ==
    ASSUME TypeOK, DrainsApart, NEW w \in Workers, NEW rec, NEW affected, NEW result,
           Outcome([workers EXCEPT ![w] = rec], affected, result),
           \A v \in Nat : v >= version => Apart(rec, v)
    PROVE  DrainsApart'
<1>1. version' \in Nat /\ version' >= version
  BY VersionGrows, Zenon DEF Outcome
<1>2. workers' \in {[workers EXCEPT ![w] = rec], workers}
  BY OutcomeWorkers, Zenon
<1> QED
  BY <1>1, <1>2, RecordKeepsApart

(* A record whose drains, targets and inclusion stay as they are stays separated. *)
LEMMA SameDrainsApart ==
    ASSUME TypeOK, DrainsApart, NEW w \in Workers, NEW rec,
           rec.drains = workers[w].drains, rec.included = workers[w].included,
           rec.targets = workers[w].targets
    PROVE  \A v \in Nat : v >= version => Apart(rec, v)
<1> SUFFICES ASSUME NEW v \in Nat, v >= version, NEW d \in workers[w].drains
             PROVE  d.minVersion =< v
  BY Zenon DEF DrainsApart, Apart
<1>1. d.minVersion \in Nat /\ version \in Nat
  BY DEF TypeOK, WorkerRecords, DrainRecords, Table!TopologyTypeOK
<1>2. d.minVersion =< version
  BY Zenon DEF DrainsApart, Apart
<1> QED
  BY <1>1, <1>2

(* set_targets keeps targets and outstanding drains apart: older drains end and
   the new one names only what left the targets. *)
LEMMA SetTargetsApart ==
    ASSUME TypeOK, DrainsApart, NEW w \in Workers, NEW s \in Starts,
           NEW targets \in TargetLists, SetTargets(w, s, targets)
    PROVE  DrainsApart'
<1> DEFINE old == workers[w]
           place == [gen |-> old.gen + 1, targets |-> targets]
<1>1. CASE SetTargetsUnsaved(w, place)
  BY <1>1, Zenon DEF SetTargetsUnsaved, topologyVars, DrainsApart, Apart
<1>2. CASE SetTargetsUnpublished(w, place)
  <2>1. UNCHANGED <<workers, version>>
    BY <1>2, Zenon DEF SetTargetsUnpublished, Outcome, Unpublished, Table!AdvanceFails
  <2> QED
    BY <2>1, Zenon DEF DrainsApart, Apart
<1>3. CASE SetTargetsApplied(w, place)
  <2> DEFINE moved == [old EXCEPT !.gen = place.gen, !.targets = place.targets]
             drained == ToDrain(old, place.targets)
             drain == [id |-> nextDrain + 1, gen |-> place.gen, minVersion |-> version',
                       stopAll |-> FALSE, experts |-> drained, completed |-> FALSE]
             drains == Superseded(old.drains) \union (IF drained = {} THEN {} ELSE {drain})
             rec == [moved EXCEPT !.drains = drains]
  <2>1. workers' = [workers EXCEPT ![w] = rec]
    BY <1>3, Zenon DEF SetTargetsApplied
  <2>2. version' \in Nat /\ version' >= version
    BY <1>3, VersionGrows, Zenon DEF SetTargetsApplied
  <2>3. old \in WorkerRecords /\ version \in Nat
    BY Zenon DEF TypeOK, Table!TopologyTypeOK
  <2>4. rec.drains = drains /\ rec.targets = targets /\ rec.included = old.included
    BY <2>3, Zenon DEF WorkerRecords
  <2>5. ASSUME NEW d \in Superseded(old.drains)
        PROVE  /\ d.minVersion =< version'
               /\ d.stopAll => ~old.included
               /\ d.stopAll \/ d.completed
    <3>1. PICK e \in old.drains : d = [e EXCEPT !.completed = @ \/ ~e.stopAll]
      BY <2>5, Zenon DEF Superseded
    <3>2. e \in DrainRecords
      BY <2>3, Zenon DEF WorkerRecords
    <3>3. /\ d.minVersion = e.minVersion /\ d.stopAll = e.stopAll
          /\ d.completed = (e.completed \/ ~e.stopAll)
      BY <3>1, <3>2, Zenon DEF DrainRecords
    <3>4. e.minVersion =< version /\ (e.stopAll => ~old.included)
      BY Zenon DEF DrainsApart, Apart
    <3>5. d.minVersion =< version'
      BY <3>2, <3>3, <3>4, <2>2, <2>3 DEF DrainRecords
    <3>6. d.stopAll \/ d.completed
      BY <3>2, <3>3, Zenon DEF DrainRecords
    <3> QED
      BY <3>3, <3>4, <3>5, <3>6, Zenon
  <2>6. /\ drain.minVersion =< version' /\ ~drain.stopAll
        /\ drain.experts \intersect DOMAIN targets = {}
    <3>1. ToDrain(old, targets) \intersect DOMAIN targets = {}
      BY Zenon DEF ToDrain
    <3>2. /\ drain.minVersion = version' /\ ~drain.stopAll
          /\ drain.experts = ToDrain(old, targets)
      BY Zenon
    <3> QED
      BY <2>2, <3>1, <3>2
  <2>7. Apart(rec, version')
    <3>1. \A d \in rec.drains : d \in Superseded(old.drains) \/ d = drain
      BY <2>4, Zenon
    <3> HIDE DEF rec, drain, drains
    <3> QED
      BY <2>4, <2>5, <2>6, <3>1, Zenon DEF Apart
  <2> HIDE DEF rec
  <2>8. workers' \in {[workers EXCEPT ![w] = rec], workers}
    BY <2>1, Zenon
  <2> QED
    BY <2>2, <2>7, <2>8, RecordKeepsApart
<1> QED
  BY <1>1, <1>2, <1>3, Zenon DEF SetTargets

(* drain_authorizations excludes the process together with its whole-Worker drain. *)
LEMMA DrainAuthorizationsApart ==
    ASSUME TypeOK, DrainsApart, NEW w \in Workers, NEW s \in Starts, NEW result,
           DrainAuthorizations(w, s, result)
    PROVE  DrainsApart'
<1>1. CASE result = "ok"
  <2> DEFINE old == workers[w]
             excluded == [old EXCEPT !.included = FALSE]
             drain == [id |-> nextDrain + 1, gen |-> old.gen, minVersion |-> version',
                       stopAll |-> TRUE, experts |-> ReadyKeys(old), completed |-> FALSE]
             rec == [excluded EXCEPT !.drains = @ \union {drain}]
  <2>1. workers' = [workers EXCEPT ![w] = rec]
    BY <1>1, Zenon DEF DrainAuthorizations
  <2>2. version' \in Nat /\ version' >= version
    BY <1>1, VersionGrows, Zenon DEF DrainAuthorizations
  <2>3. old \in WorkerRecords
    BY Zenon DEF TypeOK
  <2>4. /\ rec.drains = old.drains \union {drain}
        /\ rec.targets = old.targets /\ rec.included = FALSE
    BY <2>3, Zenon DEF WorkerRecords
  <2>5. ASSUME NEW d \in old.drains
        PROVE  /\ d.minVersion =< version'
               /\ ~d.stopAll /\ ~d.completed => d.experts \intersect DOMAIN old.targets = {}
    <3>1. d.minVersion \in Nat /\ version \in Nat
      BY <2>3, Zenon DEF TypeOK, WorkerRecords, DrainRecords, Table!TopologyTypeOK
    <3>2. d.minVersion =< version
      BY Zenon DEF DrainsApart, Apart
    <3>3. ~d.stopAll /\ ~d.completed => d.experts \intersect DOMAIN old.targets = {}
      BY Zenon DEF DrainsApart, Apart
    <3> QED
      BY <3>1, <3>2, <3>3, <2>2
  <2>6. drain.minVersion =< version' /\ drain.stopAll
    BY <2>2
  <2> HIDE DEF rec, drain
  <2>7. Apart(rec, version')
    BY <2>4, <2>5, <2>6, Zenon DEF Apart
  <2>8. workers' \in {[workers EXCEPT ![w] = rec], workers}
    BY <2>1, Zenon
  <2> QED
    BY <2>2, <2>7, <2>8, RecordKeepsApart
<1>2. CASE result = "error"
  BY <1>2, Zenon DEF DrainAuthorizations, Unpublished, Table!AdvanceFails, DrainsApart, Apart
<1> QED
  BY <1>1, <1>2, Zenon DEF DrainAuthorizations

(* complete_drain only ends a drain. *)
LEMMA CompleteDrainApart ==
    ASSUME TypeOK, DrainsApart, NEW w \in Workers, NEW s \in Starts, NEW id, NEW result,
           CompleteDrain(w, s, id, result)
    PROVE  DrainsApart'
<1> DEFINE old == workers[w]
           done(d) == [d EXCEPT !.completed = TRUE]
<1>1. old \in WorkerRecords /\ version \in Nat
  BY Zenon DEF TypeOK, Table!TopologyTypeOK
<1>2. PICK d, live, affected :
        /\ d \in old.drains
        /\ Outcome([workers EXCEPT ![w] =
                     [old EXCEPT !.drains = (old.drains \ {d}) \union {done(d)}, !.live = live]],
                   affected, result)
  BY Zenon DEF CompleteDrain
<1> DEFINE drains == (old.drains \ {d}) \union {done(d)}
           rec == [old EXCEPT !.drains = drains, !.live = live]
<1>3. rec.drains = drains /\ rec.included = old.included /\ rec.targets = old.targets
  BY <1>1, Zenon DEF WorkerRecords
<1>4. d \in DrainRecords
  BY <1>1, <1>2, Zenon DEF WorkerRecords
<1>5. /\ done(d).minVersion = d.minVersion /\ done(d).stopAll = d.stopAll /\ done(d).completed
  BY <1>4, Zenon DEF DrainRecords
<1>6. \A e \in old.drains : e.minVersion \in Nat
  BY <1>1, Zenon DEF WorkerRecords, DrainRecords
<1>7. Apart(old, version)
  BY Zenon DEF DrainsApart
<1> HIDE DEF rec, done, old
<1>8. ASSUME NEW v \in Nat, v >= version PROVE Apart(rec, v)
  <2>1. \A e \in old.drains : e.minVersion =< v
    BY <1>1, <1>6, <1>7, <1>8 DEF Apart
  <2> QED
    BY <2>1, <1>2, <1>3, <1>5, <1>7, Zenon DEF Apart
<1>9. Outcome([workers EXCEPT ![w] = rec], affected, result)
  BY <1>2, Zenon DEF rec
<1> QED
  BY <1>8, <1>9, OutcomeKeepsApart, Zenon

(* Every operation keeps DrainsApart. *)
LEMMA StepApart ==
    ASSUME TypeOK, DrainsApart, NEW w \in Workers, NEW s \in Starts, Step(w, s)
    PROVE  DrainsApart'
<1> DEFINE old == workers[w]
<1>0. old \in WorkerRecords
  BY Zenon DEF TypeOK
<1>1. ASSUME NEW result, Register(w, s, result) PROVE DrainsApart'
  <2>1. \A v \in Nat : v >= version => Apart(FreshRecord(s, Carried(w)), v)
    BY Zenon DEF FreshRecord, Apart
  <2> QED
    BY <1>1, <2>1, OutcomeKeepsApart, Zenon DEF Register
<1>2. CASE OpenHeartbeat(w, s)
  <2> DEFINE rec == [old EXCEPT !.lease = nextLease + 1, !.open = TRUE]
  <2>1. rec.drains = old.drains /\ rec.included = old.included /\ rec.targets = old.targets
    BY <1>0, Zenon DEF WorkerRecords
  <2>2. workers' \in {[workers EXCEPT ![w] = rec], workers} /\ version' = version
    BY <1>2, Zenon DEF OpenHeartbeat, topologyVars
  <2>3. version' \in Nat /\ version' >= version
    BY <2>2 DEF TypeOK, Table!TopologyTypeOK
  <2> HIDE DEF rec
  <2>4. Apart(rec, version')
    BY <2>1, <2>3, SameDrainsApart, Zenon
  <2> QED
    BY <2>2, <2>3, <2>4, RecordKeepsApart
<1>3. ASSUME NEW l, NEW n, NEW run, NEW result, Heartbeat(w, s, l, n, run, result)
      PROVE  DrainsApart'
  <2> DEFINE rec == [old EXCEPT !.live = TRUE, !.sequence = n, !.run = run]
  <2>1. rec.drains = old.drains /\ rec.included = old.included /\ rec.targets = old.targets
    BY <1>0, Zenon DEF WorkerRecords
  <2>2. Outcome([workers EXCEPT ![w] = rec], IF old.live THEN {} ELSE ReadyKeys(old), result)
    BY <1>3, Zenon DEF Heartbeat
  <2> HIDE DEF rec
  <2>3. \A v \in Nat : v >= version => Apart(rec, v)
    BY <2>1, SameDrainsApart, Zenon
  <2> QED
    BY <2>2, <2>3, OutcomeKeepsApart, Zenon
<1>4. ASSUME NEW l, NEW result, CloseHeartbeat(w, s, l, result) PROVE DrainsApart'
  <2> DEFINE rec == [old EXCEPT !.open = FALSE, !.live = FALSE]
  <2>1. rec.drains = old.drains /\ rec.included = old.included /\ rec.targets = old.targets
    BY <1>0, Zenon DEF WorkerRecords
  <2>2. Outcome([workers EXCEPT ![w] = rec], ReadyKeys(old), result)
    BY <1>4, Zenon DEF CloseHeartbeat
  <2> HIDE DEF rec
  <2>3. \A v \in Nat : v >= version => Apart(rec, v)
    BY <2>1, SameDrainsApart, Zenon
  <2> QED
    BY <2>2, <2>3, OutcomeKeepsApart, Zenon
<1>5. ASSUME NEW targets \in TargetLists, SetTargets(w, s, targets) PROVE DrainsApart'
  BY <1>5, SetTargetsApart, Zenon
<1>6. ASSUME NEW g, NEW n, NEW full, NEW report, NEW result,
             ApplyStateReport(w, s, g, n, full, report, result)
      PROVE  DrainsApart'
  <2> DEFINE rec == [old EXCEPT !.states = Reported(old.states, full, report), !.report = n]
             affected == DOMAIN report \union (IF full THEN DOMAIN old.states ELSE {})
  <2>1. rec.drains = old.drains /\ rec.included = old.included /\ rec.targets = old.targets
    BY <1>0, Zenon DEF WorkerRecords
  <2>2. Outcome([workers EXCEPT ![w] = rec], affected, result)
    BY <1>6, Zenon DEF ApplyStateReport
  <2> HIDE DEF rec, affected
  <2>3. \A v \in Nat : v >= version => Apart(rec, v)
    BY <2>1, SameDrainsApart, Zenon
  <2> QED
    BY <2>2, <2>3, OutcomeKeepsApart, Zenon
<1>7. ASSUME NEW result, DrainAuthorizations(w, s, result) PROVE DrainsApart'
  BY <1>7, DrainAuthorizationsApart, Zenon
<1>8. ASSUME NEW id, NEW result, CompleteDrain(w, s, id, result) PROVE DrainsApart'
  BY <1>8, CompleteDrainApart, Zenon
<1> QED
  BY <1>1, <1>2, <1>3, <1>4, <1>5, <1>6, <1>7, <1>8, Zenon DEF Step

(* As long as no request handler is dropped in the middle of an operation, an
   outstanding drain's experts have no route to the process, and a process told
   to stop has none at all. *)
THEOREM DrainsAreUnrouted == ASSUME ~HandlersCancelled PROVE Spec => []DrainedNotRouted
<1>1. Init => DrainsApart
  BY DEF Init, DrainsApart, Apart, FreshRecord
<1>2. TypeOK /\ DrainsApart /\ [Next]_vars => DrainsApart'
  <2> SUFFICES ASSUME TypeOK, DrainsApart, [Next]_vars PROVE DrainsApart'
    BY Zenon
  <2>1. CASE Restart
    BY <2>1, Zenon DEF Restart, DrainsApart, Apart, FreshRecord
  <2>2. CASE UNCHANGED vars
    BY <2>2, Zenon DEF vars, topologyVars, DrainsApart, Apart
  <2> QED
    BY <2>1, <2>2, StepApart, Zenon DEF Next
<1>3. TypeOK /\ RoutesExact /\ DrainsApart => DrainedNotRouted
  BY ExactAndApart, Zenon
<1> QED
  BY <1>1, <1>2, <1>3, TypeCorrect, RoutesAreExact, PTL DEF Spec

-----------------------------------------------------------------------------
(* set_targets numbers the row it writes one above the mirror, so a row is at
   most one generation ahead of it: a retry after a failed save or publication
   writes the same generation again and never an earlier one. *)
RowsAhead == \A w \in Workers : placements[w].gen =< persisted[w].gen + 1

(* What one step may do to rows and mirrors. *)
RowsGrow ==
    \A w \in Workers :
        /\ placements'[w].gen >= placements[w].gen
        /\ persisted'[w] = persisted[w] \/ persisted'[w].gen > persisted[w].gen

(* set_targets moves a row forward, on each of its three ways out. *)
LEMMA SetTargetsGrows ==
    ASSUME TypeOK, PlacementDurable, RowsAhead, NEW w \in Workers, NEW s \in Starts,
           NEW targets \in TargetLists, SetTargets(w, s, targets)
    PROVE  RowsAhead' /\ RowsGrow
<1> DEFINE place == [gen |-> workers[w].gen + 1, targets |-> targets]
<1>1. persisted[w] = PlacementOf(workers[w])
  BY StartAssumption, Zenon DEF SetTargets, Current, PlacementDurable, Registered
<1>2. \A v \in Workers : placements[v].gen \in Nat /\ persisted[v].gen \in Nat
  BY Zenon DEF TypeOK, Placements
<1>3. place.gen = persisted[w].gen + 1
  BY <1>1 DEF PlacementOf
<1>4. placements' \in {placements, [placements EXCEPT ![w] = place]}
  BY Zenon DEF SetTargets, SetTargetsUnsaved, SetTargetsUnpublished, SetTargetsApplied
<1>5. \/ persisted' = persisted
      \/ persisted' = [persisted EXCEPT ![w] = place] /\ placements' = [placements EXCEPT ![w] = place]
  BY Zenon DEF SetTargets, SetTargetsUnsaved, SetTargetsUnpublished, SetTargetsApplied
<1> HIDE DEF place
<1>6. \A v \in Workers : placements'[v] = placements[v] \/ (v = w /\ placements'[v] = place)
  BY <1>4, Zenon DEF TypeOK
<1>7. \A v \in Workers : persisted'[v] = persisted[v]
                         \/ (v = w /\ persisted'[v] = place /\ placements'[v] = place)
  BY <1>5, Zenon DEF TypeOK
<1>8. \A v \in Workers : placements[v].gen =< persisted[v].gen + 1
  BY Zenon DEF RowsAhead
<1>9. RowsAhead'
  BY <1>2, <1>3, <1>6, <1>7, <1>8 DEF RowsAhead
<1>10. RowsGrow
  BY <1>2, <1>3, <1>6, <1>7, <1>8 DEF RowsGrow
<1> QED
  BY <1>9, <1>10, Zenon

(* No other operation touches rows or mirrors; a restart replaces the mirrors by
   the rows. *)
LEMMA NextGrows ==
    ASSUME TypeOK, PlacementDurable, RowsAhead, [Next]_vars
    PROVE  RowsAhead' /\ (RowsGrow \/ Restart)
<1>0. \A v \in Workers : placements[v].gen \in Nat /\ persisted[v].gen \in Nat
  BY Zenon DEF TypeOK, Placements
<1>a. UNCHANGED <<persisted, placements>> => RowsAhead' /\ RowsGrow
  BY <1>0 DEF RowsAhead, RowsGrow
<1>1. CASE Restart
  BY <1>0, <1>1 DEF Restart, RowsAhead
<1>2. ASSUME NEW w \in Workers, NEW s \in Starts, Step(w, s) PROVE RowsAhead' /\ RowsGrow
  <2>1. CASE UNCHANGED <<persisted, placements>>
    BY <1>a, <2>1, Zenon
  <2>2. ASSUME NEW targets \in TargetLists, SetTargets(w, s, targets) PROVE RowsAhead' /\ RowsGrow
    BY <2>2, SetTargetsGrows, Zenon
  <2> QED
    BY <1>2, <2>1, <2>2, Zenon DEF Step, Register, OpenHeartbeat, Heartbeat, CloseHeartbeat,
                            ApplyStateReport, DrainAuthorizations, CompleteDrain
<1>3. CASE UNCHANGED vars
  BY <1>a, <1>3, Zenon DEF vars
<1> QED
  BY <1>1, <1>2, <1>3, Zenon DEF Next

(* For every instance size, with failed saves, dropped handlers and restarts: rows
   never go back to an earlier generation, and a registered Worker that keeps its
   generation keeps its targets. A registered Worker's placement is its mirror's,
   and the mirror only moves to a later generation. *)
THEOREM GenerationsOnlyGrow == Spec => GenerationsGrow
<1>1. Init => RowsAhead
  BY DEF Init, RowsAhead, NoPlacement
<1>2. TypeOK /\ PlacementDurable /\ RowsAhead /\ [Next]_vars => RowsAhead'
  BY NextGrows, Zenon
<1>3. TypeOK /\ TypeOK' /\ PlacementDurable /\ PlacementDurable' /\ RowsAhead /\ [Next]_vars
        => [\A w \in Workers :
              /\ placements'[w].gen >= placements[w].gen
              /\ Registered(w) /\ workers'[w].start # NoStart =>
                   /\ workers'[w].gen >= workers[w].gen
                   /\ workers'[w].gen = workers[w].gen =>
                         workers'[w].targets = workers[w].targets]_vars
  <2> SUFFICES ASSUME TypeOK, TypeOK', PlacementDurable, PlacementDurable', RowsAhead,
                      [Next]_vars, NEW w \in Workers
               PROVE  /\ placements'[w].gen >= placements[w].gen
                      /\ Registered(w) /\ workers'[w].start # NoStart =>
                           /\ workers'[w].gen >= workers[w].gen
                           /\ workers'[w].gen = workers[w].gen =>
                                 workers'[w].targets = workers[w].targets
    BY Zenon
  <2>1. placements[w].gen \in Nat /\ persisted[w].gen \in Nat
    BY Zenon DEF TypeOK, Placements
  <2>2. CASE Restart
    <3>1. placements' = placements /\ workers'[w].start = NoStart
      BY <2>2, Zenon DEF Restart, FreshRecord
    <3> QED
      BY <2>1, <3>1
  <2>3. CASE RowsGrow
    <3>1. Registered(w) => persisted[w] = PlacementOf(workers[w])
      BY Zenon DEF PlacementDurable
    <3>2. workers'[w].start # NoStart => persisted'[w] = PlacementOf(workers'[w])
      BY Zenon DEF PlacementDurable, Registered, PlacementOf
    <3>3. \A rec : PlacementOf(rec).gen = rec.gen /\ PlacementOf(rec).targets = rec.targets
      BY Zenon DEF PlacementOf
    <3>4. /\ placements'[w].gen >= placements[w].gen
          /\ persisted'[w] = persisted[w] \/ persisted'[w].gen > persisted[w].gen
      BY <2>3, Zenon DEF RowsGrow
    <3>5. ASSUME Registered(w), workers'[w].start # NoStart
          PROVE  /\ workers'[w].gen >= workers[w].gen
                 /\ workers'[w].gen = workers[w].gen => workers'[w].targets = workers[w].targets
      <4>1. persisted[w].gen = workers[w].gen /\ persisted[w].targets = workers[w].targets
        BY <3>1, <3>3, <3>5, Zenon
      <4>2. persisted'[w].gen = workers'[w].gen /\ persisted'[w].targets = workers'[w].targets
        BY <3>2, <3>3, <3>5, Zenon
      <4>3. persisted'[w].gen \in Nat
        BY Zenon DEF TypeOK, Placements
      <4> QED
        BY <2>1, <3>4, <4>1, <4>2, <4>3
    <3> QED
      BY <3>4, <3>5, Zenon
  <2> QED
    BY <2>2, <2>3, NextGrows, Zenon
<1> QED
  BY <1>1, <1>2, <1>3, TypeCorrect, PlacementsAreDurable, PTL DEF Spec, GenerationsGrow

-----------------------------------------------------------------------------
(* Replacing one record by one that is still in the topology takes no process out. *)
LEMMA RecordKeepsIncluded ==
    ASSUME TypeOK, NEW w \in Workers, NEW rec,
           workers' \in {[workers EXCEPT ![w] = rec], workers},
           workers[w].included => rec.included
    PROVE  \A v \in Workers : workers[v].included => workers'[v].included
<1>1. \A v \in Workers : workers'[v] = workers[v] \/ (v = w /\ workers'[v] = rec)
  BY Zenon DEF TypeOK
<1> QED
  BY <1>1, Zenon

(* The only step that takes a process out of the topology is drain_authorizations
   when it creates the whole-Worker drain. *)
LEMMA ExclusionIsDrain ==
    ASSUME TypeOK, [Next]_vars, NEW v \in Workers, workers[v].included, ~workers'[v].included
    PROVE  \E s \in Starts : DrainAuthorizations(v, s, "ok")
<1>1. ~Restart
  BY DEF Restart, FreshRecord
<1>2. workers' # workers
  BY Zenon
<1>3. PICK w \in Workers, s \in Starts : Step(w, s)
  BY <1>1, <1>2, Zenon DEF Next, vars
<1> DEFINE old == workers[w]
<1>4. old \in WorkerRecords
  BY Zenon DEF TypeOK
<1> HIDE DEF old
<1>5. ASSUME NEW rec, workers' \in {[workers EXCEPT ![w] = rec], workers}
      PROVE  old.included /\ ~rec.included
  BY <1>5, RecordKeepsIncluded DEF old
<1>6. ~\E result : Register(w, s, result)
  <2> SUFFICES ASSUME NEW result, Register(w, s, result) PROVE FALSE
    BY Zenon
  <2>1. workers' \in {[workers EXCEPT ![w] = FreshRecord(s, Carried(w))], workers}
    BY OutcomeWorkers, Zenon DEF Register
  <2>2. FreshRecord(s, Carried(w)).included
    BY Zenon DEF FreshRecord
  <2> QED
    BY <1>5, <2>1, <2>2
<1>7. ~OpenHeartbeat(w, s)
  <2> SUFFICES ASSUME OpenHeartbeat(w, s) PROVE FALSE
    BY Zenon
  <2> DEFINE rec == [old EXCEPT !.lease = nextLease + 1, !.open = TRUE]
  <2>1. rec.included = old.included
    BY <1>4, Zenon DEF WorkerRecords
  <2>2. workers' \in {[workers EXCEPT ![w] = rec], workers}
    BY Zenon DEF OpenHeartbeat, old
  <2> HIDE DEF rec
  <2> QED
    BY <1>5, <2>1, <2>2
<1>8. ~\E l, n, run, result : Heartbeat(w, s, l, n, run, result)
  <2> SUFFICES ASSUME NEW l, NEW n, NEW run, NEW result, Heartbeat(w, s, l, n, run, result)
               PROVE  FALSE
    BY Zenon
  <2> DEFINE rec == [old EXCEPT !.live = TRUE, !.sequence = n, !.run = run]
  <2>1. rec.included = old.included
    BY <1>4, Zenon DEF WorkerRecords
  <2>2. workers' \in {[workers EXCEPT ![w] = rec], workers}
    BY OutcomeWorkers, Zenon DEF Heartbeat, old
  <2> HIDE DEF rec
  <2> QED
    BY <1>5, <2>1, <2>2
<1>9. ~\E l, result : CloseHeartbeat(w, s, l, result)
  <2> SUFFICES ASSUME NEW l, NEW result, CloseHeartbeat(w, s, l, result) PROVE FALSE
    BY Zenon
  <2> DEFINE rec == [old EXCEPT !.open = FALSE, !.live = FALSE]
  <2>1. rec.included = old.included
    BY <1>4, Zenon DEF WorkerRecords
  <2>2. workers' \in {[workers EXCEPT ![w] = rec], workers}
    BY OutcomeWorkers, Zenon DEF CloseHeartbeat, old
  <2> HIDE DEF rec
  <2> QED
    BY <1>5, <2>1, <2>2
<1>10. ~\E targets : SetTargets(w, s, targets)
  <2> SUFFICES ASSUME NEW targets, SetTargets(w, s, targets) PROVE FALSE
    BY Zenon
  <2> DEFINE place == [gen |-> workers[w].gen + 1, targets |-> targets]
  <2>1. SetTargetsApplied(w, place)
    BY <1>2, Zenon DEF SetTargets, SetTargetsUnsaved, SetTargetsUnpublished, Outcome
  <2>2. PICK drains : workers' = [workers EXCEPT ![w] =
             [[old EXCEPT !.gen = place.gen, !.targets = place.targets] EXCEPT !.drains = drains]]
    BY <2>1, Zenon DEF SetTargetsApplied, old
  <2> DEFINE rec == [[old EXCEPT !.gen = place.gen, !.targets = place.targets]
                        EXCEPT !.drains = drains]
  <2>3. rec.included = old.included
    BY <1>4, Zenon DEF WorkerRecords
  <2> HIDE DEF rec
  <2>4. workers' \in {[workers EXCEPT ![w] = rec], workers}
    BY <2>2, Zenon DEF rec
  <2> QED
    BY <1>5, <2>3, <2>4
<1>11. ~\E g, n, full, report, result : ApplyStateReport(w, s, g, n, full, report, result)
  <2> SUFFICES ASSUME NEW g, NEW n, NEW full, NEW report, NEW result,
                      ApplyStateReport(w, s, g, n, full, report, result)
               PROVE  FALSE
    BY Zenon
  <2> DEFINE rec == [old EXCEPT !.states = Reported(old.states, full, report), !.report = n]
  <2>1. rec.included = old.included
    BY <1>4, Zenon DEF WorkerRecords
  <2>2. workers' \in {[workers EXCEPT ![w] = rec], workers}
    BY OutcomeWorkers, Zenon DEF ApplyStateReport, old
  <2> HIDE DEF rec
  <2> QED
    BY <1>5, <2>1, <2>2
<1>12. ~\E id, result : CompleteDrain(w, s, id, result)
  <2> SUFFICES ASSUME NEW id, NEW result, CompleteDrain(w, s, id, result) PROVE FALSE
    BY Zenon
  <2>1. PICK drains, live : workers' \in
          {[workers EXCEPT ![w] = [old EXCEPT !.drains = drains, !.live = live]], workers}
    BY OutcomeWorkers, Zenon DEF CompleteDrain, old
  <2> DEFINE rec == [old EXCEPT !.drains = drains, !.live = live]
  <2>2. rec.included = old.included
    BY <1>4, Zenon DEF WorkerRecords
  <2> HIDE DEF rec
  <2>3. workers' \in {[workers EXCEPT ![w] = rec], workers}
    BY <2>1, Zenon DEF rec
  <2> QED
    BY <1>5, <2>2, <2>3
<1>13. PICK result : DrainAuthorizations(w, s, result)
  BY <1>3, <1>6, <1>7, <1>8, <1>9, <1>10, <1>11, <1>12, Zenon DEF Step
<1>14. result = "ok" /\ v = w
  <2>1. result = "ok"
    BY <1>2, <1>13, Zenon DEF DrainAuthorizations
  <2>2. \A u \in Workers : u # w => workers'[u] = workers[u]
    BY <1>13, <2>1, Zenon DEF DrainAuthorizations, TypeOK
  <2> QED
    BY <2>1, <2>2, Zenon
<1> QED
  BY <1>13, <1>14, Zenon

(* The table drain_authorizations publishes keeps the replacements it looked for. *)
LEMMA ReplacementsStay ==
    ASSUME TypeOK, RoutesExact, NEW w \in Workers, NEW s \in Starts,
           DrainAuthorizations(w, s, "ok"), NEW k \in ReadyKeys(workers[w])
    PROVE  routes'[k] # {}
<1> DEFINE ws == [workers EXCEPT ![w] = [workers[w] EXCEPT !.included = FALSE]]
           ready == ReadyKeys(workers[w])
<1>1. k \in Experts
  BY Zenon DEF ReadyKeys
<1>2. PICK p \in routes[k] : p # Process(w, workers[w])
  BY Zenon DEF DrainAuthorizations, ReplacementsReady
<1>3. Published(ws, ready)
  BY Zenon DEF DrainAuthorizations
<1>4. PICK v \in Workers : Serves(workers[v], k) /\ p = Process(v, workers[v])
  BY <1>1, <1>2, Zenon DEF RoutesExact, Serving
<1>5. v # w
  BY <1>2, <1>4, Zenon
<1>6. ws[v] = workers[v]
  BY <1>5, Zenon DEF TypeOK
<1> HIDE DEF ws
<1>7. p \in Serving(ws, k)
  BY <1>4, <1>6, Zenon DEF Serving
<1>8. NewRoutes(ws, ready)[k] = Serving(ws, k)
  BY <1>1, Zenon DEF NewRoutes
<1>9. routes' = NewRoutes(ws, ready) \/ routes' = routes
  BY <1>3, Zenon DEF Published, Table!Publish, topologyVars
<1> QED
  BY <1>2, <1>7, <1>8, <1>9, Zenon

(* As long as no request handler is dropped in the middle of an operation, taking a
   shutting-down process out of the topology leaves a route to every expert it was
   ready to serve, for every instance size: routes are exact, so the replacement
   that was looked for is a process that still serves afterwards. *)
THEOREM ShutdownsKeepRoutes == ASSUME ~HandlersCancelled PROVE Spec => ShutdownKeepsRoutes
<1>1. TypeOK /\ RoutesExact /\ [Next]_vars
        => [\A w \in Workers :
              /\ workers[w].included
              /\ ~workers'[w].included
              => \A k \in ReadyKeys(workers[w]) : routes'[k] # {}]_vars
  BY ExclusionIsDrain, ReplacementsStay, Zenon
<1> QED
  BY <1>1, TypeCorrect, RoutesAreExact, PTL DEF Spec, ShutdownKeepsRoutes

-----------------------------------------------------------------------------
(* What WorkerLifecycle adds to the Controller: a record per lease, that of the handler. *)
StreamRecords ==
    [start : Starts \union {NoStart}, worker : Workers \union {NoStart},
     pc : {"none", "running", "closing", "leaving", "dropped", "done"},
     closed : BOOLEAN, announced : BOOLEAN, faults : 0..MaxFaults]

StreamsTyped ==
    /\ streams \in [Leases -> StreamRecords]
    /\ \A l \in Leases :
         ~At(l, "none") => streams[l].worker \in Workers /\ streams[l].start \in Starts

(* What a stream's handling has done so far, told by the record of its Worker while
   the stream is the Worker's newest: open until closed, closed before it is announced,
   and after one fault the spawned task has met none. *)
Settled(st, rec) ==
    /\ st.pc \in {"running", "closing"} => rec.open /\ ~st.closed
    /\ ~HandlersCancelled /\ MaxFaults =< 1 =>
         /\ st.pc = "leaving" => st.closed /\ ~rec.live
         /\ st.pc = "dropped" => st.faults > 0 /\ (IF st.closed THEN ~rec.live ELSE rec.open)
         /\ st.pc = "done" => ~rec.live /\ st.announced

(* The stream with lease l is the newest of the Worker with this record. *)
Newest(st, l, rec) == st.pc # "none" /\ rec.start = st.start /\ rec.lease = l

StreamsSettled ==
    \A l \in Leases :
        Newest(streams[l], l, workers[streams[l].worker])
          => Settled(streams[l], workers[streams[l].worker])

LifecycleInv == StreamsTyped /\ StreamsSettled

(* The fields of a record that only streams and registrations change. *)
SameStream(new, old) ==
    /\ new.start = old.start /\ new.lease = old.lease
    /\ new.open = old.open /\ new.live = old.live

-----------------------------------------------------------------------------
(* A stream stays settled when its Worker has another lease or the same record. *)
LEMMA SettledStays ==
    ASSUME NEW st, NEW l, NEW old, NEW new,
           Newest(st, l, old) => Settled(st, old),
           new.lease # l \/ SameStream(new, old)
    PROVE  Newest(st, l, new) => Settled(st, new)
BY Zenon DEF Newest, Settled, SameStream

(* A step of one stream that leaves the records of others alone, and its own Worker's
   unless the lease is this stream's, leaves the other streams settled. *)
LEMMA OneStream ==
    ASSUME LifecycleInv, NEW l \in Leases, ~At(l, "none"), NEW next \in StreamRecords,
           next.worker = streams[l].worker, next.start = streams[l].start,
           streams' = [streams EXCEPT ![l] = next],
           \A v \in Workers :
             \/ workers'[v] = workers[v]
             \/ v = streams[l].worker /\ workers[v].lease = l /\ workers'[v].lease = l,
           Newest(next, l, workers'[next.worker]) => Settled(next, workers'[next.worker])
    PROVE  LifecycleInv'
<1>1. streams \in [Leases -> StreamRecords] /\ streams[l].worker \in Workers
      /\ streams[l].start \in Starts
  BY Zenon DEF LifecycleInv, StreamsTyped
<1>2. \A m \in Leases : streams'[m] = IF m = l THEN next ELSE streams[m]
  BY <1>1, Zenon
<1>3. streams' \in [Leases -> StreamRecords]
  BY <1>1, Zenon
<1>4. StreamsTyped'
  <2>1. \A m \in Leases :
          streams'[m].pc # "none" => streams'[m].worker \in Workers /\ streams'[m].start \in Starts
    BY <1>1, <1>2, Zenon DEF LifecycleInv, StreamsTyped, At
  <2> QED
    BY <1>3, <2>1, Zenon DEF StreamsTyped, At
<1>5. ASSUME NEW m \in Leases, m # l, streams[m].pc # "none"
      PROVE  Newest(streams[m], m, workers'[streams[m].worker])
               => Settled(streams[m], workers'[streams[m].worker])
  <2>1. streams[m].worker \in Workers
    BY <1>5, Zenon DEF LifecycleInv, StreamsTyped, At
  <2>2. CASE workers'[streams[m].worker] = workers[streams[m].worker]
    BY <2>2, Zenon DEF LifecycleInv, StreamsSettled
  <2>3. CASE workers'[streams[m].worker].lease = l
    BY <2>3, <1>5, Zenon DEF Newest
  <2> QED
    BY <2>1, <2>2, <2>3, Zenon
<1>6. StreamsSettled'
  <2>1. ASSUME NEW m \in Leases
        PROVE  Newest(streams'[m], m, workers'[streams'[m].worker])
                 => Settled(streams'[m], workers'[streams'[m].worker])
    <3>1. CASE m = l
      <4>1. streams'[m] = next
        BY <1>2, <3>1, Zenon
      <4> QED
        BY <3>1, <4>1, Zenon
    <3>2. CASE m # l
      <4>1. streams'[m] = streams[m]
        BY <1>2, <3>2, Zenon
      <4>2. CASE streams[m].pc = "none"
        BY <4>1, <4>2, Zenon DEF Newest
      <4>3. CASE streams[m].pc # "none"
        BY <1>5, <3>2, <4>1, <4>3, Zenon
      <4> QED
        BY <4>2, <4>3, Zenon
    <3> QED
      BY <3>1, <3>2, Zenon
  <2> QED
    BY <2>1, Zenon DEF StreamsSettled
<1> QED
  BY <1>4, <1>6, Zenon DEF LifecycleInv

(* The record a stream has once Becomes has counted the step's fault. *)
Follows(after, next, fault) ==
    /\ after.start = next.start /\ after.worker = next.worker /\ after.pc = next.pc
    /\ after.closed = next.closed /\ after.announced = next.announced
    /\ fault => next.faults < MaxFaults /\ after.faults > 0
    /\ ~fault => after.faults = next.faults

(* Becomes changes this stream's record only, and counts a fault within the bound. *)
LEMMA BecomesRecord ==
    ASSUME FaultAssumption, LifecycleInv, NEW l \in Leases, NEW next \in StreamRecords,
           next.faults = streams[l].faults, NEW fault \in BOOLEAN, Becomes(l, next, fault)
    PROVE  \E after \in StreamRecords :
             streams' = [streams EXCEPT ![l] = after] /\ Follows(after, next, fault)
<1> DEFINE n == next.faults + (IF fault THEN 1 ELSE 0)
           after == [next EXCEPT !.faults = n]
<1>1. next.faults \in 0..MaxFaults /\ MaxFaults \in Nat
  BY Zenon DEF StreamRecords, FaultAssumption
<1>2. fault => next.faults < MaxFaults
  BY Zenon DEF Becomes
<1>3. n \in 0..MaxFaults /\ (fault => n > 0) /\ (~fault => n = next.faults)
  BY <1>1, <1>2
<1>4. streams' = [streams EXCEPT ![l] = after]
  BY Zenon DEF Becomes
<1> HIDE DEF n
<1>5. after \in StreamRecords
  BY <1>3, Zenon DEF StreamRecords
<1>6. after.start = next.start /\ after.worker = next.worker /\ after.pc = next.pc
      /\ after.closed = next.closed /\ after.announced = next.announced /\ after.faults = n
  BY Zenon DEF StreamRecords
<1>7. Follows(after, next, fault)
  BY <1>2, <1>3, <1>6, Zenon DEF Follows
<1> QED
  BY <1>4, <1>5, <1>7, Zenon

(* close_heartbeat closes this lease and nothing else; an error changes nothing. *)
LEMMA CloseRecord ==
    ASSUME TypeOK, NEW w \in Workers, NEW s, NEW l, NEW result,
           CloseHeartbeat(w, s, l, result)
    PROVE  /\ \A v \in Workers : v # w => workers'[v] = workers[v]
           /\ workers[w].lease = l /\ workers'[w].lease = l
           /\ workers[w].open
           /\ result = "ok" => ~workers'[w].live
           /\ result = "error" => workers' = workers
           /\ result \in {"ok", "error", "cancelled"}
<1> DEFINE rec == [workers[w] EXCEPT !.open = FALSE, !.live = FALSE]
           ws == [workers EXCEPT ![w] = rec]
<1>1. Outcome(ws, ReadyKeys(workers[w]), result)
      /\ workers[w].lease = l /\ workers[w].open
  BY Zenon DEF CloseHeartbeat
<1>2. workers \in [Workers -> WorkerRecords] /\ workers[w] \in WorkerRecords
  BY Zenon DEF TypeOK
<1>3. rec.lease = workers[w].lease /\ rec.live = FALSE
  BY <1>2, Zenon DEF WorkerRecords
<1> HIDE DEF rec
<1>4. ws[w] = rec /\ \A v \in Workers : v # w => ws[v] = workers[v]
  BY <1>2, Zenon
<1>5. /\ result = "ok" => workers' = ws
      /\ result = "error" => workers' = workers
      /\ workers' = ws \/ workers' = workers
      /\ result \in {"ok", "error", "cancelled"}
  BY <1>1, Zenon DEF Outcome
<1> HIDE DEF ws
<1> QED
  BY <1>1, <1>3, <1>4, <1>5, Zenon

(* heartbeat may make the Worker live and leaves its lease as open as it was. *)
LEMMA HeartbeatRecord ==
    ASSUME TypeOK, NEW w \in Workers, NEW s, NEW l, NEW n, NEW run, NEW result,
           Heartbeat(w, s, l, n, run, result)
    PROVE  /\ \A v \in Workers : v # w => workers'[v] = workers[v]
           /\ workers[w].lease = l /\ workers'[w].lease = l
           /\ workers'[w].open = workers[w].open /\ workers'[w].start = workers[w].start
<1> DEFINE rec == [workers[w] EXCEPT !.live = TRUE, !.sequence = n, !.run = run]
           ws == [workers EXCEPT ![w] = rec]
<1>1. workers[w].lease = l /\ (workers' = ws \/ workers' = workers)
  BY Zenon DEF Heartbeat, Outcome
<1>2. workers \in [Workers -> WorkerRecords] /\ workers[w] \in WorkerRecords
  BY Zenon DEF TypeOK
<1>3. /\ rec.lease = workers[w].lease /\ rec.open = workers[w].open
      /\ rec.start = workers[w].start
  BY <1>2, Zenon DEF WorkerRecords
<1> HIDE DEF rec
<1>4. ws[w] = rec /\ \A v \in Workers : v # w => ws[v] = workers[v]
  BY <1>2, Zenon
<1> HIDE DEF ws
<1> QED
  BY <1>1, <1>3, <1>4, Zenon

(* What is known of a stream that has begun. *)
LEMMA StreamFacts ==
    ASSUME LifecycleInv, NEW l \in Leases, ~At(l, "none")
    PROVE  /\ streams \in [Leases -> StreamRecords]
           /\ streams[l] \in StreamRecords
           /\ streams[l].worker \in Workers /\ streams[l].start \in Starts
           /\ streams[l].pc # "none"
           /\ Newest(streams[l], l, workers[streams[l].worker])
                => Settled(streams[l], workers[streams[l].worker])
BY Zenon DEF LifecycleInv, StreamsTyped, StreamsSettled, At

(* A message of the stream, whatever becomes of it, leaves the lease open while the
   handler goes on or is about to close it. *)
LEMMA BeatSettled ==
    ASSUME FaultAssumption, TypeOK, LifecycleInv, NEW l \in Leases, NEW n, NEW run,
           NEW result \in HandlerResults, NEW hook \in SessionResults,
           Beat(l, n, run, result, hook)
    PROVE  LifecycleInv'
<1> DEFINE st == streams[l]
           w == st.worker
           p == CASE result = "cancelled" -> "dropped"
                  [] result = "ok" /\ hook = "ok" -> "running"
                  [] OTHER -> "closing"
           next == [st EXCEPT !.pc = p]
           fault == result # "ok" \/ hook # "ok"
<1>1. ~At(l, "none") /\ st.pc = "running"
      /\ Heartbeat(w, st.start, l, n, run, result) /\ Becomes(l, next, fault)
  BY Zenon DEF Beat, At
<1>2. st \in StreamRecords /\ w \in Workers /\ (Newest(st, l, workers[w]) => Settled(st, workers[w]))
  BY <1>1, StreamFacts, Zenon
<1>3. p \in {"running", "closing", "dropped"} /\ (~HandlersCancelled => p # "dropped")
  BY Zenon DEF HandlerResults, SessionResults
<1> HIDE DEF p
<1>4. next \in StreamRecords /\ next.pc = p /\ next.worker = w /\ next.start = st.start
      /\ next.closed = st.closed /\ next.faults = st.faults
  BY <1>2, <1>3, Zenon DEF StreamRecords
<1> HIDE DEF next
<1>5. fault \in BOOLEAN
  BY Zenon
<1> HIDE DEF fault
<1>6. PICK after \in StreamRecords :
        streams' = [streams EXCEPT ![l] = after] /\ Follows(after, next, fault)
  BY <1>1, <1>4, <1>5, BecomesRecord, Zenon
<1>7. /\ \A v \in Workers : v # w => workers'[v] = workers[v]
      /\ workers[w].lease = l /\ workers'[w].lease = l
      /\ workers'[w].open = workers[w].open /\ workers'[w].start = workers[w].start
  BY <1>1, <1>2, HeartbeatRecord, Zenon
<1>8. after.worker = w /\ after.start = st.start /\ after.pc = p /\ after.closed = st.closed
  BY <1>4, <1>6, Zenon DEF Follows
<1>9. Newest(after, l, workers'[w]) => Settled(after, workers'[w])
  BY <1>1, <1>2, <1>3, <1>7, <1>8, Zenon DEF Newest, Settled
<1> HIDE DEF st
<1> QED
  BY <1>1, <1>6, <1>7, <1>8, <1>9, OneStream, Zenon DEF st

(* Closing the state: closed at the first success, dropped after an error, and over at
   once only when the lease is no longer the Worker's. *)
LEMMA CloseStateSettled ==
    ASSUME FaultAssumption, TypeOK, LifecycleInv, NEW l \in Leases,
           NEW result \in HandlerResults, CloseState(l, result)
    PROVE  LifecycleInv'
<1> DEFINE st == streams[l]
           w == st.worker
<1>1. ~At(l, "none") /\ st.pc = "closing"
  BY Zenon DEF CloseState, At
<1>2. st \in StreamRecords /\ w \in Workers /\ (Newest(st, l, workers[w]) => Settled(st, workers[w]))
  BY <1>1, StreamFacts, Zenon
<1>3. ASSUME CloseHeartbeat(w, st.start, l, result),
             Becomes(l, [st EXCEPT !.closed = (result = "ok"),
                             !.pc = IF result = "ok" THEN "leaving" ELSE "dropped"],
                     result # "ok")
      PROVE  LifecycleInv'
  <2> DEFINE p == IF result = "ok" THEN "leaving" ELSE "dropped"
             c == result = "ok"
             next == [st EXCEPT !.closed = c, !.pc = p]
  <2>1. p \in {"leaving", "dropped"} /\ c \in BOOLEAN /\ (p = "leaving" <=> c)
    BY Zenon
  <2>2. Becomes(l, next, result # "ok") /\ (result # "ok") \in BOOLEAN
    BY <1>3, Zenon
  <2>3. (c <=> result = "ok") /\ (~HandlersCancelled => result \in {"ok", "error"})
    BY Zenon DEF HandlerResults, SessionResults
  <2> HIDE DEF p, c
  <2>4. next \in StreamRecords /\ next.pc = p /\ next.worker = w /\ next.start = st.start
        /\ next.closed = c /\ next.faults = st.faults
    BY <1>2, <2>1, Zenon DEF StreamRecords
  <2> HIDE DEF next
  <2>5. PICK after \in StreamRecords :
          streams' = [streams EXCEPT ![l] = after] /\ Follows(after, next, result # "ok")
    BY <2>2, <2>4, BecomesRecord, Zenon
  <2>6. /\ \A v \in Workers : v # w => workers'[v] = workers[v]
        /\ workers[w].lease = l /\ workers'[w].lease = l /\ workers[w].open
        /\ result = "ok" => ~workers'[w].live
        /\ result = "error" => workers' = workers
    BY <1>3, <1>2, CloseRecord
  <2>7. after.worker = w /\ after.start = st.start /\ after.pc = p /\ after.closed = c
        /\ (~c => after.faults > 0)
    BY <2>3, <2>4, <2>5, Zenon DEF Follows
  <2>8. Newest(after, l, workers'[w]) => Settled(after, workers'[w])
    BY <2>1, <2>3, <2>6, <2>7, Zenon DEF Settled
  <2> HIDE DEF st
  <2> QED
    BY <1>1, <2>5, <2>6, <2>7, <2>8, OneStream, Zenon DEF st
<1>4. ASSUME ~Holds(l), UNCHANGED vars,
             Goto(l, IF Current(w, st.start) THEN "done" ELSE "dropped")
      PROVE  LifecycleInv'
  <2> DEFINE p == IF Current(w, st.start) THEN "done" ELSE "dropped"
             next == [st EXCEPT !.pc = p]
  <2>1. p \in {"done", "dropped"}
    BY Zenon
  <2>2. Becomes(l, next, FALSE)
    BY <1>4, Zenon DEF Goto
  <2> HIDE DEF p
  <2>4. next \in StreamRecords /\ next.pc = p /\ next.worker = w /\ next.start = st.start
        /\ next.faults = st.faults
    BY <1>2, <2>1, Zenon DEF StreamRecords
  <2> HIDE DEF next
  <2>5. PICK after \in StreamRecords :
          streams' = [streams EXCEPT ![l] = after] /\ Follows(after, next, FALSE)
    BY <2>2, <2>4, BecomesRecord, Zenon
  <2>6. workers' = workers
    BY <1>4, Zenon DEF vars
  <2>7. after.worker = w /\ after.start = st.start
    BY <2>4, <2>5, Zenon DEF Follows
  <2>8. ~Newest(after, l, workers'[w])
    BY <1>1, <1>2, <1>4, <2>6, <2>7, Zenon DEF Newest, Settled, Holds, Current
  <2> HIDE DEF st
  <2> QED
    BY <1>1, <2>5, <2>6, <2>7, <2>8, OneStream, Zenon DEF st
<1> QED
  BY <1>3, <1>4, Zenon DEF CloseState

(* A step of the handler or its task that does not touch the Controller's state. *)
LEMMA QuietStep ==
    ASSUME FaultAssumption, LifecycleInv, NEW l \in Leases, ~At(l, "none"),
           NEW next \in StreamRecords, NEW fault \in BOOLEAN, Becomes(l, next, fault),
           next.worker = streams[l].worker, next.start = streams[l].start,
           next.faults = streams[l].faults, UNCHANGED vars,
           ASSUME NEW after \in StreamRecords, Follows(after, next, fault),
                  Newest(after, l, workers[next.worker])
           PROVE  Settled(after, workers[next.worker])
    PROVE  LifecycleInv'
<1>1. workers' = workers
  BY Zenon DEF vars
<1>2. PICK after \in StreamRecords :
        streams' = [streams EXCEPT ![l] = after] /\ Follows(after, next, fault)
  BY BecomesRecord
<1>3. after.worker = next.worker /\ after.start = next.start
  BY <1>2, Zenon DEF Follows
<1>4. Newest(after, l, workers'[after.worker]) => Settled(after, workers'[after.worker])
  BY <1>1, <1>2, <1>3, Zenon
<1> QED
  BY <1>1, <1>2, <1>3, <1>4, OneStream, Zenon

(* The loop of the handler breaks. *)
LEMMA EndStreamSettled ==
    ASSUME FaultAssumption, LifecycleInv, NEW l \in Leases, EndStream(l)
    PROVE  LifecycleInv'
<1> DEFINE st == streams[l]
           next == [st EXCEPT !.pc = "closing"]
<1>1. ~At(l, "none") /\ st.pc = "running" /\ Becomes(l, next, FALSE) /\ UNCHANGED vars
  BY Zenon DEF EndStream, At, Goto
<1>2. st \in StreamRecords
      /\ (Newest(st, l, workers[st.worker]) => Settled(st, workers[st.worker]))
  BY <1>1, StreamFacts, Zenon
<1>3. next \in StreamRecords /\ next.pc = "closing" /\ next.worker = st.worker
      /\ next.start = st.start /\ next.closed = st.closed /\ next.faults = st.faults
  BY <1>2, Zenon DEF StreamRecords
<1> HIDE DEF next
<1>4. ASSUME NEW after \in StreamRecords, Follows(after, next, FALSE),
             Newest(after, l, workers[next.worker])
      PROVE  Settled(after, workers[next.worker])
  BY <1>1, <1>2, <1>3, <1>4, Zenon DEF Follows, Newest, Settled
<1> QED
  BY <1>1, <1>3, <1>4, QuietStep, Zenon

(* The unavailable hook of close(): announced, or left to the task of the guard. *)
LEMMA AnnounceSettled ==
    ASSUME FaultAssumption, LifecycleInv, NEW l \in Leases, NEW hook \in SessionResults,
           Announce(l, hook)
    PROVE  LifecycleInv'
<1> DEFINE st == streams[l]
           a == hook = "ok"
           p == IF hook = "ok" THEN "done" ELSE "dropped"
           next == [st EXCEPT !.announced = a, !.pc = p]
<1>1. ~At(l, "none") /\ st.pc = "leaving" /\ Becomes(l, next, hook # "ok") /\ UNCHANGED vars
  BY Zenon DEF Announce, At
<1>2. st \in StreamRecords
      /\ (Newest(st, l, workers[st.worker]) => Settled(st, workers[st.worker]))
  BY <1>1, StreamFacts, Zenon
<1>3. /\ p \in {"done", "dropped"} /\ a \in BOOLEAN /\ (hook # "ok") \in BOOLEAN
      /\ (p = "done" => a) /\ (p = "dropped" => hook # "ok")
  BY Zenon
<1> HIDE DEF p, a
<1>4. next \in StreamRecords /\ next.pc = p /\ next.worker = st.worker /\ next.announced = a
      /\ next.start = st.start /\ next.closed = st.closed /\ next.faults = st.faults
  BY <1>2, <1>3, Zenon DEF StreamRecords
<1> HIDE DEF next
<1>5. ASSUME NEW after \in StreamRecords, Follows(after, next, hook # "ok"),
             Newest(after, l, workers[next.worker])
      PROVE  Settled(after, workers[next.worker])
  BY <1>1, <1>2, <1>3, <1>4, <1>5, Zenon DEF Follows, Newest, Settled
<1> QED
  BY <1>1, <1>3, <1>4, <1>5, QuietStep, Zenon

(* A dropped handler is the stream's one fault. *)
LEMMA DropHandlerSettled ==
    ASSUME FaultAssumption, LifecycleInv, NEW l \in Leases, DropHandler(l)
    PROVE  LifecycleInv'
<1> DEFINE st == streams[l]
           next == [st EXCEPT !.pc = "dropped"]
<1>1. ~At(l, "none") /\ st.pc \in {"running", "closing", "leaving"}
      /\ Becomes(l, next, TRUE) /\ UNCHANGED vars
  BY Zenon DEF DropHandler, At
<1>2. st \in StreamRecords
      /\ (Newest(st, l, workers[st.worker]) => Settled(st, workers[st.worker]))
  BY <1>1, StreamFacts, Zenon
<1>3. next \in StreamRecords /\ next.pc = "dropped" /\ next.worker = st.worker
      /\ next.start = st.start /\ next.closed = st.closed /\ next.faults = st.faults
  BY <1>2, Zenon DEF StreamRecords
<1> HIDE DEF next
<1>4. ASSUME NEW after \in StreamRecords, Follows(after, next, TRUE),
             Newest(after, l, workers[next.worker])
      PROVE  Settled(after, workers[next.worker])
  BY <1>1, <1>2, <1>3, <1>4, Zenon DEF Follows, Newest, Settled
<1> QED
  BY <1>1, <1>3, <1>4, QuietStep, Zenon

(* The hook of the task: a stream that was dropped has had its fault, and meets no
   other. *)
LEMMA AnnounceDroppedSettled ==
    ASSUME FaultAssumption, LifecycleInv, NEW l \in Leases, NEW hook \in SessionResults,
           AnnounceDropped(l, hook)
    PROVE  LifecycleInv'
<1> DEFINE st == streams[l]
           a == hook = "ok"
           next == [st EXCEPT !.announced = a, !.pc = "done"]
<1>1. /\ ~At(l, "none") /\ st.pc = "dropped" /\ st.closed
      /\ Becomes(l, next, hook # "ok") /\ UNCHANGED vars
  BY Zenon DEF AnnounceDropped, At
<1>2. st \in StreamRecords
      /\ (Newest(st, l, workers[st.worker]) => Settled(st, workers[st.worker]))
  BY <1>1, StreamFacts, Zenon
<1>3. a \in BOOLEAN /\ (hook # "ok") \in BOOLEAN /\ (a <=> ~(hook # "ok"))
  BY Zenon
<1> HIDE DEF a
<1>4. next \in StreamRecords /\ next.pc = "done" /\ next.worker = st.worker /\ next.announced = a
      /\ next.start = st.start /\ next.closed = st.closed /\ next.faults = st.faults
  BY <1>2, <1>3, Zenon DEF StreamRecords
<1> HIDE DEF next
<1>5. MaxFaults =< 1 /\ st.faults > 0 => ~(st.faults < MaxFaults)
  BY <1>2 DEF StreamRecords, FaultAssumption
<1>6. ASSUME NEW after \in StreamRecords, Follows(after, next, hook # "ok"),
             Newest(after, l, workers[next.worker])
      PROVE  Settled(after, workers[next.worker])
  BY <1>1, <1>2, <1>3, <1>4, <1>5, <1>6, Zenon DEF Follows, Newest, Settled
<1> QED
  BY <1>1, <1>3, <1>4, <1>6, QuietStep, Zenon

(* The task that a dropped guard spawns closes the lease if it is still open; an error,
   which it does not survive, would be a second fault. *)
LEMMA CleanUpSettled ==
    ASSUME FaultAssumption, TypeOK, LifecycleInv, NEW l \in Leases,
           NEW result \in SessionResults, CleanUp(l, result)
    PROVE  LifecycleInv'
<1> DEFINE st == streams[l]
           w == st.worker
<1>1. ~At(l, "none") /\ st.pc = "dropped" /\ ~st.closed
  BY Zenon DEF CleanUp, At
<1>2. /\ st \in StreamRecords /\ w \in Workers
      /\ (Newest(st, l, workers[w]) => Settled(st, workers[w]))
  BY <1>1, StreamFacts, Zenon
<1>3. MaxFaults =< 1 /\ st.faults > 0 => ~(st.faults < MaxFaults)
  BY <1>2 DEF StreamRecords, FaultAssumption
<1>4. ASSUME CloseHeartbeat(w, st.start, l, result),
             Becomes(l, [st EXCEPT !.closed = (result = "ok"),
                             !.pc = IF result = "ok" THEN "dropped" ELSE "done"],
                     result # "ok")
      PROVE  LifecycleInv'
  <2> DEFINE p == IF result = "ok" THEN "dropped" ELSE "done"
             c == result = "ok"
             next == [st EXCEPT !.closed = c, !.pc = p]
  <2>1. /\ p \in {"done", "dropped"} /\ c \in BOOLEAN /\ (p = "dropped" <=> c)
        /\ result \in {"ok", "error"} /\ (c <=> result = "ok")
    BY Zenon DEF SessionResults
  <2>2. Becomes(l, next, result # "ok") /\ (result # "ok") \in BOOLEAN
    BY <1>4, Zenon
  <2> HIDE DEF p, c
  <2>3. next \in StreamRecords /\ next.pc = p /\ next.worker = w /\ next.start = st.start
        /\ next.closed = c /\ next.faults = st.faults
    BY <1>2, <2>1, Zenon DEF StreamRecords
  <2> HIDE DEF next
  <2>4. PICK after \in StreamRecords :
          streams' = [streams EXCEPT ![l] = after] /\ Follows(after, next, result # "ok")
    BY <2>2, <2>3, BecomesRecord, Zenon
  <2>5. /\ \A v \in Workers : v # w => workers'[v] = workers[v]
        /\ workers[w].lease = l /\ workers'[w].lease = l
        /\ result = "ok" => ~workers'[w].live
        /\ result = "error" => workers' = workers
    BY <1>2, <1>4, CloseRecord
  <2>6. after.worker = w /\ after.start = st.start /\ after.pc = p /\ after.closed = c
        /\ (result # "ok" => st.faults < MaxFaults)
        /\ (result = "ok" => after.faults = st.faults)
    BY <2>3, <2>4, Zenon DEF Follows
  <2>7. Current(w, st.start)
    BY <1>4, Zenon DEF CloseHeartbeat
  <2>8. Newest(st, l, workers[w])
    BY <1>1, <2>5, <2>7, Zenon DEF Newest, Current
  <2>9. Settled(after, workers'[w])
    BY <1>1, <1>2, <1>3, <2>1, <2>5, <2>6, <2>8, Zenon DEF Settled
  <2> HIDE DEF st
  <2> QED
    BY <1>1, <2>4, <2>5, <2>6, <2>9, OneStream, Zenon DEF st
<1>5. ASSUME ~Holds(l), Goto(l, "done"), UNCHANGED vars PROVE LifecycleInv'
  <2> DEFINE next == [st EXCEPT !.pc = "done"]
  <2>1. Becomes(l, next, FALSE)
    BY <1>5, Zenon DEF Goto
  <2>2. next \in StreamRecords /\ next.pc = "done" /\ next.worker = w
        /\ next.start = st.start /\ next.faults = st.faults
    BY <1>2, Zenon DEF StreamRecords
  <2> HIDE DEF next
  <2>3. ASSUME NEW after \in StreamRecords, Follows(after, next, FALSE),
               Newest(after, l, workers[next.worker])
        PROVE  Settled(after, workers[next.worker])
    <3>1. Newest(st, l, workers[w]) /\ after.pc = "done" /\ ~workers[w].open
      BY <1>1, <1>5, <2>2, <2>3, Zenon DEF Follows, Newest, Holds, Current
    <3> QED
      BY <1>1, <1>2, <2>2, <3>1, Zenon DEF Settled
  <2> QED
    BY <1>1, <1>5, <2>1, <2>2, <2>3, QuietStep, Zenon
<1> QED
  BY <1>4, <1>5, Zenon DEF CleanUp

-----------------------------------------------------------------------------
(* open_heartbeat gives the Worker a new lease: the stream that has it begins with it
   open, and those of the Worker's older streams are no longer its lease. *)
LEMMA OpenStreamSettled ==
    ASSUME FaultAssumption, TypeOK, LifecycleInv, NEW w \in Workers, NEW s \in Starts,
           OpenStream(w, s)
    PROVE  LifecycleInv'
<1> DEFINE l == nextLease + 1
           st == [NoStream EXCEPT !.worker = w, !.start = s, !.pc = "running"]
           rec == [workers[w] EXCEPT !.lease = l, !.open = TRUE]
<1>1. l \in Leases
  BY BoundAssumption DEF OpenStream, OpenHeartbeat, Leases, TypeOK
<1>2. streams' = [streams EXCEPT ![l] = st] /\ workers' = [workers EXCEPT ![w] = rec]
  BY Zenon DEF OpenStream, OpenHeartbeat
<1> HIDE DEF l
<1>3. streams \in [Leases -> StreamRecords] /\ workers \in [Workers -> WorkerRecords]
      /\ workers[w] \in WorkerRecords
  BY Zenon DEF LifecycleInv, StreamsTyped, TypeOK
<1>4. 0 \in 0..MaxFaults
  BY DEF FaultAssumption
<1>5. st \in StreamRecords /\ st.worker = w /\ st.start = s /\ st.pc = "running" /\ st.closed = FALSE
  BY <1>4, Zenon DEF StreamRecords, NoStream
<1>6. rec.lease = l /\ rec.open = TRUE
  BY <1>3, Zenon DEF WorkerRecords
<1> HIDE DEF st, rec
<1>7. \A m \in Leases : streams'[m] = IF m = l THEN st ELSE streams[m]
  BY <1>2, <1>3, Zenon
<1>8. \A v \in Workers : workers'[v] = IF v = w THEN rec ELSE workers[v]
  BY <1>2, <1>3, Zenon
<1>9. StreamsTyped'
  <2>1. streams' \in [Leases -> StreamRecords]
    BY <1>2, <1>3, <1>5, Zenon
  <2>2. \A m \in Leases :
          streams'[m].pc # "none" => streams'[m].worker \in Workers /\ streams'[m].start \in Starts
    BY <1>5, <1>7, Zenon DEF LifecycleInv, StreamsTyped, At
  <2> QED
    BY <2>1, <2>2, Zenon DEF StreamsTyped, At
<1>10. ASSUME NEW m \in Leases, Newest(streams'[m], m, workers'[streams'[m].worker])
       PROVE  Settled(streams'[m], workers'[streams'[m].worker])
  <2>1. CASE m = l
    BY <2>1, <1>5, <1>6, <1>7, <1>8, Zenon DEF Settled
  <2>2. CASE m # l
    <3>1. streams'[m] = streams[m] /\ streams[m].pc # "none"
      BY <1>7, <1>10, <2>2, Zenon DEF Newest
    <3>2. streams[m].worker \in Workers
      BY <3>1, Zenon DEF LifecycleInv, StreamsTyped, At
    <3>3. workers'[streams[m].worker] = workers[streams[m].worker]
      BY <1>6, <1>8, <1>10, <2>2, <3>1, <3>2, Zenon DEF Newest
    <3> QED
      BY <1>10, <3>1, <3>3, Zenon DEF LifecycleInv, StreamsSettled
  <2> QED
    BY <2>1, <2>2, Zenon
<1> QED
  BY <1>9, <1>10, Zenon DEF LifecycleInv, StreamsSettled

(* A registration starts without a lease; a placement or a report leaves it alone. *)
LEMMA ElsewhereKeeps ==
    ASSUME TypeOK, NEW w \in Workers, NEW s \in Starts, Elsewhere(w, s)
    PROVE  \A v \in Workers : workers'[v].lease = 0 \/ SameStream(workers'[v], workers[v])
<1> DEFINE rec == workers[w]
           After(r) == [workers EXCEPT ![w] = r]
<1>1. workers \in [Workers -> WorkerRecords] /\ rec \in WorkerRecords
  BY Zenon DEF TypeOK
<1>2. ASSUME NEW r, workers' = After(r) \/ workers' = workers,
             r.lease = 0 \/ SameStream(r, rec)
      PROVE  \A v \in Workers : workers'[v].lease = 0 \/ SameStream(workers'[v], workers[v])
  BY <1>1, <1>2, Zenon DEF SameStream
<1>3. ASSUME NEW result, Register(w, s, result)
      PROVE  \A v \in Workers : workers'[v].lease = 0 \/ SameStream(workers'[v], workers[v])
  <2> DEFINE r == FreshRecord(s, Carried(w))
  <2>1. workers' = After(r) \/ workers' = workers
    BY <1>3, Zenon DEF Register, Outcome
  <2>2. r.lease = 0
    BY Zenon DEF FreshRecord
  <2> HIDE DEF r, After
  <2> QED
    BY <1>2, <2>1, <2>2, Zenon
<1>4. ASSUME NEW targets, SetTargets(w, s, targets)
      PROVE  \A v \in Workers : workers'[v].lease = 0 \/ SameStream(workers'[v], workers[v])
  <2> DEFINE place == [gen |-> rec.gen + 1, targets |-> targets]
             r(d) == [[rec EXCEPT !.gen = place.gen, !.targets = place.targets] EXCEPT !.drains = d]
  <2>1. \A d : SameStream(r(d), rec)
    BY <1>1, Zenon DEF SameStream, WorkerRecords
  <2>2. /\ SetTargetsUnsaved(w, place) => workers' = workers
        /\ SetTargetsUnpublished(w, place) => workers' = workers
    BY Zenon DEF SetTargetsUnsaved, SetTargetsUnpublished, Outcome
  <2>3. SetTargetsApplied(w, place) => \E d : workers' = After(r(d))
    BY Zenon DEF SetTargetsApplied
  <2>4. \/ SetTargetsUnsaved(w, place) \/ SetTargetsUnpublished(w, place)
        \/ SetTargetsApplied(w, place)
    BY <1>4, Zenon DEF SetTargets
  <2> HIDE DEF r, After, place
  <2>5. PICK d : workers' = After(r(d)) \/ workers' = workers
    BY <2>2, <2>3, <2>4, Zenon
  <2> QED
    BY <1>2, <2>1, <2>5, Zenon
<1>5. ASSUME NEW g, NEW n, NEW full, NEW report, NEW result,
             ApplyStateReport(w, s, g, n, full, report, result)
      PROVE  \A v \in Workers : workers'[v].lease = 0 \/ SameStream(workers'[v], workers[v])
  <2> DEFINE r == [rec EXCEPT !.states = Reported(rec.states, full, report), !.report = n]
  <2>1. workers' = After(r) \/ workers' = workers
    BY <1>5, Zenon DEF ApplyStateReport, Outcome
  <2>2. SameStream(r, rec)
    BY <1>1, Zenon DEF SameStream, WorkerRecords
  <2> HIDE DEF r, After
  <2> QED
    BY <1>2, <2>1, <2>2, Zenon
<1> QED
  BY <1>3, <1>4, <1>5, Zenon DEF Elsewhere

(* So the streams stay settled while registrations, placements and reports go on. *)
LEMMA ElsewhereSettled ==
    ASSUME TypeOK, LifecycleInv, NEW w \in Workers, NEW s \in Starts, Elsewhere(w, s)
    PROVE  LifecycleInv'
<1>1. streams' = streams
  BY Zenon DEF Elsewhere
<1>2. StreamsTyped'
  BY <1>1, Zenon DEF LifecycleInv, StreamsTyped, At
<1>3. ASSUME NEW l \in Leases, streams[l].pc # "none"
      PROVE  Newest(streams[l], l, workers'[streams[l].worker])
               => Settled(streams[l], workers'[streams[l].worker])
  <2> DEFINE old == workers[streams[l].worker]
             new == workers'[streams[l].worker]
  <2>1. new.lease = 0 \/ SameStream(new, old)
    BY <1>3, ElsewhereKeeps, Zenon DEF LifecycleInv, StreamsTyped, At
  <2>2. l # 0
    BY DEF Leases
  <2>3. Newest(streams[l], l, old) => Settled(streams[l], old)
    BY Zenon DEF LifecycleInv, StreamsSettled
  <2> HIDE DEF old, new
  <2>4. Newest(streams[l], l, new) => Settled(streams[l], new)
    BY <2>1, <2>2, <2>3, SettledStays, Zenon
  <2> QED
    BY <2>4, Zenon DEF new
<1>4. StreamsSettled'
  BY <1>1, <1>3, Zenon DEF StreamsSettled, Newest
<1> QED
  BY <1>2, <1>4, Zenon DEF LifecycleInv

(* A Controller process begins without streams. *)
LEMMA NoStreams ==
    ASSUME FaultAssumption
    PROVE  [l \in Leases |-> NoStream] \in [Leases -> StreamRecords] /\ NoStream.pc = "none"
<1>1. 0 \in 0..MaxFaults
  BY DEF FaultAssumption
<1>2. NoStream \in StreamRecords /\ NoStream.pc = "none"
  BY <1>1, Zenon DEF NoStream, StreamRecords
<1> QED
  BY <1>2, Zenon

(* A Controller starts without streams, so there is none to be settled. *)
LEMMA LifecycleStart == ASSUME FaultAssumption PROVE LifecycleInit => LifecycleInv
<1> SUFFICES ASSUME LifecycleInit PROVE LifecycleInv
  OBVIOUS
<1>1. streams = [l \in Leases |-> NoStream]
  BY Zenon DEF LifecycleInit
<1>2. streams \in [Leases -> StreamRecords] /\ \A l \in Leases : streams[l].pc = "none"
  BY <1>1, NoStreams, Zenon
<1> QED
  BY <1>2, Zenon DEF LifecycleInv, StreamsTyped, StreamsSettled, At, Newest

(* Every step keeps the streams settled. *)
LEMMA LifecycleStep ==
    ASSUME FaultAssumption, TypeOK, LifecycleInv, [LifecycleNext]_lifecycleVars
    PROVE  LifecycleInv'
<1>1. ASSUME NEW l \in Leases, StreamStep(l) PROVE LifecycleInv'
  BY <1>1, BeatSettled, EndStreamSettled, CloseStateSettled, AnnounceSettled,
     DropHandlerSettled, CleanUpSettled, AnnounceDroppedSettled, Zenon DEF StreamStep
<1>2. CASE RestartAll
  <2>1. streams' = [l \in Leases |-> NoStream]
    BY <1>2, Zenon DEF RestartAll
  <2>2. streams' \in [Leases -> StreamRecords] /\ \A l \in Leases : streams'[l].pc = "none"
    BY <2>1, NoStreams, Zenon
  <2> QED
    BY <2>2, Zenon DEF LifecycleInv, StreamsTyped, StreamsSettled, At, Newest
<1>3. CASE UNCHANGED lifecycleVars
  <2>1. streams' = streams /\ workers' = workers
    BY <1>3, Zenon DEF lifecycleVars, vars
  <2> QED
    BY <2>1, Zenon DEF LifecycleInv, StreamsTyped, StreamsSettled, At
<1> QED
  BY <1>1, <1>2, <1>3, OpenStreamSettled, ElsewhereSettled, Zenon DEF LifecycleNext

(* The handlers change the Controller's state by its operations alone, each with the
   Worker, the start and the lease its stream was opened with. *)
LEMMA LifecycleIsNext ==
    ASSUME LifecycleInv, [LifecycleNext]_lifecycleVars
    PROVE  [Next]_vars
<1>1. ASSUME NEW w \in Workers, NEW s \in Starts, OpenStream(w, s) \/ Elsewhere(w, s)
      PROVE  Next
  <2>1. Step(w, s)
    BY <1>1, Zenon DEF OpenStream, Elsewhere, Step
  <2> QED
    BY <2>1, Zenon DEF Next
<1>2. ASSUME NEW l \in Leases, StreamStep(l) PROVE [Next]_vars
  <2>0. SessionResults \subseteq HandlerResults /\ l \in 1..MaxLease
    BY Zenon DEF HandlerResults, Leases
  <2>1. ~At(l, "none") => streams[l].worker \in Workers /\ streams[l].start \in Starts
    BY Zenon DEF LifecycleInv, StreamsTyped
  <2>2. ASSUME NEW n \in 1..MaxSequence, NEW run \in RunStates, NEW result \in HandlerResults,
               NEW hook, Beat(l, n, run, result, hook)
        PROVE  Next
    <3>1. ~At(l, "none")
          /\ Heartbeat(streams[l].worker, streams[l].start, l, n, run, result)
      BY <2>2, Zenon DEF Beat, At
    <3>2. Step(streams[l].worker, streams[l].start)
      BY <2>0, <2>2, <3>1, Zenon DEF Step
    <3> QED
      BY <2>1, <3>1, <3>2, Zenon DEF Next
  <2>3. ASSUME NEW result \in HandlerResults, ~At(l, "none"),
               CloseHeartbeat(streams[l].worker, streams[l].start, l, result)
        PROVE  Next
    <3>1. Step(streams[l].worker, streams[l].start)
      BY <2>0, <2>3, Zenon DEF Step
    <3> QED
      BY <2>1, <2>3, <3>1, Zenon DEF Next
  <2>4. ASSUME NEW result \in HandlerResults, CloseState(l, result) \/ CleanUp(l, result)
        PROVE  [Next]_vars
    <3>1. ~At(l, "none")
      BY <2>4, Zenon DEF CloseState, CleanUp, At
    <3>2. \/ CloseHeartbeat(streams[l].worker, streams[l].start, l, result)
          \/ UNCHANGED vars
      BY <2>4, Zenon DEF CloseState, CleanUp
    <3> QED
      BY <2>3, <3>1, <3>2, Zenon
  <2>5. \/ EndStream(l) \/ (\E hook \in SessionResults : Announce(l, hook)) \/ DropHandler(l)
        \/ (\E hook \in SessionResults : AnnounceDropped(l, hook))
        => UNCHANGED vars
    BY Zenon DEF EndStream, Announce, DropHandler, AnnounceDropped
  <2> QED
    BY <1>2, <2>0, <2>2, <2>4, <2>5, Zenon DEF StreamStep
<1>3. RestartAll => Next
  BY Zenon DEF RestartAll, Next
<1>4. UNCHANGED lifecycleVars => UNCHANGED vars
  BY Zenon DEF lifecycleVars
<1> QED
  BY <1>1, <1>2, <1>3, <1>4, Zenon DEF LifecycleNext

(* The Controller under its heartbeat handlers is the Controller of ControllerState:
   whenever handlers are dropped, replaced or fail, what is proved of its operations
   holds. (run_heartbeat, HeartbeatLeaseGuard) *)
THEOREM LifecycleRefinesController == ASSUME FaultAssumption PROVE LifecycleSpec => Spec
<1>1. LifecycleInit => Init /\ TypeOK /\ LifecycleInv
  BY InitType, LifecycleStart, Zenon DEF LifecycleInit
<1>2. TypeOK /\ LifecycleInv /\ [LifecycleNext]_lifecycleVars
        => TypeOK' /\ LifecycleInv' /\ [Next]_vars
  BY LifecycleIsNext, LifecycleStep, NextType, Zenon
<1> QED
  BY <1>1, <1>2, PTL DEF LifecycleSpec, Spec

(* LifecycleInv holds throughout. *)
LEMMA LifecycleInvariant == ASSUME FaultAssumption PROVE LifecycleSpec => []LifecycleInv
<1>1. LifecycleInit => TypeOK /\ LifecycleInv
  BY InitType, LifecycleStart, Zenon DEF LifecycleInit
<1>2. TypeOK /\ LifecycleInv /\ [LifecycleNext]_lifecycleVars => TypeOK' /\ LifecycleInv'
  BY LifecycleIsNext, LifecycleStep, NextType, Zenon
<1> QED
  BY <1>1, <1>2, PTL DEF LifecycleSpec

(* The end of an older stream never closes the lease of a newer one that runs, however
   many faults the streams meet and wherever handlers are dropped. (close_heartbeat,
   open_heartbeat) *)
THEOREM NewestStreamsStayOpen ==
    ASSUME FaultAssumption PROVE LifecycleSpec => []NewestStreamStaysOpen
<1>1. LifecycleInv => NewestStreamStaysOpen
  BY Zenon DEF LifecycleInv, StreamsSettled, NewestStreamStaysOpen, Newest, Settled, At, Current
<1> QED
  BY <1>1, LifecycleInvariant, PTL

(* After any one fault a stream that has ended leaves its Worker neither live nor
   routed, and announced as unavailable, unless a newer stream or process took over.
   Without the first hypothesis the code does otherwise. (HeartbeatLeaseGuard) *)
THEOREM EndedStreamsAreUnavailable ==
    ASSUME FaultAssumption, ~HandlersCancelled, MaxFaults =< 1
    PROVE  LifecycleSpec => []CancelledStillUnavailable
<1>1. ASSUME LifecycleInv, RoutesExact PROVE CancelledStillUnavailable
  <2> SUFFICES ASSUME NEW l \in Leases, At(l, "done"),
                      Current(streams[l].worker, streams[l].start),
                      workers[streams[l].worker].lease = l
               PROVE  /\ ~workers[streams[l].worker].live
                      /\ \A k \in Experts :
                           Process(streams[l].worker, workers[streams[l].worker]) \notin routes[k]
                      /\ streams[l].announced
    BY Zenon DEF CancelledStillUnavailable
  <2> DEFINE w == streams[l].worker
  <2>1. streams[l].pc = "done" /\ Newest(streams[l], l, workers[w])
    BY Zenon DEF At, Current, Newest
  <2>2. ~workers[w].live /\ streams[l].announced
    BY <1>1, <2>1, Zenon DEF LifecycleInv, StreamsSettled, Settled
  <2>3. \A k \in Experts : Process(w, workers[w]) \notin Serving(workers, k)
    BY <2>2, Zenon DEF Serving, Serves, Process
  <2> QED
    BY <1>1, <2>2, <2>3, Zenon DEF RoutesExact
<1> QED
  BY <1>1, LifecycleInvariant, LifecycleRefinesController, RoutesAreExact, PTL
=============================================================================
