----------------------------- MODULE Placement ------------------------------
(***************************************************************************)
(* The placement database of the Controller (node and expert rows,         *)
(* state/writer.rs and io.rs) and the tasks that change it concurrently:   *)
(* progressive assignment of a registered Worker (elastic/progressive.rs), *)
(* recovery of the experts of one that left (elastic/recovery.rs), the     *)
(* lifecycle hooks (worker_lifecycle.rs), reports (weight_control/         *)
(* database.rs) and the rebalance command (service/control.rs).            *)
(*                                                                         *)
(* One database call is one step, except that the reads which build one    *)
(* count over several experts are one. Layers carry the same experts, so   *)
(* the model has one. Triggers reach Workers through module Dispatcher.    *)
(***************************************************************************)
EXTENDS Integers, FiniteSets, Sequences, SequencesExt, FiniteSetsExt

CONSTANTS
    Workers,     \* host names, numbered in the order of their rows
    NumExperts,
    Capacity,    \* max_experts each Worker reports
    Step,        \* scaling.experts_per_step
    AutoAssign,  \* scaling.auto_assign
    Placed,      \* placements the database holds when the Controller starts
    MaxStarts,   \* bound: registrations of one Worker
    MaxLosses,   \* bound: Workers that leave
    MaxRebalances, \* bound: rebalance commands
    MaxReports   \* bound: reports of ready experts

PlacementAssumption ==
    /\ Workers \subseteq Nat /\ IsFiniteSet(Workers) /\ NumExperts \in Nat \ {0}
    /\ Capacity \in [Workers -> Nat \ {0}] /\ Step \in Nat \ {0} /\ AutoAssign \in BOOLEAN
    /\ Placed \subseteq Workers \X (0..(NumExperts - 1))
    /\ {MaxStarts, MaxLosses, MaxRebalances, MaxReports} \subseteq Nat

VARIABLES
    node,    \* node rows: seen within the threshold, and max_experts of its config
    rows,    \* expert rows: state of each Worker's row of an expert
    proc,    \* per Worker: registrations so far, is the last one alive, is it stopping
    lock,    \* holder of ASSIGN_LOCK
    loading, \* PROGRESSIVE_LOADING
    asg,     \* progressive_assign per registration
    rec,     \* recover_unique_experts per registration
    leave,   \* the unavailable hook per registration
    plan,    \* the rebalance command: active nodes it has read
    budget

vars == <<node, rows, proc, lock, loading, asg, rec, leave, plan, budget>>

Experts == 0..(NumExperts - 1)
Starts == Workers \X (1..MaxStarts)
Free == <<0, 0>>

Held(w) == {e \in Experts : rows[w][e] # "none"}
Active == {w \in Workers : node[w].active}
Holders(e) == {w \in Workers : rows[w][e] # "none"}
Ascending(S) == SetToSortSeq(S, <)
WithRow(w, e, state) == [rows EXCEPT ![w][e] = state]

\* upsert: a row that exists keeps its state.
Upserted(pairs, state) ==
    [w \in Workers |-> [e \in Experts |->
       IF <<w, e>> \in pairs /\ rows[w][e] = "none" THEN state ELSE rows[w][e]]]
-----------------------------------------------------------------------------
(* Lifecycle hooks *)

NoAssign == [pc |-> "idle", left |-> <<>>, todo |-> <<>>, cap |-> 0]
NoRecovery == [pc |-> "idle", dead |-> {}, active |-> {}, targets |-> {}, caps |-> [w \in Workers |-> 0],
               unique |-> {}, plan |-> {}, unplaced |-> {}, evict |-> {}, place |-> {}, early |-> {}]

(* registered: the node row carries the registration, and a start that the row did not
   know is assigned experts. A registration stands for a new process, or for one whose
   row was cleared after its streams broke. *)
Register(w) ==
    LET t == <<w, proc[w].start + 1>> IN
    /\ proc[w].start < MaxStarts
    /\ proc' = [proc EXCEPT ![w] = [start |-> @.start + 1, up |-> TRUE, stopping |-> FALSE]]
    /\ node' = [node EXCEPT ![w] = [active |-> TRUE, cap |-> Capacity[w]]]
    /\ asg' = IF AutoAssign THEN [asg EXCEPT ![t].pc = "read"] ELSE asg
    /\ UNCHANGED <<rows, lock, loading, rec, leave, plan, budget>>

\* heartbeat: node_update_seen
Heartbeat(w) ==
    /\ proc[w].up /\ ~node[w].active
    /\ node' = [node EXCEPT ![w].active = TRUE]
    /\ UNCHANGED <<rows, proc, lock, loading, asg, rec, leave, plan, budget>>

\* shutting_down: one recovery while the Worker still serves
ShuttingDown(w) ==
    LET t == <<w, proc[w].start>> IN
    /\ proc[w].up /\ ~proc[w].stopping /\ budget.losses > 0
    /\ proc' = [proc EXCEPT ![w].stopping = TRUE]
    /\ rec' = [rec EXCEPT ![t].pc = "experts"]
    /\ budget' = [budget EXCEPT !.losses = @ - 1]
    /\ UNCHANGED <<node, rows, lock, loading, asg, leave, plan>>

\* The heartbeats of a registration end: the unavailable hook runs.
Lose(w) ==
    /\ proc[w].up /\ (proc[w].stopping \/ budget.losses > 0)
    /\ proc' = [proc EXCEPT ![w].up = FALSE]
    /\ leave' = [leave EXCEPT ![<<w, proc[w].start>>] = "reset"]
    /\ budget' = IF proc[w].stopping THEN budget ELSE [budget EXCEPT !.losses = @ - 1]
    /\ UNCHANGED <<node, rows, lock, loading, asg, rec, plan>>

\* deactivate_node, first statement
ResetRows(t) ==
    /\ leave[t] = "reset"
    /\ rows' = [rows EXCEPT ![t[1]] = [e \in Experts |-> IF @[e] = "none" THEN "none" ELSE "pending"]]
    /\ leave' = [leave EXCEPT ![t] = "node"]
    /\ UNCHANGED <<node, proc, lock, loading, asg, rec, plan, budget>>

\* second statement; then the task that recovers, unless a graceful one did or does
ClearNode(t) ==
    /\ leave[t] = "node"
    /\ node' = [node EXCEPT ![t[1]] = [active |-> FALSE, cap |-> 0]]
    /\ leave' = [leave EXCEPT ![t] = "recover"]
    /\ rec' = IF rec[t].pc = "idle" THEN [rec EXCEPT ![t].pc = "experts"] ELSE rec
    /\ UNCHANGED <<rows, proc, lock, loading, asg, plan, budget>>

\* delete_stale_experts: every row under the host name
DeleteStale(t) ==
    /\ leave[t] = "recover" /\ rec[t].pc = "done"
    /\ rows' = [rows EXCEPT ![t[1]] = [e \in Experts |-> "none"]]
    /\ leave' = [leave EXCEPT ![t] = "done"]
    /\ UNCHANGED <<node, proc, lock, loading, asg, rec, plan, budget>>

\* persist_ready: ready rows are loaded, the others that were dispatched are pending.
Report(w, ready) ==
    /\ proc[w].up /\ budget.reports > 0
    /\ ready \subseteq {e \in Held(w) : rows[w][e] # "scheduled"}
    /\ rows' = [rows EXCEPT ![w] = [e \in Experts |->
                  IF e \in ready THEN "loaded"
                  ELSE IF @[e] \in {"none", "scheduled"} THEN @[e] ELSE "pending"]]
    /\ rows' # rows
    /\ budget' = [budget EXCEPT !.reports = @ - 1]
    /\ UNCHANGED <<node, proc, lock, loading, asg, rec, leave, plan>>
-----------------------------------------------------------------------------
(* progressive_assign *)

AsgFrame == UNCHANGED <<node, proc, rec, leave, plan, budget>>

\* Faulty variant: max_experts is not a limit.
TargetAll(cap) == NumExperts

\* target_per_layer
Target(cap) == Min({NumExperts, cap})

\* The node row and its experts are read; a node without slots gets none.
ReadNode(t) ==
    /\ asg[t].pc = "read"
    /\ asg' = [asg EXCEPT ![t] = [@ EXCEPT !.cap = node[t[1]].cap,
                                           !.pc = IF Held(t[1]) # {} THEN "stale"
                                                  ELSE IF node[t[1]].cap = 0 THEN "done" ELSE "lock"]]
    /\ UNCHANGED <<rows, lock, loading>> /\ AsgFrame

\* delete_experts_by_node: assignments of earlier runs
ClearStale(t) ==
    /\ asg[t].pc = "stale"
    /\ rows' = [rows EXCEPT ![t[1]] = [e \in Experts |-> "none"]]
    /\ asg' = [asg EXCEPT ![t].pc = IF asg[t].cap = 0 THEN "done" ELSE "lock"]
    /\ UNCHANGED <<lock, loading>> /\ AsgFrame

\* Experts with the fewest active replicas first, then by index.
ByCoverage ==
    LET count(e) == Cardinality(Holders(e) \cap Active)
    IN  SetToSortSeq(Experts, LAMBDA a, b : count(a) < count(b) \/ (count(a) = count(b) /\ a < b))

\* Faulty variant: coverage is read without the lock.
ReadCoverageUnlocked(t) ==
    /\ asg[t].pc = "lock"
    /\ asg' = [asg EXCEPT ![t] = [@ EXCEPT !.pc = "insert",
                 !.left = SubSeq(ByCoverage, 1, Target(asg[t].cap)),
                 !.todo = SubSeq(ByCoverage, 1, Target(asg[t].cap))]]
    /\ UNCHANGED <<rows, lock, loading>> /\ AsgFrame

\* ASSIGN_LOCK is held from the coverage check to the last insert.
ReadCoverage(t) ==
    /\ asg[t].pc = "lock" /\ lock = Free
    /\ lock' = t
    /\ asg' = [asg EXCEPT ![t] = [@ EXCEPT !.pc = "insert",
                 !.left = SubSeq(ByCoverage, 1, Target(asg[t].cap)),
                 !.todo = SubSeq(ByCoverage, 1, Target(asg[t].cap))]]
    /\ UNCHANGED <<rows, loading>> /\ AsgFrame

InsertScheduled(t) ==
    LET last == Len(asg[t].left) = 1 IN
    /\ asg[t].pc = "insert"
    /\ rows' = Upserted({<<t[1], Head(asg[t].left)>>}, "scheduled")
    /\ asg' = [asg EXCEPT ![t] = [@ EXCEPT !.left = Tail(@), !.pc = IF last THEN "mark" ELSE "insert"]]
    /\ lock' = IF last /\ lock = t THEN Free ELSE lock
    /\ UNCHANGED loading /\ AsgFrame

MarkLoading(t) ==
    /\ asg[t].pc = "mark"
    /\ loading' = loading \cup {t[1]}
    /\ asg' = [asg EXCEPT ![t].pc = "stripe"]
    /\ UNCHANGED <<rows, lock>> /\ AsgFrame

\* One stripe: its rows become pending whatever they are, and the Worker is triggered.
PromoteStripe(t) ==
    LET n == Min({Step, Len(asg[t].todo)})
        stripe == ToSet(SubSeq(asg[t].todo, 1, n))
    IN
    /\ asg[t].pc = "stripe"
    /\ rows' = [rows EXCEPT ![t[1]] = [e \in Experts |->
                  IF e \in stripe /\ @[e] # "none" THEN "pending" ELSE @[e]]]
    /\ asg' = [asg EXCEPT ![t] = [@ EXCEPT !.todo = SubSeq(@, n + 1, Len(@)),
                                           !.pc = IF n = Len(asg[t].todo) THEN "unmark" ELSE "stripe"]]
    /\ UNCHANGED <<lock, loading>> /\ AsgFrame

UnmarkLoading(t) ==
    /\ asg[t].pc = "unmark"
    /\ loading' = loading \ {t[1]}
    /\ asg' = [asg EXCEPT ![t] = [NoAssign EXCEPT !.pc = "done"]]
    /\ UNCHANGED <<rows, lock>> /\ AsgFrame
-----------------------------------------------------------------------------
(* recover_unique_experts *)

RecFrame == UNCHANGED <<node, proc, lock, loading, asg, leave, plan, budget>>
RecMoves(t, r) == rec' = [rec EXCEPT ![t] = r]
\* The experts and targets it knew stay on record for the properties.
Recovered(t) == [NoRecovery EXCEPT !.pc = "done", !.dead = rec[t].dead, !.targets = rec[t].targets,
                                   !.caps = rec[t].caps, !.early = rec[t].early]

ReadDead(t) ==
    /\ rec[t].pc = "experts"
    /\ RecMoves(t, IF Held(t[1]) = {} THEN Recovered(t)
                   ELSE [rec[t] EXCEPT !.pc = "targets", !.dead = Held(t[1])])
    /\ UNCHANGED rows /\ RecFrame

\* Active nodes but the dead one and those under progressive loading
ReadTargets(t) ==
    LET targets == Active \ (loading \cup {t[1]}) IN
    /\ rec[t].pc = "targets"
    /\ RecMoves(t, IF targets = {} THEN Recovered(t)
                   ELSE [rec[t] EXCEPT !.pc = "unique", !.targets = targets, !.active = Active,
                                         !.caps = [w \in Workers |-> IF w \in targets THEN node[w].cap ELSE 0]])
    /\ UNCHANGED rows /\ RecFrame

\* The replicas elsewhere, on nodes that were active when those were read
OtherActive(t, e) == (Holders(e) \cap rec[t].active) \ {t[1]}

FindUnique(t) ==
    LET unique == {e \in rec[t].dead : OtherActive(t, e) = {}} IN
    /\ rec[t].pc = "unique"
    /\ RecMoves(t, IF unique = {} THEN Recovered(t)
                   ELSE [rec[t] EXCEPT !.pc = "assign", !.unique = unique, !.active = {}])
    /\ UNCHANGED rows /\ RecFrame

\* remaining_expert_capacity: every row counts, whatever its state.
Remaining(t, w) == Max({0, rec[t].caps[w] - Cardinality(Held(w))})

\* Each expert goes to the target with the most slots left; equals keep their last order.
Greedy(t) ==
    LET sorted(order, room) ==
            LET at == SetToSortSeq(DOMAIN order, LAMBDA i, j : room[order[i]] > room[order[j]]
                                                   \/ (room[order[i]] = room[order[j]] /\ i < j))
            IN  [i \in DOMAIN order |-> order[at[i]]]
        put(acc, e) ==
            LET order == sorted(acc.order, acc.room)
                w == Head(order)
            IN  IF acc.room[w] > 0
                  THEN [acc EXCEPT !.order = order, !.plan = @ \cup {<<w, e>>}, !.room[w] = @ - 1]
                  ELSE [acc EXCEPT !.order = order, !.unplaced = @ \cup {e}]
    IN  FoldLeft(put, [order |-> Ascending(rec[t].targets), plan |-> {}, unplaced |-> {},
                       room |-> [w \in rec[t].targets |-> Remaining(t, w)]], Ascending(rec[t].unique))

\* The Workers whose assignment has rows to insert, on record for the properties
Unassigned == {s[1] : s \in {x \in Starts : asg[x].pc \in {"read", "stale", "lock", "insert"}}}

AssignDirect(t) ==
    LET g == Greedy(t) IN
    /\ rec[t].pc = "assign"
    /\ RecMoves(t, [rec[t] EXCEPT !.pc = IF g.unplaced = {} THEN "upsert" ELSE "evict",
                      !.plan = g.plan, !.unplaced = g.unplaced, !.unique = {}, !.early = Unassigned])
    /\ UNCHANGED rows /\ RecFrame

\* Faulty variant: one active replica is enough to evict it.
EvictableLast(count, w, e) == rows[w][e] \in {"loaded", "null"} /\ count[e] >= 1

\* A loaded row of an expert that another active node also holds
Evictable(count, w, e) == rows[w][e] \in {"loaded", "null"} /\ count[e] >= 2

\* evict_and_place: per expert the first target with a candidate, of it the most replicated.
Evictions(t) ==
    LET targets == Ascending(rec[t].targets)
        start == [e \in Experts |-> Cardinality((Holders(e) \cap Active) \ {t[1]})]
        victims(acc, w) == {e \in Experts : Evictable(acc.count, w, e) /\ <<w, e>> \notin acc.evict}
        victim(acc, w) == CHOOSE e \in victims(acc, w) : \A x \in victims(acc, w) :
            acc.count[x] < acc.count[e] \/ (acc.count[x] = acc.count[e] /\ e =< x)
        swap(acc, e) ==
            LET fit == {i \in DOMAIN targets : victims(acc, targets[i]) # {}} IN
            IF fit = {} THEN acc
            ELSE LET w == targets[Min(fit)]
                     v == victim(acc, w)
                 IN  [acc EXCEPT !.evict = @ \cup {<<w, v>>}, !.place = @ \cup {<<w, e>>},
                                 !.count[v] = @ - 1]
    IN  FoldLeft(swap, [evict |-> {}, place |-> {}, count |-> start], Ascending(rec[t].unplaced))

PlanEvictions(t) ==
    LET acc == Evictions(t) IN
    /\ rec[t].pc = "evict"
    /\ RecMoves(t, [rec[t] EXCEPT !.pc = IF acc.evict = {} THEN "upsert" ELSE "delete",
                      !.evict = acc.evict, !.place = acc.place, !.unplaced = {}])
    /\ UNCHANGED rows /\ RecFrame

DeleteVictim(t, pair) ==
    /\ rec[t].pc = "delete" /\ pair \in rec[t].evict
    /\ rows' = WithRow(pair[1], pair[2], "none")
    /\ RecMoves(t, [rec[t] EXCEPT !.evict = @ \ {pair},
                      !.pc = IF rec[t].evict = {pair} THEN "place" ELSE "delete"])
    /\ RecFrame

PlaceEvicted(t) ==
    /\ rec[t].pc = "place"
    /\ rows' = Upserted(rec[t].place, "null")
    /\ RecMoves(t, [rec[t] EXCEPT !.pc = "upsert", !.place = {}])
    /\ RecFrame

\* expert_upsert_batch, then every target that changed is triggered
UpsertPlan(t) ==
    /\ rec[t].pc = "upsert"
    /\ rows' = Upserted(rec[t].plan, "null")
    /\ RecMoves(t, Recovered(t))
    /\ RecFrame
-----------------------------------------------------------------------------
(* execute_rebalance *)

NoPlan == [pc |-> "idle", caps |-> [w \in Workers |-> 0]]

ReadActive ==
    /\ plan.pc = "idle" /\ budget.rebalances > 0
    /\ plan' = [pc |-> "replace", caps |-> [w \in Workers |-> IF node[w].active THEN node[w].cap ELSE 0]]
    /\ budget' = [budget EXCEPT !.rebalances = @ - 1]
    /\ UNCHANGED <<node, rows, proc, lock, loading, asg, rec, leave>>

\* plan_rebalance_nodes: the smallest share of its slots taken, then by name
LeastLoaded(loads, caps) ==
    LET open == {w \in Workers : loads[w] < caps[w]} IN
    CHOOSE w \in open : \A v \in open :
      loads[w] * caps[v] < loads[v] * caps[w] \/ (loads[w] * caps[v] = loads[v] * caps[w] /\ w =< v)

Shares(caps) ==
    LET give(acc, e) == LET w == LeastLoaded(acc.loads, caps)
                        IN  [loads |-> [acc.loads EXCEPT ![w] = @ + 1], at |-> acc.at \cup {<<w, e>>}]
    IN  FoldLeft(give, [loads |-> [w \in Workers |-> 0], at |-> {}], Ascending(Experts)).at

(* replace_experts_for_instance in one transaction; unchanged rows keep their state. It is
   refused when the active capacity is too small. *)
Rebalance ==
    /\ plan.pc = "replace"
    /\ plan' = NoPlan
    /\ rows' = IF MapThenSumSet(LAMBDA w : plan.caps[w], Workers) < NumExperts THEN rows
               ELSE [w \in Workers |-> [e \in Experts |->
                       IF <<w, e>> \notin Shares(plan.caps) THEN "none"
                       ELSE IF rows[w][e] = "none" THEN "pending" ELSE rows[w][e]]]
    /\ UNCHANGED <<node, proc, lock, loading, asg, rec, leave, budget>>
-----------------------------------------------------------------------------
Init ==
    /\ node = [w \in Workers |-> [active |-> FALSE, cap |-> 0]]
    /\ rows = [w \in Workers |-> [e \in Experts |-> IF <<w, e>> \in Placed THEN "pending" ELSE "none"]]
    /\ proc = [w \in Workers |-> [start |-> 0, up |-> FALSE, stopping |-> FALSE]]
    /\ lock = Free /\ loading = {}
    /\ asg = [t \in Starts |-> NoAssign] /\ rec = [t \in Starts |-> NoRecovery]
    /\ leave = [t \in Starts |-> "idle"] /\ plan = NoPlan
    /\ budget = [losses |-> MaxLosses, rebalances |-> MaxRebalances, reports |-> MaxReports]

AssignStep(t) ==
    \/ ReadNode(t) \/ ClearStale(t) \/ ReadCoverage(t) \/ InsertScheduled(t)
    \/ MarkLoading(t) \/ PromoteStripe(t) \/ UnmarkLoading(t)

RecoverStep(t) ==
    \/ ReadDead(t) \/ ReadTargets(t) \/ FindUnique(t) \/ AssignDirect(t) \/ PlanEvictions(t)
    \/ (\E pair \in rec[t].evict : DeleteVictim(t, pair)) \/ PlaceEvicted(t) \/ UpsertPlan(t)

LeaveStep(t) == ResetRows(t) \/ ClearNode(t) \/ DeleteStale(t)

\* No task runs.
Quiet ==
    /\ plan.pc = "idle" /\ \A t \in Starts : asg[t].pc \in {"idle", "done"} /\ rec[t].pc \in {"idle", "done"}
    /\ \A t \in Starts : leave[t] \in {"idle", "done"}

Rest == Quiet /\ UNCHANGED vars

Next ==
    \/ \E w \in Workers : Register(w) \/ Heartbeat(w) \/ ShuttingDown(w) \/ Lose(w)
    \/ \E w \in Workers, ready \in SUBSET Experts : Report(w, ready)
    \/ \E t \in Starts : AssignStep(t) \/ RecoverStep(t) \/ LeaveStep(t)
    \/ ReadActive \/ Rebalance
    \/ Rest

Spec == Init /\ [][Next]_vars

(* Tasks of the Controller's runtime and database calls end; Workers do as they like. *)
Steps == Rebalance \/ \E t \in Starts : AssignStep(t) \/ RecoverStep(t) \/ LeaveStep(t)

FairSpec == Spec /\ WF_vars(Steps)
-----------------------------------------------------------------------------
(* The marks of PROGRESSIVE_LOADING belong to assignments under way: none is left behind,
   which would keep a Worker from ever receiving recovered experts. *)
TypeOK ==
    /\ node \in [Workers -> [active : BOOLEAN, cap : Nat]]
    /\ rows \in [Workers -> [Experts -> {"none", "scheduled", "pending", "loaded", "null"}]]
    /\ lock \in Starts \cup {Free}
    /\ loading \subseteq {t[1] : t \in {x \in Starts : asg[x].pc \in {"stripe", "unmark"}}}

Covered(e) == Holders(e) \cap Active # {}
Room == MapThenSumSet(LAMBDA w : Capacity[w], {w \in Workers : proc[w].up}) >= NumExperts

(* progressive.rs: Workers that start together and have room for the model between them
   cover it before any expert is placed twice; once the assignments are done no expert is
   without a Worker. *)
AssignmentsCover ==
    (\A w \in Workers : proc[w].up) /\ Room /\ Quiet => \A e \in Experts : Covered(e)

(* A Worker is never given more experts than it reported room for: set_targets would
   refuse the list, and with it the Worker's weight stream. *)
Overfull(w) == node[w].active /\ Cardinality(Held(w)) > Capacity[w]
WithinCapacity == \A w \in Workers : ~Overfull(w)

(* A recovery that runs beside an assignment gives its Worker too many experts only when it
   counts the Worker's rows before the assignment has inserted its own (the marks of
   PROGRESSIVE_LOADING are set after them and exclude nobody until then). *)
OverfullOnlyEarly == \A w \in Workers :
    Overfull(w) => \E t \in Starts : w \in rec[t].early \cap rec[t].targets

(* recovery.rs: an eviction makes room for a lost expert and never takes the last replica
   that an active Worker holds of another. *)
EvictionCovers ==
    \A t \in Starts : \A pair \in rec[t].evict :
        DeleteVictim(t, pair) => (Covered(pair[2]) => Covered(pair[2])')
EvictionKeepsCoverage == [][EvictionCovers]_vars

(* recover_unique_experts runs before the rows of a Worker that left are deleted: the last
   row of an expert it knew goes only when another active Worker holds one, or none that it
   could choose has a slot. *)
CleanUpKeeps ==
    \A t \in Starts : DeleteStale(t) => \A e \in Held(t[1]) \cap rec[t].dead :
        \/ (Holders(e) \cap Active) \ {t[1]} # {}
        \/ \A w \in rec[t].targets : Remaining(t, w) = 0
LastRowKept == [][CleanUpKeeps]_vars

(* Every assignment, recovery and clean-up ends: nobody waits for ASSIGN_LOCK or for a
   graceful recovery for ever. *)
TasksEnd == <>[]Quiet

(* What is deleted as stale is stale: a registered Worker, once no task runs, has its
   registration in the node row and the experts its assignment gave it. *)
LiveIsAssigned ==
    Quiet => \A w \in Workers : proc[w].up /\ ~proc[w].stopping =>
      node[w].cap = Capacity[w] /\ (AutoAssign => Cardinality(Held(w)) >= Target(Capacity[w]))
=============================================================================
