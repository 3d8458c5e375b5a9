---------------------------- MODULE WeightManager ----------------------------
(***************************************************************************)
(* The Worker's weight manager (weights/manager.py), its table of ready    *)
(* weights (weights/ready.py) and the fixed device slots of the fused      *)
(* backend (backends/fused/weights.py).                                    *)
(*                                                                         *)
(* Everything but the executor threads runs on one asyncio loop: an action *)
(* is the code between two awaits. The manager's lock is held across an    *)
(* await by a removal only, so the other holders are single steps, and a   *)
(* load waits for the lock (pc "target", "fail", "fatal", "end") only when *)
(* a removal has it. Task.cancel() sets `cancel`; the exception arrives at *)
(* the await the task is in (Cancelled). An expert is a key; its weight    *)
(* takes one unit of device memory. Where a load gets its bytes from is    *)
(* module CpuWeights.                                                      *)
(***************************************************************************)
EXTENDS Integers, FiniteSets

CONSTANTS
    Keys,           \* expert positions of the model
    Users,          \* execution slots that retain ready weights
    Capacity,       \* max_experts
    MaxLoads,       \* max_concurrent_loads
    MaxGeneration,  \* bound: placement generations sent
    FixedSlots,     \* fused backend: the device holds exactly Capacity weights
    Drains          \* does the Controller authorise removals?

ManagerAssumption ==
    /\ IsFiniteSet(Keys) /\ IsFiniteSet(Users)
    /\ Capacity \in Nat \ {0} /\ MaxLoads \in Nat \ {0} /\ MaxGeneration \in Nat
    /\ FixedSlots \in BOOLEAN /\ Drains \in BOOLEAN

VARIABLES
    generation,  \* _placement_generation
    targets,     \* _targets
    states,      \* _states
    readyKeys,   \* _ready_keys
    loaded,      \* _loaded_device_bytes, in weights
    tasks,       \* _load_tasks and what each task is doing
    entries,     \* ReadyWeightTable._entries
    leases,      \* what each user retains
    slots,       \* weights that occupy device memory
    removal,     \* the task of _remove_after_drain, if one runs
    phase,       \* "open", "shutdown" and the steps of close
    fatal        \* _fatal_error is set

vars == <<generation, targets, states, readyKeys, loaded, tasks, entries, leases,
          slots, removal, phase, fatal>>

Task(pc) == [pc |-> pc, cancel |-> FALSE, cancelled |-> FALSE]
NoTask == Task("none")
NewTask == Task("limit")
NoEntry == [present |-> FALSE, accepting |-> FALSE, use |-> 0]
NewEntry == [present |-> TRUE, accepting |-> TRUE, use |-> 0]
NoRemoval == [keys |-> {}, left |-> {}]

Closing == phase \in {"loads", "withdraw", "closed"}
LockFree == removal = NoRemoval
\* The tasks inside `async with self._load_limit`.
Limited == {k \in Keys : tasks[k].pc \in
              {"target", "fetch", "convert", "publish", "published", "fail", "fatal"}}
-----------------------------------------------------------------------------
(* _load_ended: without the lock it waits; a cancelled load of an expert that is
   a target again starts over. *)
LoadEnded(k, cancelled) ==
    IF ~LockFree
      THEN [pc |-> "end", cancel |-> FALSE, cancelled |-> cancelled]
      ELSE IF cancelled /\ phase = "open" /\ k \in targets \ readyKeys
             THEN NewTask ELSE NoTask

End(k, cancelled) ==
    /\ tasks' = [tasks EXCEPT ![k] = LoadEnded(k, cancelled)]
    /\ states' = IF LoadEnded(k, cancelled) = NewTask
                   THEN [states EXCEPT ![k] = "none"] ELSE states

CancelledTask(t) == IF t.pc \in {"none", "dead"} THEN t ELSE [t EXCEPT !.cancel = TRUE]

(* _validate_targets *)
ValidTargets(list) == Cardinality(list) =< Capacity

(* The experts a new list drops and that are REMOVED without a drain. *)
RemovedAtOnce(list) == (targets \ list) \ readyKeys

(* WeightControlSession._drain_transition: a target list is applied when no
   removal runs, and so after every load that waited for the lock. *)
Serialised ==
    /\ LockFree
    /\ \A k \in Keys : tasks[k].pc \notin {"target", "fail", "fatal", "end"}

(* apply_targets with a newer generation (an older or equal one changes
   nothing). The step has the lock and does not await. *)
ApplyTargets(list) ==
    /\ phase \in {"open", "shutdown"}
    /\ Serialised
    /\ generation < MaxGeneration
    /\ ValidTargets(list)
    /\ phase = "shutdown" => list \subseteq targets
    /\ generation' = generation + 1
    /\ targets' = list
    /\ tasks' = [k \in Keys |->
          IF k \in targets \ list THEN CancelledTask(tasks[k])
          ELSE IF k \in list \ readyKeys /\ tasks[k] = NoTask /\ phase = "open" THEN NewTask
          ELSE tasks[k]]
    /\ states' = [k \in Keys |->
          IF k \in RemovedAtOnce(list) THEN "REMOVED"
          ELSE IF k \in list \ readyKeys THEN "none"
          ELSE states[k]]
    /\ UNCHANGED <<readyKeys, loaded, entries, leases, slots, removal, phase, fatal>>

(* begin_shutdown; no lock is waited for while a removal holds it *)
BeginShutdown ==
    /\ phase = "open"
    /\ LockFree
    /\ phase' = "shutdown"
    /\ tasks' = [k \in Keys |-> CancelledTask(tasks[k])]
    /\ UNCHANGED <<generation, targets, states, readyKeys, loaded, entries, leases, slots,
                   removal, fatal>>

-----------------------------------------------------------------------------
(* _load_one *)

KeepTable == UNCHANGED <<generation, targets, readyKeys, loaded, entries, leases, removal, phase>>

\* The semaphore, then the lock, then whether the expert is still a target.
StartLoad(k) ==
    /\ ~tasks[k].cancel
    /\ \/ tasks[k].pc = "limit" /\ Cardinality(Limited) < MaxLoads
       \/ tasks[k].pc = "target" /\ LockFree
    /\ IF LockFree /\ k \notin targets
         THEN End(k, FALSE)
         ELSE /\ tasks' = [tasks EXCEPT ![k].pc = IF LockFree THEN "fetch" ELSE "target"]
              /\ UNCHANGED states
    /\ KeepTable
    /\ UNCHANGED <<slots, fatal>>

\* CpuWeightLoader.acquire returned and make_ready_weight claims device memory.
StartConversion(k) ==
    /\ tasks[k].pc = "fetch" /\ ~tasks[k].cancel
    /\ FixedSlots => slots < Capacity
    /\ tasks' = [tasks EXCEPT ![k].pc = "convert"]
    /\ slots' = slots + 1
    /\ KeepTable
    /\ UNCHANGED <<states, fatal>>

(* WeightLoadFailed, a conversion that raises or (fixed slots) finds no free
   slot: _finish_failure records it unless the expert is gone or ready. *)
LoadFails(k) ==
    /\ tasks[k].pc \in {"fetch", "convert", "fail"} /\ ~tasks[k].cancel
    /\ tasks[k].pc = "fail" => LockFree
    /\ slots' = slots - (IF tasks[k].pc = "convert" THEN 1 ELSE 0)
    /\ IF LockFree
         THEN /\ tasks' = [tasks EXCEPT ![k] = NoTask]
              /\ states' = IF Closing \/ k \notin targets \ readyKeys THEN states
                           ELSE [states EXCEPT ![k] = "FAILED"]
         ELSE /\ tasks' = [tasks EXCEPT ![k] = Task("fail")]
              /\ UNCHANGED states
    /\ KeepTable
    /\ UNCHANGED fatal

(* WeightPlacementFatalError: the slot is abandoned and _set_fatal wakes the
   application, which closes the process. *)
LoadIsFatal(k) ==
    /\ tasks[k].pc \in {"convert", "fatal"} /\ ~tasks[k].cancel
    /\ tasks[k].pc = "fatal" => LockFree
    /\ slots' = slots - (IF tasks[k].pc = "convert" THEN 1 ELSE 0)
    /\ tasks' = [tasks EXCEPT ![k] =
                    IF LockFree THEN NoTask ELSE Task("fatal")]
    /\ fatal' = (fatal \/ LockFree)
    /\ KeepTable
    /\ UNCHANGED states

(* make_ready_weight returns; a load cancelled meanwhile gives the weight back. *)
Converted(k) ==
    /\ tasks[k].pc = "convert" /\ ~tasks[k].cancel
    /\ IF tasks[k].cancelled
         THEN End(k, TRUE) /\ slots' = slots - 1
         ELSE /\ tasks' = [tasks EXCEPT ![k].pc = "publish"]
              /\ UNCHANGED <<states, slots>>
    /\ KeepTable
    /\ UNCHANGED fatal

\* Faulty variant: the placement is not looked at again before publication.
PublishableAlways(k) == k \notin readyKeys

(* What _finish_ready asks once it has the lock. *)
Publishable(k) == ~Closing /\ k \in targets \ readyKeys

(* _finish_ready: a task of its own, which cancelling the load does not stop. A
   weight that finds the device full is given back. *)
FinishReady(k) ==
    /\ tasks[k].pc = "publish"
    /\ LockFree
    /\ IF Publishable(k) /\ loaded < Capacity
         THEN /\ entries' = [entries EXCEPT ![k] = NewEntry]
              /\ readyKeys' = readyKeys \union {k}
              /\ loaded' = loaded + 1
              /\ states' = [states EXCEPT ![k] = "READY"]
              /\ UNCHANGED slots
         ELSE /\ slots' = slots - 1
              /\ states' = IF Publishable(k) THEN [states EXCEPT ![k] = "FULL"] ELSE states
              /\ UNCHANGED <<entries, readyKeys, loaded>>
    /\ tasks' = [tasks EXCEPT ![k].pc = "published"]
    /\ UNCHANGED <<generation, targets, leases, removal, phase, fatal>>

\* The load goes on after _finish_ready: it gives up its CPU lease and ends.
Published(k) ==
    /\ tasks[k].pc = "published" /\ ~tasks[k].cancel
    /\ End(k, tasks[k].cancelled)
    /\ KeepTable
    /\ UNCHANGED <<slots, fatal>>

\* A load that waited for the lock in _load_ended gets it.
EndLocked(k) ==
    /\ tasks[k].pc = "end" /\ ~tasks[k].cancel
    /\ LockFree
    /\ End(k, tasks[k].cancelled)
    /\ KeepTable
    /\ UNCHANGED <<slots, fatal>>

(* The CancelledError arrives. Conversion and publication note it and go on; a
   task that waits in _load_ended dies and leaves its entry in _load_tasks. *)
Cancelled(k) ==
    /\ tasks[k].cancel
    /\ CASE tasks[k].pc \in {"convert", "publish", "published"} ->
              /\ tasks' = [tasks EXCEPT ![k].cancel = FALSE, ![k].cancelled = TRUE]
              /\ UNCHANGED states
         [] tasks[k].pc = "end" ->
              /\ tasks' = [tasks EXCEPT ![k] = Task("dead")]
              /\ UNCHANGED states
         [] OTHER -> End(k, TRUE)
    /\ KeepTable
    /\ UNCHANGED <<slots, fatal>>

-----------------------------------------------------------------------------
(* Computation retains ready weights: all of them or none. *)
AcquireMany(u, keys) ==
    /\ leases[u] = {}
    /\ \A k \in keys : entries[k].present /\ entries[k].accepting
    /\ leases' = [leases EXCEPT ![u] = keys]
    /\ entries' = [k \in Keys |->
          IF k \in keys THEN [entries[k] EXCEPT !.use = @ + 1] ELSE entries[k]]
    /\ UNCHANGED <<generation, targets, states, readyKeys, loaded, tasks, slots, removal, phase, fatal>>

(* ReadyWeightLease.close *)
Release(u) ==
    /\ leases[u] # {}
    /\ leases' = [leases EXCEPT ![u] = {}]
    /\ entries' = [k \in Keys |->
          IF k \in leases[u] THEN [entries[k] EXCEPT !.use = @ - 1] ELSE entries[k]]
    /\ UNCHANGED <<generation, targets, states, readyKeys, loaded, tasks, slots, removal, phase, fatal>>

Withdrawing(keys) ==
    [k \in Keys |-> IF k \in keys THEN [entries[k] EXCEPT !.accepting = FALSE] ELSE entries[k]]
Removed(keys) == [k \in Keys |-> IF k \in keys THEN "REMOVED" ELSE states[k]]

(* _remove_after_drain for the current generation (an older one is refused, as is
   a target unless the whole Worker stops). It keeps the lock while the
   withdrawn weights are in use. The Controller authorises the removal of targets
   in answer to a heartbeat, long after the loop ran the _finish_ready tasks that
   existed when shutdown began. *)
RemoveAfterDrain(keys) ==
    /\ Drains
    /\ LockFree
    /\ generation > 0 /\ ~Closing
    /\ \/ keys \intersect targets = {}
       \/ phase = "shutdown" /\ \A k \in Keys : tasks[k].pc # "publish"
    /\ LET withdrawn == keys \intersect readyKeys IN
         /\ entries' = Withdrawing(withdrawn)
         /\ removal' = IF withdrawn = {} THEN NoRemoval ELSE [keys |-> keys, left |-> withdrawn]
         /\ states' = IF withdrawn = {} THEN Removed(keys) ELSE states
    /\ UNCHANGED <<generation, targets, readyKeys, loaded, tasks, leases, slots, phase, fatal>>

\* Faulty variant: the weight is released while computation still uses it.
UnusedNever(k) == TRUE

(* finish_withdrawal waits, on an executor thread, for the users of the weight. *)
Unused(k) == entries[k].use = 0

(* finish_withdrawal and release of one weight; after the last one the states
   are reported and the lock is released. *)
FinishWithdrawal(k) ==
    /\ k \in removal.left
    /\ Unused(k)
    /\ entries' = [entries EXCEPT ![k] = NoEntry]
    /\ slots' = slots - 1
    /\ readyKeys' = readyKeys \ {k}
    /\ loaded' = loaded - 1
    /\ LET left == removal.left \ {k} IN
         /\ removal' = IF left = {} THEN NoRemoval ELSE [removal EXCEPT !.left = left]
         /\ states' = IF left = {} THEN Removed(removal.keys) ELSE states
    /\ UNCHANGED <<generation, targets, tasks, leases, phase, fatal>>

-----------------------------------------------------------------------------
(* _close: loads are cancelled and awaited, then every weight is withdrawn in
   turn; the lock is not held meanwhile. *)
Close ==
    /\ ~Closing
    /\ LockFree
    /\ phase' = "loads"
    /\ tasks' = [k \in Keys |-> CancelledTask(tasks[k])]
    /\ UNCHANGED <<generation, targets, states, readyKeys, loaded, entries, leases, slots, removal, fatal>>

LoadsEnded ==
    /\ phase = "loads"
    /\ \A k \in Keys : tasks[k].pc \in {"none", "dead"}
    /\ phase' = "withdraw"
    /\ UNCHANGED <<generation, targets, states, readyKeys, loaded, tasks, entries, leases, slots,
                   removal, fatal>>

CloseBegins(k) ==
    /\ phase = "withdraw"
    /\ \A j \in Keys : entries[j].present => entries[j].accepting
    /\ entries[k].present
    /\ entries' = Withdrawing({k})
    /\ UNCHANGED <<generation, targets, states, readyKeys, loaded, tasks, leases, slots, removal,
                   phase, fatal>>

CloseFinishes(k) ==
    /\ phase = "withdraw"
    /\ entries[k].present /\ ~entries[k].accepting
    /\ Unused(k)
    /\ entries' = [entries EXCEPT ![k] = NoEntry]
    /\ slots' = slots - 1
    /\ UNCHANGED <<generation, targets, states, readyKeys, loaded, tasks, leases, removal, phase, fatal>>

Closed ==
    /\ phase = "withdraw"
    /\ \A k \in Keys : ~entries[k].present
    /\ phase' = "closed"
    /\ readyKeys' = {} /\ loaded' = 0
    /\ UNCHANGED <<generation, targets, states, tasks, entries, leases, slots, removal, fatal>>

-----------------------------------------------------------------------------
Init ==
    /\ generation = 0 /\ targets = {} /\ readyKeys = {} /\ loaded = 0 /\ slots = 0
    /\ states = [k \in Keys |-> "none"]
    /\ tasks = [k \in Keys |-> NoTask]
    /\ entries = [k \in Keys |-> NoEntry]
    /\ leases = [u \in Users |-> {}]
    /\ removal = NoRemoval /\ phase = "open" /\ fatal = FALSE

Load(k) ==
    \/ StartLoad(k) \/ StartConversion(k) \/ LoadFails(k) \/ LoadIsFatal(k) \/ Converted(k)
    \/ FinishReady(k) \/ Published(k) \/ EndLocked(k) \/ Cancelled(k)

Next ==
    \/ \E list \in SUBSET Keys : ApplyTargets(list)
    \/ BeginShutdown
    \/ \E k \in Keys : Load(k)
    \/ \E u \in Users, keys \in SUBSET Keys \ {{}} : AcquireMany(u, keys)
    \/ \E u \in Users : Release(u)
    \/ \E keys \in SUBSET Keys \ {{}} : RemoveAfterDrain(keys)
    \/ \E k \in Keys : FinishWithdrawal(k) \/ CloseBegins(k) \/ CloseFinishes(k)
    \/ Close \/ LoadsEnded \/ Closed

Spec == Init /\ [][Next]_vars

(* Loads and withdrawals go on, and computation ends. *)
Steps == \E k \in Keys : Load(k) \/ FinishWithdrawal(k)
Releases == \E u \in Users : Release(u)

FairSpec == Spec /\ WF_vars(Steps) /\ WF_vars(Releases)

-----------------------------------------------------------------------------
TypeOK ==
    /\ generation \in 0..MaxGeneration
    /\ targets \subseteq Keys /\ readyKeys \subseteq Keys
    /\ states \in [Keys -> {"none", "READY", "FAILED", "FULL", "REMOVED"}]
    /\ loaded \in 0..Capacity
    /\ slots \in 0..Cardinality(Keys)
    /\ tasks \in [Keys -> [pc : {"none", "limit", "target", "fetch", "convert", "publish",
                                "published", "fail", "fatal", "end", "dead"},
                          cancel : BOOLEAN, cancelled : BOOLEAN]]
    /\ entries \in [Keys -> [present : BOOLEAN, accepting : BOOLEAN, use : 0..Cardinality(Users)]]
    /\ leases \in [Users -> SUBSET Keys]
    /\ removal \in [keys : SUBSET Keys, left : SUBSET Keys]
    /\ phase \in {"open", "shutdown", "loads", "withdraw", "closed"}
    /\ fatal \in BOOLEAN

(* Device memory is neither lost nor used twice: every weight that occupies it is
   in the ready table or being made by a load, whatever was cancelled
   (manager.py:614, :722), and the byte count is that of the ready experts. *)
DeviceAccounted ==
    /\ slots = Cardinality({k \in Keys : entries[k].present})
               + Cardinality({k \in Keys : tasks[k].pc \in {"convert", "publish"}})
    /\ loaded = Cardinality(readyKeys)
    /\ FixedSlots => slots =< Capacity

(* A weight retained by computation stays in the table, with a use count equal to
   the number of its holders, until all of them released it (ready.py:153). *)
LeasesRetained ==
    \A k \in Keys :
        /\ entries[k].use = Cardinality({u \in Users : k \in leases[u]})
        /\ entries[k].use > 0 => entries[k].present

(* Both: device memory and its holders, through cancelled loads, drains and shutdown. *)
DeviceMemorySafe == DeviceAccounted /\ LeasesRetained

(* What the Controller is told matches what computation can get: an expert
   reported READY is served, and one reported REMOVED, FAILED or nothing is not,
   but for those a removal is just withdrawing (manager.py:663, :539). *)
ReportsMatchTable ==
    ~Closing =>
        \A k \in Keys \ removal.keys : (states[k] = "READY") <=> (entries[k].present /\ entries[k].accepting)

(* An expert reported REMOVED is reported READY again only after a placement
   assigned it again, however late its load finishes (manager.py:664). *)
RemovedStays == \A k \in Keys : ~(states[k] = "REMOVED" /\ states'[k] = "READY")
NoReadyAfterRemoved == [][RemovedStays]_vars

Running == phase = "open" /\ ~fatal

(* The expert is ready, reported failed, or has a load that is not over. *)
Covered(k) == k \in readyKeys \/ states[k] \in {"FAILED", "FULL"} \/ tasks[k].pc \notin {"none", "dead"}

(* The load of a target that gave its weight back and is about to end. *)
GaveBack(k) ==
    /\ k \in targets \ readyKeys
    /\ tasks[k].pc \in {"published", "end"} /\ ~tasks[k].cancel /\ ~tasks[k].cancelled

(* "start missing loads" (apply_targets): while the Worker runs, every placement leaves
   each target ready or with a load, and whatever is cancelled, drained or placed again
   while it runs, a load ends without a result or a report only when the device was full
   and it had to give its weight back (manager.py:667). *)
LoadsKept ==
    Running' =>
        /\ \A k \in targets' :
               \/ Covered(k)'
               \/ /\ generation' = generation
                  /\ GaveBack(k) \/ (k \in targets /\ ~Covered(k))
        /\ \A k \in targets' : GaveBack(k)' => GaveBack(k) \/ loaded >= Capacity
MissingLoadsStarted == [][LoadsKept]_vars

(* Stronger: no target is ever without a weight, a load or a report. A device that is too
   small breaks it: see the observations in README.md. *)
EveryTargetCovered == Running => \A k \in targets : Covered(k)

(* The device is found full (manager.py:667) only while an expert that is no
   target any more still occupies it, waiting for its drain. *)
FullWhileDraining == \A k \in Keys : states[k] # "FULL" /\ states'[k] = "FULL" => readyKeys \ targets # {}
FullOnlyWhileDraining == [][FullWhileDraining]_vars

(* The three: what the Controller is told of the experts is true. *)
ReportsTrue == []ReportsMatchTable /\ NoReadyAfterRemoved /\ FullOnlyWhileDraining

(* Every target is settled, ready or reported failed, unless the placement
   changes or the Worker stops. *)
Settled ==
    phase # "open" \/ fatal \/ \A k \in targets : states[k] \in {"READY", "FAILED", "FULL"}
TargetsSettle == []<>Settled
==============================================================================
