-------------------------- MODULE MCWorkerWeights ---------------------------
(* The weights of a Worker for TLC: scenarios of WeightManager, CpuWeights,    *)
(* ComputeBackends and WeightFiles. A behaviour is one scenario, chosen at the *)
(* start; the components that do not run stay in their initial state.          *)
EXTENDS Naturals

CONSTANT Scenarios   \* the scenarios to check

VARIABLES
    part,                                                        \* the scenario
    generation, targets, states, readyKeys, loaded, tasks, entries, leases,
    slots, removal, phase, fatal,                                \* WeightManager
    size, refs, order, used, reserved, inflight, loads, calls, queue, writing,
    disk, cphase, spin,                                          \* CpuWeights
    kind, conv, where, owner, mapping, holds, copies, lock, batch, \* ComputeBackends
    proc, file, boots                                            \* WeightFiles

\* A device that holds one weight while placements ask for two.
Small == INSTANCE WeightManager WITH
    Keys <- {"k1", "k2"}, Users <- {"u1"}, Capacity <- 1, MaxLoads <- 2, MaxGeneration <- 3,
    FixedSlots <- FALSE, Drains <- TRUE

\* A fused device with room for all, and loads that wait for each other.
Roomy == INSTANCE WeightManager WITH
    Keys <- {"k1", "k2"}, Users <- {"u1"}, Capacity <- 2, MaxLoads <- 1, MaxGeneration <- 3,
    FixedSlots <- TRUE, Drains <- TRUE

\* Loads of the manager, with room for one weight.
Loads == INSTANCE CpuWeights WITH
    Keys <- {"k1", "k2"}, Calls <- {"c1", "c2"}, Remote <- {"c1", "c2"}, MaxBytes <- 2,
    Reservation <- 2, Sizes <- {1, 2}, Endpoints <- 2, MaxPending <- 1, MaxPeers <- 1,
    NoCall <- "none", phase <- cphase

\* A load of the manager and a peer request.
Serves == INSTANCE CpuWeights WITH
    Keys <- {"k1", "k2"}, Calls <- {"c1", "c2"}, Remote <- {"c1"}, MaxBytes <- 2,
    Reservation <- 2, Sizes <- {1, 2}, Endpoints <- 1, MaxPending <- 1, MaxPeers <- 1,
    NoCall <- "none", phase <- cphase

Backends == INSTANCE ComputeBackends WITH
    Kinds <- {"fused", "torch", "ggml"}, Positions <- {"p1", "p2"}, NumSlots <- 2,
    Batches <- {"b1", "b2"}, MaxCopies <- 2

Files == INSTANCE WeightFiles WITH
    Procs <- {"w1", "w2"}, Namespace <- [p \in {"w1", "w2"} |-> "host"], ReusePids <- FALSE,
    Pages <- 1, MaxFiles <- 3, MaxBoots <- 3, PowerFails <- TRUE

ASSUME Small!ManagerAssumption /\ Roomy!ManagerAssumption /\ Loads!CpuWeightsAssumption
ASSUME Serves!CpuWeightsAssumption
ASSUME Backends!BackendAssumption /\ Files!FilesAssumption

manager == <<generation, targets, states, readyKeys, loaded, tasks, entries, leases,
             slots, removal, phase, fatal>>
loader == <<size, refs, order, used, reserved, inflight, loads, calls, queue, writing,
            disk, cphase, spin>>
backends == <<kind, conv, where, owner, mapping, holds, copies, lock, batch>>
files == <<proc, file, boots>>
vars == <<part, manager, loader, backends, files>>

Init ==
    /\ part \in Scenarios
    /\ IF part = "small" THEN Small!Init ELSE Roomy!Init
    /\ Loads!Init /\ (part \notin {"loads", "serves"} => \A k \in DOMAIN disk : disk[k] = "none")
    /\ Backends!Init /\ (part # "backends" => kind = "fused")
    /\ Files!Init

Next ==
    /\ UNCHANGED part
    /\ \/ part = "small" /\ Small!Next /\ UNCHANGED <<loader, backends, files>>
       \/ part = "roomy" /\ Roomy!Next /\ UNCHANGED <<loader, backends, files>>
       \/ part = "loads" /\ Loads!Next /\ UNCHANGED <<manager, backends, files>>
       \/ part = "serves" /\ Serves!Next /\ UNCHANGED <<manager, backends, files>>
       \/ part = "backends" /\ Backends!Next /\ UNCHANGED <<manager, loader, files>>
       \/ part = "files" /\ Files!Next /\ UNCHANGED <<manager, loader, backends>>

(* The fairness of the components, for the scenarios whose progress is checked. *)
Fairness ==
    /\ WF_manager(part = "roomy" /\ Roomy!Steps)
    /\ WF_manager(part = "roomy" /\ Roomy!Releases)
    /\ WF_loader(part = "loads" /\ Loads!Steps)
    /\ WF_backends(part = "backends" /\ Backends!RunCopy)
    /\ \A p \in {"p1", "p2"} : SF_backends(part = "backends" /\ Backends!Releases(p))
    /\ \A b \in {"b1", "b2"} : WF_backends(part = "backends" /\ Backends!Runs(b))

Spec == Init /\ [][Next]_vars /\ Fairness
-----------------------------------------------------------------------------
(* manager.py, ready.py: every part of device memory is free, being filled for one load or
   owned by one weight, through cancelled loads, drains and shutdown; and a weight that
   computation retains stays until its last holder releases it. *)
DeviceMemorySafe ==
    /\ part = "small" => Small!TypeOK /\ Small!DeviceMemorySafe
    /\ part = "roomy" => Roomy!TypeOK /\ Roomy!DeviceMemorySafe

(* manager.py: an expert is reported READY exactly while computation can get it; however
   late a load ends, a removed expert does not become READY without being assigned again;
   and the device is found full only while a drain is outstanding. *)
ReportsTrue ==
    /\ [](part = "small" => Small!ReportsMatchTable)
    /\ [](part = "roomy" => Roomy!ReportsMatchTable)
    /\ [][part = "roomy" => Roomy!RemovedStays /\ Roomy!FullWhileDraining]_vars
    /\ [][part = "small" => Small!RemovedStays /\ Small!FullWhileDraining]_vars

(* dram_cache.py, writeback.py: the cache's counters are its entries and reservations,
   within the budget, and an entry's references are its leases, whatever is cancelled. *)
HostMemorySafe ==
    /\ part = "loads" => Loads!TypeOK /\ Loads!BudgetAccounted /\ Loads!ReferencesAreLeases
    /\ part = "serves" => Serves!TypeOK /\ Serves!BudgetAccounted /\ Serves!ReferencesAreLeases

(* manager.py, loader.py: a placement starts the loads it misses, a load ends with a
   result or a report unless the device was full, calls for one expert share one load, and
   a load of the manager fails only after every source of its policy. *)
LoadsStartedOnce ==
    /\ [][part = "small" => Small!LoadsKept]_vars
    /\ [][part = "roomy" => Roomy!LoadsKept]_vars
    /\ [](part = "loads" => Loads!OneLoadPerKey /\ Loads!FailsAfterEverySource)
    /\ [](part = "serves" => Serves!OneLoadPerKey /\ Serves!FailsAfterEverySource)

(* backends/: whenever a kernel runs, it reads the weights it was launched for, and host
   and device agree on who owns a slot. *)
KernelsReadTheirWeights ==
    part = "backends" => Backends!TypeOK /\ Backends!KernelsReadTheirWeights /\ Backends!TablesAgree

(* direct_io.py: who opens an expert's path finds a complete file, after crashes too; the
   cleanup of a starting Worker leaves the temporary file of a live process in place and no
   abandoned one. *)
WeightFilesSound == part = "files" => Files!TypeOK /\ Files!WeightFilesSound

(* manager.py, loader.py, backends/: every target is settled in the end, every load of
   the manager ends, and the memory of a withdrawn weight becomes reusable. *)
WeightsSettle ==
    /\ []<>(part = "roomy" => Roomy!Settled)
    /\ []<>(part = "loads" => Loads!CallsOver)
    /\ \A p \in {"p1", "p2"} : []<>(part = "backends" => Backends!Released(p))
=============================================================================
