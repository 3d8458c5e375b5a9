# A TLA+ development of Expert Kit

Expert Kit splits a mixture-of-experts model: Frontends run attention, Workers run experts, and a
Controller decides which Worker holds which expert and tells Frontends where to send activations.
This directory models the control of that system, from the Controller's rows to the rows of a batch,
checks it with TLC and proves its core with TLAPS: the Controller's state, the Worker's weights and
execution, and both transports.

* [The system](#the-system): its parts, their state, and what is hard about them
* [Modules](#modules): which module models which code
* [Runs](#runs): what TLC checks, with which bounds and which fairness
* [Proofs](#proofs): what holds for every value of the constants
* [Findings](#findings): where the code and the repository's own words disagree
* [Observations](#observations): further disagreements, with the constants that show them
* [What is not modelled](#what-is-not-modelled)

## The system

```
 placement database          Controller (Rust)                        Frontend (Python)
 nodes, experts  <--> assignment / recovery                           RemoteMoE / RoutedExperts
                       |  dispatcher, poller                              |
                       v                                                  v
                  WeightControl  LifecycleService  TopologyService --> topology provider
                       ^   \        ^       \        ^                    |  routes
                       |    +-- ControllerState (one lock) --+            v
                       |            | durable store                   routed execution
                       |            | (placements, version)               | gRPC / shm batches
                       v            v                                     v
                  Worker: weight session, reporter, heartbeats, weight manager, receiver, executor
```

### Controller

| Part | State | Operations | What is hard | What must hold |
| --- | --- | --- | --- | --- |
| Runtime state, `controller/runtime_state.rs` | registered processes, heartbeat leases, placements and generations, expert states, drains, routes | `register`, `open_heartbeat`, `heartbeat`, `close_heartbeat`, `set_targets`, `apply_state_report`, `drain_authorizations`, `complete_drain`, `restore` | a store call inside an operation fails, or fails after it took effect, or its handler is dropped; the Controller restarts | routes are exactly the processes that may be called; placements are durable before they are told; a version names one table; drained experts are unrouted |
| Durable store, `controller/state_store.rs` | placement rows, version counter | `load`, `save_placement`, `advance_topology_version` | an error that does not say whether the row was written | counters never go back |
| Topology service, `service/topology.rs` | one task per watcher | `watch_topology` | the lock is taken twice per round | a watcher is sent a contiguous history or a snapshot, and catches up |
| Lifecycle service, `service/worker_lifecycle.rs` | one handler and one lease guard per stream | `register_worker`, `heartbeat` | the handler's future may be dropped at any await | a lost Worker is unrouted and announced; a reconnected one is left alone |
| Weight control, `service/weight_control/` | one session task per stream | `sync`, targets, reports, acknowledgements, drains | reports cross placements; the session outlives its stream | both ends agree on the placement |
| Assignment and recovery, `controller/elastic/`, `scheduler.rs` | locks, the set of loading nodes, expert rows | assign, recover, evict, place | concurrent recoveries; a lock released before the set is written | no expert loses its last copy to an eviction |
| Dispatcher and poller, `dispatcher.rs`, `poller.rs` | subscriptions, fingerprints, bounded channels | subscribe, poll, notify | a full channel awaited under a lock | a change reaches its Worker |
| Placement database, `state/` | node, instance and expert rows | queries and writers | operations by name, not by process start | - |

### Worker

| Part | State | Operations | What is hard | What must hold |
| --- | --- | --- | --- | --- |
| Control stream, `control/weight_stream.py`, `parts.py` | generation, part assembly, drains handled | connect, full state, updates, drains | reconnects, a restarted Controller | a drain is answered once its batches are over |
| State reporter, `control/state_reporter.py` | pending changes, sequence numbers | `record`, `flush`, `full_state_parts`, `take_updates`, `acknowledge` | a change while a snapshot is taken | the last state of an expert is reported |
| Heartbeats and supervision, `control/lifecycle.py`, `supervisor.py` | sequence, run state | send, reconnect, terminate | which statuses are retried | a Worker ends only on a permanent error |
| Weight manager, `weights/manager.py` | targets, loads, ready experts, leases | `set_targets`, load, drain, remove | loads that finish after their target is gone | never more than the capacity; a leased expert is not freed |
| Loading and caches, `weights/` | DRAM and disk caches, write-back queue, peer server | load, evict, write back | several sources, several failures; shared loads that are cancelled | the budget is kept; a lease holds its entry; every call ends |
| Backends, `backends/` | slots and tables on the device, streams | place, release, submit | the host runs ahead of the device | a kernel reads the weights it was launched for |
| Application, `app.py`, `factory.py` | components built and closed | build, start, shut down | any step may raise | components close in order; a shutdown ends |
| Execution, `execution/` | slots | acquire, run, release | device failures; callers that leave | a caller gets the output of its own batch |

### Transport and Frontend

| Part | State | Operations | What is hard | What must hold |
| --- | --- | --- | --- | --- |
| Topology client, `controller/topology.py`, `messages.py` | installed table, message being assembled | watch, consume, install, refresh | broken streams, restarts | the installed table is one that was published |
| Receiver queue, `transports/queue.py` | pending and active batches, drains | submit, take, drain, close | admission against drains | a drain ends; limits are kept |
| gRPC and shared-memory transports | requests, buffers, sessions | send, receive, cancel | cancellation while the other side writes | a buffer has one owner |
| Routed execution, `client.py`, `routing/` | worker pools, layer work | group, execute, retry | a topology change under a running layer | every token's experts are combined once |
| Blocking client, `client.py`, `expertkit_torch/client.py` | calls of several threads, a loop thread | forward, close | deadlines against a loop that is behind | nobody waits for a loop that has stopped |

The weight server (`ek-db`), the command line (`ek-cli`), settings (`ek-base`), protocol definitions
(`ek-proto`), model adapters (`ek-integration`) and deployment tooling (`dev`) hold no protocol state
of their own. `PROJECT.json` lists every part with its status and every hazard at its line.

## Modules

| Module | Models | State |
| --- | --- | --- |
| `Topology` | the abstract route table: what `publish_routes`, `restore` and `advance_topology_version` promise together | `version`, `routes`, `history` in memory, `stored` in the store |
| `ControllerState` | `runtime_state.rs` over `state_store.rs` | `workers` (`Inner.workers`), `persisted` (the in-memory mirror), `placements` (the rows), the counters, and the table of `Topology` |
| `TopologyStream` | the watch task, the stream and the Frontend's provider, over `Topology` | `task`, `wire`, `client`, and `tables`, a history variable |
| `WorkerLifecycle` | heartbeat handlers and their lease guards, over `ControllerState` | `streams`, by lease |
| `Placement` | `progressive.rs`, `recovery.rs`, the database hooks, the rebalance command, over the rows | `node`, `rows`, `lock` (`ASSIGN_LOCK`), `loading` (`PROGRESSIVE_LOADING`), and where each task is |
| `Dispatcher` | `dispatcher.rs`, `poller.rs`, `weight_control/database.rs` | `chan`, `fp` (fingerprints), `raw` and `updates` (the two channels), the lock and who holds it |
| `WeightSync` | `weight_stream.py`, `state_reporter.py` against `weight_control/mod.rs` | both ends of a session, `pending`, `seq`, drains, gates, and the messages on their way |
| `ControlParts` | `parts.py` and the assembler of `weight_control/mod.rs` | both assemblers and the parts on their way |
| `WorkerSession` | `app.py`, `factory.py`, `supervisor.py`, `lifecycle.py` | how far build, start and shutdown came, both stream tasks, the heartbeat iterator |
| `WeightManager` | `manager.py`, `ready.py` | `targets`, `states`, `tasks` (loads), `entries` and `leases` of the ready table, `slots` of the device |
| `CpuWeights` | `loader.py`, `dram_cache.py`, `disk_cache.py`, `writeback.py`, `peer_server.py` | entries with sizes and references, reservations, shared loads, calls, the write-back queue |
| `WeightFiles` | `direct_io.py` and the cache directory | `file`: what is written, synced and published of each file; `proc`: where each process is |
| `ComputeBackends` | the fused, torch and GGML backends | host table, device table, the copies and kernels that are enqueued |
| `WorkerExecution` | `queue.py`, `grpc/receiver.py`, `executor.py`, `slot.py` | calls, entries of the queue, gates and drains, slots |
| `GrpcClient` | `grpc/client.py`, `client_buffers.py` | calls, threads of the pool, permits and buffers |
| `ShmTransport` | `transports/shm/`, both sides | connections, slots, sessions, claims, and what is in the memory of a slot |
| `TransportData` | `grpc/spec.py`, both codecs, `shm/memory.py` | one message or segment at a time |
| `RoutedLayer` | `client.py`, `routing/`, and the connections of `controller/topology.py` | the installed table, pools, connections, plans and what was added |
| `MoeData` | `grouping.py`, `dispatch.py`, the tables of the backends | rows and weights of a layer, the plans made of them, the sum |
| `BlockingClient` | the blocking client, and the client of `expertkit_torch` | threads, tasks on the loop, completions |

The theorems of a component are in a module of their own: `TopologyProofs`, `ControllerProofs`
(`ControllerState` and `WorkerLifecycle`), `WeightManagerProofs`, `WeightFilesProofs`,
`ComputeBackendsProofs`, `WorkerExecutionProofs`, `GrpcClientProofs` and `ShmTransportProofs`. The `MC`
modules give the constants their values.

**Steps.** In Python code a step is what runs between two awaits, or, for a thread, between two
accesses that another thread can see; in Rust it is what runs between two awaits or under one lock. An
action has the name of the function it is part of. A task that can be cancelled has a disjunct for
the cancellation at each await where the code lets it through.

**`ControllerState`.** Each operation holds the write lock across its store calls, so it is one
action with the source's name. Its outcomes are explicit. `Outcome(ws, affected, result)` is the end
that operations share: `publish_routes` recomputes the affected keys and calls the store only if a
route changes; on an error the caller puts the record back; the row may have been written all the
same. With `HandlersCancelled` an operation that runs in a request handler may also be dropped at
the store call: the record then stays changed and nothing is published. `set_targets` has three ways
out: the placement is not saved; it is saved and publishing fails; both succeed and the experts that
left get a drain. Calls that return early without a change are not enabled, which is a stutter.
`Restart` is the loss of memory and `restore()`.

**`Topology`** is the part a watcher sees. `Table == INSTANCE Topology` inside `ControllerState` is
the refinement mapping: the variables have the same names, and a replica is a pair of a Worker and a
process start.

**`TopologyStream`** has one action for each section of the watch task between two awaits: reading the version,
making the messages, sending a part, recording the version, waiting. `Consume` is
`TopologyMessageAssembler` and `_install` on one part. Messages have parts of `PartSize` entries, so
breaking a stream inside a message is a case that happens.

**`WorkerLifecycle`** follows a handler (`running`, `closing`, `leaving`, `done`) and the task its
guard spawns when it is dropped. It reuses the actions of `ControllerState` as they are.

**`Placement`** makes one step of one database call, since the database is what the tasks share. The
tasks are the assignment, the recovery and the clean-up of each process of a Worker, and the
rebalance command.

**`Dispatcher`** keeps what the code holds while it waits: a sender that finds a channel full waits
with the lock. Lists are numbers; the poller, a trigger and the forwarding task each read on their
own.

**`WeightSync`** composes the two ends of a control session with the manager's reports and drains. A
stream breaks and is reopened, the Controller restarts with the counters it stored, and the Worker
may be asked to stop. Messages arrive whole here; **`ControlParts`** has lists that are longer than a
message and streams that break inside one.

**`WorkerSession`** has the whole life of the process: the build order with its clean-up, the start,
the monitors, the two streams under the supervisor, and the close order. Any step may raise.

**`WeightManager`** has the load task of an expert as its stages (wait for a permit, load, convert,
publish), each of which can be cancelled. `FixedSlots` is the fused backend, whose slots are reserved
before the conversion. **`CpuWeights`** is what a load calls: entries are evicted by least recent use,
calls for one expert share one load, and the last one to leave cancels it. **`WeightFiles`** has the
order of write, sync, rename and directory sync, and crashes and power failures between them.

**`ComputeBackends`** separates the host, which enqueues, from the device, which runs copies and
kernels later. **`WorkerExecution`** goes from the RPC handler over the queue to a slot and back.

**`GrpcClient`** and **`ShmTransport`** are about ownership: of client buffers by calls and threads,
and of a shared slot by a client and a Worker that learn of each other's failures at different times.
**`TransportData`** computes the sizes and offsets of the source over both sides of each boundary.

**`RoutedLayer`** runs layers while the topology watcher installs tables, opens and retires
connections. **`MoeData`** is the same layer without connections, with its rows: selection,
deduplication, splitting, the tables of each backend and the final sum, against the definition of the
layer as a sum over its assignments. **`BlockingClient`** has the threads above it.

Data is abstract: ids, experts and peer lists are model values; `EXPERT_FAILED` and `EXPERT_REMOVED`
are one kind in `ControllerState`, since no reader there tells them apart; a route is a set, since the
code sorts its list; static registration fields and their validation are left out; one model
instance, as the resolver accepts only one. Numbers in kernels are not modelled: a product is the
pair of its row and its expert.

## Runs

| Run | Module | Checks |
| --- | --- | --- |
| `replicas` | `MCControllerState`: 2 Workers, 1 expert, 2 streams, 4 versions, 2 drains | `TypeOK`, `RoutesExact`, `ShutdownKeepsRoutes`, `TopologyRefined` |
| `placements` | 1 Worker, 2 starts, 2 experts, 3 generations, 2 drains | `DrainedNotRouted` |
| `recovery` | the same with 2 peer lists and dropped handlers | `PlacementDurable`, `GenerationsGrow` |
| `stream` | `TopologyStream`: 3 versions, history of 2, parts of 1, 2 breaks | `InstalledAsPublished`, `VersionNeverReused`, `CatchesUp` |
| `controller` | `MCController` | `AssignmentsCover`, `WithinCapacity`, `CoverageKept`, `NothingStuck`, `CancelledStillUnavailable`, `NewestStreamKept` |
| `worker_weights` | `MCWorkerWeights` | `DeviceMemorySafe`, `ReportsTrue`, `HostMemorySafe`, `LoadsStartedOnce`, `KernelsReadTheirWeights`, `WeightFilesSound`, `WeightsSettle` |
| `worker_control` | `MCWorkerControl` | `DrainsSafe`, `SessionsConverge`, `ListsWhole`, `HeartbeatsSound`, `ClosedInOrder`, `ShutdownEnds` |
| `batches` | `MCBatches` | `BuffersReturned`, `SlotsOwned`, `SidesAgree`, `UseCountsExact`, `OwnOutput`, `BatchesEnd` |
| `client` | `MCClient` | `LayerComplete`, `BatchesAccepted`, `PoolsInstalled`, `RetriedElsewhere`, `CallsReturn` |
| `stream_updates` | `TopologyStream` with 1 break | `UpdatesJoin`, expected to fail |
| `lifecycle_cancelled` | `WorkerLifecycle` with handlers dropped inside operations | `CancelledStillUnavailable`, expected to fail |
| `layer_grpc` | `MCRoutedLayer` with connections whose close cancels calls | `LayerComplete`, expected to fail |

**Scenarios.** The five runs in the middle are collections of scenarios. Such an `MC` module has the
variables of several components, an `INSTANCE` of a component for each choice of its constants, and a
variable `part` that is chosen at the start and names the one that runs; the others keep their
initial state. A property of the run says, for each scenario it is about, what the component's own
module states there. Where several statements make up one promise they are conjuncts of one property.

| Run | Scenario | What happens in it |
| --- | --- | --- |
| `controller` | `assign` | three Workers of different size register together |
| | `recover` | a Worker leaves, and the others have one slot for its two experts |
| | `leave`, `restart` | a Worker leaves while assignments run, or restarts while its tasks run |
| | `rebalance` | two rebalance commands while Workers register |
| | `streams`, `errors`, `full` | a second stream while the first ends; reads that fail; both channels full |
| | `lifecycle` | a Worker restarts and reconnects, and every stream meets a fault |
| `worker_weights` | `small`, `roomy` | a device with room for one weight of two; a fused device with room for all |
| | `loads`, `serves` | two loads of the manager, and one with a peer request, with room for one weight |
| | `backends`, `files` | the three backends; two processes on one directory, with power failures |
| `worker_control` | `sync`, `stops` | a stream breaks while placements change; the Controller restarts, loads fail, the Worker stops |
| | `lists`, `long` | lists of two parts over a stream that breaks, with room for one half-received drain; lists of three parts |
| | `faulty`, `raising` | any step of the process fails; closes raise as well |
| `batches` | `grpc` | three calls on two buffers, a cancellation, and close |
| | `clients`, `failing` | two clients for one session, whose starts are cut short; a client that gives up calls, cancels them again and reuses its slot |
| | `data` | sizes on both sides of each boundary of the encodings and the layout |
| | `drains`, `slots`, `busy` | a drain under two calls; a slot that fails under another; more calls than the queue takes |
| `client` | `shared`, `again`, `losing` | two tokens that share an expert; a connection retired and routed to again; connections that fail |
| | `late`, `prompt` | three threads with a loop that is behind, and with one that is not |
| | `fused`, `ggml` | layers over Workers with different backends and batch limits |

**What they show.**

* *Controller.* No operation forgets a key it affects; two Workers that shut down at once cannot count
  on each other; the Controller implements `Topology`; a generation names one target list for good.
  Around it, the assignments of Workers that start together cover the model, a Worker is given more
  than it has room for only by a recovery that overtakes its assignment, an eviction never takes the last active replica, and the newest session gets
  the current list although the poller, triggers and the forwarding task read at different times.
* *Weights.* Through cancelled loads, drains and shutdown every part of device memory has one owner
  and a retained weight stays; an expert is reported READY exactly while computation can get it; cache
  counters match entries and leases; a weight file that can be opened is complete after a crash.
* *Control.* A drain is answered only after the Controller knows of the removals; both ends agree in
  the end although streams break; lists arrive whole or not at all, and a part is refused only when
  superseded drains fill the assembler; a shutdown ends the process.
* *Batches.* A buffer is reused only when nobody works on it; a shared slot is used by one batch at a
  time on the Worker, and early by its client only after the cancellations and failures that
  `SlotsOwned` names; use counts are exact, so drains
  end and mean what they say; sizes and offsets agree on both sides.
* *Client.* A layer that is returned has every assignment exactly once, through splits, retries and
  replaced connections; nobody waits for a loop that has stopped.

**Bounds.** Every counter the code never bounds has a named bound: `MaxVersion`, `MaxGeneration`,
`MaxLease`, `MaxSequence`, `MaxReport`, `MaxDrain`, `MaxDrops`, `MaxFaults`, `MaxBreaks`,
`MaxRestarts`, `MaxStarts`, `MaxLosses`, `MaxCancels` and so on. They are the least that make the cases happen:
three generations for a target to leave and come back, two leases for a reconnect, a history of two
revisions and three versions for a watcher that is inside the history, before it, and at its end, two
Workers for one to replace the other, two experts for one to take the room of the other, one break
and one restart since what is left of a session is settled before the next one begins. Channels of
1 instead of 10 and devices with room for one or two weights make "full" a case that happens.
`controller` and `worker_control` check for deadlock; the others may stop at their bounds or when
everything is closed.

**Symmetry.** Workers, starts, experts and peer lists are only compared, so the Controller's first
three runs permute them. The others use none.

**Fairness.** Progress is checked under weak fairness of "some step of the component that its runtime
would take is taken": the event loop runs a task that is ready, threads and the device finish what
they began, deadlines pass. Nothing is assumed of what others decide: that a call is made or
cancelled, that a Worker answers, that a stream breaks, that a Worker leaves, that a placement changes. There are two
exceptions. The waiters of the dispatcher's lock get it in turn (tokio's mutex is fair), as does the
thread that waits for the storage lock of a backend: these have strong fairness. For `CatchesUp`
streams break at most `MaxDrops` times: with endless restarts no Frontend could catch up. Messages of
one stream keep their order (gRPC) and those of a broken one are lost.

## Proofs

| Theorem | States | Assumes |
| --- | --- | --- |
| `VersionsAreNew` | `TopologySpec => VersionNeverReused` | - |
| `HistoryIsJoined` | `TopologySpec => []HistoryJoined` | the history limit is positive |
| `FrontendsInstallPublished` | `Spec => []InstalledAsPublished` (stream) | - |
| `StreamRefinesTopology` | `Spec => TopologySpec /\ VersionNeverReused` (stream) | - |
| `TypeCorrect` | `Spec => []TypeOK` (Controller) | - |
| `RoutesAreExact` | `Spec => []RoutesExact` | no handler dropped inside an operation |
| `PlacementsAreDurable` | `Spec => []PlacementDurable` | - |
| `ControllerRefinesTopology` | `Spec => TopologyRefined` | - |
| `DrainsAreUnrouted` | `Spec => []DrainedNotRouted` | no handler dropped inside an operation |
| `GenerationsOnlyGrow` | `Spec => GenerationsGrow` | - |
| `ShutdownsKeepRoutes` | `Spec => ShutdownKeepsRoutes` | no handler dropped inside an operation |
| `LifecycleRefinesController` | `LifecycleSpec => Spec` | - |
| `NewestStreamsStayOpen` | `LifecycleSpec => []NewestStreamStaysOpen` | - |
| `EndedStreamsAreUnavailable` | `LifecycleSpec => []CancelledStillUnavailable` | no handler dropped inside an operation, one fault per stream |
| `DeviceMemoryIsSafe` | `Spec => [](TypeOK /\ DeviceMemorySafe)` | - |
| `ReportsAreTrue` | `Spec => ReportsTrue` | - |
| `LoadsAreStarted` | `Spec => MissingLoadsStarted` | - |
| `WeightsComplete` | `Spec => []WeightComplete` | - |
| `LiveFilesKept` | `Spec => []LiveTemporariesKept` | the Workers share a pid namespace |
| `SharedFilesSound` | `Spec => []WeightFilesSound` | the same, and no pid is given twice |
| `KernelsReadOwnWeights` | `Spec => [](TypeOK /\ KernelsReadTheirWeights /\ TablesAgree)` | - |
| `UseCountsAreExact` | `Spec => [](UseCountsExact /\ ActiveHeld /\ DrainedUnused)` | - |
| `OutputsAreOwn` | `Spec => [](OwnOutput /\ SlotsReturned)` | - |
| `PermitsExact` | `Spec => []BuffersMatchPermits` | - |
| `CallsReturnBuffers` | `Spec => []BuffersReturned` | no call is cancelled twice |
| `SlotsAlwaysOwned` | `Spec => []SlotsOwned` | - |

They hold for any sets of Workers, experts, processes, calls, buffers and slots and any bounds that
meet the assumption of the module (`ManagerAssumption`, `FilesAssumption` and so on: sets are finite
where the code counts them, limits are natural numbers). The other assumptions are not technical.
Each leaves out a case in which the code does otherwise; *Findings* and *Observations* say what. (That
a stream meets one fault is such a case: the task the lease guard spawns tries once and has no retry.)
`SlotsAlwaysOwned` and `LoadsAreStarted` assume nothing of the kind: the properties themselves name
what may go wrong, and say that nothing else does.

**The Controller**

* `VersionNeverReused` is not inductive: a version above the one in memory may still have been
  handed out. The strengthening `VersionDurable` says that memory never runs ahead of the stored
  counter, and that version 0 goes with an empty table.
* `HistoryJoined` rests on appending a revision whose predecessor is the current version; dropping
  the oldest keeps the rest joined, and one drop restores the limit.
* `RoutesExact` is inductive together with `TypeOK`. For each operation a lemma shows that a Worker
  changes whom it serves only within the keys the operation names; `OutcomeExact` does the rest,
  since on success those keys are recomputed and on an error the record goes back.
* `DrainedNotRouted` needs `DrainsApart`: an outstanding expert drain and the targets are disjoint, a
  process with a whole-Worker drain is excluded, and every drain's minimum version has been reached.
  With exact routes this gives the property.
* `PlacementDurable` is inductive with `TypeOK`, also when handlers are dropped: only `set_targets`
  touches rows, and it runs in a task that is not dropped.
* `GenerationsGrow` follows from `PlacementDurable`, by which what `restore` reads back is what was told
  or a later generation, and `RowsAhead`: a failed save leaves a row at most one generation ahead of
  the mirror in memory, so the next save does not take it back.
* `ShutdownKeepsRoutes` follows from exact routes: the replacement `shutdown_replacements_ready`
  looked for is a process that still serves after the step.
* The refinement maps each operation to `Publish`, `AdvanceFails` or a stutter, and `Restart` to
  `Restore`. What `TopologyProofs` shows of the table is therefore true of the Controller, and
  `TopologyStream` may use the table in its place.

**The topology stream.** `InstalledAsPublished` is about tables that are no longer the Controller's, so
the argument follows what was published from the Controller to the Frontend. `TablesKept` relates the
history variable `tables` to the table: the current version has the current routes, and each revision
of the history leads from the table of its `previous` to that of its `version`. A part is `Genuine` when
it belongs to a message about published tables, a snapshot or an update between two versions; that
stays so whatever is published later. `StreamInv` says that the parts the task still has to send and
those on the wire are genuine, and that what the assembler holds is `Assembling`: some of the parts of
one message. `PartsWhole` is the fact about the operators that this needs: the parts of a message
together have all its entries, for any finite number of experts and any part size. Then a complete
message is a whole one (`CompleteIsPublished`), and as an update is applied only to its `previous`
version, the result is a published table. A broken stream or a restarted Controller cannot mix two
messages: the header that the assembler compares determines the tables the message is about, since a
version has one table. The model takes the
revisions to replay as a suffix of the history where the code walks it; the two agree because the
history joins end to end (`HistoryIsJoined`).

**Heartbeat streams.** `LifecycleRefinesController` maps every step of a handler, a lease guard or a
clean-up task to an operation of `ControllerState` or a stutter, so the theorems above hold under the
handlers. The two properties are about a Worker's newest stream, the one whose lease and start its
record carries. `Settled` says what the record shows at each place of that stream's handling: open
while the handler runs, closed before it announces, not live once it is over. For a handler that was
dropped it says more, and that needs the bound of one fault: the drop was the fault, so the task that
the guard spawned meets none. A newer stream or a new process takes the record over and nothing is
claimed of the older stream any more; a late `close_heartbeat` of that one finds another lease and
leaves the record alone. That no route leads to a Worker that is not live is `RoutesExact`.

**The weight manager.** The invariant `IInv` of `WeightManagerProofs` relates the manager's tables.
`TableHeld`: the ready table has the ready experts, and loses them first while the manager closes.
`RemovalHeld`: a removal has the lock for the ready experts of its list, and they alone do not accept
users. `LoadsOfOthers`: no ready expert is being loaded. `Counted` and `Retained` are the two halves of
`DeviceMemorySafe`; each step is shown to be one of six kinds for the device (nothing, claim, free,
install, withdraw, empty). That no expert is READY after REMOVED needs two more. `Cancelling`: once
shutdown began, every load that is not past its conversion is cancelled. `RemovedTargets`: a target is
removed only when no load can publish any more. That a target finds the device full only during a
drain is counting: more experts are ready than the placement has targets. For
`MissingLoadsStarted`, `Wanted` says of every load that is not wanted that it is cancelled. A load that
ends was then cancelled, and starts again for a target; or failed, and is reported; or had published
its weight or given it back. `WantedReady` shows that the weight of a target is given back only when
the device is full, and `WantedApply` that a placement covers every target whatever it finds.

**Weight files.** `WeightComplete` needs `PublishedDurable`: what has the expert's name, now or after a
power loss, and what a rename is about to give that name, was synced as a whole. For the temporary
files, `OwnFiles` and `InPlace` say that a file that is written carries the pid of its writer, which no
other process of the namespace has, and is where its writer left it. `PidsFresh` and `OldAbandoned` say
that the pid of an abandoned file belongs to no process that runs, and that the file, if it is there,
is still on the list of the cleanup.

**Backends.** A kernel, a copy and a table entry take effect when the device gets to them, so the
invariant is about what the stream of the conversions will have done. `Prevails(copies, x, there)`: what
`x` writes is in its place or still on the stream, and whatever else the stream writes to the same
memory has `x` after it. `Written` says this of the two parts of every weight that has a slot: copies
that an earlier owner's failed conversion left on the stream run before those of the new owner. `Mapped`
says it of the entry the fused table is to have in the end, and that until then the entry is empty or
the position's own slot. `Settled`: nothing is under way for a ready weight, as the host synchronises
before it publishes. `SlotsKept` relates positions and owners. `BatchesLeased`: what a submission uses
is ready or withdrawn, and where the submission found it. Together they give both properties: a leased
weight has nothing on the stream, so what prevails is there. `FusedWeightStorage` gives a slot up only
after the cleared entry was synchronised, or the entry could still lead to the next owner; the
allocators of the other two backends free at once, which `Written` allows.

**Execution.** `Line`: the queue is the sequence of the batches that wait, each once. `BatchesHeld`:
the active batches are those of the slots, one each. `SlotsIdle`: every way out of a turn gives the
slot up. `OwnContents`: the tensors of a slot hold the batch it works on from the copy to the encoded
response. `Gates`: gates stay closed as long as the drain they are for, so nothing is admitted after
`wait_idle` returned. The counts are cardinalities, changed by one element at a time.

**Transports.** `BuffersHeld` says that the buffers that are not free are those of the calls, one each,
and that the permits count the others; `ThreadsAwaited`, which needs that no call is cancelled twice,
that a thread of the pool works only for a call that waits for it. For shared memory, `SlotsHeld` is
the client's side: a call that has a slot has it alone and at its newest generation. `ClaimsKept` is
the Worker's: a claim is that of one batch it has, and a batch whose caller does not wait was cut off.
`ContentsOwn` is about what lies in a slot. `Settled`: the slot of a call that was answered has no
claim. `Own`: it holds the input of the call that waits, and its output once the Worker wrote it,
unless a call that was cancelled twice left its copying thread on the slot (`LeftOn`). `Connected` is
about the ends of a connection: one that takes no calls has none, and the Worker finds the session of
an orderly close idle or has a batch that was cut off.

Each of these invariants was checked with TLC on small instances before it was proved.

**Only model-checked.** Every liveness property (outside the prover's reach). The assignment and
recovery tasks (`AssignmentsCover`, `WithinCapacity`, `CoverageKept`), the dispatcher's subscriptions
(its half of `NewestStreamKept`), the CPU caches (`HostMemorySafe`, their part of `LoadsStartedOnce`), the control
session, the process (`DrainsSafe`, `ListsWhole`, `HeartbeatsSound`, `ClosedInOrder`), the encodings (`SidesAgree`) and the
routed layer (`LayerComplete`, `BatchesAccepted`, `PoolsInstalled`, `RetriedElsewhere`).

## Findings

* **An update sent twice ends a Frontend's watch** (`stream_updates`). The watch task reads the
  version and makes the messages under two acquisitions of the lock and records the older version.
  A publication in between is sent and then sent again. The client refuses the repeated update as
  one that does not join and keeps the error as permanent. `lifecycle.proto` promises "a contiguous
  update history or a complete snapshot". `InstalledAsPublished` holds all the same: the Frontend
  keeps a table that was published, and no longer follows.
* **A handler dropped while it closes its stream leaves its Worker routed** (`lifecycle_cancelled`).
  The record is already changed when the store is awaited. The task spawned by the guard then finds
  the lease closed and neither publishes nor calls the unavailable hook. The test
  `cancelled_heartbeat_handler_still_marks_worker_unavailable` states the intent.
* **A layer returns without a batch when its gRPC connection is retired** (`layer_grpc`). Closing the
  channel raises `CancelledError` in the call under way. The task group ignores a task that was
  cancelled, so the failure is not recorded and the sum is returned as if it were complete.
  `dispatch.py:102` says that every batch is dispatched once and successes are added once, and that
  failures are returned.

`RoutesAreExact`, `DrainsAreUnrouted` and `ShutdownsKeepRoutes` therefore carry their assumption: the
second finding is what the code does without it. `client` checks `LayerComplete` only for connections whose close lets
calls end by themselves, as those over shared memory do.

## Observations

Further disagreements were met while modelling. Each row names a definition of a component's module
that TLC refutes with the constants given (the others as in the scenarios above). The passing runs
check the same definitions with constants that leave these cases out, or a weaker one that names the
case, so what they show is limited to the rest.

| Definition | Module and constants | What the code does | What the repository says |
| --- | --- | --- | --- |
| `EveryTargetCovered` | `WeightManager`, `Capacity = 1`, `MaxLoads = 1` | a list applied after a weight was refused for capacity, and before its load task ended, starts no load: the target has no load and no state until another generation (`manager.py:275`) | "apply one complete target list and start missing loads" (`manager.py:232`) |
| `CallsEnd` | `CpuWeights`, 1 expert, 3 calls of which 1 `Remote`, `Endpoints = 1`, `MaxPeers = 2` | a call that leaves a failed load of another policy joins it again without an await in between, and the loop never runs the other waiter (`loader.py:251`) | each source is tried once in order (`loader.py:210`) |
| `ReportsAccepted` | `WeightSync`, `MaxGeneration = 3` | a report that crosses a new placement is refused with a status the supervisor does not retry: the Worker ends (`runtime_state.rs:791`) | a rebalance "immediately sends each running Worker its complete target list" (`qwen3-moe-a3b-demo.md:175`) |
| `DrainsCurrent` | `WeightSync`, `MayShutDown = TRUE` | a whole-Worker drain keeps the generation it was made under, and a placement that follows makes the Worker raise (`runtime_state.rs:729`) | the check at `weight_stream.py:459` |
| `VersionsAccepted` | `WeightSync`, `MayShutDown = TRUE`, `FirstVersion = 0` | a Worker that stops before anything was routed is sent version 0 (`runtime_state.rs:898`) | "must be a positive uint64" (`parts.py:65`) |
| `CompletionsKnown` | `WeightSync`, `MaxGeneration = 4`, `MaxRestarts = 1` | completions sent again to a restarted Controller are refused as unknown, and the Worker ends (`runtime_state.rs:952`) | drain state is preserved across reconnects (`weight_stream.py:78`) |
| `DrainNumbersFresh` | the same | the drain counter is not stored and starts again (`runtime_state.rs:279`) | "without reusing a protocol counter" (`state_store.rs:13`) |
| `FullStateAccepted` | `ControlParts`, `NumExperts = 3`, `MaxExperts = 2`, `PerPart = 1`, `MaxBreaks = 1` | a full state with REMOVED experts has more parts than the Controller accepts (`weight_control/mod.rs:464`) | "one consistent complete state snapshot for stream recovery" (`manager.py:339`) |
| `AllClosed` | `WorkerSession`, `CloseRaises = {"execution"}` | a close that raises leaves the later ones out (`app.py:244`) | "Close every initialized component once in dependency order." (`app.py:144`) |
| `ReleaseDoesNotWait` | `ComputeBackends`, `Kinds = {"fused"}` | releasing a slot synchronises a stream under the storage lock (`fused/weights.py:173`) | "This hook must not wait for device work." (`adapter.py:79`) |
| `LiveTemporariesKept` | `WeightFiles`, a `Namespace` for each process | a process in another container looks dead, and its temporary file is removed (`direct_io.py:193`) | files of a live process are left in place (`direct_io.py:184`) |
| `AbandonedRemoved` | `WeightFiles`, `ReusePids = TRUE` | a file whose pid is in use again is kept for good (`direct_io.py:241`) | "Remove abandoned writeback and startup-probe files." (`direct_io.py:182`) |
| `ReturnedUnused` | `GrpcClient`, `MaxCancels = 2` | a second cancellation leaves the thread that still uses the buffer (`grpc/client.py:402`) | a slot is returned "after its request no longer accesses caller Tensors" (`client_buffers.py:92`) |
| `FillsOrTransportError` | `GrpcClient`, `Closes = TRUE` | a call that close overtakes ends with another kind of error (`grpc/client.py:363`) | "Fill a caller-owned output Tensor or raise a Transport error." (`base.py:39`) |
| `InputNeverOverwritten` | `ShmTransport`, 1 client, 1 slot, 2 calls, `Failures = FALSE` | after its deadline a call awaits its RPC without a shield; the blocking client cancels it 0.1 s later (`client.py:303`), and the slot is returned although the Worker has the batch (`shm/client.py:436`). A failed RPC does the same | a slot is returned "after the request has stopped accessing it" (`shm/client_buffers.py:110`) |
| `MappingsClosed` | `ShmTransport`, `Failures = FALSE` | a watch task cancelled inside `start` has no `_close_session` yet, and the session stays on the Worker and counts against `_MAX_SHARED_MEMORY_SESSIONS` (`topology.py:389`) | "Finish submissions, close the Worker mapping, and release resources." (`shm/client.py:310`) |
| `DrainsAccepted` | `ControlParts`, `NumExperts = 2`, `MaxExperts = 2`, `PerPart = 1`, `MaxPendingDrains = 1`, `MaxBreaks = 1`, 3 generations | a drain that was superseded while half of it was received is never removed from `_pending`, and with `_MAX_PENDING_DRAINS` of them the next one is refused (`parts.py:185`) | "Assemble complete drain authorizations independently by drain ID." (`parts.py:157`) |
| `ResultOrTransportError` | `RoutedLayer`, `MaxBatch = 2`, `Capacity = 2`, `MaxVersion = 3` | a pool that is removed during the delay of a retry raises `RuntimeError` (`dispatch.py:122`) | "TransportError: Routing or a bounded direct attempt failed." (`execute.py:176`) |
| `TopologyRecovers` | the same, `MayFail = TRUE` | an error while a connection is opened ends the watcher for good (`topology.py:284`) | failures last "until a replacement topology is installed" (`qwen3-moe-a3b-demo.md:228`) |
| `CloseEnds` | `RoutedLayer`, `Closer = 1`, `Capacity = 1`, `MaxVersion = 2` | a task that closes the client after its layer's connection was retired waits for itself (`shm/client.py:321`) | close stops all connections (`client.py:179`) |
| `CallsReturn` | `BlockingClient`, `LoopBlocks = TRUE` | a deadline before the loop began the task cancels it before its `finally` can set the completion (`client.py:303`) | the caller is told that the deadline was exceeded (`client.py:308`) |
| `CloseReturns` | `BlockingClient`, `DeviceFails = TRUE` | an event that cannot be recorded leaves a completion nobody sets (`client.py:283`) | close joins the loop thread (`client.py:319`) |
| `TransportAsserted` | `BlockingClient` | close runs between start and the read of `_transport` (`expertkit_torch/client.py:134`) | the assertion at `expertkit_torch/client.py:135` |
| `EvictionKeepsCoverage` | `Placement`, 3 Workers of 1 slot, 2 experts, one of them on two Workers, `MaxLosses = 2` | replica counts are read before the evictions, and a Worker lost in between takes the other replica (`recovery.rs:416`) | two replicas are "safe to evict from one node" (`recovery.rs:305`) |
| `WithinCapacity` | `Placement`, as in the scenario `leave` | a Worker is marked as loading only after its rows are inserted, when they already count; a recovery that counted before fills the same slots (`progressive.rs:277`, `recovery.rs:72`) | the marks "prevent over-assignment races" (`progressive.rs:7`) |
| `LiveIsAssigned` | `Placement`, 2 Workers, `MaxStarts = 2`, `MaxLosses = 1` | the clean-up of an earlier process deletes the rows of the next one (`worker_lifecycle.rs:194`) | they are "stale expert rows" (`worker_lifecycle.rs:200`) |
| `UpdatesArrive` | `Dispatcher`, `Recurring = TRUE`, `RawCap = 10`, `UpdateCap = 4`, `MaxChanges = 2`, `MaxTriggers = 1` | a list that changes and changes back keeps its fingerprint, and what the session holds is not corrected (`dispatcher.rs:75`) | the fingerprint is "of the last-sent expert list" (`dispatcher.rs:31`) |
| `LockReleased` | `Dispatcher`, `RawCap = 2`, `MaxChanges = 3`, `MaxTriggers = 3`, `MaxLoadErrors = 1` | a subscription whose load failed waits for the lock while a sender waits under it for room in its channel (`database.rs:51`) | state "must be refreshed immediately" (`poller.rs:28`) |

Counterexamples of the progress properties here assume the fairness of the runs.
No scenario has two recoveries at once, or a rebalance beside a recovery: they count the same rows
without a lock, and `WithinCapacity` says nothing of them.

## What is not modelled

* **Data without control**: numerical kernels, dtype and device checks, the parsing of safetensors
  headers, configuration, metrics and logs. A model checker would tell no two outcomes apart.
* **Stateless parts**: the weight server's reads, instance resolution, the command line, protocol
  definitions and deployment tooling.
* **The duplicate and manual commands** of the control service, and the writers nothing calls.
  Failed queries in assignment and recovery end their task early.
* **The vLLM layers** keep a client for each endpoint in a dictionary under a lock; the client itself
  is modelled.
* **Time.** Deadlines, back-off and poll intervals are steps that may come at any moment; how long a
  thing takes is not stated.
* **The whole in one model.** Components meet at the operations they call: `WeightSync` has the part
  of the manager and of the Controller's record that a session uses, `RoutedLayer` takes its tables
  from any sequence a watcher may install. Their product is far beyond TLC.

`PROJECT.json` gives the status of every part.
