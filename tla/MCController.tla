---------------------------- MODULE MCController ----------------------------
(* The Controller's tasks for TLC: scenarios of Placement, Dispatcher and      *)
(* WorkerLifecycle. A behaviour is one scenario, chosen at the start; the      *)
(* components that do not run stay in their initial state.                     *)
EXTENDS Naturals, FiniteSets

CONSTANT Scenarios   \* the scenarios to check

VARIABLES
    part,                                                            \* the scenario
    node, rows, proc, lock, loading, asg, rec, leave, plan, budget,  \* Placement
    db, dlock, poll, trig, chan, fp, raw, fwd, updates, sess, dbudget, \* Dispatcher
    workers, persisted, placements, nextLease, nextDrain, version, routes, history, stored,
    streams                                                          \* WorkerLifecycle

OneThenTwo(S) == [w \in S |-> IF w = 1 THEN 1 ELSE 2]
TwoEach(S) == [w \in S |-> 2]

\* Three Workers of different size register together.
Assign == INSTANCE Placement WITH
    Workers <- 1..3, NumExperts <- 4, Capacity <- OneThenTwo(1..3), Step <- 1, AutoAssign <- TRUE,
    Placed <- {}, MaxStarts <- 1, MaxLosses <- 0, MaxRebalances <- 0, MaxReports <- 0

\* A Worker leaves; the others have one slot left between them for its two experts.
Recover == INSTANCE Placement WITH
    Workers <- 1..3, NumExperts <- 4, Capacity <- TwoEach(1..3), Step <- 1, AutoAssign <- FALSE,
    Placed <- {<<1, 0>>, <<1, 1>>, <<2, 2>>, <<2, 3>>, <<3, 2>>},
    MaxStarts <- 1, MaxLosses <- 1, MaxRebalances <- 0, MaxReports <- 2

\* A Worker leaves while assignments run.
Leave == INSTANCE Placement WITH
    Workers <- 1..2, NumExperts <- 3, Capacity <- OneThenTwo(1..2), Step <- 1, AutoAssign <- TRUE,
    Placed <- {}, MaxStarts <- 1, MaxLosses <- 1, MaxRebalances <- 0, MaxReports <- 1

\* A Worker restarts before the tasks of its first process are over.
Restart == INSTANCE Placement WITH
    Workers <- {1}, NumExperts <- 3, Capacity <- TwoEach({1}), Step <- 1, AutoAssign <- TRUE,
    Placed <- {}, MaxStarts <- 2, MaxLosses <- 1, MaxRebalances <- 0, MaxReports <- 0

\* Two rebalance commands while Workers register.
Rebalance == INSTANCE Placement WITH
    Workers <- 1..3, NumExperts <- 4, Capacity <- OneThenTwo(1..3), Step <- 1, AutoAssign <- FALSE,
    Placed <- {<<1, 0>>, <<2, 1>>, <<2, 2>>, <<3, 3>>},
    MaxStarts <- 1, MaxLosses <- 0, MaxRebalances <- 2, MaxReports <- 1

\* A Worker opens a second stream while the first one ends.
Streams == INSTANCE Dispatcher WITH
    Workers <- {1}, NumLists <- 2, Recurring <- FALSE, RawCap <- 1, UpdateCap <- 1,
    MaxStreams <- 2, MaxChanges <- 1, MaxTriggers <- 0, MaxLoadErrors <- 0,
    lock <- dlock, budget <- dbudget

\* Reads of the targets fail.
Errors == INSTANCE Dispatcher WITH
    Workers <- {1}, NumLists <- 3, Recurring <- FALSE, RawCap <- 10, UpdateCap <- 1,
    MaxStreams <- 1, MaxChanges <- 2, MaxTriggers <- 1, MaxLoadErrors <- 1,
    lock <- dlock, budget <- dbudget

\* Both channels of a stream fill up.
Full == INSTANCE Dispatcher WITH
    Workers <- {1}, NumLists <- 3, Recurring <- FALSE, RawCap <- 1, UpdateCap <- 1,
    MaxStreams <- 1, MaxChanges <- 2, MaxTriggers <- 2, MaxLoadErrors <- 0,
    lock <- dlock, budget <- dbudget

\* A Worker restarts and reconnects; every stream meets a fault.
Life == INSTANCE WorkerLifecycle WITH
    Workers <- {"w1"}, Starts <- {"s1", "s2"}, NoStart <- "none", Experts <- {"k1"},
    Peers <- {"p1"}, MaxExperts <- 1, HandlersCancelled <- FALSE, HistoryLimit <- 1,
    MaxVersion <- 4, MaxGeneration <- 1, MaxLease <- 2, MaxSequence <- 1, MaxReport <- 1,
    MaxDrain <- 1, MaxFaults <- 1

ASSUME Assign!PlacementAssumption /\ Recover!PlacementAssumption /\ Leave!PlacementAssumption
ASSUME Restart!PlacementAssumption /\ Rebalance!PlacementAssumption
ASSUME Streams!DispatcherAssumption /\ Errors!DispatcherAssumption /\ Full!DispatcherAssumption
ASSUME Life!FaultAssumption

placement == <<node, rows, proc, lock, loading, asg, rec, leave, plan, budget>>
dispatcher == <<db, dlock, poll, trig, chan, fp, raw, fwd, updates, sess, dbudget>>
lifecycle == <<workers, persisted, placements, nextLease, nextDrain, version, routes, history,
               stored, streams>>
vars == <<part, placement, dispatcher, lifecycle>>

Init ==
    /\ part \in Scenarios
    /\ CASE part = "recover" -> Recover!Init
         [] part = "leave" -> Leave!Init
         [] part = "restart" -> Restart!Init
         [] part = "rebalance" -> Rebalance!Init
         [] OTHER -> Assign!Init
    /\ CASE part = "errors" -> Errors!Init
         [] part = "full" -> Full!Init
         [] OTHER -> Streams!Init
    /\ Life!LifecycleInit

\* A scenario of WorkerLifecycle may end at its bounds.
Next ==
    /\ UNCHANGED part
    /\ \/ part = "assign" /\ Assign!Next /\ UNCHANGED <<dispatcher, lifecycle>>
       \/ part = "recover" /\ Recover!Next /\ UNCHANGED <<dispatcher, lifecycle>>
       \/ part = "leave" /\ Leave!Next /\ UNCHANGED <<dispatcher, lifecycle>>
       \/ part = "restart" /\ Restart!Next /\ UNCHANGED <<dispatcher, lifecycle>>
       \/ part = "rebalance" /\ Rebalance!Next /\ UNCHANGED <<dispatcher, lifecycle>>
       \/ part = "streams" /\ Streams!Next /\ UNCHANGED <<placement, lifecycle>>
       \/ part = "errors" /\ Errors!Next /\ UNCHANGED <<placement, lifecycle>>
       \/ part = "full" /\ Full!Next /\ UNCHANGED <<placement, lifecycle>>
       \/ /\ part = "lifecycle" /\ (Life!LifecycleNext \/ UNCHANGED lifecycle)
          /\ UNCHANGED <<placement, dispatcher>>

(* The fairness of the components, for the scenarios whose progress is checked. *)
Fairness ==
    /\ WF_placement(part = "restart" /\ Restart!Steps)
    /\ SF_dispatcher(\/ part = "streams" /\ Streams!Steps
                     \/ part = "errors" /\ Errors!Steps
                     \/ part = "full" /\ Full!Steps)
    /\ WF_dispatcher(\/ part = "streams" /\ Streams!Polling
                     \/ part = "errors" /\ Errors!Polling
                     \/ part = "full" /\ Full!Polling)

Spec == Init /\ [][Next]_vars /\ Fairness
-----------------------------------------------------------------------------
(* progressive.rs, control.rs: Workers that register together, and a rebalance, leave no
   expert without a Worker while there is room for all; and a registered Worker, once no
   task runs, still has the experts its assignment gave it. *)
AssignmentsCover ==
    /\ part = "assign" => Assign!TypeOK /\ Assign!AssignmentsCover
    /\ part = "rebalance" => Rebalance!AssignmentsCover
    /\ part = "leave" => Leave!LiveIsAssigned

(* progressive.rs, recovery.rs, control.rs: assignments beside each other, the recovery of
   one Worker, and rebalances beside each other give no Worker more experts than it reported
   room for. A recovery beside assignments does so only when it counts the rows of a Worker
   before its assignment has inserted them. *)
WithinCapacity ==
    /\ part = "assign" => Assign!WithinCapacity
    /\ part = "recover" => Recover!WithinCapacity
    /\ part = "rebalance" => Rebalance!WithinCapacity
    /\ part = "leave" => Leave!OverfullOnlyEarly

(* recovery.rs: an eviction never takes the last active replica of an expert, and the last
   row of a lost Worker's expert goes only when another Worker holds it or none has a slot. *)
CoverageKept == [][part = "recover" => Recover!EvictionCovers /\ Recover!CleanUpKeeps]_vars

(* dispatcher.rs, database.rs, worker_lifecycle.rs: an open session ends up with its
   Worker's current list, the dispatcher's lock is always given back although its holder
   waits for room in a channel, and the tasks of every registration end. *)
NothingStuck ==
    /\ \A s \in Streams!Streams : []<>(part = "streams" => Streams!Arrived(s))
    /\ \A s \in Errors!Streams : []<>(part = "errors" => Errors!Arrived(s))
    /\ []<>(part = "full" => dlock = "free")
    /\ <>[](part = "restart" => Restart!Quiet)

(* worker_lifecycle.rs: after its last stream a Worker is not live, not routed to and
   announced as unavailable, whichever single fault met the stream. *)
CancelledStillUnavailable == Life!CancelledStillUnavailable

(* worker_lifecycle.rs, dispatcher.rs: the late end of an older stream closes neither the
   lease nor the subscription of the stream that replaced it. *)
NewestStreamKept ==
    /\ Life!NewestStreamStaysOpen
    /\ part = "streams" => Streams!TypeOK /\ Streams!NewestSubscribed
=============================================================================
