-------------------------- MODULE MCWorkerControl ---------------------------
(* A Worker's control session for TLC: scenarios of WeightSync, ControlParts   *)
(* and WorkerSession. A behaviour is one scenario, chosen at the start; the    *)
(* components that do not run stay in their initial state.                     *)
EXTENDS Naturals

CONSTANT Scenarios   \* the scenarios to check

VARIABLES
    part,                                                          \* the scenario
    mgr, pending, seq, enqueued, active, completed, superseded, gates, stop,
    run, ctl, nextDrain, sent, down, budget,                       \* WeightSync
    pctl, casm, psent, up, pdown, out, pmgr, asm, pend, pactive, done, prun, pseq,
    ended, breaks, made, shots,                                    \* ControlParts
    phase, step, built, closed, todo, requested, sup, closing, retryNow, channel,
    hb, ws, beat, ssent, wire, sctl, scompleted                    \* WorkerSession

\* Streams break while placements change and experts drain.
Sync == INSTANCE WeightSync WITH
    Keys <- {"k1", "k2"}, MaxGeneration <- 3, MaxBreaks <- 1, MaxRestarts <- 0, MaxFailures <- 0,
    OutboundGroups <- 1, FirstVersion <- 1, MayShutDown <- FALSE

\* The Controller restarts, loads fail and the Worker is asked to stop.
Stops == INSTANCE WeightSync WITH
    Keys <- {"k1"}, MaxGeneration <- 2, MaxBreaks <- 1, MaxRestarts <- 1, MaxFailures <- 1,
    OutboundGroups <- 1, FirstVersion <- 0, MayShutDown <- TRUE

\* Lists of two parts over streams that break; one drain left behind fills the assembler.
Lists == INSTANCE ControlParts WITH
    NumExperts <- 2, MaxExperts <- 2, PerPart <- 1, MaxPendingDrains <- 1, MaxGeneration <- 3,
    MaxBreaks <- 1, ctl <- pctl, sent <- psent, down <- pdown, mgr <- pmgr, active <- pactive,
    run <- prun, seq <- pseq

\* Lists of three parts.
Long == INSTANCE ControlParts WITH
    NumExperts <- 3, MaxExperts <- 3, PerPart <- 1, MaxPendingDrains <- 2, MaxGeneration <- 2,
    MaxBreaks <- 1, ctl <- pctl, sent <- psent, down <- pdown, mgr <- pmgr, active <- pactive,
    run <- prun, seq <- pseq

\* A process whose builds, starts, monitors and streams may fail.
Faulty == INSTANCE WorkerSession WITH
    MaxSeq <- 4, Faults <- TRUE, CloseRaises <- {}, made <- built, sent <- ssent, ctl <- sctl,
    completed <- scompleted

\* A process whose closes may raise as well.
Raising == INSTANCE WorkerSession WITH
    MaxSeq <- 3, Faults <- TRUE, CloseRaises <- {"execution", "manager"}, made <- built,
    sent <- ssent, ctl <- sctl, completed <- scompleted

ASSUME Sync!SyncAssumption /\ Stops!SyncAssumption /\ Lists!PartsAssumption /\ Long!PartsAssumption
ASSUME Faulty!SessionAssumption /\ Raising!SessionAssumption

weights == <<mgr, pending, seq, enqueued, active, completed, superseded, gates, stop,
             run, ctl, nextDrain, sent, down, budget>>
parts == <<pctl, casm, psent, up, pdown, out, pmgr, asm, pend, pactive, done, prun, pseq,
           ended, breaks, made, shots>>
session == <<phase, step, built, closed, todo, requested, sup, closing, retryNow, channel,
             hb, ws, beat, ssent, wire, sctl, scompleted>>
vars == <<part, weights, parts, session>>

Init ==
    /\ part \in Scenarios
    /\ IF part = "stops" THEN Stops!Init ELSE Sync!Init
    /\ IF part = "long" THEN Long!Init ELSE Lists!Init
    /\ Faulty!Init

\* A scenario of WeightSync may end at its bounds.
Next ==
    /\ UNCHANGED part
    /\ \/ part = "sync" /\ (Sync!Next \/ UNCHANGED weights) /\ UNCHANGED <<parts, session>>
       \/ part = "stops" /\ (Stops!Next \/ UNCHANGED weights) /\ UNCHANGED <<parts, session>>
       \/ part = "lists" /\ Lists!Next /\ UNCHANGED <<weights, session>>
       \/ part = "long" /\ Long!Next /\ UNCHANGED <<weights, session>>
       \/ part = "faulty" /\ Faulty!Next /\ UNCHANGED <<weights, parts>>
       \/ part = "raising" /\ Raising!Next /\ UNCHANGED <<weights, parts>>

(* The fairness of the components, for the scenarios whose progress is checked. *)
Spec ==
    /\ Init /\ [][Next]_vars
    /\ WF_weights(part = "sync" /\ Sync!Steps)
    /\ WF_session(part = "raising" /\ Raising!Steps)
-----------------------------------------------------------------------------
(* weight_stream.py, manager.py, session.rs: a drain is completed only after the Controller
   knows of its removals, on the stream that carried them or a later one; and an expert of
   the placement the Worker has now is not left out because an older drain removed it. *)
DrainsSafe ==
    /\ [][part = "sync" => Sync!CompletesRemoved]_vars
    /\ [](part = "sync" => Sync!TypeOK /\ Sync!AssignedNotRemoved)
    /\ [](part = "stops" => Stops!TypeOK /\ Stops!AssignedNotRemoved)

(* weight_stream.py, state_reporter.py: whatever streams break, every drain ends, the
   Controller ends up with the ready experts the Worker has, and no ready expert stays
   behind the gate of a drain. *)
SessionsConverge ==
    /\ <>[](part = "sync" => Sync!DrainsOver)
    /\ <>[](part = "sync" => Sync!ViewsAgree)
    /\ <>[](part = "sync" => Sync!ReadyNotGated)

(* parts.py, weight_control/mod.rs: targets, drains and full states arrive whole, as they
   were made, wherever streams broke between their parts. No open drain waits for a part that
   will not come, and no part is refused before drains that broken streams left half received
   fill the assembler; a broken stream leaves at most one. *)
ListsWhole ==
    /\ part = "lists" => /\ Lists!TypeOK /\ Lists!TargetsWhole /\ Lists!DrainsWhole
                         /\ Lists!ViewWhole /\ Lists!PartsAccepted /\ Lists!PendingBounded
                         /\ Lists!ReadMeansApplied
    /\ part = "long" => /\ Long!TypeOK /\ Long!TargetsWhole /\ Long!DrainsWhole
                        /\ Long!ViewWhole /\ Long!PartsAccepted /\ Long!PendingBounded
                        /\ Long!ReadMeansApplied

(* lifecycle.py, supervisor.py: the heartbeat stream never sleeps on a state it has not
   sent, the Controller refuses no heartbeat of the open stream, and a Worker never has two
   sessions. *)
HeartbeatsSound ==
    part = "faulty" => /\ Faulty!TypeOK /\ Faulty!NewsNotSlept
                       /\ Faulty!HeartbeatsAccepted /\ Faulty!OneSession

(* app.py, factory.py: a component is closed only after those that use it, also when a
   close raises; and if none raises, a process that is over closed every component it
   made, however far its build or start came. *)
ClosedInOrder ==
    /\ part \in {"faulty", "raising"} => Faulty!ClosedInOrder
    /\ part = "faulty" => Faulty!AllClosed

(* app.py: a requested shutdown ends the process, whatever the Controller does and
   whichever close raises. *)
ShutdownEnds == []<>(part = "raising" => Raising!ProcessOver)
=============================================================================
