---------------------------- MODULE WorkerLifecycle ----------------------------
(***************************************************************************)
(* The heartbeat streams of the Controller's lifecycle service             *)
(* (controller/service/worker_lifecycle.rs) over ControllerState: the      *)
(* request handler run_heartbeat, the guard that closes its lease, and the *)
(* task the guard spawns when it is dropped before it has finished.        *)
(*                                                                         *)
(* A stream is named by its lease. Its handler may be dropped at every     *)
(* await; at the store call inside an operation only if HandlersCancelled. *)
(* Placements and state reports are the steps of ControllerState. The      *)
(* hooks write the placement database, which is not part of this module:   *)
(* a hook succeeds or fails, and it is recorded that `unavailable' ran.    *)
(***************************************************************************)
EXTENDS ControllerState

CONSTANT MaxFaults  \* bound: failed calls and lost handlers per stream

FaultAssumption == MaxFaults \in Nat

VARIABLE streams   \* by lease: the handler and its HeartbeatLeaseGuard

lifecycleVars == <<vars, streams>>

Leases == 1..MaxLease

NoStream ==
    [start |-> NoStart, worker |-> NoStart, pc |-> "none", closed |-> FALSE,
     announced |-> FALSE, faults |-> 0]

At(l, pc) == streams[l].pc = pc

(* The stream's next record; a step that is a fault counts against the bound. *)
Becomes(l, next, fault) ==
    /\ fault => streams[l].faults < MaxFaults
    /\ streams' = [streams EXCEPT ![l] = [next EXCEPT !.faults = @ + (IF fault THEN 1 ELSE 0)]]

Goto(l, pc) == Becomes(l, [streams[l] EXCEPT !.pc = pc], FALSE)

-----------------------------------------------------------------------------
(* The first message of run_heartbeat: the lease is taken and its guard made. *)
OpenStream(w, s) ==
    /\ OpenHeartbeat(w, s)
    /\ streams' = [streams EXCEPT ![nextLease + 1] =
          [NoStream EXCEPT !.worker = w, !.start = s, !.pc = "running"]]

(* A message that is applied, and the heartbeat hook after it. *)
Beat(l, n, run, result, hook) ==
    /\ At(l, "running")
    /\ Heartbeat(streams[l].worker, streams[l].start, l, n, run, result)
    /\ result # "ok" => hook = "ok"
    /\ Becomes(l, [streams[l] EXCEPT !.pc =
                     CASE result = "cancelled" -> "dropped"
                       [] result = "ok" /\ hook = "ok" -> "running"
                       [] OTHER -> "closing"],
               result # "ok" \/ hook # "ok")

(* The loop breaks: the client ends or resets the stream, no heartbeat comes in
   time, or a message is refused (a replaced start, an older lease, a sequence
   or run state that went back). *)
EndStream(l) ==
    /\ At(l, "running")
    /\ Goto(l, "closing")
    /\ UNCHANGED vars

(* close_heartbeat has something to close; otherwise it returns early, with an
   error if another process has replaced this one *)
Holds(l) ==
    /\ Current(streams[l].worker, streams[l].start)
    /\ workers[streams[l].worker].lease = l
    /\ workers[streams[l].worker].open

(* close(), first half: the state. An error leaves the handler, and the guard is
   dropped with it. *)
CloseState(l, result) ==
    /\ At(l, "closing")
    /\ \/ /\ CloseHeartbeat(streams[l].worker, streams[l].start, l, result)
          /\ Becomes(l, [streams[l] EXCEPT !.closed = (result = "ok"),
                             !.pc = IF result = "ok" THEN "leaving" ELSE "dropped"],
                     result # "ok")
       \/ /\ ~Holds(l)
          /\ result = "ok"
          /\ Goto(l, IF Current(streams[l].worker, streams[l].start) THEN "done" ELSE "dropped")
          /\ UNCHANGED vars

(* close(), second half: the unavailable hook. *)
Announce(l, hook) ==
    /\ At(l, "leaving")
    /\ Becomes(l, [streams[l] EXCEPT !.announced = (hook = "ok"),
                       !.pc = IF hook = "ok" THEN "done" ELSE "dropped"],
               hook # "ok")
    /\ UNCHANGED vars

(* The handler's future is dropped at an await outside an operation. *)
DropHandler(l) ==
    /\ streams[l].pc \in {"running", "closing", "leaving"}
    /\ Becomes(l, [streams[l] EXCEPT !.pc = "dropped"], TRUE)
    /\ UNCHANGED vars

\* Faulty variant: a dropped guard leaves its lease as it is.
CleanUpNothing(l, result) ==
    /\ At(l, "dropped")
    /\ result = "ok"
    /\ Goto(l, "done")
    /\ UNCHANGED vars

(* The task Drop spawns closes the lease, once; what it cannot close it leaves. *)
CleanUp(l, result) ==
    /\ At(l, "dropped")
    /\ ~streams[l].closed
    /\ \/ /\ CloseHeartbeat(streams[l].worker, streams[l].start, l, result)
          /\ Becomes(l, [streams[l] EXCEPT !.closed = (result = "ok"),
                             !.pc = IF result = "ok" THEN "dropped" ELSE "done"],
                     result # "ok")
       \/ /\ ~Holds(l)
          /\ result = "ok"
          /\ Goto(l, "done")
          /\ UNCHANGED vars

(* The same task's hook; an error is logged. *)
AnnounceDropped(l, hook) ==
    /\ At(l, "dropped")
    /\ streams[l].closed
    /\ Becomes(l, [streams[l] EXCEPT !.announced = (hook = "ok"), !.pc = "done"], hook # "ok")
    /\ UNCHANGED vars

-----------------------------------------------------------------------------
LifecycleInit ==
    /\ Init
    /\ streams = [l \in Leases |-> NoStream]

Elsewhere(w, s) ==
    /\ \/ \E result \in HandlerResults : Register(w, s, result)
       \/ \E targets \in TargetLists : SetTargets(w, s, targets)
       \/ \E g \in 1..MaxGeneration, n \in 1..MaxReport, full \in BOOLEAN,
             report \in StateMaps, result \in SessionResults :
             ApplyStateReport(w, s, g, n, full, report, result)
    /\ UNCHANGED streams

StreamStep(l) ==
    \/ \E n \in 1..MaxSequence, run \in RunStates, result \in HandlerResults,
          hook \in SessionResults : Beat(l, n, run, result, hook)
    \/ EndStream(l)
    \/ \E result \in HandlerResults : CloseState(l, result)
    \/ \E hook \in SessionResults : Announce(l, hook)
    \/ DropHandler(l)
    \/ \E result \in SessionResults : CleanUp(l, result)
    \/ \E hook \in SessionResults : AnnounceDropped(l, hook)

RestartAll == Restart /\ streams' = [l \in Leases |-> NoStream]

LifecycleNext ==
    \/ \E w \in Workers, s \in Starts : OpenStream(w, s) \/ Elsewhere(w, s)
    \/ \E l \in Leases : StreamStep(l)
    \/ RestartAll

LifecycleSpec == LifecycleInit /\ [][LifecycleNext]_lifecycleVars

-----------------------------------------------------------------------------
(* When a stream's handling is over and no newer stream or process has taken the
   Worker over, the Worker is not live, no route leads to it, and the unavailable
   hook has run: whichever single fault met it, the handler lost or one store or
   hook call failed. (Two faults are not survived: the spawned task tries once.)
   (HeartbeatLeaseGuard; the test
   cancelled_heartbeat_handler_still_marks_worker_unavailable) *)
CancelledStillUnavailable ==
    \A l \in Leases :
        LET w == streams[l].worker
            rec == workers[w]
        IN  At(l, "done") /\ Current(w, streams[l].start) /\ rec.lease = l
              => /\ ~rec.live
                 /\ \A k \in Experts : Process(w, rec) \notin routes[k]
                 /\ streams[l].announced

(* The end of an older stream never closes the lease of a newer one that is still
   running, so a reconnecting Worker is not taken down by its past.
   (close_heartbeat, open_heartbeat) *)
NewestStreamStaysOpen ==
    \A l \in Leases :
        LET w == streams[l].worker
        IN  At(l, "running") /\ Current(w, streams[l].start) /\ workers[w].lease = l
              => workers[w].open
===============================================================================
