--------------------------- MODULE WorkerExecution ---------------------------
(***************************************************************************)
(* Computation on one Worker: the handlers of the gRPC receiver            *)
(* (transports/grpc/receiver.py), the queue of admitted batches with its   *)
(* drain gates (transports/queue.py), the loop of each execution slot      *)
(* (execution/executor.py, execution/slot.py) and the closing of all of    *)
(* them.                                                                   *)
(*                                                                         *)
(* Handlers, slot loops and close tasks share one asyncio loop: an action  *)
(* is the code between two awaits. A slot's thread takes the steps "run",  *)
(* "copy" and "compute", the pool of the receiver decodes and encodes. A   *)
(* request carries one batch; its content is the request's own name, and   *)
(* the partial output computed from it is told apart by the same name. A   *)
(* deadline may pass at any check: `Ended` allows it. The Topology version *)
(* of a gate is in module WeightSync, the weights a batch leases are in    *)
(* module WeightManager.                                                   *)
(***************************************************************************)
EXTENDS Integers, FiniteSets, Sequences

CONSTANTS
    None,          \* no request
    Requests,      \* calls of ComputationService.Execute
    Malformed,     \* those whose payload does not decode
    Slots,         \* max_active_batches execution slots
    Experts,       \* the (layer, expert) pairs of the model
    ExpertsOf,     \* Requests -> the distinct experts of its batch
    Drained,       \* the experts a removal drains
    MaxPending,    \* max_pending_batches
    MaxDrains,     \* bound: drains of those experts
    BackendFails   \* may a submission raise BackendFatalError?

ExecutionAssumption ==
    /\ IsFiniteSet(Requests) /\ None \notin Requests /\ Malformed \subseteq Requests
    /\ IsFiniteSet(Slots) /\ Slots # {}
    /\ ExpertsOf \in [Requests -> SUBSET Experts \ {{}}]
    /\ Drained \subseteq Experts
    /\ MaxPending \in Nat \ {0} /\ MaxDrains \in Nat /\ BackendFails \in BOOLEAN

VARIABLES
    rpc,       \* where each handler is
    cancel,    \* gRPC cancelled the handler; it learns of it at its next step
    answer,    \* what the caller was sent
    response,  \* the future ReceivedBatch.response
    entry,     \* _Entry.state of the batch in the queue
    dropped,   \* ReceivedBatch.cancelled
    waiting,   \* _waiting
    admitted,  \* _admitted_by_expert
    gates,     \* _expert_drains
    stopAll,   \* _stop_all_version is set
    drains,    \* drains begun so far
    drain,     \* the two callers of wait_idle
    slot,      \* each execution slot and its loop
    fatal,     \* _fatal_error is set
    rclose,    \* GrpcWorkerBatchReceiver._close
    eclose     \* WorkerExecutor._close

calls == <<rpc, cancel, answer>>
queue == <<entry, waiting, admitted>>
gating == <<gates, stopAll, drains, drain>>
closing == <<rclose, eclose>>
vars == <<calls, response, dropped, queue, gating, slot, fatal, closing>>

Nothing == [kind |-> "none"]
Message(kind) == [kind |-> kind]
Output(r) == [kind |-> "output", of |-> r]

IdleSlot == [pc |-> "take", req |-> None, input |-> None, output |-> None,
             result |-> "none", busy |-> FALSE]

Live == {r \in Requests : rpc[r] \in {"decode", "encode", "wait"}}
QueueClosing == rclose \in {"active", "closed"}
MaxRpcs == Cardinality(Slots) + MaxPending
-----------------------------------------------------------------------------
(* The queue *)

Gated(r) == stopAll \/ ExpertsOf[r] \cap gates # {}

(* ReceiverQueue.admit: why a batch is not admitted. *)
Rejection(r) ==
    IF QueueClosing THEN "closing"
    ELSE IF Gated(r) THEN "draining"
    ELSE IF Len(waiting) >= MaxPending THEN "busy"
    ELSE "none"

(* deque.remove: the others keep their order. *)
Without(r) ==
    LET i == CHOOSE j \in DOMAIN waiting : waiting[j] = r
    IN  SubSeq(waiting, 1, i - 1) \o SubSeq(waiting, i + 1, Len(waiting))

Count(r, n) == [e \in Experts |-> IF e \in ExpertsOf[r] THEN admitted[e] + n ELSE admitted[e]]

\* Faulty variant: the batch leaves the queue and stays counted.
ReleaseUncounted(r, state) ==
    /\ entry' = [entry EXCEPT ![r] = state]
    /\ UNCHANGED admitted

(* ReceiverQueue._release_experts and the end of an entry *)
Release(r, state) ==
    /\ entry' = [entry EXCEPT ![r] = state]
    /\ admitted' = Count(r, -1)

-----------------------------------------------------------------------------
(* GrpcWorkerBatchReceiver._execute *)

Reply(r, message) ==
    /\ rpc' = [rpc EXCEPT ![r] = "over"]
    /\ answer' = [answer EXCEPT ![r] = message]

\* External: the server refuses a call above maximum_concurrent_rpcs and takes
\* no call once it is stopped; the handler itself refuses one while it closes.
Arrive(r) ==
    /\ rpc[r] = "none"
    /\ rclose \in {"open", "stop"}
    /\ IF Cardinality(Live) >= MaxRpcs
         THEN Reply(r, Message("exhausted"))
         ELSE IF rclose = "stop"
           THEN Reply(r, Message("unavailable"))
           ELSE rpc' = [rpc EXCEPT ![r] = "decode"] /\ UNCHANGED answer
    /\ UNCHANGED <<cancel, response, dropped, queue, gating, slot, fatal, closing>>

\* The pool has decoded the payload: the batch is admitted or rejected.
Decoded(r) ==
    /\ rpc[r] = "decode"
    /\ ~cancel[r]
    /\ \/ /\ r \in Malformed
          /\ Reply(r, Message("invalid"))
          /\ UNCHANGED queue
       \/ /\ r \notin Malformed
          /\ Rejection(r) # "none"
          /\ rpc' = [rpc EXCEPT ![r] = "encode"]
          /\ answer' = [answer EXCEPT ![r] = Message(Rejection(r))]
          /\ UNCHANGED queue
       \/ /\ r \notin Malformed
          /\ Rejection(r) = "none"
          /\ rpc' = [rpc EXCEPT ![r] = "wait"]
          /\ entry' = [entry EXCEPT ![r] = "waiting"]
          /\ waiting' = Append(waiting, r)
          /\ admitted' = Count(r, 1)
          /\ UNCHANGED answer
    /\ UNCHANGED <<cancel, response, dropped, gating, slot, fatal, closing>>

\* The rejection is encoded, or the future holds the answer.
Answered(r) ==
    /\ ~cancel[r]
    /\ \/ rpc[r] = "encode" /\ Reply(r, answer[r])
       \/ rpc[r] = "wait" /\ response[r] # Nothing /\ Reply(r, response[r])
    /\ UNCHANGED <<cancel, response, dropped, queue, gating, slot, fatal, closing>>

\* The caller gives up or its deadline passes: gRPC cancels the handler.
CallerCancels(r) ==
    /\ r \in Live
    /\ ~cancel[r]
    /\ cancel' = [cancel EXCEPT ![r] = TRUE]
    /\ UNCHANGED <<rpc, answer, response, dropped, queue, gating, slot, fatal, closing>>

\* Faulty variant: the batch of a cancelled call leaves the line, not the queue.
CancelWaitingForgets(r) ==
    /\ dropped' = [dropped EXCEPT ![r] = TRUE]
    /\ IF entry[r] = "waiting"
         THEN waiting' = Without(r) /\ UNCHANGED <<entry, admitted>>
         ELSE UNCHANGED queue

(* _cancel and ReceiverQueue.cancel_waiting: an active batch is only marked. *)
CancelWaiting(r) ==
    /\ dropped' = [dropped EXCEPT ![r] = TRUE]
    /\ IF entry[r] = "waiting"
         THEN waiting' = Without(r) /\ Release(r, "dropped")
         ELSE UNCHANGED queue

\* CancelledError reaches the handler.
HandlerCancelled(r) ==
    /\ r \in Live
    /\ cancel[r]
    /\ Reply(r, Message("cancelled"))
    /\ IF rpc[r] = "wait" THEN CancelWaiting(r) ELSE UNCHANGED <<dropped, queue>>
    /\ UNCHANGED <<cancel, response, gating, slot, fatal, closing>>

-----------------------------------------------------------------------------
(* WorkerExecutor._serve_slot and ExecutionSlot.execute *)

To(s, pc, result) == slot' = [slot EXCEPT ![s].pc = pc, ![s].result = result]

\* ReceiverQueue.take; a loop that waits when the queue closes ends.
Take(s) ==
    /\ slot[s].pc = "take"
    /\ \/ /\ waiting # <<>>
          /\ LET r == Head(waiting) IN
               /\ entry' = [entry EXCEPT ![r] = "active"]
               /\ slot' = [slot EXCEPT ![s].pc = "run", ![s].req = r]
          /\ waiting' = Tail(waiting)
       \/ /\ waiting = <<>> /\ QueueClosing
          /\ To(s, "over", "none")
          /\ UNCHANGED <<entry, waiting>>
    /\ UNCHANGED <<calls, response, dropped, admitted, gating, fatal, closing>>

(* _request_end_error: a cancelled batch ends here, any batch may be too late. *)
Results(s, result) == IF dropped[slot[s].req] THEN {"ended"} ELSE {"ended", result}

Continue(s, pc, result) ==
    [slot EXCEPT ![s].pc = IF result = "ended" THEN "respond" ELSE pc, ![s].result = result]

\* _claim, then the first check. A slot that is still in use raises
\* RuntimeError, which nothing catches.
Claim(s) ==
    /\ slot[s].pc = "run"
    /\ IF slot[s].busy
         THEN To(s, "dead", "none")
         ELSE \E result \in Results(s, "none") :
                slot' = [Continue(s, "copy", result) EXCEPT ![s].busy = TRUE]
    /\ UNCHANGED <<calls, response, dropped, queue, gating, fatal, closing>>

\* Faulty variant: only the first batch of a slot is copied.
CopiedInputOnce(s) == IF slot[s].input = None THEN slot[s].req ELSE slot[s].input

(* GrpcWorkerBatchBuffers.copy_input: what the slot's input tensors hold. *)
CopiedInput(s) == slot[s].req

(* What copy_output hands to the response: computed from the slot's input. *)
PreparedOutput(s) == slot[s].input

\* _copy_and_build_batch with release_input, then the second check
CopyInput(s) ==
    /\ slot[s].pc = "copy"
    /\ \E result \in Results(s, "none") :
         slot' = [Continue(s, "compute", result) EXCEPT ![s].input = CopiedInput(s)]
    /\ UNCHANGED <<calls, response, dropped, queue, gating, fatal, closing>>

\* submit and _wait_completion succeed; copy_output unless the call has ended.
Computed(s) ==
    /\ slot[s].pc = "compute"
    /\ \E result \in Results(s, "output") :
         slot' = [Continue(s, "respond", result) EXCEPT ![s].output = PreparedOutput(s)]
    /\ UNCHANGED <<calls, response, dropped, queue, gating, fatal, closing>>

(* BackendRequestError and BackendFatalError *)
BackendErrors == IF BackendFails THEN {"rejected", "fatal"} ELSE {"rejected"}

(* The error leaves execute, which gives the slot up itself. *)
Raised(s) ==
    /\ slot[s].pc = "compute"
    /\ \E result \in BackendErrors :
          slot' = [slot EXCEPT ![s].pc = "respond", ![s].result = result, ![s].busy = FALSE]
    /\ UNCHANGED <<calls, response, dropped, queue, gating, fatal, closing>>

(* _complete_success and _complete_error: a native status is set at once, a
   payload is encoded by the pool, a cancelled call gets nothing. *)
Respond(s) ==
    /\ slot[s].pc = "respond"
    /\ LET r == slot[s].req
           native == slot[s].result \in {"ended", "fatal"}
       IN /\ To(s, IF dropped[r] \/ native THEN "finish" ELSE "encode", slot[s].result)
          /\ response' = IF ~dropped[r] /\ native
                           THEN [response EXCEPT ![r] = Message(slot[s].result)] ELSE response
    /\ UNCHANGED <<calls, dropped, queue, gating, fatal, closing>>

Encoded(s) ==
    /\ slot[s].pc = "encode"
    /\ LET r == slot[s].req IN
         response' = IF dropped[r] THEN response
                     ELSE [response EXCEPT ![r] = IF slot[s].result = "output"
                             THEN Output(slot[s].output) ELSE Message(slot[s].result)]
    /\ To(s, "finish", slot[s].result)
    /\ UNCHANGED <<calls, dropped, queue, gating, fatal, closing>>

(* _finish_active: ReceiverQueue.finish *)
Finish(s) ==
    /\ slot[s].pc = "finish"
    /\ Release(slot[s].req, "finished")
    /\ To(s, "release", slot[s].result)
    /\ UNCHANGED <<calls, response, dropped, waiting, gating, fatal, closing>>

(* GrpcWorkerBatchReceiver.close, to server.stop(None), which cancels the
   handlers (external); a later caller joins the first. *)
StopServer ==
    /\ rclose' = IF rclose = "open" THEN "stop" ELSE rclose
    /\ cancel' = IF rclose = "open" THEN [r \in Requests |-> cancel[r] \/ r \in Live] ELSE cancel

\* result.release(), and the next turn of the loop: a fatal error closes the receiver.
EndTurn(s) ==
    /\ slot[s].pc = "release"
    /\ IF slot[s].result = "fatal"
         THEN /\ slot' = [slot EXCEPT ![s].pc = "fatal", ![s].req = None]
              /\ fatal' = TRUE
              /\ StopServer
         ELSE /\ slot' = [slot EXCEPT ![s].pc = "take", ![s].req = None, ![s].result = "none",
                                      ![s].output = None,
                                      ![s].busy = slot[s].result = "rejected" /\ @]
              /\ UNCHANGED <<fatal, cancel, rclose>>
    /\ UNCHANGED <<rpc, answer, response, dropped, queue, gating, eclose>>

\* The loop that failed returns when the receiver is closed.
FatalReturns(s) ==
    /\ slot[s].pc = "fatal"
    /\ rclose = "closed"
    /\ To(s, "over", "none")
    /\ UNCHANGED <<calls, response, dropped, queue, gating, fatal, closing>>

-----------------------------------------------------------------------------
(* Drains: "experts" for a removal, "all" for the shutdown of the Worker *)

BeginDrain(kind) ==
    /\ drain[kind] = "no"
    /\ drains < MaxDrains
    /\ drains' = drains + 1
    /\ drain' = [drain EXCEPT ![kind] = "wait"]
    /\ gates' = IF kind = "experts" THEN gates \cup Drained ELSE gates
    /\ stopAll' = (stopAll \/ kind = "all")
    /\ UNCHANGED <<calls, response, dropped, queue, slot, fatal, closing>>

(* The conditions of wait_experts_idle and wait_all_idle. *)
Unused(kind) ==
    IF kind = "experts" THEN \A e \in Drained : admitted[e] = 0
    ELSE \A r \in Requests : entry[r] \notin {"waiting", "active"}

\* wait_idle returns, or its deadline passes first.
WaitIdle(kind) ==
    /\ drain[kind] = "wait"
    /\ Unused(kind)
    /\ drain' = [drain EXCEPT ![kind] = "idle"]
    /\ UNCHANGED <<calls, response, dropped, queue, gates, stopAll, drains, slot, fatal, closing>>

WaitIdleExpires(kind) ==
    /\ drain[kind] = "wait"
    /\ ~Unused(kind)
    /\ drain' = [drain EXCEPT ![kind] = "late"]
    /\ UNCHANGED <<calls, response, dropped, queue, gates, stopAll, drains, slot, fatal, closing>>

\* clear_drains: the experts are assigned to this Worker again.
ClearDrains ==
    /\ drain["experts"] \in {"idle", "late"}
    /\ drain' = [drain EXCEPT !["experts"] = "no"]
    /\ gates' = gates \ Drained
    /\ UNCHANGED <<calls, response, dropped, queue, stopAll, drains, slot, fatal, closing>>

-----------------------------------------------------------------------------
(* Closing *)

(* ReceiverQueue.begin_close: the batches that wait are discarded. *)
BeginClose ==
    /\ rclose = "stop"
    /\ rclose' = "active"
    /\ waiting' = <<>>
    /\ entry' = [r \in Requests |-> IF entry[r] = "waiting" THEN "dropped" ELSE entry[r]]
    /\ dropped' = [r \in Requests |-> dropped[r] \/ entry[r] = "waiting"]
    /\ admitted' = [e \in Experts |-> admitted[e]
          - Cardinality({r \in Requests : entry[r] = "waiting" /\ e \in ExpertsOf[r]})]
    /\ UNCHANGED <<calls, response, gating, slot, fatal, eclose>>

\* wait_active_empty, then the pool of the receiver ends.
CloseReceiver ==
    /\ rclose = "active"
    /\ \A r \in Requests : entry[r] # "active"
    /\ rclose' = "closed"
    /\ UNCHANGED <<calls, response, dropped, queue, gating, slot, fatal, eclose>>

\* WorkerExecutor.close
CloseExecutor ==
    /\ eclose = "open"
    /\ eclose' = "receiver"
    /\ StopServer
    /\ UNCHANGED <<rpc, answer, response, dropped, queue, gating, slot, fatal>>

\* The loops have ended, so has the pool; a slot in use cannot be closed.
CloseSlots ==
    /\ eclose = "receiver"
    /\ rclose = "closed"
    /\ \A s \in Slots : slot[s].pc \in {"over", "dead"}
    /\ eclose' = IF \E s \in Slots : slot[s].busy THEN "failed" ELSE "closed"
    /\ UNCHANGED <<calls, response, dropped, queue, gating, slot, fatal, rclose>>

-----------------------------------------------------------------------------
Init ==
    /\ rpc = [r \in Requests |-> "none"]
    /\ cancel = [r \in Requests |-> FALSE]
    /\ answer = [r \in Requests |-> Nothing]
    /\ response = [r \in Requests |-> Nothing]
    /\ entry = [r \in Requests |-> "none"]
    /\ dropped = [r \in Requests |-> FALSE]
    /\ waiting = <<>>
    /\ admitted = [e \in Experts |-> 0]
    /\ gates = {} /\ stopAll = FALSE /\ drains = 0
    /\ drain = [kind \in {"experts", "all"} |-> "no"]
    /\ slot = [s \in Slots |-> IdleSlot]
    /\ fatal = FALSE
    /\ rclose = "open" /\ eclose = "open"

Handler(r) == Decoded(r) \/ Answered(r) \/ HandlerCancelled(r)

SlotStep(s) ==
    \/ Take(s) \/ Claim(s) \/ CopyInput(s) \/ Computed(s) \/ Raised(s)
    \/ Respond(s) \/ Encoded(s) \/ Finish(s) \/ EndTurn(s) \/ FatalReturns(s)

Next ==
    \/ \E r \in Requests : Arrive(r) \/ Handler(r) \/ CallerCancels(r)
    \/ \E s \in Slots : SlotStep(s)
    \/ \E kind \in DOMAIN drain : BeginDrain(kind) \/ WaitIdle(kind) \/ WaitIdleExpires(kind)
    \/ ClearDrains
    \/ BeginClose \/ CloseReceiver \/ CloseExecutor \/ CloseSlots

(* The loop and the threads go on; calls, cancellations, drains and the
   shutdown are up to others, and a computation that succeeds takes finite time. *)
Steps ==
    \/ \E r \in Requests : Handler(r)
    \/ \E s \in Slots : SlotStep(s)
    \/ \E kind \in {"experts", "all"} : WaitIdle(kind)
    \/ BeginClose \/ CloseReceiver \/ CloseSlots

Spec == Init /\ [][Next]_vars /\ WF_vars(Steps)

-----------------------------------------------------------------------------
(* Properties *)

(* The type invariant. *)
TypeOK ==
    /\ rpc \in [Requests -> {"none", "decode", "encode", "wait", "over"}]
    /\ entry \in [Requests -> {"none", "waiting", "active", "finished", "dropped"}]
    /\ waiting \in Seq({r \in Requests : entry[r] = "waiting"}) /\ Len(waiting) =< MaxPending
    /\ admitted \in [Experts -> 0 .. Cardinality(Requests)]
    /\ gates \in SUBSET Experts
    /\ \A s \in Slots : slot[s].req \in Requests \cup {None}
    /\ rclose \in {"open", "stop", "active", "closed"}
    /\ eclose \in {"open", "receiver", "closed", "failed"}

(* The use count of an expert (queue.py:275) is the number of batches that wait
   or execute and name it, whatever was cancelled, finished or discarded: a
   count too high blocks a removal for good, one too low lets it start early. *)
UseCountsExact ==
    \A e \in Experts : admitted[e] =
        Cardinality({r \in Requests : entry[r] \in {"waiting", "active"} /\ e \in ExpertsOf[r]})

(* The batches the queue holds active are those the slots work on, one each: a
   taken batch is finished exactly once (queue.py:191), cancelled or not. *)
ActiveHeld ==
    /\ {r \in Requests : entry[r] = "active"} =
         {slot[s].req : s \in {t \in Slots : slot[t].pc \in
            {"run", "copy", "compute", "respond", "encode", "finish"}}}
    /\ \A s, t \in Slots : slot[s].req = slot[t].req /\ slot[s].req # None => s = t

(* After wait_idle has returned, and until the drain is cleared, no batch that
   waits or executes uses a drained expert (or, at shutdown, any expert): the
   weights may be removed (queue.py:249, queue.py:262). *)
DrainedUnused ==
    \A kind \in DOMAIN drain : drain[kind] = "idle" =>
        \A r \in Requests : entry[r] \in {"waiting", "active"} =>
            kind = "experts" /\ ExpertsOf[r] \cap Drained = {}

(* A caller that is sent an output is sent the output of its own batch: the
   slot's tensors are reused only after the response was encoded (slot.py:105). *)
OwnOutput ==
    \A r \in Requests : answer[r].kind = "output" => answer[r].of = r

(* No slot loop dies of a slot in use, and the slots are idle when the executor
   closes them (slot.py:272, slot.py:366). *)
SlotsReturned ==
    /\ \A s \in Slots : slot[s].pc # "dead"
    /\ eclose # "failed"

(* Every call ends: answered, rejected or cancelled, also when a slot fails or
   the Worker shuts down while the batch waits or executes. *)
CallsOver == \A r \in Requests : rpc[r] \in {"none", "over"}
CallsEnd == []<>CallsOver

(* A drain ends without its deadline (queue.py:249): calls cannot keep an
   expert in use once its gate is set, and a cancelled batch is still counted out. *)
DrainsOver == \A kind \in {"experts", "all"} : drain[kind] # "wait"
DrainsEnd == []<>DrainsOver

(* Closing the executor ends, and so does every slot loop after a fatal error:
   the loop that failed waits for the receiver, which waits for the batches of
   the other loops (executor.py:158, executor.py:203). *)
ExecutorOver == eclose # "receiver" /\ (fatal => \A s \in Slots : slot[s].pc = "over")
ExecutorEnds == []<>ExecutorOver
=============================================================================
