---------------------------- MODULE ShmTransport ----------------------------
(***************************************************************************)
(* The same-host transport: the client (transports/shm/client.py,          *)
(* client_buffers.py), the session a Worker keeps for it (session.py) and  *)
(* the handlers and close of the Worker's receiver (receiver.py).          *)
(*                                                                         *)
(* Tensors go through slots of a mapped segment; a small RPC announces a   *)
(* slot and its generation. Client and Worker are two processes: a step is *)
(* the code between two awaits of one of them, or what a thread of its     *)
(* pool does to a slot. A tensor's content is the call it belongs to, or   *)
(* Mixed while it is overwritten. The Worker's queue and execution slots   *)
(* are module WorkerExecution; here a batch that waits is admitted or      *)
(* rejected, is taken, copied in, copied out and completed.                *)
(***************************************************************************)
EXTENDS Integers, FiniteSets

CONSTANTS
    Sessions,     \* client connections, each with its own segment
    Slots,        \* slot_count slots of a segment
    Calls,        \* calls of execute
    None, Mixed,
    MaxSessions,  \* _MAX_SHARED_MEMORY_SESSIONS
    Failures      \* may an RPC fail, or a client end, while the Worker has the batch?

ShmAssumption ==
    /\ IsFiniteSet(Sessions) /\ IsFiniteSet(Slots) /\ IsFiniteSet(Calls)
    /\ None \notin Calls /\ Mixed \notin Calls
    /\ MaxSessions \in Nat \ {0} /\ Failures \in BOOLEAN

VARIABLES
    conn,     \* the client's side of each connection
    free,     \* ShmTransferBufferPool._available
    memory,   \* the slots of each segment and the generation of their last use
    call,     \* the task of each call
    rpc,      \* the ExecuteSharedMemory call, as its caller sees it
    reg,      \* the Worker's side of each connection, _sessions
    lock,     \* the handler that has _session_lock
    claim,    \* _active_generations; 0 for None
    last,     \* _last_generations
    item,     \* the batch in the Worker: None, "waiting", then its stages
    read,     \* the input the Worker copied for it
    dropped,  \* ReceivedBatch.cancelled
    wclose    \* the receiver's _close

client == <<conn, free, memory, call>>
worker == <<reg, lock, claim, last, item, read, dropped, wclose>>
vars == <<client, rpc, worker>>

NewCall == [pc |-> "new", session |-> None, slot |-> None, generation |-> 0, late |-> "no",
            outcome |-> "none", result |-> None]

InWorker(c) == item[c] \in {"waiting", "active", "copied", "computed"}
Executing(c) == item[c] \in {"active", "copied", "computed"}
On(x) == {c \in Calls : call[c].session = x /\ call[c].pc \notin {"new", "over", "left"}}
SameSlot(c, d) == call[c].session = call[d].session /\ call[c].slot = call[d].slot
Registered == {x \in Sessions : reg[x] = "open"}
ClaimOf(c) == claim[call[c].session][call[c].slot]
-----------------------------------------------------------------------------
(* Opening: ShmWorkerTransport.start and _open_shared_memory *)

Start(x) ==
    /\ conn[x] = "new"
    /\ conn' = [conn EXCEPT ![x] = "opening"]
    /\ reg' = [reg EXCEPT ![x] = "asked"]
    /\ UNCHANGED <<free, memory, call, rpc, lock, claim, last, item, read, dropped, wclose>>

(* _MAX_SHARED_MEMORY_SESSIONS *)
Room == Cardinality(Registered) < MaxSessions

\* The handler has the lock and refuses or maps the segment in the pool, unless it was
\* cancelled while it waited for the lock.
Open(x) ==
    /\ reg[x] = "asked"
    /\ lock = None
    /\ \/ /\ wclose # "open" \/ ~Room \/ conn[x] # "opening"
          /\ reg' = [reg EXCEPT ![x] = "refused"]
          /\ UNCHANGED lock
       \/ /\ wclose = "open" /\ Room
          /\ reg' = [reg EXCEPT ![x] = "mapping"]
          /\ lock' = x
    /\ UNCHANGED <<client, rpc, claim, last, item, read, dropped, wclose>>

\* The segment is mapped, cannot be mapped, or the handler was cancelled meanwhile.
Mapped(x) ==
    /\ reg[x] = "mapping"
    /\ lock' = None
    /\ \/ wclose = "open" /\ reg' = [reg EXCEPT ![x] = "open"]
       \/ reg' = [reg EXCEPT ![x] = "refused"]
    /\ UNCHANGED <<client, rpc, claim, last, item, read, dropped, wclose>>

\* The answer reaches start; one that was refused ends with the close of its buffers.
OpenAnswered(x) ==
    /\ conn[x] = "opening"
    /\ reg[x] \in {"open", "gone", "refused"}
    /\ conn' = [conn EXCEPT ![x] = IF reg[x] = "refused" THEN "closed" ELSE "open"]
    /\ UNCHANGED <<free, memory, call, rpc, worker>>

\* The task that starts the connection is cancelled, or the call breaks. _close_session is
\* not set yet, so the close that follows does not ask the Worker, whatever it did.
StartInterrupted(x) ==
    /\ conn[x] = "opening"
    /\ conn' = [conn EXCEPT ![x] = "unstarted"]
    /\ UNCHANGED <<free, memory, call, rpc, worker>>

-----------------------------------------------------------------------------
(* ShmWorkerTransport.execute *)

\* The `finally` of execute: the slot goes back to the pool.
Return(c, outcome, result) ==
    /\ call' = [call EXCEPT ![c].pc = "over", ![c].outcome = outcome, ![c].result = result]
    /\ free' = [free EXCEPT ![call[c].session] = @ \cup {call[c].slot}]

Execute(c, x) ==
    /\ call[c].pc = "new"
    /\ conn[x] \in {"open", "closing"}
    /\ call' = [call EXCEPT ![c].pc = IF conn[x] = "open" THEN "permit" ELSE "over",
                            ![c].session = x]
    /\ UNCHANGED <<conn, free, memory, rpc, worker>>

\* A slot is taken and its thread begins to overwrite the input.
Acquire(c) ==
    /\ call[c].pc = "permit"
    /\ LET x == call[c].session IN \E b \in free[x] :
         /\ free' = [free EXCEPT ![x] = @ \ {b}]
         /\ memory' = [memory EXCEPT ![x][b].generation = @ + 1, ![x][b].input = Mixed]
         /\ call' = [call EXCEPT ![c].pc = "copy", ![c].slot = b,
                                 ![c].generation = memory[x][b].generation + 1]
    /\ UNCHANGED <<conn, rpc, worker>>

\* How a call that is not filled ends.
Unfilled(c) == IF call[c].late = "no" THEN "error" ELSE "late"

\* Do threads of other calls, which ended before them, still copy to the slot of c?
Disturbed(c) == \E d \in Calls : call[d].pc = "left" /\ SameSlot(c, d)

\* _copy_request_to_slot is done or refuses the batch: the slot is announced unless the
\* call ended.
Copied(c) ==
    /\ call[c].pc = "copy"
    /\ memory' = [memory EXCEPT ![call[c].session][call[c].slot].input =
                     IF Disturbed(c) THEN Mixed ELSE c]
    /\ \/ Return(c, Unfilled(c), None) /\ UNCHANGED rpc
       \/ /\ call[c].late = "no"
          /\ call' = [call EXCEPT ![c].pc = "rpc"]
          /\ rpc' = [rpc EXCEPT ![c] = "sent"]
          /\ UNCHANGED free
    /\ UNCHANGED <<conn, worker>>

\* The deadline passes; a call that has a slot goes on to wait.
Expire(c) ==
    /\ call[c].pc \in {"permit", "copy", "rpc"}
    /\ call[c].late = "no"
    /\ call' = [call EXCEPT ![c].late = "expired", ![c].pc = IF @ = "permit" THEN "over" ELSE @]
    /\ UNCHANGED <<conn, free, memory, rpc, worker>>

(* asyncio.shield keeps a thread and an RPC going under the first await; the one after a
   timeout or a cancellation is `await call` or `await work` itself. *)
Shielded(c) ==
    \/ call[c].pc = "permit"
    \/ call[c].pc \in {"copy", "read"} /\ call[c].late # "cancelled"
    \/ call[c].pc = "rpc" /\ call[c].late = "no"

\* The task is cancelled; a call that has a slot goes on to wait.
Cancel(c) ==
    /\ Shielded(c)
    /\ call' = [call EXCEPT ![c].late = "cancelled", ![c].pc = IF @ = "permit" THEN "over" ELSE @]
    /\ UNCHANGED <<conn, free, memory, rpc, worker>>

\* What an RPC is when its caller's end is gone: a request on its way may still arrive.
Severed(r) == CASE r = "sent" -> "lost" [] r = "wait" -> "cut" [] OTHER -> r

\* Cancelled in the second await, the call cancels its RPC and returns the slot.
CancelCall(c) ==
    /\ call[c].pc = "rpc" /\ ~Shielded(c)
    /\ rpc' = [rpc EXCEPT ![c] = Severed(@)]
    /\ Return(c, "late", None)
    /\ UNCHANGED <<conn, memory, worker>>

\* The same during a copy, which a thread goes on with.
CancelCopy(c) ==
    /\ call[c].pc \in {"copy", "read"} /\ ~Shielded(c)
    /\ LET left == call[c].pc = "copy" IN
         call' = [call EXCEPT ![c].pc = IF left THEN "left" ELSE "over",
                              ![c].outcome = IF left THEN "left" ELSE "late"]
    /\ free' = [free EXCEPT ![call[c].session] = @ \cup {call[c].slot}]
    /\ UNCHANGED <<conn, memory, rpc, worker>>

\* The thread of a call that is over ends, and with it what it wrote to the slot.
LeftCopied(c) ==
    /\ call[c].pc = "left" /\ conn[call[c].session] # "crashed"
    /\ memory' = [memory EXCEPT ![call[c].session][call[c].slot].input = Mixed]
    /\ call' = [call EXCEPT ![c].pc = "over"]
    /\ UNCHANGED <<conn, free, rpc, worker>>

(* The call's future is done: `await call`, also after a timeout or a
   cancellation, so that the Worker has finished with the slot. *)
Answered(c) == call[c].pc = "rpc" /\ rpc[c] \in {"ok", "failed", "lost", "cut"}

Receive(c) ==
    /\ Answered(c)
    /\ IF rpc[c] = "ok" /\ call[c].late = "no"
         THEN call' = [call EXCEPT ![c].pc = "read"] /\ UNCHANGED free
         ELSE Return(c, Unfilled(c), None)
    /\ UNCHANGED <<conn, memory, rpc, worker>>

\* _copy_slot_to_output
CopiedOut(c) ==
    /\ call[c].pc = "read"
    /\ IF call[c].late # "no" THEN Return(c, "late", None)
       ELSE Return(c, "filled", memory[call[c].session][call[c].slot].output)
    /\ UNCHANGED <<conn, memory, rpc, worker>>

-----------------------------------------------------------------------------
(* _execute_shared_memory *)

\* Faulty variant: a slot in use is claimed again.
ClaimableBusy(c) ==
    /\ wclose = "open" /\ reg[call[c].session] = "open"
    /\ call[c].generation > last[call[c].session][call[c].slot]

(* WorkerSharedMemorySession.claim: the slot is not in use, its generation is new. *)
Claimable(c) ==
    /\ wclose = "open" /\ reg[call[c].session] = "open"
    /\ ClaimOf(c) = 0
    /\ call[c].generation > last[call[c].session][call[c].slot]

\* Decoded, claimed and admitted, or refused, in one step of the Worker's loop.
\* A claim that is rejected by the queue is released, its generation stays used.
Handle(c) ==
    /\ rpc[c] \in {"sent", "lost"}
    /\ LET x == call[c].session  b == call[c].slot IN
       \/ /\ Claimable(c)
          /\ last' = [last EXCEPT ![x][b] = call[c].generation]
          /\ \/ /\ claim' = [claim EXCEPT ![x][b] = call[c].generation]
                /\ item' = [item EXCEPT ![c] = "waiting"]
                /\ rpc' = [rpc EXCEPT ![c] = IF @ = "sent" THEN "wait" ELSE "cut"]
             \/ rpc' = [rpc EXCEPT ![c] = "failed"] /\ UNCHANGED <<claim, item>>
       \/ /\ ~Claimable(c)
          /\ rpc' = [rpc EXCEPT ![c] = "failed"]
          /\ UNCHANGED <<claim, last, item>>
    /\ UNCHANGED <<client, reg, lock, read, dropped, wclose>>

\* The connection breaks: the caller sees UNAVAILABLE at once.
RpcFails(c) ==
    /\ Failures
    /\ rpc[c] \in {"sent", "wait"}
    /\ rpc' = [rpc EXCEPT ![c] = Severed(@)]
    /\ UNCHANGED <<client, worker>>

(* WorkerSharedMemorySession.release *)
Release(c) == claim' = [claim EXCEPT ![call[c].session][call[c].slot] = 0]

\* The handler is cancelled; a batch that waits leaves the queue.
HandlerCancelled(c) ==
    /\ rpc[c] = "cut" /\ InWorker(c) /\ ~dropped[c]
    /\ dropped' = [dropped EXCEPT ![c] = TRUE]
    /\ IF item[c] = "waiting"
         THEN item' = [item EXCEPT ![c] = "done"] /\ Release(c)
         ELSE UNCHANGED <<item, claim>>
    /\ UNCHANGED <<client, rpc, reg, lock, last, read, wclose>>

\* The queue's take, then ShmWorkerBatchBuffers.copy_input.
Take(c) ==
    /\ item[c] = "waiting"
    /\ item' = [item EXCEPT ![c] = "active"]
    /\ UNCHANGED <<client, rpc, reg, lock, claim, last, read, dropped, wclose>>

CopyInput(c) ==
    /\ item[c] = "active"
    /\ item' = [item EXCEPT ![c] = "copied"]
    /\ read' = [read EXCEPT ![c] = memory[call[c].session][call[c].slot].input]
    /\ UNCHANGED <<client, rpc, reg, lock, claim, last, dropped, wclose>>

\* ShmWorkerBatchBuffers.copy_output writes to the claimed slot.
CopyOutput(c) ==
    /\ item[c] = "copied"
    /\ item' = [item EXCEPT ![c] = "computed"]
    /\ memory' = [memory EXCEPT ![call[c].session][call[c].slot].output = read[c]]
    /\ UNCHANGED <<conn, free, call, rpc, reg, lock, claim, last, read, dropped, wclose>>

(* _complete_success and _complete_error: the response, then _finish_active
   releases the slot before the response can have left the process. A batch
   may be rejected at every stage. *)
Complete(c) ==
    /\ Executing(c)
    /\ \E answer \in IF item[c] = "computed" THEN {"ok", "failed"} ELSE {"failed"} :
         rpc' = IF dropped[c] \/ rpc[c] # "wait" THEN rpc ELSE [rpc EXCEPT ![c] = answer]
    /\ item' = [item EXCEPT ![c] = "done"]
    /\ Release(c)
    /\ UNCHANGED <<client, reg, lock, last, read, dropped, wclose>>

-----------------------------------------------------------------------------
(* Closing *)

\* ShmWorkerTransport._close waits for its calls, then asks the Worker.
Close(x) ==
    /\ conn[x] = "open"
    /\ conn' = [conn EXCEPT ![x] = "closing"]
    /\ UNCHANGED <<free, memory, call, rpc, worker>>

AskClose(x) ==
    /\ conn[x] = "closing"
    /\ On(x) = {}
    /\ conn' = [conn EXCEPT ![x] = "asking"]
    /\ UNCHANGED <<free, memory, call, rpc, worker>>

(* _close_shared_memory: a session with active slots is kept. *)
IdleSession(x) == \A b \in Slots : claim[x][b] = 0

CloseSession(x) ==
    /\ conn[x] = "asking"
    /\ lock = None
    /\ conn' = [conn EXCEPT ![x] = "closed"]
    /\ reg' = IF reg[x] = "open" /\ IdleSession(x) /\ wclose = "open"
                THEN [reg EXCEPT ![x] = "gone"] ELSE reg
    /\ UNCHANGED <<free, memory, call, rpc, lock, claim, last, item, read, dropped, wclose>>

\* The connection breaks while the client asks: UNAVAILABLE is ignored.
CloseFails(x) ==
    /\ Failures
    /\ conn[x] = "asking"
    /\ conn' = [conn EXCEPT ![x] = "broken"]
    /\ UNCHANGED <<free, memory, call, rpc, worker>>

\* The client process ends: its calls are gone, the Worker sees their RPCs fail.
Crash(x) ==
    /\ Failures
    /\ conn[x] \in {"opening", "open", "closing", "asking"}
    /\ conn' = [conn EXCEPT ![x] = "crashed"]
    /\ call' = [c \in Calls |-> IF c \in On(x) THEN [call[c] EXCEPT !.pc = "over", !.outcome = "crashed"]
                                ELSE call[c]]
    /\ rpc' = [c \in Calls |-> IF c \in On(x) THEN Severed(rpc[c]) ELSE rpc[c]]
    /\ UNCHANGED <<free, memory, worker>>

\* The receiver's _close: the server stops, which cancels the handlers.
StopServer ==
    /\ wclose = "open"
    /\ wclose' = "stop"
    /\ rpc' = [c \in Calls |-> IF rpc[c] = "sent" THEN "failed" ELSE Severed(rpc[c])]
    /\ UNCHANGED <<client, reg, lock, claim, last, item, read, dropped>>

Discarded == {c \in Calls : item[c] = "waiting"}

\* begin_close discards the batches that wait and releases their slots.
BeginClose ==
    /\ wclose = "stop"
    /\ wclose' = "active"
    /\ item' = [c \in Calls |-> IF c \in Discarded THEN "done" ELSE item[c]]
    /\ dropped' = [c \in Calls |-> dropped[c] \/ c \in Discarded]
    /\ claim' = [x \in Sessions |-> [b \in Slots |->
          IF \E c \in Discarded : call[c].session = x /\ call[c].slot = b THEN 0 ELSE claim[x][b]]]
    /\ UNCHANGED <<client, rpc, reg, lock, last, read>>

\* wait_active_empty; then the sessions, of which none may have active slots.
CloseSessions ==
    /\ wclose = "active"
    /\ \A c \in Calls : ~Executing(c)
    /\ lock = None
    /\ wclose' = IF \A x \in Registered : IdleSession(x) THEN "closed" ELSE "failed"
    /\ reg' = [x \in Sessions |-> IF reg[x] = "open" THEN "gone" ELSE reg[x]]
    /\ UNCHANGED <<client, rpc, lock, claim, last, item, read, dropped>>

-----------------------------------------------------------------------------
Init ==
    /\ conn = [x \in Sessions |-> "new"]
    /\ free = [x \in Sessions |-> Slots]
    /\ memory = [x \in Sessions |-> [b \in Slots |->
                    [generation |-> 0, input |-> None, output |-> None]]]
    /\ call = [c \in Calls |-> NewCall]
    /\ rpc = [c \in Calls |-> "none"]
    /\ reg = [x \in Sessions |-> "none"]
    /\ lock = None
    /\ claim = [x \in Sessions |-> [b \in Slots |-> 0]]
    /\ last = [x \in Sessions |-> [b \in Slots |-> 0]]
    /\ item = [c \in Calls |-> "none"]
    /\ read = [c \in Calls |-> None]
    /\ dropped = [c \in Calls |-> FALSE]
    /\ wclose = "open"

Caller(c) == Acquire(c) \/ Copied(c) \/ LeftCopied(c) \/ Receive(c) \/ CopiedOut(c)
GivenUp(c) == Expire(c) \/ Cancel(c) \/ CancelCall(c) \/ CancelCopy(c)
Batch(c) == Handle(c) \/ HandlerCancelled(c) \/ Take(c) \/ CopyInput(c) \/ CopyOutput(c) \/ Complete(c)
Session(x) == Open(x) \/ Mapped(x) \/ OpenAnswered(x) \/ AskClose(x) \/ CloseSession(x)
WorkerClose == BeginClose \/ CloseSessions

Next ==
    \/ \E c \in Calls : Caller(c) \/ Batch(c) \/ GivenUp(c) \/ RpcFails(c)
    \/ \E c \in Calls, x \in Sessions : Execute(c, x)
    \/ \E x \in Sessions : Session(x) \/ Start(x) \/ StartInterrupted(x)
    \/ \E x \in Sessions : Close(x) \/ CloseFails(x) \/ Crash(x)
    \/ StopServer \/ WorkerClose

(* Both processes go on with what they have begun; calls, deadlines, failures
   and closing are up to others. *)
Steps ==
    \/ \E c \in Calls : Caller(c) \/ Batch(c)
    \/ \E x \in Sessions : Session(x)
    \/ WorkerClose

Spec == Init /\ [][Next]_vars /\ WF_vars(Steps)

-----------------------------------------------------------------------------
(* Properties *)

(* The type invariant. *)
TypeOK ==
    /\ conn \in [Sessions -> {"new", "opening", "open", "closing", "asking", "closed", "unstarted",
                           "broken", "crashed"}]
    /\ reg \in [Sessions -> {"none", "asked", "mapping", "open", "refused", "gone"}]
    /\ Cardinality(Registered) =< MaxSessions
    /\ free \in [Sessions -> SUBSET Slots]
    /\ claim \in [Sessions -> [Slots -> 0 .. Cardinality(Calls)]]
    /\ last \in [Sessions -> [Slots -> 0 .. Cardinality(Calls)]]
    /\ rpc \in [Calls -> {"none", "sent", "wait", "ok", "failed", "lost", "cut"}]
    /\ item \in [Calls -> {"none", "waiting", "active", "copied", "computed", "done"}]

\* A call before c was cancelled twice while its thread copied to the slot c has.
LeftOn(c) == \E d \in Calls : /\ call[d].outcome = "left" /\ SameSlot(c, d)
                              /\ call[d].generation < call[c].generation

(* A call that fills its caller's tensor fills it with what the Worker computed
   from this call's input, although slots are reused after failed and cancelled
   calls and the Worker writes outputs straight into them (session.py:69,
   codec.py:198). *)
FilledOwn == \A c \in Calls : call[c].outcome = "filled" => call[c].result = c \/ LeftOn(c)

(* A batch that waits or executes has the claim on its slot at its generation, and every
   claim is that of such a batch: every rejection, cancellation, completion and close
   releases its own claim and no other (session.py:117); so the sessions close idle. *)
ClaimsHeld ==
    /\ \A c \in Calls : InWorker(c) => ClaimOf(c) = call[c].generation
    /\ \A x \in Sessions, b \in Slots : claim[x][b] # 0 =>
         \E c \in Calls : InWorker(c) /\ call[c].session = x /\ call[c].slot = b
    /\ wclose # "failed"

(* What the Worker computes on is what it validated when it claimed the slot
   (backends/base.py:35), unless the caller's end of the call was cut off meanwhile: the
   client does not overwrite a slot before the Worker is done with it, also when the
   deadline passed or the call was cancelled once. *)
InputAsValidated == \A c \in Calls : rpc[c] # "cut" => read[c] \in {c, None} \/ LeftOn(c)

(* A connection that was started and closed in an orderly way has no session left on a
   Worker that runs, unless one of its calls was cut off (client.py:310). *)
ClosedSessionsGone ==
    \A x \in Sessions : conn[x] = "closed" /\ wclose = "open" =>
      reg[x] # "open" \/ \E c \in Calls : call[c].session = x /\ rpc[c] = "cut"

(* What both sides promise of the slots. *)
SlotsOwned == FilledOwn /\ ClaimsHeld /\ InputAsValidated /\ ClosedSessionsGone

(* A slot is returned "after the request has stopped accessing it" (client_buffers.py): the
   Worker never computes on an input that was overwritten. *)
InputNeverOverwritten == \A c \in Calls : read[c] \in {c, None}

(* close does "close the Worker mapping" (client.py): also that of a start that was cut
   short. *)
MappingsClosed ==
    \A x \in Sessions : conn[x] \in {"closed", "unstarted"} /\ wclose = "open" => reg[x] # "open"

(* Closing a connection ends, and so does closing the Worker, whatever calls
   are under way in the two processes. *)
ClosingOver == wclose \in {"open", "closed"} /\ \A x \in Sessions : conn[x] \notin {"closing", "asking"}
ClosingEnds == []<>ClosingOver
=============================================================================
