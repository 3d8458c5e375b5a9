----------------------------- MODULE GrpcClient -----------------------------
(***************************************************************************)
(* One gRPC connection of the client (transports/grpc/client.py) with its  *)
(* fixed transfer buffers (client_buffers.py): the calls of execute, their *)
(* cancellation, and close.                                                *)
(*                                                                         *)
(* The calls and the close task run on one asyncio loop, an action is the  *)
(* code between two awaits; the pool's threads encode a request into a     *)
(* buffer and decode a response out of it (`thread`). What grpc.aio does   *)
(* is external: a channel that closes raises CancelledError in the tasks   *)
(* that await its calls, and a call begun on a closed channel raises       *)
(* UsageError.                                                             *)
(***************************************************************************)
EXTENDS Integers, FiniteSets

CONSTANTS
    Calls,       \* calls of execute
    Buffers,     \* max_in_flight transfer buffers
    NoBuffer,
    Timed,       \* the calls with a finite deadline
    MaxCancels,  \* bound: how often the task of one call is cancelled
    Closes       \* is the connection closed (retired) while calls run?

ClientAssumption ==
    /\ IsFiniteSet(Calls) /\ IsFiniteSet(Buffers) /\ Buffers # {}
    /\ NoBuffer \notin Buffers /\ Timed \subseteq Calls /\ MaxCancels \in Nat /\ Closes \in BOOLEAN

VARIABLES
    call,     \* the task of each call
    thread,   \* what the pool does for it: "idle", "encode" or "decode"
    permits,  \* _semaphore
    free,     \* GrpcTransferBufferPool._available
    close     \* _close: "open", "channel", "gather", "closed" or "failed"

vars == <<call, thread, permits, free, close>>

NewCall == [pc |-> "new", buffer |-> NoBuffer, cancel |-> FALSE, cancels |-> 0, outcome |-> "none"]

Active == {c \in Calls : call[c].pc \notin {"new", "over"}}
Closing == close # "open"
ChannelClosed == close \notin {"open", "channel"}

(* _rpc_error: what the statuses a Worker or the channel answers become. *)
RpcErrors == {"busy", "deadline", "cancelled_rpc", "unavailable", "unsupported", "protocol"}

(* TransportError: what execute may raise by its contract. *)
TransportErrors == RpcErrors \cup {"invalid", "closing"}

-----------------------------------------------------------------------------
\* The call leaves execute before it has a buffer.
Refuse(c, outcome) ==
    /\ call' = [call EXCEPT ![c].pc = "over", ![c].outcome = outcome]
    /\ UNCHANGED <<permits, free>>

(* The `finally` of execute: the buffer, then the permit. *)
Return(c, outcome) ==
    /\ call' = [call EXCEPT ![c].pc = "over", ![c].outcome = outcome]
    /\ permits' = permits + 1
    /\ free' = free \cup {call[c].buffer}

\* execute, up to the semaphore.
Execute(c) ==
    /\ call[c].pc = "new"
    /\ \/ Closing /\ Refuse(c, "closing")
       \/ ~Closing /\ c \in Timed /\ Refuse(c, "deadline")
       \/ /\ ~Closing
          /\ call' = [call EXCEPT ![c].pc = "permit"]
          /\ UNCHANGED <<permits, free>>
    /\ UNCHANGED <<thread, close>>

\* _acquire: the deadline passes, or a permit and a buffer are taken.
Acquire(c) ==
    /\ call[c].pc = "permit"
    /\ ~call[c].cancel
    /\ \/ c \in Timed /\ Refuse(c, "deadline") /\ UNCHANGED thread
       \/ /\ permits > 0 /\ Closing
          /\ Refuse(c, "closing")
          /\ UNCHANGED thread
       \/ /\ permits > 0 /\ ~Closing
          /\ \E b \in free :
               /\ call' = [call EXCEPT ![c].pc = "encode", ![c].buffer = b]
               /\ free' = free \ {b}
          /\ permits' = permits - 1
          /\ thread' = [thread EXCEPT ![c] = "encode"]
    /\ UNCHANGED close

\* A thread of the pool is done with the buffer and the caller's tensors.
ThreadDone(c) ==
    /\ thread[c] # "idle"
    /\ thread' = [thread EXCEPT ![c] = "idle"]
    /\ UNCHANGED <<call, permits, free, close>>

\* The request is encoded: the call starts, unless the batch does not fit the
\* endpoint or the deadline has passed.
Send(c) ==
    /\ call[c].pc = "encode"
    /\ thread[c] = "idle" /\ ~call[c].cancel
    /\ \/ Return(c, "invalid")
       \/ c \in Timed /\ Return(c, "deadline")
       \/ ChannelClosed /\ Return(c, "usage")
       \/ /\ ~ChannelClosed
          /\ call' = [call EXCEPT ![c].pc = "rpc"]
          /\ UNCHANGED <<permits, free>>
    /\ UNCHANGED <<thread, close>>

\* The Worker answers or the call fails.
Answer(c) ==
    /\ call[c].pc = "rpc"
    /\ ~call[c].cancel /\ ~ChannelClosed
    /\ \/ /\ \E e \in RpcErrors : Return(c, e)
          /\ UNCHANGED thread
       \/ /\ call' = [call EXCEPT ![c].pc = "decode"]
          /\ thread' = [thread EXCEPT ![c] = "decode"]
          /\ UNCHANGED <<permits, free>>
    /\ UNCHANGED close

\* External: CancelledError from a call whose channel was closed.
Lose(c) ==
    /\ call[c].pc = "rpc"
    /\ ChannelClosed
    /\ Return(c, "lost")
    /\ UNCHANGED <<thread, close>>

\* _decode_into_output has filled the caller's tensor or refused the response.
Fill(c) ==
    /\ call[c].pc = "decode"
    /\ thread[c] = "idle" /\ ~call[c].cancel
    /\ \E outcome \in {"filled", "protocol"} : Return(c, outcome)
    /\ UNCHANGED <<thread, close>>

-----------------------------------------------------------------------------
(* Cancellation of the task that executes *)

Cancel(c) ==
    /\ c \in Active
    /\ ~call[c].cancel
    /\ call[c].cancels < MaxCancels
    /\ call' = [call EXCEPT ![c].cancel = TRUE, ![c].cancels = @ + 1]
    /\ UNCHANGED <<thread, permits, free, close>>

\* Faulty variant: the call does not wait for the thread.
CancelledAtOnce(c) ==
    /\ call[c].cancel
    /\ IF call[c].pc = "permit" THEN Refuse(c, "cancelled") ELSE Return(c, "cancelled")

(* CancelledError arrives. At the pool, _run_cpu goes on to wait for the thread
   (pc "drain"), where a second cancellation ends the call. *)
CancelledError(c) ==
    /\ call[c].cancel
    /\ \/ call[c].pc = "permit" /\ Refuse(c, "cancelled")
       \/ call[c].pc \in {"rpc", "drain"} /\ Return(c, "cancelled")
       \/ /\ call[c].pc \in {"encode", "decode"}
          /\ call' = [call EXCEPT ![c].pc = "drain", ![c].cancel = FALSE]
          /\ UNCHANGED <<permits, free>>

Drained(c) ==
    /\ call[c].pc = "drain"
    /\ thread[c] = "idle" /\ ~call[c].cancel
    /\ Return(c, "cancelled")
    /\ UNCHANGED <<thread, close>>

-----------------------------------------------------------------------------
(* _close *)

BeginClose ==
    /\ Closes
    /\ close = "open"
    /\ close' = "channel"
    /\ UNCHANGED <<call, thread, permits, free>>

CloseChannel ==
    /\ close = "channel"
    /\ close' = "gather"
    /\ UNCHANGED <<call, thread, permits, free>>

\* The calls have ended, and so have the threads; buffers in use cannot be closed.
CloseBuffers ==
    /\ close = "gather"
    /\ Active = {}
    /\ \A c \in Calls : thread[c] = "idle"
    /\ close' = IF free = Buffers THEN "closed" ELSE "failed"
    /\ UNCHANGED <<call, thread, permits, free>>

Init ==
    /\ call = [c \in Calls |-> NewCall]
    /\ thread = [c \in Calls |-> "idle"]
    /\ permits = Cardinality(Buffers)
    /\ free = Buffers
    /\ close = "open"

Step(c) ==
    \/ Acquire(c) \/ Send(c) \/ Lose(c) \/ Fill(c) \/ Drained(c)
    \/ CancelledError(c) /\ UNCHANGED <<thread, close>>

Next ==
    \/ \E c \in Calls : Execute(c) \/ Step(c) \/ Answer(c) \/ ThreadDone(c) \/ Cancel(c)
    \/ BeginClose \/ CloseChannel \/ CloseBuffers

(* The loop and the pool go on. A Worker need not answer: only a call with a
   deadline is sure to end without close, so Answer is not fair. *)
Steps == (\E c \in Calls : Step(c) \/ ThreadDone(c)) \/ CloseChannel \/ CloseBuffers

Spec == Init /\ [][Next]_vars /\ WF_vars(Steps)

-----------------------------------------------------------------------------
(* Properties *)

(* The type invariant. *)
TypeOK ==
    /\ \A c \in Calls :
         /\ call[c].pc \in {"new", "permit", "encode", "rpc", "decode", "drain", "over"}
         /\ call[c].buffer \in Buffers \cup {NoBuffer}
    /\ thread \in [Calls -> {"idle", "encode", "decode"}]
    /\ permits \in 0 .. Cardinality(Buffers)
    /\ free \in SUBSET Buffers
    /\ close \in {"open", "channel", "gather", "closed", "failed"}

(* A call that has ended no longer accesses its caller's tensors or the buffer
   it gave back, cancelled or not (client_buffers.py:92): no thread of the pool
   still works for it, so two calls never share a buffer. *)
ReturnedUnused == \A c \in Calls : call[c].pc = "over" => thread[c] = "idle"

(* There is a buffer for every permit ("admission and transfer buffers
   diverged", client_buffers.py:89), and close finds all buffers returned. *)
BuffersMatchPermits == permits = Cardinality(free) /\ close # "failed"

(* What execute and close promise of the buffers, as long as no call is cancelled while
   it already waits for its thread. *)
BuffersReturned == ReturnedUnused /\ BuffersMatchPermits

(* execute fills the caller's tensor or raises a Transport error
   (transports/base.py:39), unless its own task was cancelled. *)
FillsOrTransportError ==
    \A c \in Calls : call[c].pc = "over" =>
        \/ call[c].outcome \in {"filled"} \cup TransportErrors
        \/ call[c].outcome = "cancelled" /\ call[c].cancels > 0

(* close ends although a Worker never answers: it cancels the calls under way
   and waits for the threads (client.py:296). *)
CloseOver == close \in {"open", "closed"}
CloseEnds == []<>CloseOver
=============================================================================
