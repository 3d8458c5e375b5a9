--------------------------- MODULE BlockingClient ---------------------------
(***************************************************************************)
(* The blocking client (BlockingRoutedMoEClient of expertkit_transport/    *)
(* client.py) under the Torch frontend (RoutedMoEClient of expertkit_torch/*)
(* client.py): model threads call forward_layer, some thread closes, and a *)
(* loop thread runs the asynchronous client, which is module RoutedLayer.  *)
(*                                                                         *)
(* A step of a thread is a section under a lock, a submission to the loop  *)
(* or the end of a wait; a step of the loop starts or ends a task.         *)
(***************************************************************************)
EXTENDS Integers, FiniteSets

CONSTANTS
    Threads,      \* threads of the model, one call each
    Nobody,
    LoopBlocks,   \* may a call time out before the loop has begun its task?
    DeviceFails   \* may recording the input event fail?

BlockingAssumption ==
    IsFiniteSet(Threads) /\ Nobody \notin Threads /\ LoopBlocks \in BOOLEAN /\ DeviceFails \in BOOLEAN

VARIABLES
    lock,        \* the thread that has the frontend's lock while it starts
    shut,        \* the frontend's _closed
    transport,   \* its _transport: "none", or the state of the blocking client
    pc, outcome, \* the calling threads
    active,      \* _active: the calls that close waits for
    task,        \* the task of each call on the loop
    completed,   \* the threading.Event of each call
    loop,        \* the loop thread
    closer,      \* the thread that closes
    closeTask,   \* RoutedMoEClient.close on the loop
    waits        \* the completions close waits for

caller == <<pc, outcome>>
vars == <<lock, shut, transport, caller, active, task, completed, loop, closer, closeTask, waits>>

Goto(t, l) == pc' = [pc EXCEPT ![t] = l] /\ UNCHANGED outcome
Return(t, result) == pc' = [pc EXCEPT ![t] = "over"] /\ outcome' = [outcome EXCEPT ![t] = result]
-----------------------------------------------------------------------------
(* forward_layer *)

\* start, under the lock: closed, already started, or a transport is created.
Start(t) ==
    /\ pc[t] = "new" /\ lock = Nobody
    /\ IF shut THEN Return(t, "closed") /\ UNCHANGED <<lock, loop>>
       ELSE IF transport # "none" THEN Goto(t, "read") /\ UNCHANGED <<lock, loop>>
       ELSE Goto(t, "starting") /\ lock' = t /\ loop' = "running"
    /\ UNCHANGED <<shut, transport, active, task, completed, closer, closeTask, waits>>

\* The first topology arrives, or the transport is closed again.
Started(t) ==
    /\ pc[t] = "starting"
    /\ lock' = Nobody
    /\ \/ transport' = "open" /\ Goto(t, "read") /\ UNCHANGED loop
       \/ Return(t, "start failed") /\ loop' = "none" /\ UNCHANGED transport
    /\ UNCHANGED <<shut, active, task, completed, closer, closeTask, waits>>

\* The transport is read again, without the lock: `assert transport is not None`.
Read(t) ==
    /\ pc[t] = "read"
    /\ IF shut THEN Return(t, "assertion") ELSE Goto(t, "enter")
    /\ UNCHANGED <<lock, shut, transport, active, task, completed, loop, closer, closeTask, waits>>

(* BlockingRoutedMoEClient.execute, under its lock. *)
Enter(t) ==
    /\ pc[t] = "enter"
    /\ IF transport # "open" THEN Return(t, "closed") /\ UNCHANGED active
       ELSE active' = active \cup {t} /\ Goto(t, "submit")
    /\ UNCHANGED <<lock, shut, transport, task, completed, loop, closer, closeTask, waits>>

\* run_coroutine_threadsafe; the event before it is recorded outside the `try`.
Submit(t) ==
    /\ pc[t] = "submit"
    /\ \/ Goto(t, "wait") /\ task' = [task EXCEPT ![t] = "queued"]
       \/ DeviceFails /\ Return(t, "device") /\ UNCHANGED task
    /\ UNCHANGED <<lock, shut, transport, active, completed, loop, closer, closeTask, waits>>

(* The `finally` of execute. *)
Leave(t) == active' = active \ {t}

\* future.result returns what the task returned or raised.
Result(t) ==
    /\ pc[t] = "wait" /\ task[t] = "done"
    /\ Return(t, "result")
    /\ Leave(t)
    /\ UNCHANGED <<lock, shut, transport, task, completed, loop, closer, closeTask, waits>>

\* The timeout and future.cancel: a task that has not begun never runs its body.
Timeout(t) ==
    /\ pc[t] = "wait" /\ task[t] # "done"
    /\ task[t] = "queued" => LoopBlocks
    /\ Goto(t, "late")
    /\ task' = [task EXCEPT ![t] = IF @ = "queued" THEN "dropped" ELSE "cancelled"]
    /\ UNCHANGED <<lock, shut, transport, active, completed, loop, closer, closeTask, waits>>

\* completion.wait()
Late(t) ==
    /\ pc[t] = "late" /\ completed[t]
    /\ Return(t, "deadline")
    /\ Leave(t)
    /\ UNCHANGED <<lock, shut, transport, task, completed, loop, closer, closeTask, waits>>
-----------------------------------------------------------------------------
(* The loop *)

Begin(t) ==
    /\ loop = "running" /\ task[t] = "queued"
    /\ task' = [task EXCEPT ![t] = "running"]
    /\ UNCHANGED <<lock, shut, transport, caller, active, completed, loop, closer, closeTask, waits>>

(* The `finally` of _execute. *)
Completed(t) == completed' = [completed EXCEPT ![t] = TRUE]

End(t) ==
    /\ loop = "running" /\ task[t] \in {"running", "cancelled"}
    /\ task' = [task EXCEPT ![t] = "done"]
    /\ Completed(t)
    /\ UNCHANGED <<lock, shut, transport, caller, active, loop, closer, closeTask, waits>>

\* RoutedMoEClient.close closes every connection.
EndClose ==
    /\ loop = "running" /\ closeTask = "queued"
    /\ closeTask' = "done"
    /\ UNCHANGED <<lock, shut, transport, caller, active, task, completed, loop, closer, waits>>
-----------------------------------------------------------------------------
(* close of the frontend, then of the blocking client *)

Shut ==
    /\ closer = "none" /\ lock = Nobody
    /\ shut' = TRUE
    /\ closer' = IF transport = "none" THEN "over" ELSE "begin"
    /\ UNCHANGED <<lock, transport, caller, active, task, completed, loop, closeTask, waits>>

BeginClose ==
    /\ closer = "begin"
    /\ transport' = "closing"
    /\ closeTask' = "queued"
    /\ closer' = "ask"
    /\ UNCHANGED <<lock, shut, caller, active, task, completed, loop, waits>>

(* The calls that entered before the close, read under the lock. *)
Pending == active

Snapshot ==
    /\ closer = "ask" /\ closeTask = "done"
    /\ waits' = Pending
    /\ closer' = "drain"
    /\ UNCHANGED <<lock, shut, transport, caller, active, task, completed, loop, closeTask>>

Join ==
    /\ closer = "drain" /\ \A t \in waits : completed[t]
    /\ loop' = "stopped"
    /\ transport' = "closed"
    /\ closer' = "over"
    /\ UNCHANGED <<lock, shut, caller, active, task, completed, closeTask, waits>>
-----------------------------------------------------------------------------
Init ==
    /\ lock = Nobody /\ shut = FALSE /\ transport = "none"
    /\ pc = [t \in Threads |-> "new"] /\ outcome = [t \in Threads |-> "none"]
    /\ active = {} /\ task = [t \in Threads |-> "none"] /\ completed = [t \in Threads |-> FALSE]
    /\ loop = "none" /\ closer = "none" /\ closeTask = "none" /\ waits = {}

Caller(t) == Started(t) \/ Read(t) \/ Enter(t) \/ Submit(t) \/ Result(t) \/ Timeout(t) \/ Late(t)
Loop(t) == Begin(t) \/ End(t)
Closing == BeginClose \/ Snapshot \/ Join

Next == (\E t \in Threads : Start(t) \/ Caller(t) \/ Loop(t)) \/ EndClose \/ Shut \/ Closing

(* Threads and the loop run; layer calls end (RoutedLayer, CallsReturn). *)
Steps == (\E t \in Threads : Caller(t) \/ Loop(t)) \/ EndClose \/ Closing

Spec == Init /\ [][Next]_vars /\ WF_vars(Steps)
-----------------------------------------------------------------------------
(* Properties *)

(* The type invariant. *)
TypeOK ==
    /\ lock \in Threads \cup {Nobody} /\ shut \in BOOLEAN
    /\ transport \in {"none", "open", "closing", "closed"} /\ loop \in {"none", "running", "stopped"}
    /\ active \subseteq Threads /\ waits \subseteq Threads
    /\ \A t \in Threads : pc[t] = "over" /\ outcome[t] # "device" => t \notin active

(* The loop stops only when nobody waits for it any more: a call that entered
   before the close is not left behind, one that comes later is refused
   (client.py:326). *)
NobodyStranded == loop = "stopped" => \A t \in Threads :
    pc[t] # "submit" /\ task[t] \notin {"queued", "running", "cancelled"}

(* A call that was submitted returns or raises, timeouts included
   (client.py:308). *)
CallsOver == \A t \in Threads : pc[t] \notin {"wait", "late"}
CallsReturn == []<>CallsOver

(* close returns after it has joined the loop thread (client.py:319). *)
CloseOver == closer \in {"none", "over"}
CloseReturns == []<>CloseOver

(* The assertion of forward_layer after its start (expertkit_torch/client.py). *)
TransportAsserted == \A t \in Threads : outcome[t] # "assertion"
=============================================================================
