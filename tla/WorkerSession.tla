--------------------------- MODULE WorkerSession ---------------------------
(***************************************************************************)
(* One Worker process from build_worker_application to exit: the assembly  *)
(* of its components and the cleanup when a step of it raises (factory.py, *)
(* weights/factory.py), WorkerApplication (start, monitors, graceful       *)
(* shutdown, close), the ControllerSupervisor that registers and reopens   *)
(* the two control streams, and the HeartbeatSender.  The Controller is    *)
(* reduced to what its heartbeat handler keeps of this start.  The weight  *)
(* stream's own protocol is module WeightSync; here it opens, fails, and   *)
(* reports the completed shutdown drain.                                   *)
(***************************************************************************)
EXTENDS Integers, Sequences, SequencesExt

CONSTANTS
    MaxSeq,        \* bound: heartbeats of the process
    Faults,        \* a build or start step, a monitor, registration or a stream may fail
    CloseRaises    \* the components whose close may raise

SessionAssumption ==
    MaxSeq \in Nat /\ Faults \in BOOLEAN

VARIABLES
    phase,      \* "build", "start", "run", "announce", "drain", "close", "over"
    step,       \* build and start: how many components are done
    made,       \* the components that exist
    closed,     \* the components that were closed
    todo,       \* the closes still to do, grouped by the try block they are in
    requested,  \* WorkerApplication._shutdown_requested
    sup,        \* ControllerSupervisor.run: where it is
    closing,    \* ControllerSupervisor._closing and HeartbeatSender._closed
    retryNow,   \* ControllerSupervisor._retry_now
    channel,    \* the Controller channel: "none", "open", "closed"
    hb,         \* the heartbeat stream task
    ws,         \* the weight stream task
    beat,       \* HeartbeatSender: sequence, state, its revision, the wake event
    sent,       \* the running request iterator: its stream, the revision it sent last
    wire,       \* heartbeats on the channel that the Controller has not read
    ctl,        \* the Controller's record of this start: lease, sequence, state
    completed   \* the whole-Worker drain completion was handed to gRPC

app == <<phase, step, made, closed, todo, requested>>
streams == <<hb, ws, sent>>
control == <<sup, closing, retryNow, channel>>
vars == <<phase, step, made, closed, todo, requested, sup, closing, retryNow,
          channel, hb, ws, beat, sent, wire, ctl, completed>>

(* The order in which the process creates its components. *)
BuildOrder == <<"observability", "disk", "receiver", "execution",
                "transfer", "manager", "peer", "control">>
StartOrder == <<"observability", "transfer", "manager", "peer", "execution">>
Services == {"transfer", "manager", "peer"}

Init ==
    /\ phase = "build" /\ step = 0 /\ made = {} /\ closed = {} /\ todo = <<>>
    /\ requested = FALSE
    /\ sup = "idle" /\ closing = FALSE /\ retryNow = FALSE /\ channel = "none"
    /\ hb = "none" /\ ws = "none" /\ sent = [rev |-> 0, stream |-> 0]
    /\ beat = [seq |-> 0, down |-> FALSE, rev |-> 0, wake |-> FALSE]
    /\ wire = <<>>
    /\ ctl = [lease |-> 0, last |-> 0, down |-> FALSE]
    /\ completed = FALSE

-----------------------------------------------------------------------------
(* build_worker_application. *)

(* create_weight_services closes what it made and the disk cache, peer server
   first. *)
ServicesCleanup(m) ==
    SelectSeq(<<"peer", "manager", "transfer">>, LAMBDA c: c \in m) \o <<"disk">>

(* WeightServices.close: a later step of the build failed. *)
ServicesClose == <<"peer", "manager", "transfer", "disk">>

(* The except block of build_worker_application. *)
BuildCleanup(m) ==
    (IF "execution" \in m THEN <<"execution">>
     ELSE IF "receiver" \in m THEN <<"receiver">> ELSE <<>>)
    \o (IF "peer" \in m THEN ServicesClose
        ELSE IF "disk" \in m THEN <<"disk">> ELSE <<>>)
    \o <<"observability">>

(* The components are created one after the other. *)
Build ==
    /\ phase = "build" /\ step < Len(BuildOrder)
    /\ made' = made \union {BuildOrder[step + 1]}
    /\ IF step + 1 = Len(BuildOrder)
       THEN phase' = "start" /\ step' = 0
       ELSE phase' = phase /\ step' = step + 1
    /\ UNCHANGED <<closed, todo, requested, control, streams, beat, wire, ctl, completed>>

(* Creating the next component raises, or what is computed before it does; before
   the observability runtime exists (Instance resolution, device) there is nothing
   to clean up.  A disk cache whose probe fails is closed
   by create_weight_disk_cache, which never returns it. *)
BuildFails ==
    LET next == BuildOrder[step + 1] IN
    /\ phase = "build" /\ Faults
    /\ phase' = "close"
    /\ todo' = IF step = 0 THEN <<>>
               ELSE IF next \in Services
               THEN <<ServicesCleanup(made), BuildCleanup(made \ Services)>>
               ELSE <<BuildCleanup(made)>>
    /\ UNCHANGED <<step, made, closed, requested, control, streams, beat, wire, ctl,
                   completed>>

-----------------------------------------------------------------------------
(* WorkerApplication. *)

(* Variant: the Weight Manager is closed before execution. *)
CloseSwapped ==
    <<<<"control", "channel", "peer", "manager", "execution", "transfer", "disk",
        "monitors">>, <<"observability">>>>

(* _close: everything in dependency order; the finally clause closes the
   observability runtime whatever happened before it. *)
CloseOrder ==
    <<<<"control", "channel", "execution", "peer", "manager", "transfer", "disk",
        "monitors">>, <<"observability">>>>

CloseAll ==
    /\ phase' = "close" /\ todo' = CloseOrder
    /\ UNCHANGED <<step, made, closed, requested>>

(* A signal handler calls request_shutdown. *)
RequestShutdown ==
    /\ ~requested /\ phase \in {"start", "run"}
    /\ requested' = TRUE
    /\ UNCHANGED <<phase, step, made, closed, todo, control, streams, beat, wire, ctl,
                   completed>>

(* _start: the components, then the three monitor tasks. *)
Start ==
    /\ phase = "start"
    /\ IF step < Len(StartOrder)
       THEN step' = step + 1 /\ UNCHANGED <<phase, sup>>
       ELSE phase' = "run" /\ sup' = "run" /\ step' = step
    /\ UNCHANGED <<made, closed, todo, requested, closing, retryNow, channel, streams, beat,
                   wire, ctl, completed>>

StartFails ==
    /\ phase = "start" /\ step < Len(StartOrder) /\ Faults
    /\ CloseAll
    /\ UNCHANGED <<control, streams, beat, wire, ctl, completed>>

(* _raise_monitor_result: the supervisor is over, or (external to this module)
   execution stopped or the Weight Manager reported a fatal error. *)
MonitorEnds ==
    /\ phase \in {"run", "drain"}
    /\ sup = "over" \/ Faults
    /\ CloseAll
    /\ UNCHANGED <<control, streams, beat, wire, ctl, completed>>

(* _graceful_shutdown calls begin_shutdown: the heartbeat state changes first
   (set_shutting_down), and the Weight Manager is awaited. *)
BeginShutdown ==
    /\ phase = "run" /\ requested /\ sup # "over"
    /\ phase' = "announce"
    /\ beat' = [beat EXCEPT !.down = TRUE, !.rev = @ + 1, !.wake = TRUE]
    /\ UNCHANGED <<step, made, closed, todo, requested, control, streams, wire, ctl,
                   completed>>

ShutdownBegun ==
    /\ phase = "announce"
    /\ phase' = "drain" /\ retryNow' = TRUE
    /\ UNCHANGED <<step, made, closed, todo, requested, sup, closing, channel, streams, beat,
                   wire, ctl, completed>>

(* Variant: no deadline. *)
ShutdownWaits ==
    /\ phase = "drain" /\ completed
    /\ CloseAll
    /\ UNCHANGED <<control, streams, beat, wire, ctl, completed>>

(* The completion was sent, or the fixed deadline expired: WorkerShutdownTimeout. *)
ShutdownOver ==
    /\ phase = "drain"
    /\ CloseAll
    /\ UNCHANGED <<control, streams, beat, wire, ctl, completed>>

-----------------------------------------------------------------------------
(* The closes, in the order of todo. *)

(* ControllerSupervisor.close up to the channel: no reconnect, the request
   iterator ends, the weight session drops its drains. *)
CloseControl ==
    /\ closing' = TRUE /\ retryNow' = TRUE /\ beat' = [beat EXCEPT !.wake = TRUE]
    /\ UNCHANGED <<sup, channel, streams>>

(* ControllerConnection.close: calls on the channel end with CancelledError. *)
CloseChannel ==
    /\ channel' = "closed"
    /\ hb' = IF hb \in {"yield", "sleep"} THEN "failed" ELSE hb
    /\ ws' = IF ws = "open" THEN "failed" ELSE ws
    /\ UNCHANGED <<sup, closing, retryNow, beat, sent>>

(* The monitors are cancelled and awaited. *)
CancelMonitors ==
    /\ sup' = "over" /\ hb' = "none" /\ ws' = "none"
    /\ UNCHANGED <<closing, retryNow, channel, beat, sent>>

Close ==
    /\ phase = "close" /\ todo # <<>> /\ todo[1] # <<>>
    /\ LET c == todo[1][1] IN
       /\ todo' = [todo EXCEPT ![1] = Tail(@)]
       /\ closed' = closed \union ({c} \cap made)
                    \union (IF c = "execution" THEN {"receiver"} ELSE {})
       /\ CASE c = "control" -> CloseControl
            [] c = "channel" -> CloseChannel
            [] c = "monitors" -> CancelMonitors
            [] OTHER -> UNCHANGED <<control, streams, beat>>
    /\ UNCHANGED <<phase, step, made, requested, wire, ctl, completed>>

(* A close raises: the rest of its try block is skipped. *)
CloseFails ==
    /\ phase = "close" /\ todo # <<>> /\ todo[1] # <<>>
    /\ todo[1][1] \in CloseRaises
    /\ todo' = Tail(todo)
    /\ closed' = closed \union {todo[1][1]}
    /\ UNCHANGED <<phase, step, made, requested, control, streams, beat, wire, ctl, completed>>

CloseEnds ==
    /\ phase = "close"
    /\ IF todo = <<>> THEN phase' = "over" /\ todo' = todo
       ELSE todo[1] = <<>> /\ todo' = Tail(todo) /\ phase' = phase
    /\ UNCHANGED <<step, made, closed, requested, control, streams, beat, wire, ctl, completed>>

-----------------------------------------------------------------------------
(* ControllerSupervisor.run and _run_streams_once. *)

(* The loop head: ControllerConnection.start (first time) and register. *)
Register ==
    /\ sup = "run"
    /\ sup' = IF closing \/ channel = "closed" THEN "over" ELSE "register"
    /\ channel' = IF closing \/ channel = "closed" THEN channel ELSE "open"
    /\ UNCHANGED <<app, closing, retryNow, streams, beat, wire, ctl, completed>>

(* HeartbeatSender.run_once: a new request iterator continues the sequence. *)
NewIterator(b) == b

(* HeartbeatSender._requests: the loop head up to the yield. *)
Yield(b, stream) ==
    /\ b.seq < MaxSeq
    /\ beat' = [b EXCEPT !.seq = @ + 1]
    /\ sent' = [rev |-> b.rev, stream |-> stream]
    /\ wire' = Append(wire, [seq |-> b.seq + 1, down |-> b.down, stream |-> stream])
    /\ hb' = "yield"

(* Registered: both stream tasks are created.  A closed HeartbeatSender or channel
   makes run_once raise, which is not retried. *)
Registered ==
    /\ sup = "register"
    /\ IF closing \/ channel = "closed"
       THEN sup' = "over" /\ UNCHANGED <<streams, beat, wire>>
       ELSE /\ sup' = "streams" /\ ws' = "open"
            /\ Yield(NewIterator(beat), sent.stream + 1)
    /\ UNCHANGED <<app, closing, retryNow, channel, ctl, completed>>

(* RegisterWorker fails with a retryable code, or with another one. *)
RegisterFails ==
    /\ sup = "register" /\ Faults
    /\ sup' \in IF closing THEN {"over"} ELSE {"wait", "over"}
    /\ UNCHANGED <<app, closing, retryNow, channel, streams, beat, wire, ctl, completed>>

(* One of the stream tasks ends: with a retryable code, another one, or because
   the Controller closed the stream. *)
StreamFails ==
    /\ sup = "streams" /\ Faults
    /\ \/ hb \in {"yield", "sleep"} /\ hb' \in {"failed", "fatal"} /\ ws' = ws
       \/ ws = "open" /\ ws' \in {"failed", "fatal"} /\ hb' = hb
    /\ UNCHANGED <<app, control, beat, sent, wire, ctl, completed>>

(* The wait returns: the done tasks are awaited in any order, the first error is
   raised, and both tasks are cancelled.  What the cancelled stream had not put
   on the connection is lost. *)
StreamsOver ==
    /\ sup = "streams"
    /\ {hb, ws} \cap {"ended", "failed", "fatal", "refused"} # {}
    /\ sup' \in IF closing \/ channel = "closed" THEN {"over"}
                ELSE IF {hb, ws} \cap {"ended", "failed"} = {} THEN {"over"}
                ELSE IF {hb, ws} \cap {"fatal", "refused"} = {} THEN {"wait"}
                ELSE {"wait", "over"}
    /\ hb' = "none" /\ ws' = "none"
    /\ \E n \in 0 .. Len(wire) : wire' = SubSeq(wire, 1, n)
    /\ UNCHANGED <<app, closing, retryNow, channel, sent, beat, ctl, completed>>

(* _wait_before_retry: the event is cleared, and closing is looked at, before the
   wait; the delay ends it. *)
Wait ==
    /\ sup = "wait"
    /\ retryNow' = FALSE
    /\ sup' = IF closing THEN "run" ELSE "delay"
    /\ UNCHANGED <<app, closing, channel, streams, beat, wire, ctl, completed>>

WaitEnds ==
    /\ sup = "delay"
    /\ sup' = "run"
    /\ UNCHANGED <<app, closing, retryNow, channel, streams, beat, wire, ctl, completed>>

-----------------------------------------------------------------------------
(* Variant: the revision is not looked at again. *)
ResumeBlind ==
    /\ hb = "yield"
    /\ IF closing
       THEN hb' = "ended" /\ UNCHANGED <<beat, sent, wire>>
       ELSE hb' = "sleep" /\ beat' = [beat EXCEPT !.wake = FALSE] /\ UNCHANGED <<sent, wire>>
    /\ UNCHANGED <<app, control, ws, ctl, completed>>

(* HeartbeatSender._requests after gRPC took the message. *)

Resume ==
    /\ hb = "yield"
    /\ IF closing
       THEN hb' = "ended" /\ UNCHANGED <<beat, sent, wire>>
       ELSE IF beat.rev # sent.rev
       THEN Yield(beat, sent.stream)
       ELSE hb' = "sleep" /\ beat' = [beat EXCEPT !.wake = FALSE] /\ UNCHANGED <<sent, wire>>
    /\ UNCHANGED <<app, control, ws, ctl, completed>>

(* The wait for the wake event ends, or the heartbeat interval does. *)
Wake ==
    /\ hb = "sleep"
    /\ IF closing
       THEN hb' = "ended" /\ UNCHANGED <<beat, sent, wire>>
       ELSE Yield(beat, sent.stream)
    /\ UNCHANGED <<app, control, ws, ctl, completed>>

-----------------------------------------------------------------------------
(* The Controller. *)

(* ControllerState::open_heartbeat and heartbeat: the first message of a stream
   takes the lease; a sequence that does not advance, an older lease or a return
   to RUNNING is refused. *)
Receive(c, m) ==
    LET lease == IF m.stream > c.lease THEN m.stream ELSE c.lease
        refused == \/ m.stream # lease
                   \/ m.seq <= c.last
                   \/ c.down /\ ~m.down
    IN  IF refused THEN [c EXCEPT !.lease = lease]
        ELSE [lease |-> lease, last |-> m.seq, down |-> m.down]

(* A refusal (FAILED_PRECONDITION) ends the stream that sent the message. *)
Deliver ==
    /\ wire # <<>>
    /\ LET m == Head(wire) IN
       /\ ctl' = Receive(ctl, m)
       /\ hb' = IF /\ ctl'.last # m.seq /\ m.stream = sent.stream
                   /\ hb \in {"yield", "sleep"}
                THEN "refused" ELSE hb
    /\ wire' = Tail(wire)
    /\ UNCHANGED <<app, control, ws, beat, sent, completed>>

(* The Controller, knowing of the shutdown, authorised the drain of the whole
   Worker, and its completion went to gRPC (module WeightSync). *)
Complete ==
    /\ phase = "drain" /\ ws = "open" /\ ctl.down /\ ~completed
    /\ completed' = TRUE
    /\ UNCHANGED <<app, control, streams, beat, wire, ctl>>

Done == phase = "over" /\ UNCHANGED vars

AppStep == Build \/ Start \/ BeginShutdown \/ ShutdownBegun \/ ShutdownOver \/ Close
           \/ CloseEnds
Next ==
    \/ AppStep \/ BuildFails \/ RequestShutdown \/ StartFails \/ MonitorEnds \/ CloseFails
    \/ Register \/ Registered \/ RegisterFails \/ StreamFails \/ StreamsOver \/ Wait \/ WaitEnds
    \/ Resume \/ Wake \/ Deliver \/ Complete \/ Done

Spec == Init /\ [][Next]_vars

(* The event loop runs a step that can run, the deadline of a shutdown comes, and
   a close that is awaited returns or raises. *)
Steps == AppStep \/ (sup = "over" /\ MonitorEnds)

FairSpec == Spec /\ WF_vars(Steps)

-----------------------------------------------------------------------------
Components == Range(BuildOrder)

TypeOK ==
    /\ phase \in {"build", "start", "run", "announce", "drain", "close", "over"}
    /\ step \in 0 .. Len(BuildOrder)
    /\ made \subseteq Components /\ closed \subseteq made
    /\ {requested, closing, retryNow, completed} \subseteq BOOLEAN
    /\ sup \in {"idle", "run", "register", "streams", "wait", "delay", "over"}
    /\ channel \in {"none", "open", "closed"}
    /\ hb \in {"none", "yield", "sleep", "ended", "failed", "fatal", "refused"}
    /\ ws \in {"none", "open", "failed", "fatal"}
    /\ beat \in [seq : 0 .. MaxSeq, down : BOOLEAN, rev : 0 .. 1, wake : BOOLEAN]
    /\ sent \in [rev : 0 .. 1, stream : 0 .. MaxSeq]
    /\ ctl \in [lease : 0 .. MaxSeq, last : 0 .. MaxSeq, down : BOOLEAN]

(* The heartbeat stream never sleeps on news: while it waits for its interval with
   no wake-up pending, the state it sent last is the Worker's state, so that
   begin_shutdown's "Notify Controller immediately" holds however the change falls
   between a yield and the wait (HeartbeatSender._requests). *)
NewsNotSlept == hb = "sleep" /\ ~beat.wake => sent.rev = beat.rev

(* A Worker never has two sessions: when it registers again or waits to retry, no
   stream task of the session before is alive (_run_streams_once cancels and
   awaits both), and a process that is over left neither stream nor supervisor
   behind. *)
OneSession ==
    /\ sup # "streams" => hb = "none" /\ ws = "none"
    /\ phase = "over" => sup \in {"idle", "over"}

(* The Controller refuses no heartbeat of the stream that is open: across
   reconnects, and whatever was lost of the streams before, the sequence goes on
   and the state only changes to SHUTTING_DOWN.  A refusal is not retried and would
   end the process. *)
HeartbeatsAccepted == hb # "refused"

(* What a component uses. *)
Uses == {<<"execution", "manager">>, <<"peer", "manager">>, <<"control", "manager">>,
         <<"control", "receiver">>, <<"manager", "transfer">>, <<"manager", "disk">>,
         <<"execution", "observability">>}

(* In an application that was built, a component is closed only after those that
   use it, on every path: a start that raises, a fatal monitor, a finished or
   expired shutdown, a close that raises. *)
ClosedInOrder ==
    "control" \in made => \A u \in Uses : u[1] \in made /\ u[2] \in closed => u[1] \in closed

(* "Close every initialized component once in dependency order." (app.py:145): a
   process that is over closed every component it made. *)
AllClosed == phase = "over" => closed = made

(* A requested shutdown ends the process, whatever the Controller does: the
   deadline of begin_shutdown is fixed and nothing the supervisor awaits outlives
   the close of the channel. *)
ProcessOver == requested => phase = "over"
ShutdownEnds == []<>ProcessOver
=============================================================================
