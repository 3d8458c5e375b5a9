----------------------------- MODULE MCBatches ------------------------------
(* The way of a batch for TLC: scenarios of the transports (GrpcClient,        *)
(* ShmTransport, TransportData) and of WorkerExecution. A behaviour is one     *)
(* scenario, chosen at the start; the components that do not run stay in their *)
(* initial state.                                                              *)
EXTENDS Naturals

CONSTANT Scenarios   \* the scenarios to check

VARIABLES
    part,                                             \* the scenario
    call, thread, permits, free, close,               \* GrpcClient
    conn, available, memory, task, shmCall, reg, lock, claim, last, item, read, abandoned,
    wclose,                                           \* ShmTransport
    config, wire, got,                                \* TransportData
    rpc, cancel, answer, response, entry, dropped, waiting, admitted, gates,
    stopAll, drains, drain, slot, fatal, rclose, eclose   \* WorkerExecution

\* More calls than buffers; the connection is closed under them.
Grpc == INSTANCE GrpcClient WITH
    Calls <- {"c1", "c2", "c3"}, Buffers <- {"b1", "b2"}, NoBuffer <- "none", Timed <- {"c1"},
    MaxCancels <- 1, Closes <- TRUE

\* Two clients of a Worker that admits one session; starts and calls are cancelled.
Clients == INSTANCE ShmTransport WITH
    Sessions <- {"x1", "x2"}, Slots <- {"b1"}, Calls <- {"c1"}, None <- "none",
    Mixed <- "mixed", MaxSessions <- 1, Failures <- FALSE, free <- available, call <- task,
    rpc <- shmCall, dropped <- abandoned

\* One client that gives up calls and cancels them again, loses answers and reuses its slot.
Failing == INSTANCE ShmTransport WITH
    Sessions <- {"x1"}, Slots <- {"b1"}, Calls <- {"c1", "c2"}, None <- "none",
    Mixed <- "mixed", MaxSessions <- 1, Failures <- TRUE, free <- available, call <- task,
    rpc <- shmCall, dropped <- abandoned

Config(tokens, hidden, top_k, element, experts) ==
    [tokens |-> tokens, hidden |-> hidden, top_k |-> top_k, element |-> element,
     experts |-> experts]

\* Both sides of the boundaries of the encoding and of the layout: Tensors of 127 to
\* 129 bytes and around 16384 bytes, experts around 128.
Configs ==
    {Config(t, h, 2, 2, e) : t \in {1, 2}, h \in {1, 63, 64, 65}, e \in {2, 128, 129}}
    \cup {Config(1, 32, 1, 4, 129), Config(64, 64, 2, 4, 256), Config(65, 63, 8, 4, 256)}

Data == INSTANCE TransportData WITH
    Slots <- {1, 3}, Margin <- 256, MaxDiagnostic <- 1024, ControlBytes <- 4096,
    CacheLine <- 64, Page <- 4096

\* Two calls for one slot, while an expert drains.
Drains == INSTANCE WorkerExecution WITH
    None <- "none", Requests <- {"r1", "r2"}, Malformed <- {}, Slots <- {"s1"},
    Experts <- {"e1", "e2"}, ExpertsOf <- [r1 |-> {"e1", "e2"}, r2 |-> {"e2"}],
    Drained <- {"e1"}, MaxPending <- 1, MaxDrains <- 1, BackendFails <- TRUE

\* Two slots, one of which may fail under the other.
Two == INSTANCE WorkerExecution WITH
    None <- "none", Requests <- {"r1", "r2"}, Malformed <- {}, Slots <- {"s1", "s2"},
    Experts <- {"e1", "e2"}, ExpertsOf <- [r1 |-> {"e1", "e2"}, r2 |-> {"e2"}],
    Drained <- {"e1"}, MaxPending <- 1, MaxDrains <- 0, BackendFails <- TRUE

\* More calls than the queue takes, one of them malformed.
Busy == INSTANCE WorkerExecution WITH
    None <- "none", Requests <- {"r1", "r2", "r3"}, Malformed <- {"r3"}, Slots <- {"s1"},
    Experts <- {"e1", "e2"}, ExpertsOf <- [r1 |-> {"e1"}, r2 |-> {"e1"}, r3 |-> {"e1"}],
    Drained <- {"e1"}, MaxPending <- 1, MaxDrains <- 0, BackendFails <- FALSE

ASSUME Grpc!ClientAssumption /\ Clients!ShmAssumption /\ Failing!ShmAssumption
ASSUME Data!TransportAssumption
ASSUME Drains!ExecutionAssumption /\ Two!ExecutionAssumption /\ Busy!ExecutionAssumption

grpc == <<call, thread, permits, free, close>>
shm == <<conn, available, memory, task, shmCall, reg, lock, claim, last, item, read, abandoned,
         wclose>>
data == <<config, wire, got>>
execution == <<rpc, cancel, answer, response, entry, dropped, waiting, admitted, gates,
               stopAll, drains, drain, slot, fatal, rclose, eclose>>
vars == <<part, grpc, shm, data, execution>>

Init ==
    /\ part \in Scenarios
    /\ Grpc!Init
    /\ IF part = "failing" THEN Failing!Init ELSE Clients!Init
    /\ Data!Init /\ (part # "data" => config = Config(1, 32, 1, 4, 129))
    /\ CASE part = "slots" -> Two!Init [] part = "busy" -> Busy!Init [] OTHER -> Drains!Init

Next ==
    /\ UNCHANGED part
    /\ \/ part = "grpc" /\ Grpc!Next /\ UNCHANGED <<shm, data, execution>>
       \/ part = "clients" /\ Clients!Next /\ UNCHANGED <<grpc, data, execution>>
       \/ part = "failing" /\ Failing!Next /\ UNCHANGED <<grpc, data, execution>>
       \/ part = "data" /\ Data!Next /\ UNCHANGED <<grpc, shm, execution>>
       \/ part = "drains" /\ Drains!Next /\ UNCHANGED <<grpc, shm, data>>
       \/ part = "slots" /\ Two!Next /\ UNCHANGED <<grpc, shm, data>>
       \/ part = "busy" /\ Busy!Next /\ UNCHANGED <<grpc, shm, data>>

(* The fairness of the components, for the scenarios whose progress is checked. *)
Spec ==
    /\ Init /\ [][Next]_vars
    /\ WF_grpc(part = "grpc" /\ Grpc!Steps)
    /\ WF_shm(part = "failing" /\ Failing!Steps)
    /\ WF_execution(part = "drains" /\ Drains!Steps)
    /\ WF_execution(part = "slots" /\ Two!Steps)
-----------------------------------------------------------------------------
(* grpc/client.py, client_buffers.py: no thread works for a call that has ended, so that no
   two calls share a buffer, and there is a buffer for every permit. *)
BuffersReturned == part = "grpc" => Grpc!TypeOK /\ Grpc!BuffersReturned

(* shm/: a call is filled with what was computed from its own input although slots are
   reused after failed and cancelled calls; every batch of the Worker has the claim on its
   slot and every claim is that of a batch; a Worker computes on the input it validated
   unless its caller's end was cut off; and a connection that was started and closed leaves
   no session behind unless it had such a call. *)
SlotsOwned ==
    /\ part = "failing" => Failing!TypeOK /\ Failing!SlotsOwned
    /\ part = "clients" => Clients!TypeOK /\ Clients!SlotsOwned

(* grpc/spec.py, codec.py, shm/memory.py: no message is over the limit of its direction,
   every rejection is decoded, no two Tensors of a segment share a byte, and both sides of
   a session find every Tensor at the same place. *)
SidesAgree ==
    part = "data" => /\ Data!TypeOK /\ Data!MessagesFit /\ Data!RejectionsArrive
                     /\ Data!TensorsApart /\ Data!LayoutsAgree

(* queue.py: the use count of an expert is the number of batches that name it, a taken
   batch is finished exactly once, and once wait_idle returned no batch uses a drained
   expert. *)
UseCountsExact ==
    /\ part = "drains" => /\ Drains!TypeOK /\ Drains!UseCountsExact
                          /\ Drains!ActiveHeld /\ Drains!DrainedUnused
    /\ part = "slots" => Two!TypeOK /\ Two!UseCountsExact /\ Two!ActiveHeld
    /\ part = "busy" => Busy!TypeOK /\ Busy!UseCountsExact /\ Busy!ActiveHeld

(* slot.py: a caller that is sent an output is sent that of its own batch, and the slots
   are idle when the executor closes them. *)
OwnOutput ==
    /\ part = "drains" => Drains!OwnOutput /\ Drains!SlotsReturned
    /\ part = "slots" => Two!OwnOutput /\ Two!SlotsReturned
    /\ part = "busy" => Busy!OwnOutput

(* receiver.py, queue.py, executor.py, grpc/client.py, shm/: every call and every drain
   ends, and so does every close, although a Worker never answers, a slot failed or calls
   are under way in two processes. *)
BatchesEnd ==
    /\ []<>(part = "drains" => Drains!CallsOver)
    /\ []<>(part = "drains" => Drains!DrainsOver)
    /\ []<>(part = "slots" => Two!ExecutorOver)
    /\ []<>(part = "grpc" => Grpc!CloseOver)
    /\ []<>(part = "failing" => Failing!ClosingOver)
=============================================================================
