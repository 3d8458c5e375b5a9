------------------------------ MODULE MCClient ------------------------------
(* The client of an attention process for TLC: scenarios of RoutedLayer,       *)
(* BlockingClient and MoeData. A behaviour is one scenario, chosen at the      *)
(* start; the components that do not run stay in their initial state.          *)
EXTENDS Integers

CONSTANT Scenarios   \* the scenarios to check

VARIABLES
    part,                                                          \* the scenario
    version, routes, res, pools, conn, watch, pending, next, call, added, \* RoutedLayer
    lock, shut, transport, pc, outcome, active, task, completed, loop, closer, closeTask,
    waits,                                                         \* BlockingClient
    source, plans, failed, sum, attempt                            \* MoeData

\* One process, then the other; both; a replica and a single one; a missing expert.
Placed == {<<{1}, {1}>>, <<{2}, {2}>>, <<{1}, {2}>>, <<{1, 2}, {1, 2}>>, <<{1, 2}, {2}>>, <<{1}, {}>>}

\* Two tokens that share an expert, in batches of one, over shared memory.
Shared == INSTANCE RoutedLayer WITH
    Tokens <- 2, Experts <- {1, 2}, Processes <- {1, 2},
    Assignments <- {<<1, 1>>, <<1, 2>>, <<2, 1>>}, Topologies <- Placed, Calls <- {1},
    MaxBatch <- 1, Capacity <- 1, MaxVersion <- 2, Loses <- FALSE, MayFail <- FALSE, Closer <- 0

\* A connection is retired and its process is routed to again.
Again == INSTANCE RoutedLayer WITH
    Tokens <- 1, Experts <- {1, 2}, Processes <- {1, 2}, Assignments <- {<<1, 1>>, <<1, 2>>},
    Topologies <- Placed, Calls <- {1}, MaxBatch <- 1, Capacity <- 1, MaxVersion <- 3,
    Loses <- FALSE, MayFail <- FALSE, Closer <- 0

\* Two tokens, one expert each; connections end their calls and may fail to open.
Losing == INSTANCE RoutedLayer WITH
    Tokens <- 2, Experts <- {1, 2}, Processes <- {1, 2}, Assignments <- {<<1, 1>>, <<2, 2>>},
    Topologies <- Placed, Calls <- {1}, MaxBatch <- 1, Capacity <- 1, MaxVersion <- 2,
    Loses <- TRUE, MayFail <- TRUE, Closer <- 0

\* Threads of a model, whose calls time out and whose device fails.
Late == INSTANCE BlockingClient WITH
    Threads <- {"t1", "t2", "t3"}, Nobody <- "nobody", LoopBlocks <- TRUE, DeviceFails <- TRUE

\* Threads of a model whose loop runs.
Prompt == INSTANCE BlockingClient WITH
    Threads <- {"t1", "t2", "t3"}, Nobody <- "nobody", LoopBlocks <- FALSE, DeviceFails <- FALSE

\* A Worker with fused kernels that splits batches, and one that computes expert by expert.
Fused == INSTANCE MoeData WITH
    TokenCount <- 3, TopK <- 2, Experts <- 2, Workers <- {1, 2}, MaxTokens <- <<2, 3>>,
    Backend <- <<"fused", "torch">>

Ggml == INSTANCE MoeData WITH
    TokenCount <- 2, TopK <- 2, Experts <- 3, Workers <- {1, 2}, MaxTokens <- <<1, 2>>,
    Backend <- <<"ggml", "fused">>

ASSUME Shared!LayerAssumption /\ Again!LayerAssumption /\ Losing!LayerAssumption
ASSUME Late!BlockingAssumption /\ Prompt!BlockingAssumption /\ Fused!MoeAssumption /\ Ggml!MoeAssumption

layer == <<version, routes, res, pools, conn, watch, pending, next, call, added>>
blocking == <<lock, shut, transport, pc, outcome, active, task, completed, loop, closer,
              closeTask, waits>>
moe == <<source, plans, failed, sum, attempt>>
vars == <<part, layer, blocking, moe>>

Init ==
    /\ part \in Scenarios
    /\ CASE part = "shared" -> Shared!Init [] part = "again" -> Again!Init [] OTHER -> Losing!Init
    /\ Late!Init
    /\ IF part = "fused" THEN Fused!Init ELSE Ggml!Init
    /\ part \notin {"fused", "ggml"} => source.distinct = {}

Next ==
    /\ UNCHANGED part
    /\ \/ part = "shared" /\ Shared!Next /\ UNCHANGED <<blocking, moe>>
       \/ part = "again" /\ Again!Next /\ UNCHANGED <<blocking, moe>>
       \/ part = "losing" /\ Losing!Next /\ UNCHANGED <<blocking, moe>>
       \/ part = "late" /\ Late!Next /\ UNCHANGED <<layer, moe>>
       \/ part = "prompt" /\ Prompt!Next /\ UNCHANGED <<layer, moe>>
       \/ part = "fused" /\ Fused!Next /\ UNCHANGED <<layer, blocking>>
       \/ part = "ggml" /\ Ggml!Next /\ UNCHANGED <<layer, blocking>>

(* The fairness of the components, for the scenarios whose progress is checked. *)
Spec ==
    /\ Init /\ [][Next]_vars
    /\ WF_layer(part = "losing" /\ Losing!Steps)
    /\ WF_blocking(part = "prompt" /\ Prompt!Steps)
-----------------------------------------------------------------------------
(* execute.py, dispatch.py, backends/: a layer that is returned has every assignment
   exactly once, with its own row and weight, and nothing is added before that is not asked
   for: through splits, failures, retries, replaced connections, and on every backend. *)
LayerComplete ==
    /\ part = "shared" => Shared!TypeOK /\ Shared!LayerComplete
    /\ part = "again" => Again!TypeOK /\ Again!LayerComplete
    /\ part = "fused" => Fused!TypeOK /\ Fused!LayerIsComplete /\ Fused!NothingTwice
    /\ part = "ggml" => Ggml!TypeOK /\ Ggml!LayerIsComplete /\ Ggml!NothingTwice

(* grouping.py, grpc/codec.py: no batch that the client makes is refused by the Worker it
   is sent to. *)
BatchesAccepted ==
    (part = "fused" => Fused!BatchesAccepted) /\ (part = "ggml" => Ggml!BatchesAccepted)

(* topology.py: the pool of every connection that is routed to is there: the late cleanup
   of an earlier connection to the same process leaves it alone. *)
PoolsInstalled ==
    /\ part = "again" => Again!PoolsInstalled
    /\ part = "losing" => Losing!TypeOK /\ Losing!PoolsInstalled

(* execute.py: a process that failed an assignment gets it again only if the snapshot of
   the retry has no other replica. *)
RetriedElsewhere ==
    [][(part = "shared" => Shared!AvoidsFailed) /\ (part = "again" => Again!AvoidsFailed)]_vars

(* execute.py, client.py: every layer call and every blocking call returns, and so do the
   closes of both clients; the loop stops only when nobody waits for it. *)
CallsReturn ==
    /\ []<>(part = "losing" => Losing!CallsOver)
    /\ []<>(part = "losing" => Losing!CloseOver)
    /\ []<>(part = "prompt" => Prompt!CallsOver)
    /\ []<>(part = "prompt" => Prompt!CloseOver)
    /\ [](Late!TypeOK /\ Late!NobodyStranded)
=============================================================================
