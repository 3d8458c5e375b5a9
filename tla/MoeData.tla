------------------------------ MODULE MoeData ------------------------------
(***************************************************************************)
(* The numbers of one routed layer: which terms (expert, activation row,   *)
(* routing weight) end up in which row of the result.  The Frontend's      *)
(* validation, the grouping and splitting of the routing Tensors, the      *)
(* gather, the receiver's validation, the three backends, the scatter-add  *)
(* and the rebuilt batch of the retry are modelled on the Tensors          *)
(* themselves; RoutedLayer has the concurrency around them.  A sum is the  *)
(* bag of its terms (rounding is left out), a weight is the number of the  *)
(* position it was given for, or 0, and the activation row of token t is t.*)
(***************************************************************************)
EXTENDS Integers, Sequences, SequencesExt, FiniteSets, BagsExt

CONSTANTS
    TokenCount,   \* rows of the layer
    TopK,         \* assignments of a row
    Experts,      \* experts_per_layer
    Workers,      \* 1 .. the number of Worker processes
    MaxTokens,    \* by Worker: max_batch_tokens
    Backend       \* by Worker: its compute backend

MoeAssumption ==
    /\ {TokenCount, TopK, Experts} \subseteq Nat \ {0}
    /\ \A w \in Workers : MaxTokens[w] \in Nat \ {0} /\ Backend[w] \in {"torch", "ggml", "fused"}

VARIABLES
    source,   \* the RoutedLayerBatch
    plans,    \* physical batches to dispatch
    failed,   \* those of the attempt that failed
    sum,      \* the accumulator
    attempt   \* 0 before the first dispatch, 2 in the retry, 3 finished, 4 raised

vars == <<source, plans, failed, sum, attempt>>

Tokens == 1 .. TokenCount
Routes == 1 .. TopK
Ids == 0 .. Experts - 1

(* Expert numbers in a routing Tensor; -1 marks an unused position. *)
Occurring(ids) == UNION {{ids[i][k] : k \in DOMAIN ids[i]} : i \in DOMAIN ids} \ {-1}

-----------------------------------------------------------------------------
(* Frontend. *)

(* validate_and_convert_routing: FALSE where it raises. *)
ValidRouting(ids, weights) ==
    \A i \in DOMAIN ids : \A k \in Routes :
        /\ ids[i][k] \in -1 .. Experts - 1
        /\ ids[i][k] = -1 => weights[i][k] = 0

Layer(ids, weights) == [ids |-> ids, weights |-> weights, distinct |-> Occurring(ids)]

(* Every routing the Frontend lets through, with the weight of one used position of
   the first row possibly 0. *)
Init ==
    /\ \E ids \in [Tokens -> [Routes -> -1 .. Experts - 1]], zero \in 0 .. TopK :
         LET weights == [i \in Tokens |-> [k \in Routes |->
                           IF ids[i][k] = -1 \/ (i = 1 /\ k = zero) THEN 0
                           ELSE (i - 1) * TopK + k]]
         IN ValidRouting(ids, weights) /\ source = Layer(ids, weights)
    /\ plans = {} /\ failed = {} /\ attempt = 0
    /\ sum = [i \in Tokens |-> EmptyBag]

-----------------------------------------------------------------------------
(* Client: group_worker_batches with the replica selected for each expert. *)

(* The row ranges of _split_batch. *)
Chunks(rows, size) ==
    {SubSeq(rows, size * c + 1, IF size * (c + 1) < Len(rows) THEN size * (c + 1) ELSE Len(rows))
        : c \in 0 .. (Len(rows) - 1) \div size}

(* Variant: a row is sent with all its weights. *)
PhysicalUnmasked(batch, select, w, rows) ==
    LET ids == [j \in DOMAIN rows |-> [k \in Routes |->
                  IF batch.ids[rows[j]][k] >= 0 /\ select[batch.ids[rows[j]][k]] = w
                  THEN batch.ids[rows[j]][k] ELSE -1]]
    IN [target |-> w, rows |-> rows, ids |-> ids, distinct |-> Occurring(ids),
        weights |-> [j \in DOMAIN rows |-> batch.weights[rows[j]]]]

(* The assignments of a row that go to Worker w. *)
Local(batch, select, w, i) ==
    {k \in Routes : batch.ids[i][k] >= 0 /\ select[batch.ids[i][k]] = w}

(* A physical batch: the token of every row, its masked Tensors. *)
Physical(batch, select, w, rows) ==
    LET mine(j) == Local(batch, select, w, rows[j])
        ids == [j \in DOMAIN rows |-> [k \in Routes |->
                  IF k \in mine(j) THEN batch.ids[rows[j]][k] ELSE -1]]
    IN [target |-> w, rows |-> rows, ids |-> ids, distinct |-> Occurring(ids),
        weights |-> [j \in DOMAIN rows |-> [k \in Routes |->
                       IF k \in mine(j) THEN batch.weights[rows[j]][k] ELSE 0]]]

(* reuse: every row is sent, also the ones without an assignment, when one Worker
   has all the experts. *)
Group(batch, select, reuse) ==
    LET targets == {select[e] : e \in batch.distinct}
        all == [i \in Tokens |-> i]
        rows(w) == IF reuse /\ Cardinality(targets) = 1 THEN all
                   ELSE SelectSeq(all, LAMBDA i : Local(batch, select, w, i) # {})
    IN UNION {{Physical(batch, select, w, chunk) :
                 chunk \in IF Len(rows(w)) <= MaxTokens[w] THEN {rows(w)}
                           ELSE Chunks(rows(w), MaxTokens[w])} : w \in targets}

-----------------------------------------------------------------------------
(* The wire. *)

(* encode_request gathers the activation rows of the batch. *)
encode_request(plan) ==
    [token_count |-> Len(plan.rows), hidden |-> [j \in DOMAIN plan.rows |-> plan.rows[j]],
     ids |-> plan.ids, weights |-> plan.weights]

(* decode_request_with_size: the distinct experts are found again. *)
Accepted(w, request) ==
    /\ request.token_count \in 1 .. MaxTokens[w]
    /\ request.token_count = Len(request.hidden) /\ request.token_count = Len(request.ids)
    /\ ValidRouting(request.ids, request.weights)

decode_request(request) ==
    [hidden |-> request.hidden, ids |-> request.ids, weights |-> request.weights,
     distinct |-> Occurring(request.ids)]

-----------------------------------------------------------------------------
(* Worker. *)

Term(expert, row, weight) ==
    IF weight = 0 THEN EmptyBag ELSE SetToBag({<<expert, row, weight>>})

(* The sum of the terms Of(x) of all x in S. *)
AddOver(S, Of(_)) == FoldSet(LAMBDA x, total : Of(x) (+) total, EmptyBag, S)

(* TorchBackend._compute: expert by expert, over the coordinates it occurs at. *)
TorchCompute(batch) ==
    LET occurrences(e, i) == {k \in Routes : batch.ids[i][k] = e}
        added(e, i) == AddOver(occurrences(e, i),
                               LAMBDA k : Term(e, batch.hidden[i], batch.weights[i][k]))
    IN [i \in DOMAIN batch.ids |-> AddOver(batch.distinct, LAMBDA e : added(e, i))]

(* GgmlBackend._compute: an expert's rows are gathered, go through one graph and are
   added back to their tokens. *)
GgmlCompute(batch) ==
    LET places(e) == {p \in (DOMAIN batch.ids) \X Routes : batch.ids[p[1]][p[2]] = e}
        output(e) == [p \in places(e) |-> Term(e, batch.hidden[p[1]], batch.weights[p[1]][p[2]])]
        added(e, i) == AddOver({p \in places(e) : p[1] = i}, LAMBDA p : output(e)[p])
    IN [i \in DOMAIN batch.ids |-> AddOver(batch.distinct, LAMBDA e : added(e, i))]

(* launch_fused_moe: one program for each assignment of the flattened routing, an
   empty product where the slot mapping has no slot; the second product has one input
   row for each assignment; the reduction adds the top-k assignments of a token. *)
launch_fused_moe(batch) ==
    LET assignments == 1 .. Len(batch.ids) * TopK
        row(a) == ((a - 1) \div TopK) + 1
        expert(a) == batch.ids[row(a)][((a - 1) % TopK) + 1]
        gate_up == [a \in assignments |->
                      IF expert(a) < 0 THEN <<>> ELSE <<expert(a), batch.hidden[row(a)]>>]
        down == [a \in assignments |-> IF expert(a) < 0 THEN <<>> ELSE gate_up[a]]
        term(i, k) ==
            LET a == (i - 1) * TopK + k
            IN IF down[a] = <<>> THEN EmptyBag
               ELSE Term(down[a][1], down[a][2], batch.weights[i][k])
    IN [i \in DOMAIN batch.ids |-> AddOver(Routes, LAMBDA k : term(i, k))]

(* FusedBackend.submit: no weights to lease, no launch. *)
FusedCompute(batch) ==
    IF batch.distinct = {} THEN [i \in DOMAIN batch.ids |-> EmptyBag] ELSE launch_fused_moe(batch)

Compute(w, batch) ==
    CASE Backend[w] = "torch" -> TorchCompute(batch)
      [] Backend[w] = "ggml"  -> GgmlCompute(batch)
      [] Backend[w] = "fused" -> FusedCompute(batch)

-----------------------------------------------------------------------------
(* The layer: execute_routed_layer. *)

Selections(batch) == [batch.distinct -> Workers]

Execute ==
    /\ attempt = 0
    /\ \E select \in Selections(source) : plans' = Group(source, select, TRUE)
    /\ attempt' = IF plans' = {} THEN 3 ELSE 1
    /\ UNCHANGED <<source, failed, sum>>

(* _dispatch_plan adds the rows of a batch to their tokens. *)
Add(plan, partial) ==
    [i \in Tokens |-> AddOver({j \in DOMAIN plan.rows : plan.rows[j] = i}, LAMBDA j : partial[j])
                      (+) sum[i]]

Return(plan) ==
    /\ plan \in plans /\ attempt \in {1, 2}
    /\ Accepted(plan.target, encode_request(plan))
    /\ sum' = Add(plan, Compute(plan.target, decode_request(encode_request(plan))))
    /\ plans' = plans \ {plan}
    /\ attempt' = IF plans' = {} /\ failed = {} THEN 3 ELSE attempt
    /\ UNCHANGED <<source, failed>>

(* A retryable failure in the first attempt. *)
Fail(plan) ==
    /\ plan \in plans /\ attempt = 1
    /\ plans' = plans \ {plan} /\ failed' = failed \cup {plan}
    /\ UNCHANGED <<source, sum, attempt>>

(* Another failure ends the layer with an error. *)
Raise ==
    /\ attempt \in {1, 2} /\ plans # {}
    /\ plans' = {} /\ attempt' = 4
    /\ UNCHANGED <<source, failed, sum>>

(* _unfinished_batch: the assignments of the failed batches, at their positions. *)
Unfinished(batches) ==
    LET place(i, k) == {<<p, j>> \in batches \X (1 .. TokenCount) :
                          j \in DOMAIN p.rows /\ p.rows[j] = i /\ p.ids[j][k] >= 0}
        take(i, k, field, none) ==
            IF place(i, k) = {} THEN none
            ELSE LET q == CHOOSE q \in place(i, k) : TRUE IN q[1][field][q[2]][k]
    IN [ids |-> [i \in Tokens |-> [k \in Routes |-> take(i, k, "ids", -1)]],
        weights |-> [i \in Tokens |-> [k \in Routes |-> take(i, k, "weights", 0)]],
        distinct |-> UNION {p.distinct : p \in batches}]

Retry ==
    LET batch == Unfinished(failed) IN
    /\ attempt = 1 /\ plans = {} /\ failed # {}
    /\ \E select \in Selections(batch) : plans' = Group(batch, select, FALSE)
    /\ failed' = {} /\ attempt' = IF plans' = {} THEN 3 ELSE 2
    /\ UNCHANGED <<source, sum>>

Next == Execute \/ Retry \/ Raise \/ \E plan \in plans : Return(plan) \/ Fail(plan)

Spec == Init /\ [][Next]_vars

-----------------------------------------------------------------------------
TypeOK ==
    /\ attempt \in 0 .. 4
    /\ source.distinct \subseteq Ids
    /\ \A plan \in plans \cup failed :
         /\ plan.target \in Workers /\ Len(plan.rows) \in 1 .. MaxTokens[plan.target]
         /\ \A j \in DOMAIN plan.rows : plan.rows[j] \in Tokens
    /\ \A i \in Tokens : IsABag(sum[i])

(* What the model's router asked for: every used position once, in its own row. *)
Routed(i) ==
    AddOver({k \in Routes : source.ids[i][k] >= 0},
            LAMBDA k : Term(source.ids[i][k], i, source.weights[i][k]))

(* "Successful Worker partials are accumulated once" (execute.py:148): a finished
   layer is the sum over all its assignments, each with its own row and weight,
   whatever replicas were selected, however batches were split, whichever failed and
   were resolved again, and on every backend. *)
LayerIsComplete ==
    attempt = 3 => \A i \in Tokens : sum[i] = Routed(i)

(* Until then, nothing is added twice and nothing that was not asked for: what a
   failed batch carries is not in the sum. *)
NothingTwice ==
    \A i \in Tokens : sum[i] \sqsubseteq Routed(i)

(* No batch that the client makes is refused by the Worker it is sent to: the split
   respects the Worker's max_batch_tokens, masked positions have weight 0, no
   batch is without rows. *)
BatchesAccepted ==
    \A plan \in plans : Accepted(plan.target, encode_request(plan))
=============================================================================
