--------------------------- MODULE ComputeBackends ---------------------------
(***************************************************************************)
(* The three compute backends of a Worker and the memory their ready        *)
(* weights live in.                                                         *)
(*                                                                          *)
(*   fused: fixed slots of FusedWeightStorage; kernels find the slot of an  *)
(*          expert in a table on the device when they run;                  *)
(*   torch: tensors in blocks of the device allocator, chosen when placed;  *)
(*   ggml:  the same in host memory, and submit computes before it returns. *)
(*                                                                          *)
(* Conversions run on the threads of the Weight Manager and share one       *)
(* device stream; every active batch has a stream of its own.  A stream     *)
(* runs its operations in order, at any time after they were enqueued, and  *)
(* nothing orders two streams but a host thread that synchronises.  Which   *)
(* experts are placed, withdrawn and leased is decided by the Weight        *)
(* Manager (module WeightManager); here it may decide anything it is able   *)
(* to.                                                                      *)
(***************************************************************************)
EXTENDS Integers, Sequences

CONSTANTS
    Kinds,      \* the backends to look at, among "fused", "torch", "ggml"
    Positions,  \* (layer, expert) pairs
    NumSlots,   \* slots, or blocks the allocator can hold
    Batches,    \* active batches: execution slots with a stream each
    MaxCopies   \* bound: copies enqueued when a conversion begins

None == "none"

BackendAssumption ==
    /\ Kinds \subseteq {"fused", "torch", "ggml"}
    /\ NumSlots \in Nat \ {0} /\ MaxCopies \in Nat
    /\ None \notin Positions

VARIABLES
    kind,       \* the configured backend
    conv,       \* by position: where its weight is in its life
    where,      \* by position: its slot or block, 0 for none (_positions)
    owner,      \* by slot: the position it belongs to, or None (_owners)
    mapping,    \* fused, on the device: slot_mapping
    holds,      \* on the device: whose matrices a slot holds
    copies,     \* the stream of the conversions
    lock,       \* FusedWeightStorage._lock while its holder synchronises
    batch       \* by batch: its submission and the operations on its stream

vars == <<kind, conv, where, owner, mapping, holds, copies, lock, batch>>

Slots == 1 .. NumSlots
Parts == {"gateUp", "down"}

(* A batch with no submission. *)
Idle == [pc |-> "idle", experts |-> {}, at |-> [p \in {} |-> 0], ops |-> <<>>,
         waited |-> FALSE]

Init ==
    /\ kind \in Kinds
    /\ conv = [p \in Positions |-> "none"]
    /\ where = [p \in Positions |-> 0]
    /\ owner = [s \in Slots |-> None]
    /\ mapping = [p \in Positions |-> 0]
    /\ holds = [s \in Slots |-> [part \in Parts |-> None]]
    /\ copies = <<>> /\ lock = None
    /\ batch = [b \in Batches |-> Idle]

-----------------------------------------------------------------------------
(* Conversions: make_ready_weight and release_ready_weight of the adapters. *)

Free == {s \in Slots : owner[s] = None}

(* What the host waits for when it synchronises the conversion stream: everything
   enqueued for p, and all that came before it. *)
Synchronised(p) == \A i \in DOMAIN copies : copies[i].p # p

Copy(p, s, part) == [op |-> "copy", p |-> p, slot |-> s, part |-> part]

Fill(p, s) == [op |-> "fill", p |-> p, slot |-> s, part |-> None]

(* FusedWeightStorage.claim takes the first slot without an owner; an allocator
   takes any block.  The copies are enqueued. *)
MakeReady(p) ==
    /\ conv[p] = "none" /\ lock = None /\ Len(copies) <= MaxCopies
    /\ \E s \in Free :
       /\ kind = "fused" => \A t \in Free : s <= t
       /\ owner' = [owner EXCEPT ![s] = p]
       /\ where' = [where EXCEPT ![p] = s]
       /\ copies' = copies \o <<Copy(p, s, "gateUp"), Copy(p, s, "down")>>
    /\ conv' = [conv EXCEPT ![p] = "copying"]
    /\ UNCHANGED <<kind, mapping, holds, lock, batch>>

(* FusedWeightStorage.publish_mapping. *)
PublishMapping(p) ==
    /\ kind = "fused" /\ conv[p] = "copying" /\ lock = None
    /\ conv' = [conv EXCEPT ![p] = "published"]
    /\ copies' = Append(copies, Fill(p, where[p]))
    /\ UNCHANGED <<kind, where, owner, mapping, holds, lock, batch>>

(* make_ready_weight returns after it synchronised its stream; the Weight Manager
   makes the weight ready. *)
Converted(p) ==
    /\ conv[p] = (IF kind = "fused" THEN "published" ELSE "copying")
    /\ Synchronised(p)
    /\ conv' = [conv EXCEPT ![p] = "ready"]
    /\ UNCHANGED <<kind, where, owner, mapping, holds, copies, lock, batch>>

(* FusedWeightStorage.release and abandon: clear the device mapping, synchronise
   with the lock held, then free the slot (Cleared). *)
Clear(p, pc) ==
    /\ lock = None /\ lock' = p
    /\ copies' = Append(copies, Fill(p, 0))
    /\ conv' = [conv EXCEPT ![p] = pc]
    /\ UNCHANGED <<where, owner>>

Cleared(p) ==
    /\ conv[p] \in {"releasing", "abandoning"} /\ Synchronised(p)
    /\ lock' = None
    /\ conv' = [conv EXCEPT ![p] = "none"]
    /\ owner' = [owner EXCEPT ![where[p]] = None]
    /\ where' = [where EXCEPT ![p] = 0]
    /\ UNCHANGED <<kind, mapping, holds, copies, batch>>

(* The last reference to a weight's tensors is dropped; the allocator may use the
   block at once. *)
Drop(p) ==
    /\ conv' = [conv EXCEPT ![p] = "none"]
    /\ owner' = [owner EXCEPT ![where[p]] = None]
    /\ where' = [where EXCEPT ![p] = 0]
    /\ UNCHANGED <<copies, lock>>

(* A conversion raises after its claim. *)
ConvertFails(p) ==
    /\ conv[p] \in {"copying", "published"}
    /\ IF kind = "fused" THEN Clear(p, "abandoning") ELSE Drop(p)
    /\ UNCHANGED <<kind, mapping, holds, batch>>

Leased(p) == \E b \in Batches : p \in batch[b].experts

(* The Weight Manager withdraws a ready weight: no lease of it starts any more. *)
Withdraw(p) ==
    /\ conv[p] = "ready"
    /\ conv' = [conv EXCEPT ![p] = "withdrawn"]
    /\ UNCHANGED <<kind, where, owner, mapping, holds, copies, lock, batch>>

(* release_ready_weight, once no lease is left. *)
ReleaseReady(p) ==
    /\ conv[p] = "withdrawn" /\ ~Leased(p)
    /\ IF kind = "fused" THEN Clear(p, "releasing") ELSE Drop(p)
    /\ UNCHANGED <<kind, mapping, holds, batch>>

(* The device runs the next operation of the conversion stream. *)
RunCopy ==
    /\ copies # <<>>
    /\ LET c == Head(copies) IN
       IF c.op = "copy"
       THEN holds' = [holds EXCEPT ![c.slot][c.part] = c.p] /\ mapping' = mapping
       ELSE mapping' = [mapping EXCEPT ![c.p] = c.slot] /\ holds' = holds
    /\ copies' = Tail(copies)
    /\ UNCHANGED <<kind, conv, where, owner, lock, batch>>

-----------------------------------------------------------------------------
(* Batches: submit of the backends and the completions they return. *)

(* acquire_many holds every weight of the batch, or raises WeightsNotReady. *)
Acquired(E) == \A p \in E : conv[p] = "ready"

(* launch_fused_moe: one product with the gate and up matrices, one with the down
   matrices, each looking its slots up; no kernel for a batch without experts. *)
Kernels(E) == IF E = {} THEN <<>> ELSE <<"gateUp", "down">>

Submission(pc, E) ==
    [pc |-> pc, experts |-> E, at |-> [p \in E |-> where[p]], ops |-> Kernels(E),
     waited |-> FALSE]

SubmitFused(b, E) ==
    /\ kind = "fused"
    /\ batch' = [batch EXCEPT ![b] = Submission("submitted", E)]

SubmitTorch(b, E) ==
    /\ kind = "torch"
    /\ batch' = [batch EXCEPT ![b] = Submission("submitted", E)]

(* GGML computes inside submit. *)
SubmitGgml(b, E) ==
    /\ kind = "ggml"
    /\ \A c \in Batches : batch[c] = Idle  \* supports_concurrent_batches is False
    /\ batch' = [batch EXCEPT ![b] = Submission("computing", E)]

Submit(b, E) ==
    /\ batch[b] = Idle /\ Acquired(E)
    /\ SubmitFused(b, E) \/ SubmitTorch(b, E) \/ SubmitGgml(b, E)
    /\ UNCHANGED <<kind, conv, where, owner, mapping, holds, copies, lock>>

GgmlReturns(b) ==
    /\ batch[b].pc = "computing" /\ batch[b].ops = <<>>
    /\ batch' = [batch EXCEPT ![b].pc = "submitted", ![b].waited = TRUE]
    /\ UNCHANGED <<kind, conv, where, owner, mapping, holds, copies, lock>>

(* submit raises after some of its work was enqueued: fused and torch synchronise
   (_finish_failed_submission) before the lease goes; GGML has nothing running. *)
SubmitRaises(b, E) ==
    /\ kind # "ggml" /\ batch[b] = Idle /\ Acquired(E)
    /\ \E n \in 0 .. Len(Kernels(E)) :
         batch' = [batch EXCEPT ![b] =
                     [Submission("failing", E) EXCEPT !.ops = SubSeq(@, 1, n)]]
    /\ UNCHANGED <<kind, conv, where, owner, mapping, holds, copies, lock>>

GgmlRaises(b) ==
    /\ batch[b].pc = "computing"
    /\ batch' = [batch EXCEPT ![b] = Idle]
    /\ UNCHANGED <<kind, conv, where, owner, mapping, holds, copies, lock>>

SubmissionFailed(b) ==
    /\ batch[b].pc = "failing" /\ batch[b].ops = <<>>
    /\ batch' = [batch EXCEPT ![b] = Idle]
    /\ UNCHANGED <<kind, conv, where, owner, mapping, holds, copies, lock>>

(* The device runs the next operation of a batch. *)
RunKernel(b) ==
    /\ batch[b].ops # <<>>
    /\ batch' = [batch EXCEPT ![b].ops = Tail(@)]
    /\ UNCHANGED <<kind, conv, where, owner, mapping, holds, copies, lock>>

(* BackendCompletion.wait_host. *)
WaitHost(b) ==
    /\ batch[b].pc = "submitted" /\ batch[b].ops = <<>> /\ ~batch[b].waited
    /\ batch' = [batch EXCEPT ![b].waited = TRUE]
    /\ UNCHANGED <<kind, conv, where, owner, mapping, holds, copies, lock>>

(* Variant: close does not synchronise. *)
CloseAtOnce(b) ==
    /\ batch[b].pc = "submitted"
    /\ batch' = [batch EXCEPT ![b] = [Idle EXCEPT !.at = batch[b].at, !.ops = batch[b].ops]]
    /\ UNCHANGED <<kind, conv, where, owner, mapping, holds, copies, lock>>

(* BackendCompletion.close, with or without a wait before it (a cancelled or late
   request is released unwaited): the lease is closed after the work. *)
CloseCompletion(b) ==
    /\ batch[b].pc = "submitted"
    /\ batch[b].waited \/ batch[b].ops = <<>>
    /\ batch' = [batch EXCEPT ![b] = Idle]
    /\ UNCHANGED <<kind, conv, where, owner, mapping, holds, copies, lock>>

Convert(p) == MakeReady(p) \/ PublishMapping(p) \/ Converted(p) \/ ConvertFails(p)
Retire(p) == Withdraw(p) \/ ReleaseReady(p) \/ Cleared(p)
Execute(b) ==
    \/ GgmlReturns(b) \/ GgmlRaises(b) \/ SubmissionFailed(b)
    \/ RunKernel(b) \/ WaitHost(b) \/ CloseCompletion(b)

Next ==
    \/ \E p \in Positions : Convert(p) \/ Retire(p)
    \/ RunCopy
    \/ \E b \in Batches : Execute(b) \/ \E E \in SUBSET Positions : Submit(b, E) \/ SubmitRaises(b, E)

Spec == Init /\ [][Next]_vars

(* The device runs what is enqueued, a completion is closed, and the Weight
   Manager's thread that waits to release a weight gets the lock at last. *)
Releases(p) == ReleaseReady(p) \/ Cleared(p)
Runs(b) == RunKernel(b) \/ GgmlReturns(b) \/ SubmissionFailed(b) \/ CloseCompletion(b)

FairSpec ==
    /\ Spec /\ WF_vars(RunCopy)
    /\ \A p \in Positions : SF_vars(Releases(p))
    /\ \A b \in Batches : WF_vars(Runs(b))

-----------------------------------------------------------------------------
TypeOK ==
    /\ kind \in Kinds
    /\ conv \in [Positions -> {"none", "copying", "published", "ready", "withdrawn",
                           "releasing", "abandoning"}]
    /\ where \in [Positions -> 0 .. NumSlots] /\ mapping \in [Positions -> 0 .. NumSlots]
    /\ owner \in [Slots -> Positions \union {None}]
    /\ holds \in [Slots -> [Parts -> Positions \union {None}]]
    /\ lock \in Positions \union {None}
    /\ \A b \in Batches : batch[b].pc \in {"idle", "computing", "submitted", "failing"}

(* The slot in which a kernel of b finds p's matrices, when it runs. *)
SlotFor(b, p) == IF kind = "fused" THEN mapping[p] ELSE batch[b].at[p]

(* Every kernel that is still to run multiplies with the weights of the experts it
   was launched for, completely copied and not overwritten, whenever it runs: the
   host publishes after the copies, releases after the leases, and closes leases
   after the kernels. *)
KernelsReadTheirWeights ==
    \A b \in Batches : \A i \in DOMAIN batch[b].ops : \A p \in DOMAIN batch[b].at :
        /\ SlotFor(b, p) # 0
        /\ holds[SlotFor(b, p)][batch[b].ops[i]] = p

(* The device never maps a position to a slot that the host gave to another one,
   nor does a position keep a slot it does not use (FusedWeightStorage, after
   failed conversions and reuse). *)
TablesAgree ==
    /\ \A p \in Positions : mapping[p] # 0 => owner[mapping[p]] = p
    /\ \A s \in Slots : owner[s] # None => where[owner[s]] = s /\ conv[owner[s]] # "none"

(* "This hook must not wait for device work." (weights/adapter.py:79): the thread
   in release_ready_weight never finds work it has to wait for. *)
ReleaseDoesNotWait == \A p \in Positions : conv[p] = "releasing" => Synchronised(p)

(* The memory of a withdrawn weight becomes reusable: the lock is held while a
   stream is synchronised, and a release waits for leases, but not for ever. *)
Released(p) == conv[p] \notin {"withdrawn", "releasing"}
=============================================================================
