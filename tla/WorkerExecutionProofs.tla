------------------------ MODULE WorkerExecutionProofs ------------------------
(***************************************************************************)
(* The queue, its use counts and drains, and the execution slots of a      *)
(* Worker for any number of calls, slots and experts.                      *)
(***************************************************************************)
EXTENDS WorkerExecution, FiniteSetTheorems, TLAPS

Pcs == {"take", "run", "copy", "compute", "respond", "encode", "finish", "release", "fatal",
        "over", "dead"}
Ends == {"none", "ended", "output", "rejected", "fatal"}
Batches == Requests \cup {None}

SlotRecords ==
    [pc : Pcs, req : Batches, input : Batches, output : Batches, result : Ends, busy : BOOLEAN]

TypeInv ==
    /\ rpc \in [Requests -> {"none", "decode", "encode", "wait", "over"}]
    /\ answer = [r \in Requests |-> answer[r]]
    /\ response = [r \in Requests |-> response[r]]
    /\ entry \in [Requests -> {"none", "waiting", "active", "finished", "dropped"}]
    /\ dropped \in [Requests -> BOOLEAN]
    /\ waiting \in Seq(Requests)
    /\ admitted \in [Experts -> Int]
    /\ drain \in [{"experts", "all"} -> {"no", "wait", "idle", "late"}]
    /\ slot \in [Slots -> SlotRecords]

(* The line holds every batch that waits, once. *)
Line ==
    /\ \A i \in DOMAIN waiting : entry[waiting[i]] = "waiting"
    /\ \A i, j \in DOMAIN waiting : waiting[i] = waiting[j] => i = j
    /\ \A r \in Requests : entry[r] = "waiting" => \E i \in DOMAIN waiting : waiting[i] = r

(* A call whose payload is still decoded has no batch. *)
Decoding == \A r \in Requests : rpc[r] \in {"none", "decode", "encode"} => entry[r] = "none"

Works(s) == slot[s].pc \in {"run", "copy", "compute", "respond", "encode", "finish"}

(* A slot that works has an active batch, which no other slot has. *)
Held(s) ==
    /\ Works(s) => slot[s].req \in Requests /\ entry[slot[s].req] = "active"
    /\ slot[s].pc = "release" => slot[s].req \in Requests /\ entry[slot[s].req] = "finished"
    /\ slot[s].pc \in {"take", "over", "fatal"} => slot[s].req = None
    /\ slot[s].pc # "dead"

BatchesHeld ==
    /\ \A s \in Slots : Held(s)
    /\ \A s, t \in Slots : slot[s].req = slot[t].req /\ slot[s].req # None => s = t
    /\ \A r \in Requests : entry[r] = "active" => \E s \in Slots : Works(s) /\ slot[s].req = r

(* Every way out of a turn gives the slot up. *)
Idle(s) ==
    /\ slot[s].pc \in {"take", "run", "over", "fatal"} => ~slot[s].busy
    /\ slot[s].result \in {"rejected", "fatal"} => ~slot[s].busy

SlotsIdle == (\A s \in Slots : Idle(s)) /\ eclose # "failed"

(* What is computed on, and what is handed out, belongs to the batch of the slot. *)
OwnMessage(r, message) == message.kind = "output" => message.of = r

OwnTensors(s) ==
    /\ slot[s].pc = "compute" => slot[s].input = slot[s].req
    /\ slot[s].pc \in {"respond", "encode"} /\ slot[s].result = "output"
         => slot[s].output = slot[s].req

OwnContents ==
    /\ \A s \in Slots : OwnTensors(s)
    /\ \A r \in Requests : OwnMessage(r, response[r]) /\ OwnMessage(r, answer[r])

(* The gates stand as long as the drain they are for. *)
Gates ==
    /\ drain["experts"] # "no" => Drained \subseteq gates
    /\ drain["all"] # "no" => stopAll

IInv ==
    /\ TypeInv /\ Line /\ Decoding /\ BatchesHeld /\ SlotsIdle /\ OwnContents /\ Gates
    /\ UseCountsExact /\ DrainedUnused
-----------------------------------------------------------------------------
(* One slot changes, into the record with these fields. *)
Becomes(s, pc, req, input, output, result, busy) ==
    /\ slot' \in [Slots -> SlotRecords]
    /\ \A t \in Slots \ {s} : slot'[t] = slot[t]
    /\ slot'[s].pc = pc /\ slot'[s].req = req /\ slot'[s].input = input
    /\ slot'[s].output = output /\ slot'[s].result = result /\ slot'[s].busy = busy

(* The fields of a slot. *)
LEMMA SlotTyped ==
    ASSUME TypeInv, NEW s \in Slots
    PROVE  /\ slot[s] \in SlotRecords /\ slot[s].pc \in Pcs /\ slot[s].req \in Batches
           /\ slot[s].input \in Batches /\ slot[s].output \in Batches
           /\ slot[s].result \in Ends /\ slot[s].busy \in BOOLEAN
<1>1. slot[s] \in SlotRecords
  BY Zenon DEF TypeInv
<1> QED
  BY <1>1, Zenon DEF SlotRecords

(* A step that replaces the record of one slot. *)
LEMMA BecomesRecord ==
    ASSUME TypeInv, NEW s \in Slots, NEW rec \in SlotRecords, slot' = [slot EXCEPT ![s] = rec]
    PROVE  Becomes(s, rec.pc, rec.req, rec.input, rec.output, rec.result, rec.busy)
<1>1. slot' \in [Slots -> SlotRecords] /\ slot'[s] = rec /\ \A t \in Slots \ {s} : slot'[t] = slot[t]
  BY Zenon DEF TypeInv
<1> QED
  BY <1>1, Zenon DEF Becomes

(* A slot goes on. *)
LEMMA ToFacts ==
    ASSUME TypeInv, NEW s \in Slots, NEW pc \in Pcs, NEW result \in Ends, To(s, pc, result)
    PROVE  Becomes(s, pc, slot[s].req, slot[s].input, slot[s].output, result, slot[s].busy)
<1> DEFINE rec == [slot[s] EXCEPT !.pc = pc, !.result = result]
<1>1. slot[s] \in SlotRecords
  BY SlotTyped, Zenon
<1>2. rec \in SlotRecords /\ rec.pc = pc /\ rec.req = slot[s].req /\ rec.input = slot[s].input
        /\ rec.output = slot[s].output /\ rec.result = result /\ rec.busy = slot[s].busy
  BY <1>1, Zenon DEF SlotRecords
<1>3. slot' = [slot EXCEPT ![s] = rec]
  BY Zenon DEF To
<1> HIDE DEF rec
<1>4. Becomes(s, rec.pc, rec.req, rec.input, rec.output, rec.result, rec.busy)
  BY <1>2, <1>3, BecomesRecord, Zenon
<1> QED
  BY <1>2, <1>4, Zenon

(* ReceiverQueue.take *)
LEMMA TakeFacts ==
    ASSUME TypeInv, NEW s \in Slots, NEW r \in Requests, slot' = [slot EXCEPT ![s].pc = "run", ![s].req = r]
    PROVE  Becomes(s, "run", r, slot[s].input, slot[s].output, slot[s].result, slot[s].busy)
<1> DEFINE rec == [slot[s] EXCEPT !.pc = "run", !.req = r]
<1>1. slot[s] \in SlotRecords
  BY SlotTyped, Zenon
<1>2. rec \in SlotRecords /\ rec.pc = "run" /\ rec.req = r /\ rec.input = slot[s].input
        /\ rec.output = slot[s].output /\ rec.result = slot[s].result /\ rec.busy = slot[s].busy
  BY <1>1, Zenon DEF SlotRecords, Pcs, Batches
<1>3. slot' = [slot EXCEPT ![s] = rec]
  BY Zenon
<1> HIDE DEF rec
<1>4. Becomes(s, rec.pc, rec.req, rec.input, rec.output, rec.result, rec.busy)
  BY <1>2, <1>3, BecomesRecord, Zenon
<1> QED
  BY <1>2, <1>4, Zenon

(* A turn of execute: the checks may end it. *)
After(result, pc) == IF result = "ended" THEN "respond" ELSE pc

(* A turn claims its slot. *)
LEMMA ClaimFacts ==
    ASSUME TypeInv, NEW s \in Slots, Claim(s), ~slot[s].busy
    PROVE  \E result \in {"none", "ended"} :
             Becomes(s, After(result, "copy"), slot[s].req, slot[s].input, slot[s].output, result, TRUE)
<1>1. PICK result \in {"none", "ended"} : slot' = [Continue(s, "copy", result) EXCEPT ![s].busy = TRUE]
  BY Zenon DEF Claim, Results
<1> DEFINE rec == [slot[s] EXCEPT !.pc = After(result, "copy"), !.result = result, !.busy = TRUE]
<1>2. slot[s] \in SlotRecords /\ After(result, "copy") \in Pcs /\ result \in Ends
  BY SlotTyped, Zenon DEF After, Pcs, Ends
<1>3. rec \in SlotRecords /\ rec.pc = After(result, "copy") /\ rec.req = slot[s].req /\ rec.input = slot[s].input
        /\ rec.output = slot[s].output /\ rec.result = result /\ rec.busy = TRUE
  BY <1>2, Zenon DEF SlotRecords
<1>4. slot' = [slot EXCEPT ![s] = rec]
  BY <1>1, Zenon DEF Continue, After, TypeInv
<1> HIDE DEF rec
<1>5. Becomes(s, rec.pc, rec.req, rec.input, rec.output, rec.result, rec.busy)
  BY <1>3, <1>4, BecomesRecord, Zenon
<1> QED
  BY <1>3, <1>5, Zenon

(* copy_input fills the slot with the batch it has. *)
LEMMA CopyInputFacts ==
    ASSUME TypeInv, NEW s \in Slots, CopyInput(s)
    PROVE  \E result \in {"none", "ended"} :
             Becomes(s, After(result, "compute"), slot[s].req, slot[s].req, slot[s].output, result, slot[s].busy)
<1>1. PICK result \in {"none", "ended"} : slot' = [Continue(s, "compute", result) EXCEPT ![s].input = slot[s].req]
  BY Zenon DEF CopyInput, CopiedInput, Results
<1> DEFINE rec == [slot[s] EXCEPT !.pc = After(result, "compute"), !.result = result, !.input = slot[s].req]
<1>2. slot[s] \in SlotRecords /\ After(result, "compute") \in Pcs /\ result \in Ends /\ slot[s].req \in Batches
  BY SlotTyped, Zenon DEF After, Pcs, Ends
<1>3. rec \in SlotRecords /\ rec.pc = After(result, "compute") /\ rec.req = slot[s].req /\ rec.input = slot[s].req
        /\ rec.output = slot[s].output /\ rec.result = result /\ rec.busy = slot[s].busy
  BY <1>2, Zenon DEF SlotRecords
<1>4. slot' = [slot EXCEPT ![s] = rec]
  BY <1>1, Zenon DEF Continue, After, TypeInv
<1> HIDE DEF rec
<1>5. Becomes(s, rec.pc, rec.req, rec.input, rec.output, rec.result, rec.busy)
  BY <1>3, <1>4, BecomesRecord, Zenon
<1> QED
  BY <1>3, <1>5, Zenon

(* The output is computed from what the slot holds. *)
LEMMA ComputedFacts ==
    ASSUME TypeInv, NEW s \in Slots, Computed(s)
    PROVE  \E result \in {"output", "ended"} :
             Becomes(s, "respond", slot[s].req, slot[s].input, slot[s].input, result, slot[s].busy)
<1>1. PICK result \in {"output", "ended"} : slot' = [Continue(s, "respond", result) EXCEPT ![s].output = slot[s].input]
  BY Zenon DEF Computed, PreparedOutput, Results
<1> DEFINE rec == [slot[s] EXCEPT !.pc = "respond", !.result = result, !.output = slot[s].input]
<1>2. slot[s] \in SlotRecords /\ "respond" \in Pcs /\ result \in Ends /\ slot[s].input \in Batches
  BY SlotTyped, Zenon DEF Pcs, Ends
<1>3. rec \in SlotRecords /\ rec.pc = "respond" /\ rec.req = slot[s].req /\ rec.input = slot[s].input
        /\ rec.output = slot[s].input /\ rec.result = result /\ rec.busy = slot[s].busy
  BY <1>2, Zenon DEF SlotRecords
<1>4. slot' = [slot EXCEPT ![s] = rec]
  BY <1>1, Zenon DEF Continue, TypeInv
<1> HIDE DEF rec
<1>5. Becomes(s, rec.pc, rec.req, rec.input, rec.output, rec.result, rec.busy)
  BY <1>3, <1>4, BecomesRecord, Zenon
<1> QED
  BY <1>3, <1>5, Zenon

(* The backend raises. *)
LEMMA RaisedFacts ==
    ASSUME TypeInv, NEW s \in Slots, Raised(s)
    PROVE  \E result \in {"rejected", "fatal"} :
             Becomes(s, "respond", slot[s].req, slot[s].input, slot[s].output, result, FALSE)
<1>1. PICK result \in {"rejected", "fatal"} :
        slot' = [slot EXCEPT ![s].pc = "respond", ![s].result = result, ![s].busy = FALSE]
  BY Zenon DEF Raised, BackendErrors
<1> DEFINE rec == [slot[s] EXCEPT !.pc = "respond", !.result = result, !.busy = FALSE]
<1>2. slot[s] \in SlotRecords /\ "respond" \in Pcs /\ result \in Ends
  BY SlotTyped, Zenon DEF Pcs, Ends
<1>3. rec \in SlotRecords /\ rec.pc = "respond" /\ rec.req = slot[s].req /\ rec.input = slot[s].input
        /\ rec.output = slot[s].output /\ rec.result = result /\ rec.busy = FALSE
  BY <1>2, Zenon DEF SlotRecords
<1>4. slot' = [slot EXCEPT ![s] = rec]
  BY <1>1, Zenon
<1> HIDE DEF rec
<1>5. Becomes(s, rec.pc, rec.req, rec.input, rec.output, rec.result, rec.busy)
  BY <1>3, <1>4, BecomesRecord, Zenon
<1> QED
  BY <1>3, <1>5, Zenon

(* The end of a turn: the slot is idle again, or its loop ends with the fatal error. *)
LEMMA EndTurnFacts ==
    ASSUME TypeInv, NEW s \in Slots, EndTurn(s)
    PROVE  \/ /\ slot[s].result = "fatal"
              /\ Becomes(s, "fatal", None, slot[s].input, slot[s].output, slot[s].result, slot[s].busy)
           \/ Becomes(s, "take", None, slot[s].input, None, "none",
                      slot[s].result = "rejected" /\ slot[s].busy)
<1>0. slot[s] \in SlotRecords /\ slot[s].busy \in BOOLEAN /\ None \in Batches
        /\ "fatal" \in Pcs /\ "take" \in Pcs /\ "none" \in Ends
  BY SlotTyped, Zenon DEF Pcs, Ends, Batches
<1>1. CASE slot[s].result = "fatal"
  <2> DEFINE rec == [slot[s] EXCEPT !.pc = "fatal", !.req = None]
  <2>1. rec \in SlotRecords /\ rec.pc = "fatal" /\ rec.req = None /\ rec.input = slot[s].input
          /\ rec.output = slot[s].output /\ rec.result = slot[s].result /\ rec.busy = slot[s].busy
    BY <1>0, Zenon DEF SlotRecords
  <2>2. slot' = [slot EXCEPT ![s] = rec]
    BY <1>1, Zenon DEF EndTurn
  <2> HIDE DEF rec
  <2>3. Becomes(s, rec.pc, rec.req, rec.input, rec.output, rec.result, rec.busy)
    BY <2>1, <2>2, BecomesRecord, Zenon
  <2> QED
    BY <1>1, <2>1, <2>3, Zenon
<1>2. CASE slot[s].result # "fatal"
  <2> DEFINE in == slot[s].result = "rejected" /\ slot[s].busy
             rec == [slot[s] EXCEPT !.pc = "take", !.req = None, !.result = "none", !.output = None, !.busy = in]
  <2>0. in \in BOOLEAN
    BY <1>0, Zenon
  <2>1. slot' = [slot EXCEPT ![s] = rec]
    BY <1>2, Zenon DEF EndTurn
  <2> HIDE DEF in
  <2>2. rec \in SlotRecords /\ rec.pc = "take" /\ rec.req = None /\ rec.input = slot[s].input
          /\ rec.output = None /\ rec.result = "none" /\ rec.busy = in
    BY <1>0, <2>0, Zenon DEF SlotRecords
  <2> HIDE DEF rec
  <2>3. Becomes(s, rec.pc, rec.req, rec.input, rec.output, rec.result, rec.busy)
    BY <2>1, <2>2, BecomesRecord, Zenon
  <2> QED
    BY <2>2, <2>3, Zenon DEF in
<1> QED
  BY <1>1, <1>2, Zenon
-----------------------------------------------------------------------------
(* What a step does to the queue: nothing, or one of these. *)
Admits(r) ==
    /\ rpc[r] = "decode" /\ rpc' = [rpc EXCEPT ![r] = "wait"] /\ Rejection(r) = "none"
    /\ entry' = [entry EXCEPT ![r] = "waiting"] /\ waiting' = Append(waiting, r)
    /\ admitted' = Count(r, 1)

Cancels(r) == entry[r] = "waiting" /\ waiting' = Without(r) /\ Release(r, "dropped")

Takes(r) ==
    /\ waiting # <<>> /\ r = Head(waiting) /\ entry' = [entry EXCEPT ![r] = "active"]
    /\ waiting' = Tail(waiting) /\ UNCHANGED admitted

Finishes(r) == entry[r] = "active" /\ Release(r, "finished") /\ UNCHANGED waiting

Discards ==
    /\ waiting' = <<>>
    /\ entry' = [r \in Requests |-> IF entry[r] = "waiting" THEN "dropped" ELSE entry[r]]
    /\ admitted' = [e \in Experts |-> admitted[e]
          - Cardinality({r \in Requests : entry[r] = "waiting" /\ e \in ExpertsOf[r]})]

QueueStep ==
    \/ UNCHANGED queue
    \/ \E r \in Requests : Admits(r) \/ Cancels(r) \/ Takes(r) \/ Finishes(r)
    \/ Discards

(* The handler of a call admits its batch or takes it out of the line. *)
LEMMA HandlerQueue ==
    ASSUME NEW r \in Requests, Arrive(r) \/ Handler(r) \/ CallerCancels(r)
    PROVE  UNCHANGED queue \/ Admits(r) \/ (Cancels(r) /\ rpc[r] = "wait")
<1>1. CASE Decoded(r)
  BY <1>1, Zenon DEF Decoded, Admits
<1>2. CASE HandlerCancelled(r)
  BY <1>2, Zenon DEF HandlerCancelled, CancelWaiting, Cancels
<1>3. CASE Answered(r) \/ Arrive(r) \/ CallerCancels(r)
  BY <1>3, Zenon DEF Answered, Arrive, CallerCancels
<1> QED
  BY <1>1, <1>2, <1>3, Zenon DEF Handler

(* The loop of a slot takes the oldest batch and finishes the one it has. *)
LEMMA SlotQueue ==
    ASSUME TypeInv, BatchesHeld, NEW s \in Slots, SlotStep(s)
    PROVE  \/ UNCHANGED queue
           \/ \E r \in Requests : Takes(r)
           \/ slot[s].req \in Requests /\ Finishes(slot[s].req)
<1>1. CASE Take(s)
  <2>1. waiting # <<>> => Head(waiting) \in Requests
    BY DEF TypeInv
  <2> QED
    BY <1>1, <2>1, Zenon DEF Take, Takes, queue
<1>2. CASE Finish(s)
  BY <1>2, Zenon DEF Finish, Finishes, BatchesHeld, Held, Works
<1>3. CASE Claim(s) \/ CopyInput(s) \/ Computed(s) \/ Raised(s) \/ Respond(s) \/ Encoded(s)
             \/ EndTurn(s) \/ FatalReturns(s)
  BY <1>3, Zenon DEF Claim, CopyInput, Computed, Raised, Respond, Encoded, EndTurn, FatalReturns
<1> QED
  BY <1>1, <1>2, <1>3, Zenon DEF SlotStep

(* Every step is one of these for the queue. *)
LEMMA QueueSteps ==
    ASSUME TypeInv, BatchesHeld, [Next]_vars
    PROVE  QueueStep
<1>1. ASSUME NEW r \in Requests, Arrive(r) \/ Handler(r) \/ CallerCancels(r) PROVE QueueStep
  BY <1>1, HandlerQueue, Zenon DEF QueueStep
<1>2. ASSUME NEW s \in Slots, SlotStep(s) PROVE QueueStep
  BY <1>2, SlotQueue, Zenon DEF QueueStep
<1>3. ASSUME NEW kind \in DOMAIN drain, BeginDrain(kind) \/ WaitIdle(kind) \/ WaitIdleExpires(kind)
      PROVE  QueueStep
  BY <1>3, Zenon DEF BeginDrain, WaitIdle, WaitIdleExpires, QueueStep
<1>4. CASE BeginClose
  BY <1>4, Zenon DEF BeginClose, Discards, QueueStep
<1>5. CASE ClearDrains \/ CloseReceiver \/ CloseExecutor \/ CloseSlots \/ UNCHANGED vars
  BY <1>5, Zenon DEF ClearDrains, CloseReceiver, CloseExecutor, CloseSlots, vars, QueueStep
<1> QED
  BY <1>1, <1>2, <1>3, <1>4, <1>5, Zenon DEF Next

(* deque.remove takes one batch out and keeps the others. *)
LEMMA WithoutFacts ==
    ASSUME TypeInv, NEW r \in Requests, NEW i \in DOMAIN waiting, waiting[i] = r,
           \A j, k \in DOMAIN waiting : waiting[j] = waiting[k] => j = k
    PROVE  /\ Without(r) \in Seq(Requests) /\ Len(Without(r)) = Len(waiting) - 1
           /\ \A j \in 1 .. Len(waiting) - 1 : Without(r)[j] = waiting[IF j < i THEN j ELSE j + 1]
<1>1. waiting \in Seq(Requests) /\ i \in 1 .. Len(waiting)
  BY DEF TypeInv
<1>2. i = CHOOSE j \in DOMAIN waiting : waiting[j] = r
  BY Zenon
<1>3. Without(r) = SubSeq(waiting, 1, i - 1) \o SubSeq(waiting, i + 1, Len(waiting))
  BY <1>2, Zenon DEF Without
<1> DEFINE a == SubSeq(waiting, 1, i - 1)  b == SubSeq(waiting, i + 1, Len(waiting))
<1>4. a \in Seq(Requests) /\ Len(a) = i - 1 /\ \A j \in 1 .. i - 1 : a[j] = waiting[j]
  BY <1>1
<1>5. b \in Seq(Requests) /\ Len(b) = Len(waiting) - i
        /\ \A j \in 1 .. Len(waiting) - i : b[j] = waiting[i + j]
  BY <1>1
<1> HIDE DEF a, b
<1>6. /\ a \o b \in Seq(Requests) /\ Len(a \o b) = Len(waiting) - 1
      /\ \A j \in 1 .. Len(waiting) - 1 : (a \o b)[j] = IF j =< i - 1 THEN a[j] ELSE b[j - (i - 1)]
  <2>1. /\ a \o b \in Seq(Requests) /\ Len(a \o b) = Len(a) + Len(b)
        /\ \A j \in 1 .. Len(a) + Len(b) :
             (a \o b)[j] = IF j =< Len(a) THEN a[j] ELSE b[j - Len(a)]
    <3>1. a \in Seq(Requests) /\ b \in Seq(Requests)
      BY <1>4, <1>5, Zenon
    <3>2. a \o b \in Seq(Requests) /\ Len(a \o b) = Len(a) + Len(b)
      BY <3>1
    <3> QED
      BY <3>1, <3>2
  <2>2. Len(a) = i - 1 /\ Len(b) = Len(waiting) - i /\ Len(waiting) \in Nat /\ i \in Nat
    BY <1>1, <1>4, <1>5
  <2>3. Len(a) + Len(b) = Len(waiting) - 1
    BY <2>2
  <2> QED
    BY <2>1, <2>2, <2>3, Zenon
<1>7. ASSUME NEW j \in 1 .. Len(waiting) - 1
      PROVE  (a \o b)[j] = waiting[IF j < i THEN j ELSE j + 1]
  <2>1. CASE j < i
    BY <1>1, <1>4, <1>6, <2>1
  <2>2. CASE ~(j < i)
    <3>1. j - (i - 1) \in 1 .. Len(waiting) - i /\ i + (j - (i - 1)) = j + 1
      BY <1>1, <2>2
    <3>2. (a \o b)[j] = b[j - (i - 1)]
      BY <1>1, <1>6, <2>2
    <3> QED
      BY <1>5, <2>2, <3>1, <3>2, Zenon
  <2> QED
    BY <2>1, <2>2, Zenon
<1>8. Without(r) = a \o b
  BY <1>3, Zenon DEF a, b
<1> HIDE DEF Without
<1> QED
  BY <1>6, <1>7, <1>8, Zenon

(* The oldest batch of the line, and those behind it. *)
LEMMA TakeLine ==
    ASSUME TypeInv, Line, NEW r \in Requests, Takes(r)
    PROVE  waiting' \in Seq(Requests) /\ Line' /\ entry[r] = "waiting"
<1>1. waiting \in Seq(Requests) /\ waiting # <<>> /\ waiting' = Tail(waiting) /\ r = Head(waiting)
  BY Zenon DEF Takes, TypeInv
<1>2. /\ waiting' \in Seq(Requests) /\ Len(waiting') = Len(waiting) - 1 /\ Len(waiting) \in Nat
      /\ \A i \in 1 .. Len(waiting) - 1 : waiting'[i] = waiting[i + 1]
      /\ DOMAIN waiting = 1 .. Len(waiting) /\ DOMAIN waiting' = 1 .. Len(waiting) - 1
      /\ Len(waiting) >= 1 /\ waiting[1] = r
  BY <1>1
<1>3. /\ entry'[r] = "active" /\ \A q \in Requests \ {r} : entry'[q] = entry[q]
  BY Zenon DEF Takes, TypeInv
<1>4. entry[r] = "waiting"
  BY <1>2 DEF Line
<1>5. ASSUME NEW i \in DOMAIN waiting'
      PROVE  /\ i + 1 \in DOMAIN waiting /\ waiting'[i] = waiting[i + 1]
             /\ waiting'[i] \in Requests /\ waiting'[i] # r
  <2>1. i + 1 \in DOMAIN waiting /\ waiting'[i] = waiting[i + 1] /\ 1 \in DOMAIN waiting /\ i + 1 # 1
    BY <1>2
  <2>2. waiting'[i] \in Requests
    BY <1>2
  <2> QED
    BY <1>2, <2>1, <2>2, Zenon DEF Line
<1>6. \A i \in DOMAIN waiting' : entry'[waiting'[i]] = "waiting"
  BY <1>3, <1>5 DEF Line
<1>7. ASSUME NEW i \in DOMAIN waiting', NEW j \in DOMAIN waiting', waiting'[i] = waiting'[j] PROVE i = j
  <2>1. i + 1 = j + 1
    BY <1>5, <1>7, Zenon DEF Line
  <2> QED
    BY <1>2, <2>1
<1>8. ASSUME NEW q \in Requests, entry'[q] = "waiting" PROVE \E i \in DOMAIN waiting' : waiting'[i] = q
  <2>1. q # r /\ entry[q] = "waiting"
    BY <1>3, <1>8, Zenon
  <2>2. PICK i \in DOMAIN waiting : waiting[i] = q
    BY <2>1, Zenon DEF Line
  <2>3. i - 1 \in DOMAIN waiting' /\ waiting'[i - 1] = q
    BY <1>2, <2>1, <2>2
  <2> QED
    BY <2>3, Zenon
<1> QED
  BY <1>2, <1>4, <1>6, <1>7, <1>8, Zenon DEF Line

(* A batch that is admitted is the last of the line. *)
LEMMA AdmitLine ==
    ASSUME TypeInv, Line, NEW r \in Requests, Admits(r), entry[r] = "none"
    PROVE  waiting' \in Seq(Requests) /\ Line'
<1>1. /\ waiting' \in Seq(Requests) /\ Len(waiting) \in Nat /\ waiting \in Seq(Requests)
      /\ DOMAIN waiting = 1 .. Len(waiting) /\ DOMAIN waiting' = 1 .. Len(waiting) + 1
      /\ waiting'[Len(waiting) + 1] = r
      /\ \A i \in DOMAIN waiting : waiting'[i] = waiting[i]
  BY DEF Admits, TypeInv
<1>2. /\ entry'[r] = "waiting" /\ \A q \in Requests \ {r} : entry'[q] = entry[q]
  BY Zenon DEF Admits, TypeInv
<1>3. \A i \in DOMAIN waiting' : i \in DOMAIN waiting \/ i = Len(waiting) + 1
  BY <1>1
<1>4. \A i \in DOMAIN waiting : waiting[i] \in Requests /\ waiting[i] # r /\ i \in DOMAIN waiting' /\ i # Len(waiting) + 1
  BY <1>1 DEF Line
<1>5. \A i \in DOMAIN waiting' : entry'[waiting'[i]] = "waiting"
  BY <1>1, <1>2, <1>3, <1>4 DEF Line
<1>6. \A i, j \in DOMAIN waiting' : waiting'[i] = waiting'[j] => i = j
  BY <1>1, <1>3, <1>4, Zenon DEF Line
<1>7. ASSUME NEW q \in Requests, entry'[q] = "waiting" PROVE \E i \in DOMAIN waiting' : waiting'[i] = q
  <2>1. CASE q = r
    <3>1. Len(waiting) + 1 \in DOMAIN waiting'
      BY <1>1
    <3> QED
      BY <1>1, <2>1, <3>1, Zenon
  <2>2. CASE q # r
    BY <1>1, <1>2, <1>4, <1>7, <2>2 DEF Line
  <2> QED
    BY <2>1, <2>2, Zenon
<1> QED
  BY <1>1, <1>5, <1>6, <1>7, Zenon DEF Line

(* A batch whose call was cancelled leaves the line. *)
LEMMA CancelLine ==
    ASSUME TypeInv, Line, NEW r \in Requests, Cancels(r)
    PROVE  waiting' \in Seq(Requests) /\ Line'
<1>1. PICK k \in DOMAIN waiting : waiting[k] = r
  BY Zenon DEF Cancels, Line
<1> DEFINE At(j) == IF j < k THEN j ELSE j + 1
<1>2. /\ waiting' \in Seq(Requests) /\ Len(waiting') = Len(waiting) - 1
      /\ \A j \in 1 .. Len(waiting) - 1 : waiting'[j] = waiting[At(j)]
  BY <1>1, WithoutFacts DEF Cancels, Line
<1>3. /\ DOMAIN waiting = 1 .. Len(waiting) /\ Len(waiting) \in Nat /\ k \in 1 .. Len(waiting)
      /\ DOMAIN waiting' = 1 .. Len(waiting) - 1
  BY <1>1, <1>2 DEF TypeInv
<1>4. /\ entry'[r] = "dropped" /\ \A q \in Requests \ {r} : entry'[q] = entry[q]
  BY Zenon DEF Cancels, Release, TypeInv
<1>5. ASSUME NEW j \in DOMAIN waiting'
      PROVE  /\ At(j) \in DOMAIN waiting /\ waiting'[j] = waiting[At(j)] /\ At(j) # k
             /\ waiting'[j] \in Requests /\ waiting'[j] # r
  <2>1. At(j) \in DOMAIN waiting /\ At(j) # k /\ waiting'[j] = waiting[At(j)]
    BY <1>2, <1>3
  <2>2. waiting'[j] \in Requests
    BY <1>2
  <2> HIDE DEF At
  <2> QED
    BY <1>1, <2>1, <2>2, Zenon DEF Line
<1>6. ASSUME NEW i \in DOMAIN waiting', NEW j \in DOMAIN waiting', At(i) = At(j) PROVE i = j
  BY <1>3, <1>6
<1>7. ASSUME NEW q \in Requests, entry'[q] = "waiting" PROVE \E i \in DOMAIN waiting' : waiting'[i] = q
  <2>1. q # r /\ entry[q] = "waiting"
    BY <1>4, <1>7, Zenon
  <2>2. PICK n \in DOMAIN waiting : waiting[n] = q
    BY <2>1, Zenon DEF Line
  <2>3. n # k
    BY <1>1, <2>1, <2>2, Zenon
  <2>4. \E i \in DOMAIN waiting' : At(i) = n
    <3>1. CASE n < k
      <4>1. n \in DOMAIN waiting' /\ At(n) = n
        BY <1>3, <3>1
      <4> QED
        BY <4>1, Zenon
    <3>2. CASE ~(n < k)
      <4>1. n - 1 \in DOMAIN waiting' /\ At(n - 1) = n
        BY <1>3, <2>3, <3>2
      <4> QED
        BY <4>1, Zenon
    <3> QED
      BY <3>1, <3>2, Zenon
  <2> HIDE DEF At
  <2> QED
    BY <1>5, <2>2, <2>4, Zenon
<1> HIDE DEF At
<1>8. \A i \in DOMAIN waiting' : entry'[waiting'[i]] = "waiting"
  BY <1>4, <1>5 DEF Line
<1>9. \A i, j \in DOMAIN waiting' : waiting'[i] = waiting'[j] => i = j
  BY <1>5, <1>6, Zenon DEF Line
<1> QED
  BY <1>2, <1>7, <1>8, <1>9, Zenon DEF Line

(* The line after any step of the queue. *)
LEMMA LineStep ==
    ASSUME TypeInv, Line, Decoding, QueueStep
    PROVE  waiting' \in Seq(Requests) /\ Line'
<1>1. CASE UNCHANGED queue
  BY <1>1, Zenon DEF queue, Line, TypeInv
<1>2. ASSUME NEW r \in Requests, Admits(r) PROVE waiting' \in Seq(Requests) /\ Line'
  BY <1>2, AdmitLine, Zenon DEF Admits, Decoding
<1>3. ASSUME NEW r \in Requests, Finishes(r) PROVE waiting' \in Seq(Requests) /\ Line'
  <2>1. waiting' = waiting /\ waiting \in Seq(Requests) /\ entry[r] = "active" /\ entry'[r] = "finished"
          /\ \A q \in Requests \ {r} : entry'[q] = entry[q]
    BY <1>3, Zenon DEF Finishes, Release, TypeInv
  <2>2. \A i \in DOMAIN waiting : waiting[i] \in Requests
    BY <2>1
  <2> QED
    BY <2>1, <2>2, Zenon DEF Line
<1>4. CASE Discards
  <2>1. waiting' = <<>> /\ \A r \in Requests : entry'[r] # "waiting"
    BY <1>4, Zenon DEF Discards, TypeInv
  <2>2. waiting' \in Seq(Requests) /\ DOMAIN waiting' = {}
    BY <2>1
  <2> QED
    BY <2>1, <2>2, Zenon DEF Line
<1> QED
  BY <1>1, <1>2, <1>3, <1>4, TakeLine, CancelLine, Zenon DEF QueueStep

(* The batches that use an expert. *)
Users(e) == {r \in Requests : entry[r] \in {"waiting", "active"} /\ e \in ExpertsOf[r]}
Waits(e) == {r \in Requests : entry[r] = "waiting" /\ e \in ExpertsOf[r]}

(* There are finitely many of them. *)
LEMMA UsersFinite ==
    ASSUME ExecutionAssumption, NEW e
    PROVE  /\ IsFiniteSet(Users(e)) /\ IsFiniteSet(Waits(e))
           /\ Cardinality(Users(e)) \in Nat /\ Cardinality(Waits(e)) \in Nat
<1>1. IsFiniteSet(Requests) /\ Users(e) \in SUBSET Requests /\ Waits(e) \in SUBSET Requests
  BY Zenon DEF ExecutionAssumption, Users, Waits
<1>2. IsFiniteSet(Users(e)) /\ IsFiniteSet(Waits(e))
  BY <1>1, FS_Subset, Zenon
<1> QED
  BY <1>2, FS_CardinalityType, Zenon

(* One batch more or less: the count of each expert it names follows. *)
LEMMA CountsOfOne ==
    ASSUME ExecutionAssumption, TypeInv, UseCountsExact, NEW r \in Requests,
           \/ /\ entry[r] \notin {"waiting", "active"} /\ entry'[r] \in {"waiting", "active"}
              /\ admitted' = Count(r, 1)
           \/ /\ entry[r] \in {"waiting", "active"} /\ entry'[r] \notin {"waiting", "active"}
              /\ admitted' = Count(r, -1),
           \A q \in Requests \ {r} : entry'[q] = entry[q]
    PROVE  admitted' \in [Experts -> Int] /\ UseCountsExact'
<1> SUFFICES ASSUME NEW e \in Experts
             PROVE  /\ admitted' = [x \in Experts |-> admitted'[x]] /\ admitted'[e] \in Int
                    /\ admitted'[e] = Cardinality((Users(e))')
  BY Zenon DEF Count, UseCountsExact, Users
<1>1. admitted[e] = Cardinality(Users(e)) /\ IsFiniteSet(Users(e)) /\ Cardinality(Users(e)) \in Nat
  BY UsersFinite, Zenon DEF UseCountsExact, Users
<1>2. admitted' = [x \in Experts |-> admitted'[x]]
  BY Zenon DEF Count
<1>3. CASE e \notin ExpertsOf[r]
  <2>1. (Users(e))' = Users(e)
    BY <1>3, Zenon DEF Users
  <2>2. admitted'[e] = admitted[e]
    BY <1>3, Zenon DEF Count
  <2> QED
    BY <1>1, <1>2, <2>1, <2>2
<1>4. CASE e \in ExpertsOf[r] /\ entry[r] \notin {"waiting", "active"} /\ entry'[r] \in {"waiting", "active"}
             /\ admitted' = Count(r, 1)
  <2>1. (Users(e))' = Users(e) \cup {r} /\ r \notin Users(e)
    BY <1>4, Zenon DEF Users
  <2>2. admitted'[e] = admitted[e] + 1
    BY <1>4, Zenon DEF Count
  <2>3. Cardinality(Users(e) \cup {r}) = Cardinality(Users(e)) + 1
    BY <1>1, <2>1, FS_AddElement, Zenon
  <2> QED
    BY <1>1, <1>2, <2>1, <2>2, <2>3
<1>5. CASE e \in ExpertsOf[r] /\ entry[r] \in {"waiting", "active"} /\ entry'[r] \notin {"waiting", "active"}
             /\ admitted' = Count(r, -1)
  <2>1. (Users(e))' = Users(e) \ {r} /\ r \in Users(e)
    BY <1>5, Zenon DEF Users
  <2>2. admitted'[e] = admitted[e] - 1
    BY <1>1, <1>5, Zenon DEF Count
  <2>3. Cardinality(Users(e) \ {r}) = Cardinality(Users(e)) - 1
    BY <1>1, <2>1, FS_RemoveElement, Zenon
  <2> QED
    BY <1>1, <1>2, <2>1, <2>2, <2>3
<1> QED
  BY <1>3, <1>4, <1>5, Zenon

(* begin_close takes the batches that wait off the counts of their experts. *)
LEMMA CountsDiscarded ==
    ASSUME ExecutionAssumption, TypeInv, UseCountsExact, Discards
    PROVE  admitted' \in [Experts -> Int] /\ UseCountsExact'
<1> SUFFICES ASSUME NEW e \in Experts
             PROVE  /\ admitted' = [x \in Experts |-> admitted'[x]] /\ admitted'[e] \in Int
                    /\ admitted'[e] = Cardinality((Users(e))')
  BY Zenon DEF Discards, UseCountsExact, Users
<1>1. /\ admitted[e] = Cardinality(Users(e)) /\ IsFiniteSet(Users(e)) /\ IsFiniteSet(Waits(e))
      /\ Cardinality(Users(e)) \in Nat /\ Cardinality(Waits(e)) \in Nat
  BY UsersFinite, Zenon DEF UseCountsExact, Users
<1>2. admitted' = [x \in Experts |-> admitted'[x]] /\ admitted'[e] = admitted[e] - Cardinality(Waits(e))
  BY Zenon DEF Discards, Waits
<1>3. (Users(e))' = Users(e) \ Waits(e) /\ Users(e) \cap Waits(e) = Waits(e)
  BY Zenon DEF Discards, Users, Waits, TypeInv
<1>4. Cardinality(Users(e) \ Waits(e)) = Cardinality(Users(e)) - Cardinality(Waits(e))
  <2>1. Cardinality(Users(e) \ Waits(e)) = Cardinality(Users(e)) - Cardinality(Users(e) \cap Waits(e))
    BY <1>1, FS_Difference, Zenon
  <2> QED
    BY <1>3, <2>1, Zenon
<1> QED
  BY <1>1, <1>2, <1>3, <1>4

(* The counts after any step of the queue. *)
LEMMA CountsStep ==
    ASSUME ExecutionAssumption, TypeInv, Line, Decoding, UseCountsExact, QueueStep
    PROVE  /\ entry' \in [Requests -> {"none", "waiting", "active", "finished", "dropped"}]
           /\ admitted' \in [Experts -> Int] /\ UseCountsExact'
<1>1. CASE UNCHANGED queue
  BY <1>1 DEF queue, UseCountsExact, TypeInv
<1>2. ASSUME NEW r \in Requests, Admits(r)
      PROVE  entry[r] = "none" /\ entry' = [entry EXCEPT ![r] = "waiting"] /\ admitted' = Count(r, 1)
  BY <1>2, Zenon DEF Admits, Decoding
<1>3. ASSUME NEW r \in Requests, Takes(r)
      PROVE  entry[r] = "waiting" /\ entry' = [entry EXCEPT ![r] = "active"] /\ admitted' = admitted
  BY <1>3, TakeLine, Zenon DEF Takes
<1>4. ASSUME NEW r \in Requests, Cancels(r) \/ Finishes(r)
      PROVE  /\ entry[r] \in {"waiting", "active"} /\ admitted' = Count(r, -1)
             /\ entry' = [entry EXCEPT ![r] = "dropped"] \/ entry' = [entry EXCEPT ![r] = "finished"]
  BY <1>4, Zenon DEF Cancels, Finishes, Release
<1>5. CASE Discards
  <2>1. entry' \in [Requests -> {"none", "waiting", "active", "finished", "dropped"}]
    BY <1>5, Zenon DEF Discards, TypeInv
  <2> QED
    BY <1>5, <2>1, CountsDiscarded, Zenon
<1>6. ASSUME NEW r \in Requests, Admits(r) \/ Cancels(r) \/ Finishes(r)
      PROVE  /\ entry' \in [Requests -> {"none", "waiting", "active", "finished", "dropped"}]
             /\ admitted' \in [Experts -> Int] /\ UseCountsExact'
  <2>1. /\ entry' \in [Requests -> {"none", "waiting", "active", "finished", "dropped"}]
        /\ \A q \in Requests \ {r} : entry'[q] = entry[q]
    BY <1>2, <1>4, <1>6 DEF TypeInv
  <2>2. \/ /\ entry[r] \notin {"waiting", "active"} /\ entry'[r] \in {"waiting", "active"}
           /\ admitted' = Count(r, 1)
        \/ /\ entry[r] \in {"waiting", "active"} /\ entry'[r] \notin {"waiting", "active"}
           /\ admitted' = Count(r, -1)
    BY <1>2, <1>4, <1>6 DEF TypeInv
  <2> QED
    BY <2>1, <2>2, CountsOfOne, Zenon
<1>7. ASSUME NEW r \in Requests, Takes(r)
      PROVE  /\ entry' \in [Requests -> {"none", "waiting", "active", "finished", "dropped"}]
             /\ admitted' \in [Experts -> Int] /\ UseCountsExact'
  <2>1. /\ entry' \in [Requests -> {"none", "waiting", "active", "finished", "dropped"}]
        /\ entry[r] = "waiting" /\ entry'[r] = "active" /\ admitted' = admitted
        /\ \A q \in Requests \ {r} : entry'[q] = entry[q]
    BY <1>3, <1>7 DEF TypeInv
  <2>2. \A e \in Experts : (Users(e))' = Users(e)
    BY <2>1, Zenon DEF Users
  <2>3. UseCountsExact'
    BY <2>1, <2>2, Zenon DEF UseCountsExact, Users
  <2> QED
    BY <2>1, <2>3, Zenon DEF TypeInv
<1> QED
  BY <1>1, <1>5, <1>6, <1>7, Zenon DEF QueueStep
-----------------------------------------------------------------------------
Others(s) == \A t \in Slots \ {s} : slot'[t] = slot[t]

(* A step of the queue that no slot takes leaves the batches of the slots alone. *)
LEMMA HeldWithoutSlot ==
    ASSUME TypeInv, BatchesHeld, slot' = slot,
           \A r \in Requests : /\ entry[r] \in {"active", "finished"} => entry'[r] = entry[r]
                               /\ entry'[r] = "active" => entry[r] = "active"
    PROVE  BatchesHeld'
<1>1. \A s \in Slots : (Held(s))' /\ ((Works(s))' <=> Works(s))
  BY DEF BatchesHeld, Held, Works
<1> QED
  BY <1>1, Zenon DEF BatchesHeld

(* A slot goes on with its batch. *)
LEMMA HeldOn ==
    ASSUME TypeInv, BatchesHeld, NEW s \in Slots, Others(s), slot'[s].req = slot[s].req,
           Works(s), (Works(s))', entry' = entry
    PROVE  BatchesHeld'
<1>1. (Held(s))'
  BY Zenon DEF BatchesHeld, Held, Works
<1>2. \A t \in Slots : t # s => (Held(t))'
  BY DEF BatchesHeld, Held, Works, Others
<1>3. \A t \in Slots : slot'[t].req = slot[t].req /\ ((Works(t))' <=> Works(t))
  BY Zenon DEF Works, Others
<1> QED
  BY <1>1, <1>2, <1>3 DEF BatchesHeld

(* An idle slot takes a batch that waited. *)
LEMMA HeldTake ==
    ASSUME ExecutionAssumption, TypeInv, BatchesHeld, NEW s \in Slots, Others(s), slot[s].pc = "take",
           NEW r \in Requests, slot'[s].req = r, slot'[s].pc = "run",
           entry[r] = "waiting", entry' = [entry EXCEPT ![r] = "active"]
    PROVE  BatchesHeld'
<1>1. /\ entry'[r] = "active" /\ \A q \in Requests \ {r} : entry'[q] = entry[q]
  BY Zenon DEF TypeInv
<1>2. slot[s].req = None /\ ~Works(s) /\ (Works(s))' /\ (Held(s))'
  BY <1>1, Zenon DEF BatchesHeld, Held, Works
<1>3. ASSUME NEW t \in Slots \ {s}
      PROVE  (Held(t))' /\ slot'[t].req = slot[t].req /\ ((Works(t))' <=> Works(t)) /\ slot[t].req # r
  <2>1. slot'[t] = slot[t] /\ slot[t].pc \in Pcs
    BY SlotTyped, Zenon DEF Others
  <2>2. Held(t)
    BY Zenon DEF BatchesHeld
  <2>3. slot[t].req # r
    <3>1. r # None
      BY Zenon DEF ExecutionAssumption
    <3>2. Works(t) \/ slot[t].pc \in {"take", "over", "fatal", "release"}
      BY <2>1, <2>2, Zenon DEF Held, Works, Pcs
    <3> QED
      BY <2>2, <3>1, <3>2, Zenon DEF Held
  <2>4. (Held(t))'
    BY <1>1, <2>1, <2>2, <2>3, Zenon DEF Held, Works
  <2> QED
    BY <2>1, <2>3, <2>4, Zenon DEF Works
<1>4. \A t, u \in Slots : slot'[t].req = slot'[u].req /\ slot'[t].req # None => t = u
  BY <1>3 DEF BatchesHeld
<1>5. ASSUME NEW q \in Requests, entry'[q] = "active" PROVE \E t \in Slots : (Works(t))' /\ slot'[t].req = q
  <2>1. CASE q = r
    BY <1>2, <2>1, Zenon
  <2>2. CASE q # r
    <3>1. PICK t \in Slots : Works(t) /\ slot[t].req = q
      BY <1>1, <1>5, <2>2, Zenon DEF BatchesHeld
    <3>2. t # s
      BY <1>2, <3>1, Zenon
    <3> QED
      BY <1>3, <3>1, <3>2, Zenon
  <2> QED
    BY <2>1, <2>2, Zenon
<1> QED
  BY <1>2, <1>3, <1>4, <1>5, Zenon DEF BatchesHeld

(* A slot without a batch stays without one. *)
LEMMA HeldNone ==
    ASSUME TypeInv, BatchesHeld, NEW s \in Slots, Others(s), ~Works(s), entry' = entry,
           slot'[s].req = None, slot'[s].pc \in {"take", "over", "fatal"}
    PROVE  BatchesHeld'
<1>1. (Held(s))' /\ ~(Works(s))'
  BY Zenon DEF Held, Works
<1>2. \A t \in Slots : t # s => (Held(t))' /\ slot'[t].req = slot[t].req /\ ((Works(t))' <=> Works(t))
  BY DEF BatchesHeld, Held, Works, Others
<1>3. \A t, u \in Slots : slot'[t].req = slot'[u].req /\ slot'[t].req # None => t = u
  BY <1>2 DEF BatchesHeld
<1>4. \A q \in Requests : entry'[q] = "active" => \E t \in Slots : (Works(t))' /\ slot'[t].req = q
  BY <1>2, Zenon DEF BatchesHeld
<1> QED
  BY <1>1, <1>2, <1>3, <1>4, Zenon DEF BatchesHeld

(* A slot finishes its batch, which no other slot has. *)
LEMMA HeldFinish ==
    ASSUME ExecutionAssumption, TypeInv, BatchesHeld, NEW s \in Slots, Others(s), slot[s].pc = "finish",
           slot'[s].req = slot[s].req, slot'[s].pc = "release",
           entry' = [entry EXCEPT ![slot[s].req] = "finished"]
    PROVE  BatchesHeld'
<1> DEFINE r == slot[s].req
<1>1. r \in Requests /\ entry[r] = "active" /\ Works(s) /\ r # None
  BY DEF BatchesHeld, Held, Works, ExecutionAssumption
<1>2. /\ entry'[r] = "finished" /\ \A q \in Requests \ {r} : entry'[q] = entry[q]
  BY <1>1, Zenon DEF TypeInv
<1>3. (Held(s))' /\ ~(Works(s))'
  BY <1>1, <1>2, Zenon DEF Held, Works
<1>4. ASSUME NEW t \in Slots \ {s}
      PROVE  (Held(t))' /\ slot'[t].req = slot[t].req /\ ((Works(t))' <=> Works(t))
  <2>1. slot'[t] = slot[t] /\ slot[t].req # r /\ Held(t)
    BY <1>1, Zenon DEF Others, BatchesHeld
  <2> HIDE DEF r
  <2> QED
    BY <1>2, <2>1, Zenon DEF Held, Works
<1>5. \A t, u \in Slots : slot'[t].req = slot'[u].req /\ slot'[t].req # None => t = u
  BY <1>4 DEF BatchesHeld
<1>6. ASSUME NEW q \in Requests, entry'[q] = "active" PROVE \E t \in Slots : (Works(t))' /\ slot'[t].req = q
  <2>1. q # r /\ entry[q] = "active"
    BY <1>2, <1>6, Zenon
  <2>2. PICK t \in Slots : Works(t) /\ slot[t].req = q
    BY <2>1, Zenon DEF BatchesHeld
  <2> QED
    BY <1>4, <2>1, <2>2, Zenon
<1> QED
  BY <1>3, <1>4, <1>5, <1>6, Zenon DEF BatchesHeld

(* A turn of the loop of a slot: its batch stays its own, what it computes on and hands out
   is that batch's, and every way out gives the slot up. *)
LEMMA SlotTurn ==
    ASSUME ExecutionAssumption, TypeInv, Line, BatchesHeld, NEW s \in Slots, Idle(s), OwnTensors(s), SlotStep(s)
    PROVE  /\ slot' \in [Slots -> SlotRecords] /\ Others(s) /\ BatchesHeld'
           /\ (Idle(s))' /\ (OwnTensors(s))'
<1> DEFINE Goal == /\ slot' \in [Slots -> SlotRecords] /\ Others(s) /\ BatchesHeld'
                   /\ (Idle(s))' /\ (OwnTensors(s))'
<1>0. /\ slot[s].pc \in Pcs /\ slot[s].result \in Ends /\ slot[s].busy \in BOOLEAN
      /\ {"over", "finish", "encode", "release", "dead"} \subseteq Pcs /\ "none" \in Ends
  BY SlotTyped, Zenon DEF Pcs, Ends
<1>1. ASSUME Take(s) PROVE Goal
  <2>1. CASE waiting # <<>>
    <3> DEFINE r == Head(waiting)
    <3>1. r \in Requests /\ slot' = [slot EXCEPT ![s].pc = "run", ![s].req = r] /\ Takes(r) /\ slot[s].pc = "take"
      <4>1. r \in Requests
        BY <2>1 DEF TypeInv
      <4>2. /\ slot' = [slot EXCEPT ![s].pc = "run", ![s].req = r] /\ slot[s].pc = "take"
            /\ entry' = [entry EXCEPT ![r] = "active"] /\ waiting' = Tail(waiting) /\ admitted' = admitted
        BY <1>1, <2>1, Zenon DEF Take
      <4> QED
        BY <2>1, <4>1, <4>2, Zenon DEF Takes
    <3> HIDE DEF r
    <3>2. Becomes(s, "run", r, slot[s].input, slot[s].output, slot[s].result, slot[s].busy)
      BY <3>1, TakeFacts, Zenon
    <3>3. entry[r] = "waiting" /\ entry' = [entry EXCEPT ![r] = "active"]
      BY <3>1, TakeLine, Zenon DEF Takes
    <3>4. BatchesHeld'
      BY <3>1, <3>2, <3>3, HeldTake, Zenon DEF Becomes, Others
    <3>5. (Idle(s))' /\ (OwnTensors(s))'
      BY <3>1, <3>2, Zenon DEF Becomes, Idle, OwnTensors
    <3> QED
      BY <3>2, <3>4, <3>5, Zenon DEF Becomes, Others
  <2>2. CASE waiting = <<>>
    <3>1. To(s, "over", "none") /\ entry' = entry /\ slot[s].pc = "take"
      BY <1>1, <2>2, Zenon DEF Take
    <3>2. Becomes(s, "over", slot[s].req, slot[s].input, slot[s].output, "none", slot[s].busy)
      BY <1>0, <3>1, ToFacts, Zenon
    <3>3. slot[s].req = None /\ ~Works(s)
      BY <3>1, Zenon DEF BatchesHeld, Held, Works
    <3>4. BatchesHeld'
      BY <3>1, <3>2, <3>3, HeldNone, Zenon DEF Becomes, Others
    <3>5. (Idle(s))' /\ (OwnTensors(s))'
      BY <3>1, <3>2, Zenon DEF Becomes, Idle, OwnTensors
    <3> QED
      BY <3>2, <3>4, <3>5, Zenon DEF Becomes, Others
  <2> QED
    BY <2>1, <2>2, Zenon
<1>2. ASSUME Claim(s) PROVE Goal
  <2>1. slot[s].pc = "run" /\ ~slot[s].busy /\ entry' = entry /\ Works(s)
    BY <1>2, Zenon DEF Claim, Idle, queue, Works
  <2>2. PICK result \in {"none", "ended"} :
          Becomes(s, After(result, "copy"), slot[s].req, slot[s].input, slot[s].output, result, TRUE)
    BY <1>2, <2>1, ClaimFacts, Zenon
  <2>3. (Works(s))' /\ Others(s)
    BY <2>2, Zenon DEF Becomes, After, Works, Others
  <2>4. BatchesHeld'
    BY <2>1, <2>2, <2>3, HeldOn, Zenon DEF Becomes
  <2>5. (Idle(s))' /\ (OwnTensors(s))'
    BY <2>2, Zenon DEF Becomes, After, Idle, OwnTensors
  <2> QED
    BY <2>2, <2>3, <2>4, <2>5, Zenon DEF Becomes
<1>3. ASSUME CopyInput(s) PROVE Goal
  <2>1. slot[s].pc = "copy" /\ entry' = entry /\ Works(s)
    BY <1>3, Zenon DEF CopyInput, queue, Works
  <2>2. PICK result \in {"none", "ended"} :
          Becomes(s, After(result, "compute"), slot[s].req, slot[s].req, slot[s].output, result, slot[s].busy)
    BY <1>3, CopyInputFacts, Zenon
  <2>3. (Works(s))' /\ Others(s)
    BY <2>2, Zenon DEF Becomes, After, Works, Others
  <2>4. BatchesHeld'
    BY <2>1, <2>2, <2>3, HeldOn, Zenon DEF Becomes
  <2>5. (Idle(s))' /\ (OwnTensors(s))'
    BY <2>2, Zenon DEF Becomes, After, Idle, OwnTensors
  <2> QED
    BY <2>2, <2>3, <2>4, <2>5, Zenon DEF Becomes
<1>4. ASSUME Computed(s) PROVE Goal
  <2>1. slot[s].pc = "compute" /\ entry' = entry /\ Works(s) /\ slot[s].input = slot[s].req
    BY <1>4, Zenon DEF Computed, queue, Works, OwnTensors
  <2>2. PICK result \in {"output", "ended"} :
          Becomes(s, "respond", slot[s].req, slot[s].input, slot[s].input, result, slot[s].busy)
    BY <1>4, ComputedFacts, Zenon
  <2>3. (Works(s))' /\ Others(s)
    BY <2>2, Zenon DEF Becomes, Works, Others
  <2>4. BatchesHeld'
    BY <2>1, <2>2, <2>3, HeldOn, Zenon DEF Becomes
  <2>5. (Idle(s))' /\ (OwnTensors(s))'
    BY <2>1, <2>2, Zenon DEF Becomes, Idle, OwnTensors
  <2> QED
    BY <2>2, <2>3, <2>4, <2>5, Zenon DEF Becomes
<1>5. ASSUME Raised(s) PROVE Goal
  <2>1. slot[s].pc = "compute" /\ entry' = entry /\ Works(s)
    BY <1>5, Zenon DEF Raised, queue, Works
  <2>2. PICK result \in {"rejected", "fatal"} :
          Becomes(s, "respond", slot[s].req, slot[s].input, slot[s].output, result, FALSE)
    BY <1>5, RaisedFacts, Zenon
  <2>3. (Works(s))' /\ Others(s)
    BY <2>2, Zenon DEF Becomes, Works, Others
  <2>4. BatchesHeld'
    BY <2>1, <2>2, <2>3, HeldOn, Zenon DEF Becomes
  <2>5. (Idle(s))' /\ (OwnTensors(s))'
    BY <2>2, Zenon DEF Becomes, Idle, OwnTensors
  <2> QED
    BY <2>2, <2>3, <2>4, <2>5, Zenon DEF Becomes
<1>6. ASSUME Respond(s) \/ Encoded(s) PROVE Goal
  <2>1. PICK pc \in {"finish", "encode"} : To(s, pc, slot[s].result) /\ (pc = "encode" => slot[s].pc = "respond")
    BY <1>6, Zenon DEF Respond, Encoded
  <2>2. slot[s].pc \in {"respond", "encode"} /\ entry' = entry /\ Works(s)
    BY <1>6, Zenon DEF Respond, Encoded, queue, Works
  <2>3. Becomes(s, pc, slot[s].req, slot[s].input, slot[s].output, slot[s].result, slot[s].busy)
    BY <1>0, <2>1, ToFacts, Zenon
  <2>4. (Works(s))' /\ Others(s)
    BY <2>3, Zenon DEF Becomes, Works, Others
  <2>5. BatchesHeld'
    BY <2>2, <2>3, <2>4, HeldOn, Zenon DEF Becomes
  <2>6. (Idle(s))' /\ (OwnTensors(s))'
    BY <2>2, <2>3, Zenon DEF Becomes, Idle, OwnTensors
  <2> QED
    BY <2>3, <2>4, <2>5, <2>6, Zenon DEF Becomes
<1>7. ASSUME Finish(s) PROVE Goal
  <2>1. slot[s].pc = "finish" /\ entry' = [entry EXCEPT ![slot[s].req] = "finished"] /\ To(s, "release", slot[s].result)
    BY <1>7, Zenon DEF Finish, Release
  <2>2. Becomes(s, "release", slot[s].req, slot[s].input, slot[s].output, slot[s].result, slot[s].busy)
    BY <1>0, <2>1, ToFacts, Zenon
  <2>3. Others(s)
    BY <2>2, Zenon DEF Becomes, Others
  <2>4. BatchesHeld'
    BY <2>1, <2>2, <2>3, HeldFinish, Zenon DEF Becomes
  <2>5. (Idle(s))' /\ (OwnTensors(s))'
    BY <2>1, <2>2, Zenon DEF Becomes, Idle, OwnTensors
  <2> QED
    BY <2>2, <2>3, <2>4, <2>5, Zenon DEF Becomes
<1>8. ASSUME EndTurn(s) PROVE Goal
  <2>1. slot[s].pc = "release" /\ entry' = entry /\ ~Works(s)
    BY <1>8, Zenon DEF EndTurn, queue, Works
  <2>2. PICK pc \in {"take", "fatal"}, input \in {slot[s].input}, output \in {slot[s].output, None},
             result \in {slot[s].result, "none"}, busy \in BOOLEAN :
          /\ Becomes(s, pc, None, input, output, result, busy)
          /\ busy => slot[s].busy /\ slot[s].result \in {"rejected", "fatal"}
    BY <1>0, <1>8, EndTurnFacts, Zenon
  <2>3. Others(s) /\ ~busy
    BY <2>2, Zenon DEF Becomes, Others, Idle
  <2>4. BatchesHeld'
    BY <2>1, <2>2, <2>3, HeldNone, Zenon DEF Becomes
  <2>5. (Idle(s))' /\ (OwnTensors(s))'
    BY <2>2, <2>3, Zenon DEF Becomes, Idle, OwnTensors
  <2> QED
    BY <2>2, <2>3, <2>4, <2>5, Zenon DEF Becomes
<1>9. ASSUME FatalReturns(s) PROVE Goal
  <2>1. slot[s].pc = "fatal" /\ entry' = entry /\ ~Works(s) /\ To(s, "over", "none") /\ slot[s].req = None
    BY <1>9, Zenon DEF FatalReturns, queue, Works, BatchesHeld, Held
  <2>2. Becomes(s, "over", slot[s].req, slot[s].input, slot[s].output, "none", slot[s].busy)
    BY <1>0, <2>1, ToFacts, Zenon
  <2>3. Others(s)
    BY <2>2, Zenon DEF Becomes, Others
  <2>4. BatchesHeld'
    BY <2>1, <2>2, <2>3, HeldNone, Zenon DEF Becomes
  <2>5. (Idle(s))' /\ (OwnTensors(s))'
    BY <2>1, <2>2, Zenon DEF Becomes, Idle, OwnTensors
  <2> QED
    BY <2>2, <2>3, <2>4, <2>5, Zenon DEF Becomes
<1> HIDE DEF Goal
<1>10. Goal
  BY <1>1, <1>2, <1>3, <1>4, <1>5, <1>6, <1>7, <1>8, <1>9, Zenon DEF SlotStep
<1> QED
  BY <1>10, Zenon DEF Goal
-----------------------------------------------------------------------------
(* A status is no output. *)
LEMMA Statuses ==
    ASSUME NEW r, NEW kind, kind # "output"
    PROVE  OwnMessage(r, Message(kind))
BY Zenon DEF OwnMessage, Message

(* What the calls see of a step. *)
CallsTyped ==
    /\ rpc' \in [Requests -> {"none", "decode", "encode", "wait", "over"}]
    /\ answer' = [r \in Requests |-> answer'[r]]
    /\ response' = [r \in Requests |-> response'[r]]
    /\ dropped' \in [Requests -> BOOLEAN]

CallsOwn == \A r \in Requests : OwnMessage(r, response'[r]) /\ OwnMessage(r, answer'[r])

(* A call that was not decoded is not, after a step, unless its batch is admitted. *)
CallsGoOn == \A r \in Requests : rpc'[r] \in {"none", "decode", "encode"} =>
    rpc[r] \in {"none", "decode", "encode"}

(* A step of a handler: the caller is sent a status or what the future holds. *)
LEMMA HandlerStep ==
    ASSUME TypeInv, OwnContents, NEW r \in Requests, Arrive(r) \/ Handler(r) \/ CallerCancels(r)
    PROVE  CallsTyped /\ CallsOwn /\ CallsGoOn
           /\ UNCHANGED <<slot, gating, closing, fatal>>
<1>0. /\ rpc \in [Requests -> {"none", "decode", "encode", "wait", "over"}]
      /\ answer = [q \in Requests |-> answer[q]]
      /\ response = [q \in Requests |-> response[q]]
      /\ dropped \in [Requests -> BOOLEAN]
  BY Zenon DEF TypeInv
<1>1. UNCHANGED <<slot, gating, closing, fatal, response>>
  BY Zenon DEF Arrive, Handler, Decoded, Answered, HandlerCancelled, CallerCancels
<1>2. dropped' = dropped \/ dropped' = [dropped EXCEPT ![r] = TRUE]
  BY Zenon DEF Arrive, Handler, Decoded, Answered, HandlerCancelled, CallerCancels, CancelWaiting
<1>3. \A kind : Message(kind) = [kind |-> kind]
  BY Zenon DEF Message
<1>4. /\ answer' = answer \/ \E m : OwnMessage(r, m) /\ answer' = [answer EXCEPT ![r] = m]
      /\ \/ rpc' = rpc
         \/ rpc[r] \in {"none", "decode"} /\ rpc' = [rpc EXCEPT ![r] = "decode"]
         \/ rpc[r] = "decode" /\ rpc' = [rpc EXCEPT ![r] = "encode"]
         \/ rpc' = [rpc EXCEPT ![r] = "wait"]
         \/ rpc' = [rpc EXCEPT ![r] = "over"]
  <2>1. CASE Arrive(r)
    <3>1. OwnMessage(r, Message("exhausted")) /\ OwnMessage(r, Message("unavailable"))
      BY Statuses, Zenon
    <3> QED
      BY <2>1, <3>1, Zenon DEF Arrive, Reply
  <2>2. CASE Decoded(r)
    <3>1. Rejection(r) # "output"
      BY Zenon DEF Rejection
    <3>2. OwnMessage(r, Message("invalid")) /\ OwnMessage(r, Message(Rejection(r)))
      BY <3>1, Statuses, Zenon
    <3> QED
      BY <2>2, <3>2, Zenon DEF Decoded, Reply
  <2>3. CASE Answered(r)
    <3>1. OwnMessage(r, answer[r]) /\ OwnMessage(r, response[r])
      BY Zenon DEF OwnContents
    <3> QED
      BY <2>3, <3>1, Zenon DEF Answered, Reply
  <2>4. CASE HandlerCancelled(r)
    <3>1. OwnMessage(r, Message("cancelled"))
      BY Statuses, Zenon
    <3> QED
      BY <2>4, <3>1, Zenon DEF HandlerCancelled, Reply
  <2>5. CASE CallerCancels(r)
    BY <2>5, Zenon DEF CallerCancels
  <2> QED
    BY <2>1, <2>2, <2>3, <2>4, <2>5, Zenon DEF Handler
<1>5. CallsTyped
  BY <1>0, <1>1, <1>2, <1>4, Zenon DEF CallsTyped
<1>6. CallsOwn
  <2>1. ASSUME NEW q \in Requests PROVE OwnMessage(q, answer'[q])
    <3>1. OwnMessage(q, answer[q])
      BY Zenon DEF OwnContents
    <3>2. answer'[q] = answer[q] \/ (q = r /\ OwnMessage(r, answer'[r]))
      BY <1>0, <1>4, Zenon
    <3> QED
      BY <3>1, <3>2, Zenon
  <2> QED
    BY <1>1, <2>1, Zenon DEF CallsOwn, OwnContents
<1>7. CallsGoOn
  BY <1>0, <1>4, Zenon DEF CallsGoOn
<1> QED
  BY <1>1, <1>5, <1>6, <1>7, Zenon

(* A step of a slot: the future of its batch is set to a status or to the batch's own output. *)
LEMMA SlotAnswers ==
    ASSUME TypeInv, BatchesHeld, OwnContents, NEW s \in Slots, SlotStep(s)
    PROVE  CallsTyped /\ CallsOwn /\ CallsGoOn /\ UNCHANGED <<gating, eclose, rpc, dropped>>
<1>0. /\ rpc \in [Requests -> {"none", "decode", "encode", "wait", "over"}]
      /\ answer = [q \in Requests |-> answer[q]]
      /\ response = [q \in Requests |-> response[q]]
      /\ dropped \in [Requests -> BOOLEAN]
  BY Zenon DEF TypeInv
<1>1. UNCHANGED <<gating, eclose, rpc, answer, dropped>>
  BY Zenon DEF SlotStep, Take, Claim, CopyInput, Computed, Raised, Respond, Encoded, Finish, EndTurn, FatalReturns,
         calls, closing
<1> DEFINE r == slot[s].req
<1>2. response' = response \/ (r \in Requests /\ \E m : OwnMessage(r, m) /\ response' = [response EXCEPT ![r] = m])
  <2>1. CASE Respond(s)
    <3>1. r \in Requests
      BY <2>1, Zenon DEF Respond, BatchesHeld, Held, Works
    <3>2. slot[s].result \in {"ended", "fatal"} => OwnMessage(r, Message(slot[s].result))
      BY Statuses, Zenon
    <3> QED
      BY <2>1, <3>1, <3>2, Zenon DEF Respond
  <2>2. CASE Encoded(s)
    <3>1. r \in Requests /\ OwnTensors(s) /\ slot[s].pc = "encode"
      BY <2>2, Zenon DEF Encoded, BatchesHeld, Held, Works, OwnContents
    <3>2. slot[s].result = "output" => OwnMessage(r, Output(slot[s].output))
      BY <3>1, Zenon DEF OwnTensors, OwnMessage, Output
    <3>3. slot[s].result # "output" => OwnMessage(r, Message(slot[s].result))
      BY Statuses, Zenon
    <3> QED
      BY <2>2, <3>1, <3>2, <3>3, Zenon DEF Encoded
  <2>3. CASE Take(s) \/ Claim(s) \/ CopyInput(s) \/ Computed(s) \/ Raised(s) \/ Finish(s) \/ EndTurn(s)
               \/ FatalReturns(s)
    BY <2>3, Zenon DEF Take, Claim, CopyInput, Computed, Raised, Finish, EndTurn, FatalReturns
  <2> QED
    BY <2>1, <2>2, <2>3, Zenon DEF SlotStep
<1> HIDE DEF r
<1>3. CallsTyped
  BY <1>0, <1>1, <1>2, Zenon DEF CallsTyped
<1>4. CallsOwn
  <2>1. ASSUME NEW q \in Requests PROVE OwnMessage(q, response'[q])
    <3>1. OwnMessage(q, response[q])
      BY Zenon DEF OwnContents
    <3>2. response'[q] = response[q] \/ (q = r /\ OwnMessage(r, response'[r]))
      BY <1>0, <1>2, Zenon
    <3> QED
      BY <3>1, <3>2, Zenon
  <2> QED
    BY <1>1, <2>1, Zenon DEF CallsOwn, OwnContents
<1> QED
  BY <1>1, <1>3, <1>4, Zenon DEF CallsGoOn
-----------------------------------------------------------------------------
(* A batch comes into the queue by being admitted, and only then. *)
LEMMA QueueEntries ==
    ASSUME TypeInv, Line, Decoding, QueueStep, NEW r \in Requests
    PROVE  /\ entry'[r] \in {"waiting", "active"} => entry[r] \in {"waiting", "active"} \/ Admits(r)
           /\ entry[r] = "none" => entry'[r] = "none" \/ Admits(r)
<1>1. CASE UNCHANGED queue
  BY <1>1, Zenon DEF queue
<1>2. ASSUME NEW q \in Requests, Admits(q) \/ Cancels(q) \/ Takes(q) \/ Finishes(q), q # r PROVE entry'[r] = entry[r]
  BY <1>2, Zenon DEF Admits, Cancels, Takes, Finishes, Release, TypeInv
<1>3. ASSUME Cancels(r) \/ Takes(r) \/ Finishes(r) PROVE entry[r] \in {"waiting", "active"}
  BY <1>3, TakeLine, Zenon DEF Cancels, Finishes
<1>4. CASE Discards
  BY <1>4, Zenon DEF Discards, TypeInv
<1> QED
  BY <1>1, <1>2, <1>3, <1>4, Zenon DEF QueueStep

(* What a step does to everything but the queue. *)
SlotsGood ==
    /\ slot' \in [Slots -> SlotRecords] /\ BatchesHeld'
    /\ \A s \in Slots : (Idle(s))' /\ (OwnTensors(s))'
    /\ eclose' # "failed"

DrainsGood ==
    /\ drain' \in [{"experts", "all"} -> {"no", "wait", "idle", "late"}] /\ Gates'
    /\ \A kind \in {"experts", "all"} : drain'[kind] = "idle" =>
         drain[kind] = "idle" \/ (Unused(kind) /\ UNCHANGED queue)

Good == CallsTyped /\ CallsOwn /\ CallsGoOn /\ SlotsGood /\ DrainsGood

(* The gates stay as they are. *)
LEMMA SameDrains ==
    ASSUME TypeInv, Gates, UNCHANGED gating
    PROVE  DrainsGood
BY Zenon DEF TypeInv, Gates, gating, DrainsGood

(* The slots stay as they are. *)
LEMMA SameSlots ==
    ASSUME TypeInv, BatchesHeld, SlotsIdle, OwnContents, slot' = slot, eclose' # "failed",
           \A r \in Requests : /\ entry[r] \in {"active", "finished"} => entry'[r] = entry[r]
                               /\ entry'[r] = "active" => entry[r] = "active"
    PROVE  SlotsGood
<1>1. BatchesHeld'
  BY HeldWithoutSlot, Zenon
<1>2. \A s \in Slots : (Idle(s))' /\ (OwnTensors(s))'
  BY Zenon DEF SlotsIdle, OwnContents, Idle, OwnTensors
<1> QED
  BY <1>1, <1>2, Zenon DEF SlotsGood, TypeInv

(* The calls stay as they are. *)
LEMMA SameCalls ==
    ASSUME TypeInv, OwnContents, UNCHANGED <<rpc, answer, response>>, dropped' \in [Requests -> BOOLEAN]
    PROVE  CallsTyped /\ CallsOwn /\ CallsGoOn
BY Zenon DEF TypeInv, OwnContents, CallsTyped, CallsOwn, CallsGoOn

(* The drains set and clear their gates. *)
LEMMA DrainStep ==
    ASSUME TypeInv, Gates, NEW kind \in {"experts", "all"},
           BeginDrain(kind) \/ WaitIdle(kind) \/ WaitIdleExpires(kind) \/ ClearDrains
    PROVE  DrainsGood
<1>0. drain \in [{"experts", "all"} -> {"no", "wait", "idle", "late"}]
  BY Zenon DEF TypeInv
<1>1. CASE BeginDrain(kind)
  BY <1>0, <1>1, Zenon DEF BeginDrain, DrainsGood, Gates
<1>2. CASE WaitIdle(kind)
  BY <1>0, <1>2, Zenon DEF WaitIdle, DrainsGood, Gates
<1>3. CASE WaitIdleExpires(kind)
  BY <1>0, <1>3, Zenon DEF WaitIdleExpires, DrainsGood, Gates
<1>4. CASE ClearDrains
  BY <1>0, <1>4, Zenon DEF ClearDrains, DrainsGood, Gates
<1> QED
  BY <1>1, <1>2, <1>3, <1>4, Zenon

(* Every step keeps the calls, the slots and the drains in order. *)
LEMMA GoodSteps ==
    ASSUME ExecutionAssumption, IInv, [Next]_vars
    PROVE  Good
<1> USE DEF IInv
<1>1. ASSUME NEW r \in Requests, Arrive(r) \/ Handler(r) \/ CallerCancels(r) PROVE Good
  <2>1. CallsTyped /\ CallsOwn /\ CallsGoOn /\ UNCHANGED <<slot, gating, closing>>
    BY <1>1, HandlerStep, Zenon
  <2>2. \/ UNCHANGED queue
        \/ entry[r] \in {"none", "waiting"} /\ entry' = [entry EXCEPT ![r] = "waiting"]
        \/ entry[r] \in {"none", "waiting"} /\ entry' = [entry EXCEPT ![r] = "dropped"]
    BY <1>1, HandlerQueue, Zenon DEF Admits, Cancels, Release, Decoding
  <2>3. \A q \in Requests : /\ entry[q] \in {"active", "finished"} => entry'[q] = entry[q]
                            /\ entry'[q] = "active" => entry[q] = "active"
    BY <2>2, Zenon DEF queue, TypeInv
  <2>4. eclose' # "failed"
    BY <2>1, Zenon DEF closing, SlotsIdle
  <2> QED
    BY <2>1, <2>3, <2>4, SameSlots, SameDrains, Zenon DEF Good
<1>2. ASSUME NEW s \in Slots, SlotStep(s) PROVE Good
  <2>1. CallsTyped /\ CallsOwn /\ CallsGoOn /\ UNCHANGED <<gating, eclose>>
    BY <1>2, SlotAnswers, Zenon
  <2>2. Idle(s) /\ OwnTensors(s)
    BY Zenon DEF SlotsIdle, OwnContents
  <2>3. slot' \in [Slots -> SlotRecords] /\ Others(s) /\ BatchesHeld' /\ (Idle(s))' /\ (OwnTensors(s))'
    BY <1>2, <2>2, SlotTurn, Zenon
  <2>4. \A t \in Slots \ {s} : (Idle(t))' /\ (OwnTensors(t))'
    BY <2>3, Zenon DEF Others, SlotsIdle, OwnContents, Idle, OwnTensors
  <2>5. SlotsGood
    BY <2>1, <2>3, <2>4, Zenon DEF SlotsGood, SlotsIdle
  <2> QED
    BY <2>1, <2>5, SameDrains, Zenon DEF Good
<1>3. ASSUME NEW kind \in {"experts", "all"},
             BeginDrain(kind) \/ WaitIdle(kind) \/ WaitIdleExpires(kind) \/ ClearDrains
      PROVE  Good
  <2>1. UNCHANGED <<rpc, answer, response, dropped, slot, eclose, entry>>
    BY <1>3, Zenon DEF BeginDrain, WaitIdle, WaitIdleExpires, ClearDrains, calls, queue, closing
  <2> QED
    BY <1>3, <2>1, DrainStep, SameCalls, SameSlots, Zenon DEF Good, TypeInv, SlotsIdle
<1>4. CASE BeginClose
  <2>1. UNCHANGED <<rpc, answer, response, slot, eclose, gating>> /\ dropped' \in [Requests -> BOOLEAN]
    BY <1>4, Zenon DEF BeginClose, calls, TypeInv
  <2>2. \A r \in Requests : entry'[r] = IF entry[r] = "waiting" THEN "dropped" ELSE entry[r]
    BY <1>4, Zenon DEF BeginClose, TypeInv
  <2>3. SlotsGood
    BY <2>1, <2>2, SameSlots, Zenon DEF SlotsIdle
  <2> QED
    BY <2>1, <2>3, SameCalls, SameDrains, Zenon DEF Good
<1>5. CASE CloseReceiver \/ CloseExecutor \/ CloseSlots \/ UNCHANGED vars
  <2>1. UNCHANGED <<rpc, answer, response, dropped, slot, entry, gating>>
    BY <1>5, Zenon DEF CloseReceiver, CloseExecutor, CloseSlots, vars, calls, queue
  <2>2. eclose' # "failed"
    <3>1. CASE CloseSlots
      <4>1. \A s \in Slots : slot[s].pc \in {"over", "dead"}
        BY <3>1, Zenon DEF CloseSlots
      <4>2. \A s \in Slots : ~slot[s].busy
        BY <4>1, Zenon DEF SlotsIdle, Idle, BatchesHeld, Held
      <4> QED
        BY <3>1, <4>2, Zenon DEF CloseSlots
    <3>2. CASE CloseReceiver \/ CloseExecutor \/ UNCHANGED vars
      BY <3>2, Zenon DEF CloseReceiver, CloseExecutor, vars, closing, SlotsIdle
    <3> QED
      BY <1>5, <3>1, <3>2, Zenon
  <2>3. SlotsGood
    BY <2>1, <2>2, SameSlots, Zenon
  <2> QED
    BY <2>1, <2>3, SameCalls, SameDrains, Zenon DEF Good, TypeInv
<1>6. DOMAIN drain = {"experts", "all"}
  BY Zenon DEF TypeInv
<1> QED
  BY <1>1, <1>2, <1>3, <1>4, <1>5, <1>6, Zenon DEF Next

(* Once wait_idle has returned, and until the drain is cleared, no batch is admitted that
   uses what was drained. *)
LEMMA DrainedStep ==
    ASSUME ExecutionAssumption, IInv, Good, QueueStep
    PROVE  DrainedUnused'
<1> USE DEF IInv
<1> SUFFICES ASSUME NEW kind \in {"experts", "all"}, drain'[kind] = "idle",
                    NEW r \in Requests, entry'[r] \in {"waiting", "active"}
             PROVE  kind = "experts" /\ ExpertsOf[r] \cap Drained = {}
  BY Zenon DEF DrainedUnused, Good, DrainsGood
<1>1. DOMAIN drain = {"experts", "all"} /\ ExpertsOf[r] \subseteq Experts /\ Drained \subseteq Experts
  BY Zenon DEF TypeInv, ExecutionAssumption
<1>2. entry[r] \in {"waiting", "active"} \/ Admits(r)
  BY QueueEntries, Zenon
<1>3. CASE Unused(kind) /\ UNCHANGED queue
  <2>1. entry[r] \in {"waiting", "active"}
    BY <1>3, Zenon DEF queue
  <2>2. kind = "experts" /\ \A e \in Drained : admitted[e] = 0
    BY <1>3, <2>1, Zenon DEF Unused
  <2>3. \A e \in Drained : Users(e) = {}
    <3>1. SUFFICES ASSUME NEW e \in Drained PROVE Users(e) = {}
      BY Zenon
    <3>2. Cardinality(Users(e)) = 0 /\ IsFiniteSet(Users(e))
      BY <1>1, <2>2, UsersFinite, Zenon DEF UseCountsExact, Users
    <3> QED
      BY <3>2, FS_EmptySet, Zenon
  <2> QED
    BY <2>1, <2>2, <2>3, Zenon DEF Users
<1>4. CASE drain[kind] = "idle" /\ entry[r] \in {"waiting", "active"}
  BY <1>1, <1>4, Zenon DEF DrainedUnused
<1>5. CASE drain[kind] = "idle" /\ Admits(r)
  <2>1. ~stopAll /\ ExpertsOf[r] \cap gates = {}
    BY <1>5, Zenon DEF Admits, Rejection, Gated
  <2>2. kind = "experts" /\ Drained \subseteq gates
    BY <1>5, <2>1, Zenon DEF Gates
  <2> QED
    BY <2>1, <2>2, Zenon
<1> QED
  BY <1>2, <1>3, <1>4, <1>5, Zenon DEF Good, DrainsGood

(* The invariant of the Worker's computation is inductive. *)
LEMMA ExecutionNext ==
    ASSUME ExecutionAssumption, IInv, [Next]_vars
    PROVE  IInv'
<1>1. TypeInv /\ Line /\ Decoding /\ BatchesHeld /\ UseCountsExact
  BY Zenon DEF IInv
<1>2. QueueStep /\ Good
  BY <1>1, QueueSteps, GoodSteps, Zenon
<1>3. waiting' \in Seq(Requests) /\ Line'
  BY <1>1, <1>2, LineStep, Zenon
<1>4. /\ entry' \in [Requests -> {"none", "waiting", "active", "finished", "dropped"}]
      /\ admitted' \in [Experts -> Int] /\ UseCountsExact'
  BY <1>1, <1>2, CountsStep, Zenon
<1>5. TypeInv'
  BY <1>2, <1>3, <1>4, Zenon DEF TypeInv, Good, CallsTyped, SlotsGood, DrainsGood
<1>6. Decoding'
  <2>1. SUFFICES ASSUME NEW r \in Requests, rpc'[r] \in {"none", "decode", "encode"} PROVE entry'[r] = "none"
    BY Zenon DEF Decoding
  <2>2. entry[r] = "none"
    BY <1>1, <1>2, <2>1, Zenon DEF Good, CallsGoOn, Decoding
  <2>3. ~Admits(r)
    BY <1>1, <2>1, Zenon DEF Admits, TypeInv
  <2> QED
    BY <1>1, <1>2, <2>2, <2>3, QueueEntries, Zenon
<1>7. BatchesHeld' /\ SlotsIdle' /\ OwnContents' /\ Gates'
  BY <1>2, Zenon DEF Good, SlotsGood, SlotsIdle, OwnContents, CallsOwn, DrainsGood
<1>8. DrainedUnused'
  BY <1>2, DrainedStep, Zenon
<1> QED
  BY <1>3, <1>4, <1>5, <1>6, <1>7, <1>8, Zenon DEF IInv

(* A Worker that starts has no batches. *)
LEMMA ExecutionInit ==
    ASSUME ExecutionAssumption, Init
    PROVE  IInv
<1>1. IdleSlot \in SlotRecords
  BY Zenon DEF IdleSlot, SlotRecords, Pcs, Ends, Batches
<1>2. TypeInv
  <2>1. waiting \in Seq(Requests)
    BY DEF Init
  <2> QED
    BY <1>1, <2>1 DEF Init, TypeInv
<1>3. Line /\ Decoding
  BY DEF Init, Line, Decoding
<1>4. \A s \in Slots : slot[s].pc = "take" /\ slot[s].req = None /\ ~slot[s].busy /\ slot[s].result = "none"
  BY Zenon DEF Init, IdleSlot
<1>5. BatchesHeld
  BY <1>4, Zenon DEF Init, BatchesHeld, Held, Works
<1>6. SlotsIdle
  BY <1>4, Zenon DEF SlotsIdle, Idle, Init
<1>7. OwnContents
  BY <1>4, Zenon DEF OwnContents, OwnTensors, OwnMessage, Init, Nothing
<1>8. Gates /\ DrainedUnused
  BY Zenon DEF Init, Gates, DrainedUnused
<1>9. UseCountsExact
  <2>1. SUFFICES ASSUME NEW e \in Experts PROVE admitted[e] = Cardinality(Users(e))
    BY Zenon DEF UseCountsExact, Users
  <2>2. Users(e) = {} /\ admitted[e] = 0
    BY Zenon DEF Users, Init
  <2> QED
    BY <2>2, FS_EmptySet, Zenon
<1> QED
  BY <1>2, <1>3, <1>5, <1>6, <1>7, <1>8, <1>9, Zenon DEF IInv

(* Whatever is cancelled, fails or closes: the use count of an expert (queue.py) is the
   number of batches that wait or execute and name it, a taken batch is held by one slot
   until it is finished, and after wait_idle returned no batch uses what was drained. *)
THEOREM UseCountsAreExact ==
    ASSUME ExecutionAssumption
    PROVE  Spec => [](UseCountsExact /\ ActiveHeld /\ DrainedUnused)
<1>1. Init => IInv
  BY ExecutionInit, Zenon
<1>2. IInv /\ [Next]_vars => IInv'
  BY ExecutionNext, Zenon
<1>3. IInv => UseCountsExact /\ ActiveHeld /\ DrainedUnused
  <2> SUFFICES ASSUME IInv PROVE ActiveHeld
    BY Zenon DEF IInv
  <2>1. {r \in Requests : entry[r] = "active"} = {slot[s].req : s \in {t \in Slots : Works(t)}}
    BY DEF IInv, BatchesHeld, Held
  <2> QED
    BY <2>1, Zenon DEF IInv, BatchesHeld, ActiveHeld, Works
<1> QED
  BY <1>1, <1>2, <1>3, PTL DEF Spec

(* A caller that is sent an output is sent that of its own batch although the tensors of a
   slot are reused, no loop dies of a slot in use, and the executor closes idle slots
   (slot.py, executor.py). *)
THEOREM OutputsAreOwn ==
    ASSUME ExecutionAssumption
    PROVE  Spec => [](OwnOutput /\ SlotsReturned)
<1>1. Init => IInv
  BY ExecutionInit, Zenon
<1>2. IInv /\ [Next]_vars => IInv'
  BY ExecutionNext, Zenon
<1>3. IInv => OwnOutput /\ SlotsReturned
  BY Zenon DEF IInv, OwnContents, OwnMessage, OwnOutput, SlotsReturned, BatchesHeld, Held, SlotsIdle
<1> QED
  BY <1>1, <1>2, <1>3, PTL DEF Spec
==============================================================================
