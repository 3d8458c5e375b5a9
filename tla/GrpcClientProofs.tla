--------------------------- MODULE GrpcClientProofs ---------------------------
(***************************************************************************)
(* The transfer buffers of a gRPC connection for any number of calls and   *)
(* buffers: there is a buffer for every permit, close finds all of them    *)
(* returned, and no thread works for a call that has ended as long as no   *)
(* call is cancelled a second time.                                        *)
(***************************************************************************)
EXTENDS GrpcClient, FiniteSetTheorems, TLAPS

Outcomes ==
    {"none", "filled", "invalid", "closing", "busy", "deadline", "cancelled_rpc", "unavailable",
     "unsupported", "protocol", "usage", "lost", "cancelled"}

CallRecords ==
    [pc : {"new", "permit", "encode", "rpc", "decode", "drain", "over"},
     buffer : Buffers \cup {NoBuffer}, cancel : BOOLEAN, cancels : Nat, outcome : Outcomes]

TypeInv ==
    /\ call \in [Calls -> CallRecords]
    /\ thread \in [Calls -> {"idle", "encode", "decode"}]
    /\ permits \in Nat
    /\ free \in SUBSET Buffers
    /\ close \in {"open", "channel", "gather", "closed", "failed"}

(* Between _acquire and the `finally` of execute a call has a buffer. *)
Holding == {"encode", "rpc", "decode", "drain"}
Holds(c) == call[c].pc \in Holding

(* The buffers that are not free are those of the calls, one each, and the permits
   count the others. *)
BuffersHeld ==
    /\ \A c \in Calls : Holds(c) => call[c].buffer \in Buffers \ free
    /\ \A c, d \in Calls : Holds(c) /\ Holds(d) /\ call[c].buffer = call[d].buffer => c = d
    /\ \A b \in Buffers \ free : \E c \in Calls : Holds(c) /\ call[c].buffer = b
    /\ permits = Cardinality(free)
    /\ close # "failed"

(* A thread works for a call that waits for it. A call that drains was cancelled
   before, and the bound leaves it no second cancellation. *)
ThreadsAwaited ==
    /\ \A c \in Calls : thread[c] # "idle" => call[c].pc \in {"encode", "decode", "drain"}
    /\ \A c \in Calls : call[c].cancel => call[c].cancels >= 1
    /\ \A c \in Calls : call[c].pc = "drain" => call[c].cancels >= 1 /\ ~call[c].cancel
-----------------------------------------------------------------------------
(* A step of one task leaves the others alone. *)
LEMMA OneCall ==
    ASSUME TypeInv, NEW c \in Calls, NEW rec, call' = [call EXCEPT ![c] = rec]
    PROVE  call'[c] = rec /\ \A d \in Calls \ {c} : call'[d] = call[d]
BY Zenon DEF TypeInv

(* What a step on one call may do to it: nothing that the buffers see, ... *)
Keeps(c) ==
    \E rec \in CallRecords :
        /\ call' = [call EXCEPT ![c] = rec] /\ permits' = permits /\ free' = free
        /\ rec.pc \in Holding <=> Holds(c)
        /\ Holds(c) => rec.buffer = call[c].buffer

(* ... take a buffer, ... *)
Takes(c) ==
    \E rec \in CallRecords, b \in free :
        /\ call' = [call EXCEPT ![c] = rec] /\ permits > 0
        /\ permits' = permits - 1 /\ free' = free \ {b}
        /\ ~Holds(c) /\ rec.pc = "encode" /\ rec.buffer = b

(* ... or give it back. *)
Gives(c) ==
    \E rec \in CallRecords :
        /\ call' = [call EXCEPT ![c] = rec]
        /\ permits' = permits + 1 /\ free' = free \cup {call[c].buffer}
        /\ Holds(c) /\ rec.pc = "over"

(* Leaving execute without a buffer. *)
LEMMA RefuseKeeps ==
    ASSUME TypeInv, NEW c \in Calls, NEW outcome \in Outcomes, Refuse(c, outcome), ~Holds(c)
    PROVE  Keeps(c) /\ call'[c].cancel = call[c].cancel /\ call'[c].cancels = call[c].cancels
           /\ call'[c].pc = "over" /\ \A d \in Calls \ {c} : call'[d] = call[d]
<1> DEFINE rec == [call[c] EXCEPT !.pc = "over", !.outcome = outcome]
<1>1. call[c] \in CallRecords
  BY DEF TypeInv
<1>2. rec \in CallRecords /\ rec.pc = "over" /\ rec.cancel = call[c].cancel
        /\ rec.cancels = call[c].cancels
  BY <1>1, Zenon DEF CallRecords
<1>3. call' = [call EXCEPT ![c] = rec] /\ permits' = permits /\ free' = free
  BY Zenon DEF Refuse
<1> HIDE DEF rec
<1>4. call'[c] = rec /\ \A d \in Calls \ {c} : call'[d] = call[d]
  BY <1>3, OneCall, Zenon
<1> QED
  BY <1>2, <1>3, <1>4, Zenon DEF Keeps, Holding

(* The `finally` of execute. *)
LEMMA ReturnGives ==
    ASSUME TypeInv, NEW c \in Calls, NEW outcome \in Outcomes, Return(c, outcome), Holds(c)
    PROVE  Gives(c) /\ call'[c].cancel = call[c].cancel /\ call'[c].cancels = call[c].cancels
           /\ call'[c].pc = "over" /\ \A d \in Calls \ {c} : call'[d] = call[d]
<1> DEFINE rec == [call[c] EXCEPT !.pc = "over", !.outcome = outcome]
<1>1. call[c] \in CallRecords
  BY DEF TypeInv
<1>2. rec \in CallRecords /\ rec.pc = "over" /\ rec.cancel = call[c].cancel
        /\ rec.cancels = call[c].cancels
  BY <1>1, Zenon DEF CallRecords
<1>3. call' = [call EXCEPT ![c] = rec] /\ permits' = permits + 1
        /\ free' = free \cup {call[c].buffer}
  BY Zenon DEF Return
<1> HIDE DEF rec
<1>4. call'[c] = rec /\ \A d \in Calls \ {c} : call'[d] = call[d]
  BY <1>3, OneCall, Zenon
<1> QED
  BY <1>2, <1>3, <1>4, Zenon DEF Gives

(* Going on to the next await. *)
LEMMA MoveKeeps ==
    ASSUME TypeInv, NEW c \in Calls,
           NEW pc \in {"new", "permit", "encode", "rpc", "decode", "drain", "over"},
           call' = [call EXCEPT ![c].pc = pc], permits' = permits, free' = free,
           pc \in Holding <=> Holds(c)
    PROVE  Keeps(c) /\ call'[c].cancel = call[c].cancel /\ call'[c].cancels = call[c].cancels
           /\ call'[c].pc = pc /\ \A d \in Calls \ {c} : call'[d] = call[d]
<1> DEFINE rec == [call[c] EXCEPT !.pc = pc]
<1>1. call[c] \in CallRecords
  BY DEF TypeInv
<1>2. rec \in CallRecords /\ rec.pc = pc /\ rec.buffer = call[c].buffer
        /\ rec.cancel = call[c].cancel /\ rec.cancels = call[c].cancels
  BY <1>1 DEF CallRecords
<1>3. call' = [call EXCEPT ![c] = rec]
  OBVIOUS
<1> HIDE DEF rec
<1>4. call'[c] = rec /\ \A d \in Calls \ {c} : call'[d] = call[d]
  BY <1>3, OneCall, Zenon
<1> QED
  BY <1>2, <1>3, <1>4, Zenon DEF Keeps

-----------------------------------------------------------------------------
(* Whatever a call does with its buffer, the types stay. *)
LEMMA BufferTypes ==
    ASSUME ClientAssumption, TypeInv, NEW c \in Calls, Keeps(c) \/ Takes(c) \/ Gives(c),
           thread' \in [Calls -> {"idle", "encode", "decode"}],
           close' \in {"open", "channel", "gather", "closed", "failed"},
           Holds(c) => call[c].buffer \in Buffers
    PROVE  TypeInv'
<1>1. ASSUME NEW rec \in CallRecords, call' = [call EXCEPT ![c] = rec]
      PROVE  call' \in [Calls -> CallRecords]
  BY <1>1, Zenon DEF TypeInv
<1>2. call' \in [Calls -> CallRecords]
  BY <1>1 DEF Keeps, Takes, Gives
<1>3. permits' \in Nat /\ free' \in SUBSET Buffers
  BY DEF Keeps, Takes, Gives, TypeInv
<1> QED
  BY <1>2, <1>3 DEF TypeInv

(* Whatever a call does with its buffer, the permits count the free ones. *)
LEMMA BuffersStep ==
    ASSUME ClientAssumption, TypeInv, BuffersHeld, NEW c \in Calls,
           Keeps(c) \/ Takes(c) \/ Gives(c), close' = close
    PROVE  BuffersHeld'
<1>0. IsFiniteSet(free)
  BY FS_Subset DEF TypeInv, ClientAssumption
<1>a. /\ \A d \in Calls : Holds(d) => call[d].buffer \in Buffers /\ call[d].buffer \notin free
      /\ \A d, e \in Calls : Holds(d) /\ Holds(e) /\ call[d].buffer = call[e].buffer => d = e
      /\ \A b \in Buffers \ free : \E d \in Calls : Holds(d) /\ call[d].buffer = b
      /\ permits = Cardinality(free) /\ close' # "failed" /\ free \subseteq Buffers
  BY DEF BuffersHeld, TypeInv
<1>1. CASE Keeps(c)
  <2>1. PICK rec \in CallRecords :
          /\ call' = [call EXCEPT ![c] = rec] /\ permits' = permits /\ free' = free
          /\ rec.pc \in Holding <=> Holds(c)
          /\ Holds(c) => rec.buffer = call[c].buffer
    BY <1>1, Zenon DEF Keeps
  <2>2. call'[c] = rec /\ \A d \in Calls \ {c} : call'[d] = call[d]
    BY <2>1, OneCall, Zenon
  <2>3. \A d \in Calls : /\ (Holds(d))' <=> Holds(d)
                         /\ Holds(d) => call'[d].buffer = call[d].buffer
    BY <2>1, <2>2 DEF Holds
  <2> QED
    BY <1>a, <2>1, <2>3 DEF BuffersHeld
<1>2. CASE Takes(c)
  <2>1. PICK rec \in CallRecords, b \in free :
          /\ call' = [call EXCEPT ![c] = rec] /\ permits > 0
          /\ permits' = permits - 1 /\ free' = free \ {b}
          /\ ~Holds(c) /\ rec.pc = "encode" /\ rec.buffer = b
    BY <1>2, Zenon DEF Takes
  <2>2. call'[c] = rec /\ \A d \in Calls \ {c} : call'[d] = call[d]
    BY <2>1, OneCall, Zenon
  <2>3. /\ (Holds(c))' /\ call'[c].buffer = b
        /\ \A d \in Calls \ {c} : /\ (Holds(d))' <=> Holds(d)
                                  /\ call'[d].buffer = call[d].buffer
    BY <2>1, <2>2 DEF Holds, Holding
  <2>4. permits' = Cardinality(free')
    BY <1>0, <1>a, <2>1, FS_RemoveElement, Zenon
  <2>5. \A d \in Calls : (Holds(d))' => call'[d].buffer \in Buffers \ free'
    BY <1>a, <2>1, <2>3
  <2>6. \A d, e \in Calls : (Holds(d))' /\ (Holds(e))' /\ call'[d].buffer = call'[e].buffer => d = e
    BY <1>a, <2>1, <2>3
  <2>7. \A x \in Buffers \ free' : \E d \in Calls : (Holds(d))' /\ call'[d].buffer = x
    BY <1>a, <2>1, <2>3
  <2> QED
    BY <1>a, <2>4, <2>5, <2>6, <2>7 DEF BuffersHeld
<1>3. CASE Gives(c)
  <2>1. PICK rec \in CallRecords :
          /\ call' = [call EXCEPT ![c] = rec]
          /\ permits' = permits + 1 /\ free' = free \cup {call[c].buffer}
          /\ Holds(c) /\ rec.pc = "over"
    BY <1>3, Zenon DEF Gives
  <2>2. call'[c] = rec /\ \A d \in Calls \ {c} : call'[d] = call[d]
    BY <2>1, OneCall, Zenon
  <2>3. /\ ~(Holds(c))'
        /\ \A d \in Calls \ {c} : /\ (Holds(d))' <=> Holds(d)
                                  /\ call'[d].buffer = call[d].buffer
    BY <2>1, <2>2 DEF Holds, Holding
  <2>4. permits' = Cardinality(free')
    BY <1>0, <1>a, <2>1, FS_AddElement, Zenon
  <2>5. \A d \in Calls : (Holds(d))' => call'[d].buffer \in Buffers \ free'
    BY <1>a, <2>1, <2>3
  <2>6. \A d, e \in Calls : (Holds(d))' /\ (Holds(e))' /\ call'[d].buffer = call'[e].buffer => d = e
    BY <1>a, <2>1, <2>3
  <2>7. ASSUME NEW x \in Buffers \ free' PROVE \E d \in Calls : (Holds(d))' /\ call'[d].buffer = x
    <3>1. PICK d \in Calls : Holds(d) /\ call[d].buffer = x
      BY <1>a, <2>1
    <3> QED
      BY <2>1, <2>3, <3>1
  <2> QED
    BY <1>a, <2>4, <2>5, <2>6, <2>7 DEF BuffersHeld
<1> QED
  BY <1>1, <1>2, <1>3

-----------------------------------------------------------------------------
(* The steps of a call and its thread. *)
CallStep(c) == Execute(c) \/ Step(c) \/ Answer(c) \/ ThreadDone(c) \/ Cancel(c)

SameCancels(c) == call'[c].cancel = call[c].cancel /\ call'[c].cancels = call[c].cancels

(* It goes to where no thread is awaited, from where none works, or when it is
   cancelled while it drains. *)
Leaves(c) ==
    /\ call'[c].pc \in {"permit", "rpc", "over"} /\ SameCancels(c) /\ thread' = thread
    /\ thread[c] = "idle" \/ call[c].pc \in {"new", "permit", "rpc"}
         \/ (call[c].pc = "drain" /\ call[c].cancel)

(* It hands its buffer to a thread. *)
HandsOver(c) ==
    /\ call'[c].pc \in {"encode", "decode"} /\ SameCancels(c)
    /\ \E work \in {"encode", "decode"} : thread' = [thread EXCEPT ![c] = work]

(* It is cancelled while the thread works, and waits on. *)
Drains(c) ==
    /\ call[c].cancel /\ call'[c].pc = "drain" /\ ~call'[c].cancel
    /\ call'[c].cancels = call[c].cancels /\ thread' = thread

(* Its task is cancelled. *)
IsCancelled(c) ==
    /\ call'[c].pc = call[c].pc /\ call'[c].cancels = call[c].cancels + 1
    /\ call[c].cancels < MaxCancels /\ thread' = thread

(* Its thread is done. *)
IsDone(c) == call' = call /\ thread' = [thread EXCEPT ![c] = "idle"]

Kinds(c) ==
    /\ Keeps(c) \/ Takes(c) \/ Gives(c)
    /\ \A d \in Calls \ {c} : call'[d] = call[d]
    /\ close' = close
    /\ Leaves(c) \/ HandsOver(c) \/ Drains(c) \/ IsCancelled(c) \/ IsDone(c)

(* Every step of a call is of these kinds. *)
LEMMA StepKinds ==
    ASSUME TypeInv, NEW c \in Calls, CallStep(c)
    PROVE  Kinds(c)
<1> USE DEF Holds, Holding
<1>0. call[c] \in CallRecords
  BY DEF TypeInv
<1>a. ASSUME NEW outcome \in Outcomes, Refuse(c, outcome), ~Holds(c), thread' = thread,
             close' = close, thread[c] = "idle" \/ call[c].pc \in {"new", "permit"}
      PROVE  Kinds(c)
  BY <1>a, RefuseKeeps DEF Kinds, Leaves, SameCancels
<1>b. ASSUME NEW outcome \in Outcomes, Return(c, outcome), Holds(c), thread' = thread,
             close' = close,
             thread[c] = "idle" \/ call[c].pc = "rpc" \/ (call[c].pc = "drain" /\ call[c].cancel)
      PROVE  Kinds(c)
  BY <1>b, ReturnGives DEF Kinds, Leaves, SameCancels
<1>1. CASE Execute(c)
  <2>1. CASE \E outcome \in {"closing", "deadline"} : Refuse(c, outcome)
    BY <1>1, <1>a, <2>1, Zenon DEF Execute, Outcomes
  <2>2. CASE call' = [call EXCEPT ![c].pc = "permit"] /\ UNCHANGED <<permits, free>>
    BY <1>1, <2>2, MoveKeeps, Zenon DEF Execute, Kinds, Leaves, SameCancels
  <2> QED
    BY <1>1, <2>1, <2>2 DEF Execute
<1>2. CASE Acquire(c)
  <2>1. CASE (\E outcome \in {"closing", "deadline"} : Refuse(c, outcome)) /\ UNCHANGED thread
    BY <1>2, <1>a, <2>1 DEF Acquire, Outcomes
  <2>2. CASE /\ permits > 0 /\ permits' = permits - 1
             /\ \E b \in free :
                  /\ call' = [call EXCEPT ![c].pc = "encode", ![c].buffer = b]
                  /\ free' = free \ {b}
             /\ thread' = [thread EXCEPT ![c] = "encode"]
    <3>1. PICK b \in free : /\ call' = [call EXCEPT ![c].pc = "encode", ![c].buffer = b]
                            /\ free' = free \ {b}
      BY <2>2, Zenon
    <3> DEFINE rec == [call[c] EXCEPT !.pc = "encode", !.buffer = b]
    <3>2. rec \in CallRecords /\ rec.pc = "encode" /\ rec.buffer = b
            /\ rec.cancel = call[c].cancel /\ rec.cancels = call[c].cancels
      BY <1>0, <3>1, Zenon DEF CallRecords, TypeInv
    <3>3. call' = [call EXCEPT ![c] = rec]
      BY <3>1, Zenon
    <3> HIDE DEF rec
    <3>4. call'[c] = rec /\ \A d \in Calls \ {c} : call'[d] = call[d]
      BY <3>3, OneCall, Zenon
    <3>5. Takes(c)
      BY <1>2, <2>2, <3>1, <3>2, <3>3, Zenon DEF Takes, Acquire
    <3>6. HandsOver(c)
      BY <2>2, <3>2, <3>4 DEF HandsOver, SameCancels
    <3> QED
      BY <1>2, <3>4, <3>5, <3>6 DEF Kinds, Acquire
  <2> QED
    BY <1>2, <2>1, <2>2 DEF Acquire
<1>3. CASE Send(c)
  <2>1. CASE \E outcome \in {"invalid", "deadline", "usage"} : Return(c, outcome)
    BY <1>3, <1>b, <2>1 DEF Send, Outcomes
  <2>2. CASE call' = [call EXCEPT ![c].pc = "rpc"] /\ UNCHANGED <<permits, free>>
    BY <1>3, <2>2, MoveKeeps, Zenon DEF Send, Kinds, Leaves, SameCancels
  <2> QED
    BY <1>3, <2>1, <2>2 DEF Send
<1>4. CASE Lose(c)
  BY <1>4, <1>b DEF Lose, Outcomes
<1>5. CASE Fill(c)
  <2>1. PICK outcome \in {"filled", "protocol"} : Return(c, outcome)
    BY <1>5 DEF Fill
  <2> QED
    BY <1>5, <1>b, <2>1 DEF Fill, Outcomes
<1>6. CASE Drained(c)
  BY <1>6, <1>b DEF Drained, Outcomes
<1>7. CASE CancelledError(c) /\ UNCHANGED <<thread, close>>
  <2>1. CASE call[c].pc = "permit" /\ Refuse(c, "cancelled")
    BY <1>7, <1>a, <2>1 DEF Outcomes
  <2>2. CASE call[c].pc \in {"rpc", "drain"} /\ Return(c, "cancelled")
    BY <1>7, <1>b, <2>2 DEF CancelledError, Outcomes
  <2>3. CASE /\ call[c].pc \in {"encode", "decode"}
             /\ call' = [call EXCEPT ![c].pc = "drain", ![c].cancel = FALSE]
             /\ UNCHANGED <<permits, free>>
    <3> DEFINE rec == [call[c] EXCEPT !.pc = "drain", !.cancel = FALSE]
    <3>1. rec \in CallRecords /\ rec.pc = "drain" /\ rec.buffer = call[c].buffer
            /\ ~rec.cancel /\ rec.cancels = call[c].cancels
      BY <1>0, Zenon DEF CallRecords
    <3>2. call' = [call EXCEPT ![c] = rec]
      BY <2>3, Zenon
    <3> HIDE DEF rec
    <3>3. call'[c] = rec /\ \A d \in Calls \ {c} : call'[d] = call[d]
      BY <3>2, OneCall, Zenon
    <3> QED
      BY <1>7, <2>3, <3>1, <3>2, <3>3, Zenon DEF CancelledError, Kinds, Keeps, Drains
  <2> QED
    BY <1>7, <2>1, <2>2, <2>3 DEF CancelledError
<1>8. CASE Answer(c)
  <2>1. CASE (\E e \in RpcErrors : Return(c, e)) /\ UNCHANGED thread
    <3>1. PICK e \in RpcErrors : Return(c, e)
      BY <2>1
    <3>2. e \in Outcomes
      BY Zenon DEF RpcErrors, Outcomes
    <3> QED
      BY <1>8, <1>b, <2>1, <3>1, <3>2 DEF Answer
  <2>2. CASE /\ call' = [call EXCEPT ![c].pc = "decode"]
             /\ thread' = [thread EXCEPT ![c] = "decode"]
             /\ UNCHANGED <<permits, free>>
    BY <1>8, <2>2, MoveKeeps, Zenon DEF Answer, Kinds, HandsOver, SameCancels
  <2> QED
    BY <1>8, <2>1, <2>2 DEF Answer
<1>9. CASE ThreadDone(c)
  <2>1. call' = [call EXCEPT ![c] = call[c]] /\ permits' = permits /\ free' = free
    BY <1>9, Zenon DEF ThreadDone, TypeInv
  <2>2. Keeps(c)
    BY <1>0, <2>1, Zenon DEF Keeps
  <2> QED
    BY <1>9, <2>2 DEF ThreadDone, Kinds, IsDone
<1>10. CASE Cancel(c)
  <2> DEFINE n == call[c].cancels + 1
             rec == [call[c] EXCEPT !.cancel = TRUE, !.cancels = n]
  <2>1. n \in Nat
    BY <1>0 DEF CallRecords
  <2>2. call' = [call EXCEPT ![c] = rec] /\ permits' = permits /\ free' = free
    BY <1>10, Zenon DEF Cancel
  <2> HIDE DEF n
  <2>3. rec \in CallRecords /\ rec.pc = call[c].pc /\ rec.buffer = call[c].buffer /\ rec.cancels = n
    BY <1>0, <2>1, Zenon DEF CallRecords
  <2> HIDE DEF rec
  <2>4. call'[c] = rec /\ \A d \in Calls \ {c} : call'[d] = call[d]
    BY <2>2, OneCall, Zenon
  <2>5. Keeps(c) /\ IsCancelled(c)
    BY <1>10, <2>2, <2>3, <2>4, Zenon DEF Keeps, IsCancelled, Cancel, n
  <2> QED
    BY <1>10, <2>4, <2>5, Zenon DEF Kinds, Cancel
<1> QED
  BY <1>1, <1>2, <1>3, <1>4, <1>5, <1>6, <1>7, <1>8, <1>9, <1>10 DEF CallStep, Step

-----------------------------------------------------------------------------
(* The steps of a call keep the types and the accounts of the buffers. *)
LEMMA CallSteps ==
    ASSUME ClientAssumption, TypeInv, BuffersHeld, NEW c \in Calls, Kinds(c)
    PROVE  TypeInv' /\ BuffersHeld'
<1>1. thread' \in [Calls -> {"idle", "encode", "decode"}]
  BY DEF Kinds, Leaves, HandsOver, Drains, IsCancelled, IsDone, TypeInv
<1>2. Holds(c) => call[c].buffer \in Buffers
  BY DEF BuffersHeld
<1>3. Keeps(c) \/ Takes(c) \/ Gives(c)
  BY DEF Kinds
<1>4. close' = close
  BY DEF Kinds
<1>5. TypeInv'
  BY <1>1, <1>2, <1>3, <1>4, BufferTypes DEF TypeInv
<1> QED
  BY <1>3, <1>4, <1>5, BuffersStep

(* Close finds every buffer returned: no call is under way when it asks. *)
LEMMA CloseSteps ==
    ASSUME TypeInv, BuffersHeld, BeginClose \/ CloseChannel \/ CloseBuffers \/ UNCHANGED vars
    PROVE  /\ TypeInv' /\ BuffersHeld'
           /\ call' = call /\ thread' = thread
<1>1. call' = call /\ thread' = thread /\ permits' = permits /\ free' = free
  BY DEF BeginClose, CloseChannel, CloseBuffers, vars
<1>2. close' \in {"open", "channel", "gather", "closed"}
  <2>1. CASE CloseBuffers
    <3>1. \A c \in Calls : ~Holds(c)
      BY <2>1 DEF CloseBuffers, Active, Holds, Holding
    <3>2. free = Buffers
      BY <3>1 DEF BuffersHeld, TypeInv
    <3> QED
      BY <2>1, <3>2 DEF CloseBuffers
  <2>2. CASE BeginClose \/ CloseChannel \/ UNCHANGED vars
    BY <2>2 DEF BeginClose, CloseChannel, vars, TypeInv, BuffersHeld
  <2> QED
    BY <2>1, <2>2
<1>3. TypeInv'
  BY <1>1, <1>2 DEF TypeInv
<1> QED
  BY <1>1, <1>2, <1>3 DEF BuffersHeld, Holds

(* Every step keeps the accounts of the buffers. *)
LEMMA BuffersNext ==
    ASSUME ClientAssumption, TypeInv, BuffersHeld, [Next]_vars
    PROVE  TypeInv' /\ BuffersHeld'
<1>1. CASE \E c \in Calls : CallStep(c)
  BY <1>1, StepKinds, CallSteps
<1>2. CASE BeginClose \/ CloseChannel \/ CloseBuffers \/ UNCHANGED vars
  BY <1>2, CloseSteps
<1> QED
  BY <1>1, <1>2 DEF Next, CallStep

(* A new connection has all its buffers, and no call. *)
LEMMA BuffersInit ==
    ASSUME ClientAssumption, Init
    PROVE  TypeInv /\ BuffersHeld /\ ThreadsAwaited
<1>1. NewCall \in CallRecords /\ NewCall.pc = "new" /\ NewCall.cancel = FALSE
  BY DEF NewCall, CallRecords, Outcomes
<1>2. \A c \in Calls : call[c].pc = "new" /\ ~call[c].cancel /\ thread[c] = "idle"
  BY <1>1 DEF Init
<1>3. Cardinality(Buffers) \in Nat
  BY FS_CardinalityType DEF ClientAssumption
<1>4. TypeInv
  BY <1>1, <1>3 DEF Init, TypeInv
<1>5. BuffersHeld
  BY <1>2 DEF Init, BuffersHeld, Holds, Holding
<1> QED
  BY <1>2, <1>4, <1>5 DEF ThreadsAwaited

(* A thread never outlives the wait of its call: the first cancellation is held back
   while the thread works (_run_cpu), and there is no second one. *)
LEMMA AwaitedStep ==
    ASSUME MaxCancels \in Nat, MaxCancels =< 1, TypeInv, ThreadsAwaited,
           NEW c \in Calls, Kinds(c)
    PROVE  ThreadsAwaited'
<1>0. /\ thread[c] # "idle" => call[c].pc \in {"encode", "decode", "drain"}
      /\ call[c].cancel => call[c].cancels >= 1
      /\ call[c].pc = "drain" => call[c].cancels >= 1 /\ ~call[c].cancel
      /\ call[c].cancels \in Nat
  BY DEF ThreadsAwaited, TypeInv, CallRecords
<1> DEFINE Awaited == /\ thread'[c] # "idle" => call'[c].pc \in {"encode", "decode", "drain"}
                      /\ call'[c].cancel => call'[c].cancels >= 1
                      /\ call'[c].pc = "drain" => call'[c].cancels >= 1 /\ ~call'[c].cancel
<1>1. ASSUME Leaves(c) PROVE Awaited
  BY <1>0, <1>1 DEF Leaves, SameCancels
<1>2. ASSUME HandsOver(c) PROVE Awaited
  BY <1>0, <1>2 DEF HandsOver, SameCancels
<1>3. ASSUME Drains(c) PROVE Awaited
  BY <1>0, <1>3 DEF Drains
<1>4. ASSUME IsCancelled(c) PROVE Awaited
  BY <1>0, <1>4 DEF IsCancelled
<1>5. ASSUME IsDone(c) PROVE Awaited
  BY <1>0, <1>5 DEF IsDone, TypeInv
<1>6. Awaited
  BY <1>1, <1>2, <1>3, <1>4, <1>5 DEF Kinds
<1>7. \A d \in Calls \ {c} : call'[d] = call[d] /\ thread'[d] = thread[d]
  BY DEF Kinds, Leaves, HandsOver, Drains, IsCancelled, IsDone, TypeInv
<1> QED
  BY <1>6, <1>7 DEF ThreadsAwaited

(* However often its tasks are cancelled, and whatever the Worker answers or does not
   answer, a connection has a buffer for every permit, and close finds all of them
   returned ("admission and transfer buffers diverged" is never raised). *)
THEOREM PermitsExact == ASSUME ClientAssumption PROVE Spec => []BuffersMatchPermits
<1>1. Init => TypeInv /\ BuffersHeld
  BY BuffersInit
<1>2. TypeInv /\ BuffersHeld /\ [Next]_vars => (TypeInv /\ BuffersHeld)'
  BY BuffersNext
<1>3. BuffersHeld => BuffersMatchPermits
  BY DEF BuffersHeld, BuffersMatchPermits
<1> QED
  BY <1>1, <1>2, <1>3, PTL DEF Spec

(* No thread of the pool works for a call that has ended, so that no other call gets a
   buffer that is still read or written, when no task is cancelled twice: execute waits
   for the thread (_run_cpu) before its `finally` returns the buffer. *)
THEOREM CallsReturnBuffers ==
    ASSUME ClientAssumption, MaxCancels =< 1
    PROVE  Spec => []BuffersReturned
<1>0. MaxCancels \in Nat
  BY DEF ClientAssumption
<1>1. Init => TypeInv /\ BuffersHeld /\ ThreadsAwaited
  BY BuffersInit
<1>2. TypeInv /\ BuffersHeld /\ ThreadsAwaited /\ [Next]_vars
        => (TypeInv /\ BuffersHeld /\ ThreadsAwaited)'
  <2> SUFFICES ASSUME TypeInv, BuffersHeld, ThreadsAwaited, [Next]_vars
               PROVE  TypeInv' /\ BuffersHeld' /\ ThreadsAwaited'
    OBVIOUS
  <2>1. TypeInv' /\ BuffersHeld'
    BY BuffersNext
  <2>2. CASE \E c \in Calls : CallStep(c)
    BY <1>0, <2>1, <2>2, StepKinds, AwaitedStep
  <2>3. CASE BeginClose \/ CloseChannel \/ CloseBuffers \/ UNCHANGED vars
    BY <2>1, <2>3, CloseSteps DEF ThreadsAwaited
  <2> QED
    BY <2>1, <2>2, <2>3 DEF Next, CallStep
<1>3. BuffersHeld /\ ThreadsAwaited => BuffersReturned
  BY DEF BuffersHeld, ThreadsAwaited, BuffersReturned, ReturnedUnused, BuffersMatchPermits
<1> QED
  BY <1>1, <1>2, <1>3, PTL DEF Spec
=============================================================================
