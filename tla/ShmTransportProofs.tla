-------------------------- MODULE ShmTransportProofs --------------------------
(***************************************************************************)
(* The slots of the same-host transport for any number of connections,     *)
(* slots and calls: what a call is filled with, and which batch owns a     *)
(* slot. Client and Worker do not share the ownership of a slot, only its  *)
(* generation: after a failed call the client reuses a slot that the       *)
(* Worker may still have. The invariants below say what keeps the two      *)
(* apart.                                                                  *)
(***************************************************************************)
EXTENDS ShmTransport, TLAPS

Contents == Calls \cup {None, Mixed}

CallRecords ==
    [pc : {"new", "permit", "copy", "rpc", "read", "left", "over"},
     session : Sessions \cup {None}, slot : Slots \cup {None}, generation : Nat,
     late : {"no", "expired", "cancelled"},
     outcome : {"none", "filled", "late", "error", "left", "crashed"}, result : Contents]

SlotRecords == [generation : Nat, input : Contents, output : Contents]
RpcStates == {"none", "sent", "wait", "ok", "failed", "lost", "cut"}
ConnStates == {"new", "opening", "open", "closing", "asking", "closed", "unstarted", "broken", "crashed"}
RegStates == {"none", "asked", "mapping", "open", "refused", "gone"}

TypeInv ==
    /\ conn \in [Sessions -> ConnStates]
    /\ free \in [Sessions -> SUBSET Slots]
    /\ memory \in [Sessions -> [Slots -> SlotRecords]]
    /\ call \in [Calls -> CallRecords]
    /\ rpc \in [Calls -> RpcStates]
    /\ reg \in [Sessions -> RegStates]
    /\ claim \in [Sessions -> [Slots -> Nat]]
    /\ last \in [Sessions -> [Slots -> Nat]]
    /\ item \in [Calls -> {"none", "waiting", "active", "copied", "computed", "done"}]
    /\ read \in [Calls -> Contents]
    /\ dropped \in [Calls -> BOOLEAN]
    /\ wclose \in {"open", "stop", "active", "closed", "failed"}

Slotted(c) == call[c].generation >= 1
Holds(c) == call[c].pc \in {"copy", "rpc", "read"}
SlotOf(c) == memory[call[c].session][call[c].slot]

(* A call that was left during its copy had a slot. *)
Strays(c) ==
    /\ call[c].pc = "left" => call[c].outcome = "left"
    /\ call[c].outcome = "left" => Slotted(c) /\ call[c].pc \in {"left", "over"}

(* The client's side: a call that has a slot has it alone and at its newest generation;
   those before it had smaller ones. *)
SlotsHeld ==
    /\ \A c \in Calls : call[c].pc = "new" => call[c].generation = 0
    /\ \A c \in Calls : call[c].pc = "permit" => call[c].generation = 0 /\ call[c].session \in Sessions
    /\ \A c \in Calls : Slotted(c) =>
         /\ call[c].session \in Sessions /\ call[c].slot \in Slots
         /\ call[c].generation =< SlotOf(c).generation
    /\ \A c \in Calls : Holds(c) =>
         /\ Slotted(c) /\ call[c].slot \notin free[call[c].session]
         /\ call[c].generation = SlotOf(c).generation
    /\ \A c, d \in Calls : Slotted(c) /\ Slotted(d) /\ SameSlot(c, d)
                             /\ call[c].generation = call[d].generation => c = d
    /\ \A c \in Calls : Strays(c)

(* The Worker's side: a claim is that of one batch it has, and every batch it has was
   announced at a generation that was new then. Its caller waits, or its call was cut. *)
Announced(c) ==
    /\ rpc[c] # "none" => Slotted(c) /\ call[c].pc \in {"rpc", "read", "over"}
    /\ rpc[c] \in {"none", "sent", "lost"} => item[c] = "none"
    /\ rpc[c] \in {"sent", "wait"} => call[c].pc = "rpc"
    /\ InWorker(c) => rpc[c] \in {"wait", "cut"}
    /\ item[c] \in {"none", "waiting", "active"} => read[c] = None

Claimed(c) == InWorker(c) =>
    /\ ClaimOf(c) = call[c].generation
    /\ last[call[c].session][call[c].slot] >= call[c].generation

ClaimsKept ==
    /\ \A c \in Calls : Announced(c) /\ Claimed(c)
    /\ \A x \in Sessions, b \in Slots : claim[x][b] # 0 =>
         \E c \in Calls : InWorker(c) /\ call[c].session = x /\ call[c].slot = b
    /\ wclose \in {"active", "closed"} => \A c \in Calls : item[c] # "waiting"
    /\ wclose # "failed"

(* The slot of a call that was answered is not in use, and nobody can claim it before the
   call returns it. *)
Settled(c) ==
    /\ call[c].pc = "read" => rpc[c] = "ok"
    /\ rpc[c] = "ok" /\ call[c].pc \in {"rpc", "read"} =>
         /\ ClaimOf(c) = 0
         /\ last[call[c].session][call[c].slot] >= call[c].generation

(* What lies in a slot while its call waits for the answer: its own input, and from the
   moment the Worker wrote it its own output. *)
Own(c) ==
    /\ call[c].pc = "rpc" => SlotOf(c).input = c
    /\ rpc[c] # "cut" => read[c] \in {c, None}
    /\ rpc[c] = "wait" /\ item[c] \in {"copied", "computed"} => read[c] = c
    /\ rpc[c] = "wait" /\ item[c] = "computed" => SlotOf(c).output = c
    /\ rpc[c] = "ok" /\ call[c].pc \in {"rpc", "read"} => SlotOf(c).output = c
    /\ call[c].outcome = "filled" => call[c].result = c

Kept(c) == Settled(c) /\ (Own(c) \/ LeftOn(c))

ContentsOwn == \A c \in Calls : Kept(c)

(* A connection that does not take calls has none, and one that the Worker has yet to open
   has not been closed in an orderly way. *)
Connected ==
    /\ \A x \in Sessions : conn[x] \notin {"open", "closing"} => On(x) = {}
    /\ \A x \in Sessions : reg[x] \in {"asked", "mapping"} =>
         conn[x] \in {"opening", "unstarted", "crashed"}
    /\ ClosedSessionsGone

IInv == TypeInv /\ SlotsHeld /\ ClaimsKept /\ ContentsOwn /\ Connected
-----------------------------------------------------------------------------
(* What the steps leave alone: the slot of a call that had one, the other calls, the
   generations, and what the Worker has. *)
Identified(c) ==
    /\ call'[c].generation = call[c].generation
    /\ Slotted(c) => call'[c].session = call[c].session /\ call'[c].slot = call[c].slot

Only(c) == \A d \in Calls \ {c} : call'[d] = call[d]

SameSlotState(x, b) ==
    /\ memory'[x][b].generation = memory[x][b].generation
    /\ memory'[x][b].input = memory[x][b].input
    /\ memory'[x][b].output = memory[x][b].output

(* The slot of c is all that may have become free. *)
FreesOnly(c) == \A x \in Sessions, b \in Slots :
    b \in free'[x] => b \in free[x] \/ (x = call[c].session /\ b = call[c].slot)

(* Two calls do not hold one slot. *)
LEMMA HoldersApart ==
    ASSUME SlotsHeld, NEW c \in Calls, NEW d \in Calls, Holds(c), Holds(d), SameSlot(c, d)
    PROVE  c = d
BY DEF SlotsHeld, SameSlot, SlotOf

(* execute reaches the semaphore, or finds the connection closing. *)
LEMMA ExecuteFacts ==
    ASSUME TypeInv, NEW c \in Calls, NEW x \in Sessions, Execute(c, x)
    PROVE  /\ call[c].pc = "new" /\ call' \in [Calls -> CallRecords] /\ Only(c)
           /\ call'[c].pc \in {"permit", "over"} /\ call'[c].session = x
           /\ call'[c].pc = "permit" => conn[x] = "open"
           /\ call'[c].generation = call[c].generation
           /\ call'[c].outcome = call[c].outcome /\ call'[c].result = call[c].result
<1> DEFINE rec == [call[c] EXCEPT !.pc = IF conn[x] = "open" THEN "permit" ELSE "over", !.session = x]
<1>1. call[c] \in CallRecords
  BY Zenon DEF TypeInv
<1>2. rec \in CallRecords /\ rec.pc \in {"permit", "over"} /\ rec.session = x
        /\ (rec.pc = "permit" => conn[x] = "open")
        /\ rec.generation = call[c].generation /\ rec.outcome = call[c].outcome
        /\ rec.result = call[c].result
  BY <1>1, Zenon DEF CallRecords
<1>3. call' = [call EXCEPT ![c] = rec] /\ call[c].pc = "new"
  BY Zenon DEF Execute
<1> HIDE DEF rec
<1> QED
  BY <1>2, <1>3, Zenon DEF TypeInv, Only

(* _acquire takes a free slot at its next generation. *)
Takes(c, x, b) ==
    /\ call[c].pc = "permit" /\ call' \in [Calls -> CallRecords] /\ Only(c)
    /\ b \in free[x] /\ free' \in [Sessions -> SUBSET Slots]
    /\ b \notin free'[x] /\ \A y \in Sessions : free'[y] \subseteq free[y]
    /\ call'[c].pc = "copy" /\ call'[c].slot = b /\ call'[c].session = x
    /\ call'[c].generation = memory[x][b].generation + 1
    /\ call'[c].outcome = call[c].outcome /\ call'[c].result = call[c].result
    /\ memory' \in [Sessions -> [Slots -> SlotRecords]]
    /\ memory'[x][b].generation = memory[x][b].generation + 1
    /\ \A y \in Sessions, e \in Slots : ~(y = x /\ e = b) => SameSlotState(y, e)

(* A call that acquires a slot takes it off the free list and raises its generation. *)
LEMMA AcquireFacts ==
    ASSUME TypeInv, NEW c \in Calls, Acquire(c), call[c].session \in Sessions
    PROVE  \E b \in Slots : Takes(c, call[c].session, b)
<1> DEFINE x == call[c].session
<1>1. PICK b \in free[x] :
        /\ free' = [free EXCEPT ![x] = @ \ {b}]
        /\ memory' = [memory EXCEPT ![x][b].generation = @ + 1, ![x][b].input = Mixed]
        /\ call' = [call EXCEPT ![c].pc = "copy", ![c].slot = b,
                                ![c].generation = memory[x][b].generation + 1]
  BY Zenon DEF Acquire
<1> DEFINE n == memory[x][b].generation + 1
           rec == [call[c] EXCEPT !.pc = "copy", !.slot = b, !.generation = n]
           mem == [memory[x][b] EXCEPT !.generation = n, !.input = Mixed]
<1>2. b \in Slots /\ call[c] \in CallRecords /\ memory[x][b] \in SlotRecords /\ n \in Nat
  BY <1>1 DEF TypeInv, SlotRecords
<1>3. call' = [call EXCEPT ![c] = rec]
  BY <1>1, Zenon
<1>4. memory' = [memory EXCEPT ![x] = [memory[x] EXCEPT ![b] = mem]]
  BY <1>1, Zenon
<1> HIDE DEF n
<1>5. rec \in CallRecords /\ rec.pc = "copy" /\ rec.slot = b /\ rec.generation = n
        /\ rec.session = x /\ rec.outcome = call[c].outcome /\ rec.result = call[c].result
  BY <1>2, Zenon DEF CallRecords
<1>6. mem \in SlotRecords /\ mem.generation = n
  BY <1>2, Zenon DEF SlotRecords, Contents
<1> HIDE DEF rec, mem
<1>7. /\ memory' \in [Sessions -> [Slots -> SlotRecords]] /\ memory'[x][b] = mem
      /\ \A y \in Sessions, e \in Slots : ~(y = x /\ e = b) => memory'[y][e] = memory[y][e]
  BY <1>2, <1>4, <1>6, Zenon DEF TypeInv
<1>8. /\ free' \in [Sessions -> SUBSET Slots] /\ b \notin free'[x]
      /\ \A y \in Sessions : free'[y] \subseteq free[y]
  BY <1>1, Zenon DEF TypeInv
<1>9. call' \in [Calls -> CallRecords] /\ Only(c) /\ call'[c] = rec
  BY <1>3, <1>5, Zenon DEF TypeInv, Only
<1>10. call[c].pc = "permit"
  BY Zenon DEF Acquire
<1>11. \A y \in Sessions, e \in Slots : ~(y = x /\ e = b) => SameSlotState(y, e)
  BY <1>7, Zenon DEF SameSlotState
<1>12. Takes(c, x, b)
  BY <1>1, <1>5, <1>6, <1>7, <1>8, <1>9, <1>10, <1>11, Zenon DEF Takes, n
<1> QED
  BY <1>2, <1>12, Zenon

(* The `finally` of execute. *)
LEMMA ReturnFacts ==
    ASSUME TypeInv, NEW c \in Calls, NEW outcome \in {"filled", "late", "error"},
           NEW result \in Contents, Return(c, outcome, result),
           call[c].session \in Sessions, call[c].slot \in Slots
    PROVE  /\ call' \in [Calls -> CallRecords] /\ Only(c) /\ Identified(c)
           /\ call'[c].pc = "over" /\ call'[c].outcome = outcome /\ call'[c].result = result
           /\ free' \in [Sessions -> SUBSET Slots] /\ FreesOnly(c)
<1> DEFINE rec == [call[c] EXCEPT !.pc = "over", !.outcome = outcome, !.result = result]
<1>1. call[c] \in CallRecords
  BY Zenon DEF TypeInv
<1>2. rec \in CallRecords /\ rec.pc = "over" /\ rec.outcome = outcome /\ rec.result = result
        /\ rec.generation = call[c].generation /\ rec.session = call[c].session
        /\ rec.slot = call[c].slot
  BY <1>1, Zenon DEF CallRecords
<1>3. call' = [call EXCEPT ![c] = rec]
  BY Zenon DEF Return
<1> HIDE DEF rec
<1>4. call' \in [Calls -> CallRecords] /\ Only(c) /\ call'[c] = rec
  BY <1>2, <1>3, Zenon DEF TypeInv, Only
<1>5. free' = [free EXCEPT ![call[c].session] = @ \cup {call[c].slot}]
  BY Zenon DEF Return
<1>6. free' \in [Sessions -> SUBSET Slots] /\ FreesOnly(c)
  BY <1>5, Zenon DEF TypeInv, FreesOnly
<1> QED
  BY <1>2, <1>4, <1>6, Zenon DEF Identified

(* A call goes on to its next await with its slot. *)
LEMMA MoveFacts ==
    ASSUME TypeInv, NEW c \in Calls, NEW pc \in {"copy", "rpc", "read", "over"},
           call' = [call EXCEPT ![c].pc = pc]
    PROVE  /\ call' \in [Calls -> CallRecords] /\ Only(c) /\ Identified(c) /\ call'[c].pc = pc
           /\ call'[c].outcome = call[c].outcome /\ call'[c].result = call[c].result
<1> DEFINE rec == [call[c] EXCEPT !.pc = pc]
<1>1. call[c] \in CallRecords
  BY Zenon DEF TypeInv
<1>2. rec \in CallRecords /\ rec.pc = pc /\ rec.outcome = call[c].outcome
        /\ rec.result = call[c].result /\ rec.slot = call[c].slot
        /\ rec.generation = call[c].generation /\ rec.session = call[c].session
  BY <1>1, Zenon DEF CallRecords
<1>3. call' = [call EXCEPT ![c] = rec]
  BY Zenon
<1> HIDE DEF rec
<1>4. call'[c] = rec /\ \A d \in Calls \ {c} : call'[d] = call[d]
  BY <1>3, Zenon DEF TypeInv
<1>5. call' \in [Calls -> CallRecords]
  BY <1>2, <1>3, Zenon DEF TypeInv
<1> QED
  BY <1>2, <1>4, <1>5, Zenon DEF Only, Identified

(* A call that is given up goes on to wait, unless it has no slot yet. *)
LEMMA GivenUpFacts ==
    ASSUME TypeInv, NEW c \in Calls, NEW why \in {"expired", "cancelled"},
           call' = [call EXCEPT ![c].late = why, ![c].pc = IF @ = "permit" THEN "over" ELSE @]
    PROVE  /\ call' \in [Calls -> CallRecords] /\ Only(c) /\ Identified(c)
           /\ call'[c].pc = IF call[c].pc = "permit" THEN "over" ELSE call[c].pc
           /\ call'[c].outcome = call[c].outcome /\ call'[c].result = call[c].result
<1> DEFINE rec == [call[c] EXCEPT !.late = why, !.pc = IF @ = "permit" THEN "over" ELSE @]
<1>1. call[c] \in CallRecords
  BY Zenon DEF TypeInv
<1>2. rec \in CallRecords /\ rec.pc = (IF call[c].pc = "permit" THEN "over" ELSE call[c].pc)
        /\ rec.outcome = call[c].outcome
        /\ rec.result = call[c].result /\ rec.slot = call[c].slot
        /\ rec.generation = call[c].generation /\ rec.session = call[c].session
  BY <1>1, Zenon DEF CallRecords
<1>3. call' = [call EXCEPT ![c] = rec]
  BY Zenon
<1> HIDE DEF rec
<1>4. call'[c] = rec /\ \A d \in Calls \ {c} : call'[d] = call[d]
  BY <1>3, Zenon DEF TypeInv
<1>5. call' \in [Calls -> CallRecords]
  BY <1>2, <1>3, Zenon DEF TypeInv
<1> QED
  BY <1>2, <1>4, <1>5, Zenon DEF Only, Identified

(* A copy is cancelled twice: the slot is returned, and a thread may still write to it. *)
LEMMA CancelCopyFacts ==
    ASSUME TypeInv, NEW c \in Calls, CancelCopy(c), call[c].session \in Sessions,
           call[c].slot \in Slots
    PROVE  /\ call' \in [Calls -> CallRecords] /\ Only(c) /\ Identified(c)
           /\ call'[c].pc = (IF call[c].pc = "copy" THEN "left" ELSE "over")
           /\ call'[c].outcome = (IF call[c].pc = "copy" THEN "left" ELSE "late")
           /\ free' \in [Sessions -> SUBSET Slots] /\ FreesOnly(c)
           /\ call[c].pc \in {"copy", "read"}
<1> DEFINE pc == IF call[c].pc = "copy" THEN "left" ELSE "over"
           outcome == IF call[c].pc = "copy" THEN "left" ELSE "late"
           rec == [call[c] EXCEPT !.pc = pc, !.outcome = outcome]
<1>1. call[c] \in CallRecords
  BY Zenon DEF TypeInv
<1>2. rec \in CallRecords /\ rec.pc = pc /\ rec.outcome = outcome
        /\ rec.slot = call[c].slot
        /\ rec.generation = call[c].generation /\ rec.session = call[c].session
  BY <1>1, Zenon DEF CallRecords
<1>3. call' = [call EXCEPT ![c] = rec] /\ call[c].pc \in {"copy", "read"}
  BY Zenon DEF CancelCopy
<1>4. free' = [free EXCEPT ![call[c].session] = @ \cup {call[c].slot}]
  BY Zenon DEF CancelCopy
<1> HIDE DEF rec
<1>5. call' \in [Calls -> CallRecords] /\ Only(c) /\ call'[c] = rec
  BY <1>2, <1>3, Zenon DEF TypeInv, Only
<1>6. free' \in [Sessions -> SUBSET Slots] /\ FreesOnly(c)
  BY <1>4, Zenon DEF TypeInv, FreesOnly
<1> QED
  BY <1>2, <1>3, <1>5, <1>6, Zenon DEF Identified

(* A call loses its RPC: only one that was sent or waits for its answer is another. *)
LEMMA SeveredFacts ==
    ASSUME NEW r \in RpcStates
    PROVE  /\ Severed(r) \in RpcStates /\ Severed(r) \notin {"sent", "wait"}
           /\ r = "sent" => Severed(r) = "lost"
           /\ r = "wait" => Severed(r) = "cut"
           /\ r \notin {"sent", "wait"} => Severed(r) = r
BY DEF Severed, RpcStates

(* A client ends: its calls are over, and the Worker sees none of them wait. *)
LEMMA CrashFacts ==
    ASSUME TypeInv, NEW x \in Sessions, Crash(x)
    PROVE  /\ call' \in [Calls -> CallRecords]
           /\ rpc' \in [Calls -> RpcStates]
           /\ \A c \in Calls :
                \/ c \notin On(x) /\ call'[c] = call[c] /\ rpc'[c] = rpc[c]
                \/ /\ c \in On(x)
                   /\ Identified(c) /\ call'[c].pc = "over" /\ call'[c].outcome = "crashed"
                   /\ call[c].pc \notin {"new", "over", "left"} /\ rpc'[c] = Severed(rpc[c])
                   /\ call'[c].session = call[c].session
<1> DEFINE rec(c) == [call[c] EXCEPT !.pc = "over", !.outcome = "crashed"]
<1>1. ASSUME NEW c \in Calls
      PROVE  rec(c) \in CallRecords /\ rec(c).pc = "over" /\ rec(c).outcome = "crashed"
             /\ rec(c).slot = call[c].slot
             /\ rec(c).generation = call[c].generation /\ rec(c).session = call[c].session
  <2>1. call[c] \in CallRecords
    BY Zenon DEF TypeInv
  <2> QED
    BY <2>1, Zenon DEF CallRecords
<1>2. call' = [c \in Calls |-> IF c \in On(x) THEN rec(c) ELSE call[c]]
  BY Zenon DEF Crash
<1>3. rpc' = [c \in Calls |-> IF c \in On(x) THEN Severed(rpc[c]) ELSE rpc[c]]
  BY Zenon DEF Crash
<1> HIDE DEF rec
<1>4. call' \in [Calls -> CallRecords]
  BY <1>1, <1>2, Zenon DEF TypeInv
<1>5. rpc' \in [Calls -> RpcStates]
  BY <1>3, SeveredFacts, Zenon DEF TypeInv
<1>6. ASSUME NEW c \in Calls, c \in On(x)
      PROVE  /\ Identified(c) /\ call'[c].pc = "over" /\ call'[c].outcome = "crashed"
             /\ call[c].pc \notin {"new", "over", "left"} /\ rpc'[c] = Severed(rpc[c])
             /\ call'[c].session = call[c].session
  <2>1. call'[c] = rec(c)
    BY <1>2, <1>6, Zenon
  <2>2. call[c].pc \notin {"new", "over", "left"}
    BY <1>6, Zenon DEF On
  <2> QED
    BY <1>1, <1>3, <1>6, <2>1, <2>2, Zenon DEF Identified
<1>7. \A c \in Calls : c \notin On(x) => call'[c] = call[c] /\ rpc'[c] = rpc[c]
  BY <1>2, <1>3, Zenon
<1> QED
  BY <1>4, <1>5, <1>6, <1>7, Zenon

-----------------------------------------------------------------------------
(* The client's side, through a step that hands out no slot. *)
Stays(c) ==
    /\ Identified(c)
    /\ (Holds(c))' => Holds(c) /\ call[c].slot \notin free'[call[c].session]
    /\ call'[c].pc = "new" => call[c].pc = "new"
    /\ call'[c].pc = "permit" => call'[c].generation = 0 /\ call'[c].session \in Sessions
    /\ call[c].outcome = "left" => call'[c].outcome = "left"
    /\ (Strays(c))'

SameGenerations == \A x \in Sessions, b \in Slots :
    memory'[x][b].generation = memory[x][b].generation

(* Calls that stay keep the slots they have to themselves. *)
LEMMA SlotsKept ==
    ASSUME TypeInv, SlotsHeld, \A c \in Calls : Stays(c), SameGenerations
    PROVE  SlotsHeld'
<1>1. \A c \in Calls : (Slotted(c))' <=> Slotted(c)
  BY Zenon DEF Stays, Identified, Slotted
<1>2. ASSUME NEW c \in Calls, Slotted(c)
      PROVE  /\ call'[c].session = call[c].session /\ call'[c].slot = call[c].slot
             /\ call'[c].generation = call[c].generation
             /\ call[c].session \in Sessions /\ call[c].slot \in Slots
             /\ (SlotOf(c))'.generation = SlotOf(c).generation
  BY <1>2 DEF Stays, Identified, SlotOf, SlotsHeld, SameGenerations
<1>3. \A c \in Calls : call'[c].pc = "new" => call'[c].generation = 0
  BY Zenon DEF Stays, Identified, SlotsHeld
<1>4. \A c \in Calls : call'[c].pc = "permit" => call'[c].generation = 0 /\ call'[c].session \in Sessions
  BY Zenon DEF Stays
<1>5. ASSUME NEW c \in Calls, (Slotted(c))'
      PROVE  /\ call'[c].session \in Sessions /\ call'[c].slot \in Slots
             /\ call'[c].generation =< (SlotOf(c))'.generation
  <2>1. Slotted(c) /\ call[c].generation =< SlotOf(c).generation
    BY <1>1, <1>5, Zenon DEF SlotsHeld
  <2> QED
    BY <1>2, <2>1, Zenon
<1>6. ASSUME NEW c \in Calls, (Holds(c))'
      PROVE  /\ (Slotted(c))' /\ call'[c].slot \notin free'[call'[c].session]
             /\ call'[c].generation = (SlotOf(c))'.generation
  <2>1. Holds(c) /\ call[c].slot \notin free'[call[c].session]
    BY <1>6, Zenon DEF Stays
  <2>2. Slotted(c) /\ call[c].generation = SlotOf(c).generation
    BY <2>1, Zenon DEF SlotsHeld
  <2> QED
    BY <1>1, <1>2, <2>1, <2>2, Zenon
<1>7. ASSUME NEW c \in Calls, NEW d \in Calls, (Slotted(c))', (Slotted(d))', (SameSlot(c, d))',
             call'[c].generation = call'[d].generation
      PROVE  c = d
  <2>1. Slotted(c) /\ Slotted(d)
    BY <1>1, <1>7, Zenon
  <2>2. SameSlot(c, d) /\ call[c].generation = call[d].generation
    BY <1>2, <1>7, <2>1, Zenon DEF SameSlot
  <2> QED
    BY <2>1, <2>2, Zenon DEF SlotsHeld
<1>8. \A c \in Calls : (Strays(c))'
  BY Zenon DEF Stays
<1> QED
  BY <1>3, <1>4, <1>5, <1>6, <1>7, <1>8, Zenon DEF SlotsHeld

(* A copy that was left stays before the calls that have its slot after it. *)
LEMMA LeftOnStays ==
    ASSUME TypeInv, SlotsHeld, \A d \in Calls : Slotted(d) => Identified(d),
           \A d \in Calls : call[d].outcome = "left" => call'[d].outcome = "left",
           NEW c \in Calls, LeftOn(c)
    PROVE  (LeftOn(c))'
<1>1. PICK d \in Calls : /\ call[d].outcome = "left" /\ SameSlot(c, d)
                         /\ call[d].generation < call[c].generation
  BY Zenon DEF LeftOn
<1>2. Slotted(d) /\ call[c].generation \in Nat /\ call[d].generation \in Nat
  BY <1>1, Zenon DEF SlotsHeld, Strays, TypeInv, CallRecords
<1>3. Slotted(c)
  BY <1>1, <1>2 DEF Slotted
<1> QED
  BY <1>1, <1>2, <1>3, Zenon DEF LeftOn, Identified, SameSlot

(* The call that has a slot came after the copies that were left in it. *)
LEMMA LeftBefore ==
    ASSUME TypeInv, SlotsHeld, NEW c \in Calls, NEW d \in Calls, Holds(c),
           call[d].outcome = "left", SameSlot(c, d)
    PROVE  LeftOn(c)
<1>1. Slotted(d) /\ call[d].pc \in {"left", "over"} /\ call[d].generation =< SlotOf(d).generation
        /\ call[c].generation = SlotOf(c).generation /\ Slotted(c)
  BY Zenon DEF SlotsHeld, Strays
<1>2. c # d /\ SlotOf(c) = SlotOf(d)
  BY <1>1, Zenon DEF Holds, SlotOf, SameSlot
<1>3. call[c].generation # call[d].generation
  BY <1>1, <1>2, Zenon DEF SlotsHeld
<1>4. call[c].generation \in Nat /\ call[d].generation \in Nat
  BY Zenon DEF TypeInv, CallRecords
<1>5. call[d].generation < call[c].generation
  BY <1>1, <1>2, <1>3, <1>4
<1> QED
  BY <1>5, Zenon DEF LeftOn

(* When one call returns its slot, or none does, the others stay. *)
LEMMA OthersStay ==
    ASSUME TypeInv, SlotsHeld, NEW c \in Calls, Only(c),
           free' = free \/ (Holds(c) /\ FreesOnly(c)), NEW d \in Calls \ {c}
    PROVE  Stays(d)
<1>1. call'[d] = call[d]
  BY Zenon DEF Only
<1>2. ASSUME Holds(d) PROVE call[d].slot \notin free'[call[d].session]
  <2>1. call[d].slot \notin free[call[d].session] /\ call[d].session \in Sessions
          /\ call[d].slot \in Slots
    BY <1>2, Zenon DEF SlotsHeld
  <2>2. CASE free' = free
    BY <2>1, <2>2, Zenon
  <2>3. CASE Holds(c) /\ FreesOnly(c)
    <3>1. ~SameSlot(c, d)
      BY <1>2, <2>3, HoldersApart, Zenon
    <3> QED
      BY <2>1, <2>3, <3>1, Zenon DEF FreesOnly, SameSlot
  <2> QED
    BY <2>2, <2>3, Zenon
<1>3. (Holds(d))' <=> Holds(d)
  BY <1>1, Zenon DEF Holds
<1>4. call[d].pc = "permit" => call[d].generation = 0 /\ call[d].session \in Sessions
  BY Zenon DEF SlotsHeld
<1>5. (Strays(d))' <=> Strays(d)
  BY <1>1, Zenon DEF Strays, Slotted
<1> QED
  BY <1>1, <1>2, <1>3, <1>4, <1>5, Zenon DEF Stays, Identified, SlotsHeld

(* The Worker's side, through a step of the client. *)
LEMMA ClaimsClient ==
    ASSUME TypeInv, SlotsHeld, ClaimsKept, \A c \in Calls : Slotted(c) => Identified(c),
           UNCHANGED <<claim, last, item, wclose>>, \A c \in Calls : (Announced(c))'
    PROVE  ClaimsKept'
<1>1. \A c \in Calls : (InWorker(c))' <=> InWorker(c)
  BY Zenon DEF InWorker
<1>2. ASSUME NEW c \in Calls, InWorker(c)
      PROVE  /\ call'[c].session = call[c].session /\ call'[c].slot = call[c].slot
             /\ call'[c].generation = call[c].generation
  <2>1. Slotted(c)
    BY <1>2, Zenon DEF ClaimsKept, Announced, InWorker
  <2> QED
    BY <2>1, Zenon DEF Identified
<1>3. \A c \in Calls : (Claimed(c))'
  BY <1>1, <1>2, Zenon DEF ClaimsKept, Claimed, ClaimOf
<1>4. \A x \in Sessions, b \in Slots : claim'[x][b] # 0 =>
         \E c \in Calls : (InWorker(c))' /\ call'[c].session = x /\ call'[c].slot = b
  BY <1>1, <1>2 DEF ClaimsKept
<1> QED
  BY <1>3, <1>4, Zenon DEF ClaimsKept

(* What the Worker was told of a call that a step leaves alone. *)
LEMMA AnnouncedUntouched ==
    ASSUME NEW c \in Calls, Announced(c), call'[c] = call[c], rpc'[c] = rpc[c], item'[c] = item[c],
           read'[c] = read[c]
    PROVE  (Announced(c))'
BY Zenon DEF Announced, Slotted, InWorker

(* The call sees the output of its slot, or soon will. *)
Watches(c) ==
    \/ rpc[c] = "wait" /\ item[c] = "computed"
    \/ rpc[c] = "ok" /\ call[c].pc \in {"rpc", "read"}

(* What lies in the slot of a call that a step leaves alone. *)
LEMMA KeptUntouched ==
    ASSUME NEW c \in Calls, Kept(c), call'[c] = call[c], rpc'[c] = rpc[c], item'[c] = item[c],
           read'[c] = read[c], LeftOn(c) => (LeftOn(c))',
           call[c].pc = "rpc" => (SlotOf(c))'.input = SlotOf(c).input \/ (LeftOn(c))',
           Watches(c) => /\ (SlotOf(c))'.output = SlotOf(c).output
                         /\ (ClaimOf(c))' = ClaimOf(c)
                         /\ last'[call[c].session][call[c].slot] = last[call[c].session][call[c].slot]
    PROVE  (Kept(c))'
<1>1. (Settled(c))'
  BY Zenon DEF Kept, Settled, Watches
<1>2. ASSUME Own(c), call[c].pc = "rpc" => (SlotOf(c))'.input = SlotOf(c).input
      PROVE  (Own(c))'
  <2>1. /\ call'[c].pc = "rpc" => (SlotOf(c))'.input = c
        /\ rpc'[c] # "cut" => read'[c] \in {c, None}
        /\ rpc'[c] = "wait" /\ item'[c] \in {"copied", "computed"} => read'[c] = c
        /\ call'[c].outcome = "filled" => call'[c].result = c
    BY <1>2, Zenon DEF Own
  <2>2. /\ rpc'[c] = "wait" /\ item'[c] = "computed" => (SlotOf(c))'.output = c
        /\ rpc'[c] = "ok" /\ call'[c].pc \in {"rpc", "read"} => (SlotOf(c))'.output = c
    BY <1>2, Zenon DEF Own, Watches
  <2> QED
    BY <2>1, <2>2, Zenon DEF Own
<1> QED
  BY <1>1, <1>2, Zenon DEF Kept

-----------------------------------------------------------------------------
SlotsInv == TypeInv /\ SlotsHeld /\ ClaimsKept /\ ContentsOwn

(* What a step of the client has to keep. *)
LEMMA ClientStep ==
    ASSUME SlotsInv, TypeInv', \A d \in Calls : Stays(d) /\ (Announced(d))' /\ (Kept(d))',
           SameGenerations, UNCHANGED <<claim, last, item, wclose>>
    PROVE  SlotsInv'
<1>1. SlotsHeld'
  BY SlotsKept, Zenon DEF SlotsInv
<1>2. ClaimsKept'
  BY ClaimsClient, Zenon DEF SlotsInv, Stays
<1> QED
  BY <1>1, <1>2, Zenon DEF SlotsInv, ContentsOwn

(* The steps of a call that change nothing but the call and its RPC, and return its slot at
   most. *)
LEMMA CallOnly ==
    ASSUME SlotsInv, NEW c \in Calls, Only(c), Stays(c), call' \in [Calls -> CallRecords],
           free' \in [Sessions -> SUBSET Slots], free' = free \/ (Holds(c) /\ FreesOnly(c)),
           rpc' \in [Calls -> RpcStates], \A d \in Calls \ {c} : rpc'[d] = rpc[d],
           UNCHANGED <<conn, memory, worker>>, (Announced(c))',
           (Settled(c))', (Own(c))' \/ LeftOn(c) \/ (LeftOn(c))'
    PROVE  SlotsInv'
<1> USE DEF SlotsInv
<1>1. UNCHANGED <<reg, claim, last, item, read, dropped, wclose>>
  BY Zenon DEF worker
<1>2. TypeInv'
  BY <1>1, Zenon DEF TypeInv
<1>3. \A d \in Calls : Stays(d)
  BY OthersStay, Zenon
<1>4. \A d \in Calls : LeftOn(d) => (LeftOn(d))'
  BY <1>3, LeftOnStays, Zenon DEF Stays
<1>5. \A d \in Calls \ {c} : call'[d] = call[d]
  BY Zenon DEF Only
<1>6. \A d \in Calls : (Announced(d))'
  BY <1>1, <1>5, AnnouncedUntouched, Zenon DEF ClaimsKept
<1>7. ASSUME NEW d \in Calls \ {c} PROVE (Kept(d))'
  <2>1. (SlotOf(d))' = SlotOf(d) /\ (ClaimOf(d))' = ClaimOf(d)
    BY <1>1, <1>5, Zenon DEF SlotOf, ClaimOf
  <2> QED
    BY <1>1, <1>4, <1>5, <2>1, KeptUntouched, Zenon DEF ContentsOwn
<1>8. (Kept(c))'
  BY <1>4, Zenon DEF Kept
<1>9. SameGenerations
  BY Zenon DEF SameGenerations
<1> QED
  BY <1>1, <1>2, <1>3, <1>6, <1>7, <1>8, <1>9, ClientStep, Zenon

(* execute begins. *)
LEMMA ExecuteStep ==
    ASSUME SlotsInv, NEW c \in Calls, NEW x \in Sessions, Execute(c, x)
    PROVE  SlotsInv'
<1> USE DEF SlotsInv
<1>1. /\ call[c].pc = "new" /\ call' \in [Calls -> CallRecords] /\ Only(c)
      /\ call'[c].pc \in {"permit", "over"} /\ call'[c].session = x
      /\ call'[c].generation = call[c].generation
      /\ call'[c].outcome = call[c].outcome /\ call'[c].result = call[c].result
  BY ExecuteFacts, Zenon
<1>2. call[c].generation = 0 /\ ~Slotted(c)
  BY <1>1 DEF SlotsHeld, Slotted
<1>3. UNCHANGED <<conn, memory, rpc, worker>> /\ free' = free /\ free \in [Sessions -> SUBSET Slots]
  BY Zenon DEF Execute, TypeInv
<1>4. Stays(c)
  BY <1>1, <1>2, Zenon DEF Stays, Identified, Holds, SlotsHeld, Strays
<1>5. rpc[c] = "none" /\ item[c] = "none" /\ read[c] = None /\ item' = item /\ read' = read
  BY <1>2, <1>3, Zenon DEF ClaimsKept, Announced, worker
<1>6. (Announced(c))'
  BY <1>3, <1>5, Zenon DEF Announced, InWorker
<1>7. (Settled(c))'
  BY <1>1, <1>3, <1>5, Zenon DEF Settled
<1>8. Own(c) => (Own(c))'
  BY <1>1, <1>3, <1>5, Zenon DEF Own
<1>9. Own(c) \/ LeftOn(c)
  BY Zenon DEF ContentsOwn, Kept
<1>10. rpc' = rpc /\ rpc \in [Calls -> RpcStates]
  BY <1>3, Zenon DEF TypeInv
<1> QED
  BY <1>1, <1>3, <1>4, <1>6, <1>7, <1>8, <1>9, <1>10, CallOnly, Zenon

(* The deadline passes, or the task is cancelled. *)
LEMMA GivenUpStep ==
    ASSUME SlotsInv, NEW c \in Calls, Expire(c) \/ Cancel(c)
    PROVE  SlotsInv'
<1> USE DEF SlotsInv
<1>1. call[c].pc \in {"permit", "copy", "rpc", "read"}
  BY Zenon DEF Expire, Cancel, Shielded
<1>2. /\ call' \in [Calls -> CallRecords] /\ Only(c) /\ Identified(c)
      /\ call'[c].pc = IF call[c].pc = "permit" THEN "over" ELSE call[c].pc
      /\ call'[c].outcome = call[c].outcome /\ call'[c].result = call[c].result
  BY GivenUpFacts, Zenon DEF Expire, Cancel
<1>3. /\ UNCHANGED <<conn, memory, rpc, worker>> /\ free' = free
      /\ free \in [Sessions -> SUBSET Slots] /\ rpc \in [Calls -> RpcStates]
  BY Zenon DEF Expire, Cancel, TypeInv
<1>4. claim' = claim /\ last' = last /\ item' = item /\ read' = read
  BY <1>3, Zenon DEF worker
<1>5. Holds(c) => Slotted(c) /\ call[c].slot \notin free[call[c].session]
  BY Zenon DEF SlotsHeld
<1>6. Stays(c)
  BY <1>1, <1>2, <1>3, <1>5, Zenon DEF Stays, Holds, SlotsHeld, Strays
<1>7. Announced(c) /\ Settled(c) /\ (Own(c) \/ LeftOn(c))
  BY Zenon DEF ClaimsKept, ContentsOwn, Kept
<1>8. call[c].pc = "permit" => rpc[c] = "none"
  BY <1>7, Zenon DEF Announced
<1>9. (Announced(c))'
  BY <1>2, <1>3, <1>4, <1>7, <1>8, Zenon DEF Announced, Slotted, Identified, InWorker
<1>10. Holds(c) => (SlotOf(c))' = SlotOf(c) /\ (ClaimOf(c))' = ClaimOf(c)
                   /\ last'[call'[c].session][call'[c].slot] = last[call[c].session][call[c].slot]
  BY <1>2, <1>3, <1>4, <1>5, Zenon DEF SlotOf, ClaimOf, Identified
<1>11. (Settled(c))' /\ (Own(c) => (Own(c))')
  <2>1. CASE call[c].pc = "permit"
    BY <1>2, <1>3, <1>4, <1>7, <1>8, <2>1, Zenon DEF Own, Settled
  <2>2. CASE Holds(c) /\ call'[c].pc = call[c].pc
    BY <1>2, <1>3, <1>4, <1>7, <1>10, <2>2, Zenon DEF Own, Settled, Identified
  <2> QED
    BY <1>1, <1>2, <2>1, <2>2, Zenon DEF Holds
<1> QED
  BY <1>2, <1>3, <1>6, <1>7, <1>9, <1>11, CallOnly, Zenon

(* A call ends and its slot is returned: an RPC that is under way is cut off. *)
LEMMA EndStep ==
    ASSUME SlotsInv, NEW c \in Calls, Holds(c), Only(c), Identified(c),
           call' \in [Calls -> CallRecords], call'[c].pc \in {"left", "over"},
           call'[c].pc = "left" => call[c].pc = "copy" /\ call'[c].outcome = "left",
           call'[c].outcome = "filled" => call'[c].result = c \/ LeftOn(c),
           free' \in [Sessions -> SUBSET Slots], FreesOnly(c),
           rpc' \in [Calls -> RpcStates], rpc'[c] = Severed(rpc[c]),
           \A d \in Calls \ {c} : rpc'[d] = rpc[d], UNCHANGED <<conn, memory, worker>>
    PROVE  SlotsInv'
<1> USE DEF SlotsInv
<1>1. Slotted(c) /\ (Slotted(c))'
  BY Zenon DEF SlotsHeld, Slotted, Identified
<1>2. call[c].outcome # "left"
  BY Zenon DEF SlotsHeld, Strays, Holds
<1>3. Stays(c)
  BY <1>1, <1>2, Zenon DEF Stays, Holds, Strays
<1>4. item' = item /\ read' = read
  BY Zenon DEF worker
<1>5. Announced(c) /\ (Own(c) \/ LeftOn(c)) /\ rpc[c] \in RpcStates
  BY Zenon DEF ClaimsKept, ContentsOwn, Kept, TypeInv
<1>6. /\ rpc'[c] \notin {"sent", "wait"}
      /\ rpc[c] = "sent" => rpc'[c] = "lost"
      /\ rpc[c] = "wait" => rpc'[c] = "cut"
      /\ rpc[c] \notin {"sent", "wait"} => rpc'[c] = rpc[c]
  BY <1>5, SeveredFacts, Zenon
<1>7. call'[c].pc = "left" => rpc'[c] = "none"
  BY <1>5, <1>6, Zenon DEF Announced
<1>8. (Announced(c))'
  BY <1>1, <1>4, <1>5, <1>6, <1>7, Zenon DEF Announced, InWorker
<1>9. (Settled(c))'
  BY Zenon DEF Settled
<1>10. Own(c) => (Own(c))' \/ LeftOn(c)
  <2>1. SUFFICES ASSUME Own(c), ~LeftOn(c) PROVE (Own(c))'
    BY Zenon
  <2>2. rpc'[c] # "cut" => read'[c] \in {c, None}
    BY <1>4, <1>5, <1>6, <2>1, Zenon DEF Own, Announced
  <2> QED
    BY <1>6, <2>1, <2>2, Zenon DEF Own
<1> QED
  BY <1>3, <1>5, <1>8, <1>9, <1>10, CallOnly, Zenon

(* The `finally` of execute, when the result is the call's own. *)
LEMMA ReturnStep ==
    ASSUME SlotsInv, NEW c \in Calls, Holds(c),
           NEW outcome \in {"filled", "late", "error"}, NEW result \in Contents,
           Return(c, outcome, result), outcome = "filled" => result = c \/ LeftOn(c),
           rpc' = [rpc EXCEPT ![c] = Severed(@)], UNCHANGED <<conn, memory, worker>>
    PROVE  SlotsInv'
<1> USE DEF SlotsInv
<1>1. call[c].session \in Sessions /\ call[c].slot \in Slots
  BY Zenon DEF SlotsHeld
<1>2. /\ call' \in [Calls -> CallRecords] /\ Only(c) /\ Identified(c)
      /\ call'[c].pc = "over" /\ call'[c].outcome = outcome /\ call'[c].result = result
      /\ free' \in [Sessions -> SUBSET Slots] /\ FreesOnly(c)
  BY <1>1, ReturnFacts, Zenon
<1>3. /\ rpc' \in [Calls -> RpcStates] /\ rpc'[c] = Severed(rpc[c])
      /\ \A d \in Calls \ {c} : rpc'[d] = rpc[d]
  <2>1. rpc \in [Calls -> RpcStates]
    BY Zenon DEF TypeInv
  <2>2. Severed(rpc[c]) \in RpcStates
    BY <2>1, SeveredFacts, Zenon
  <2> QED
    BY <2>1, <2>2, Zenon
<1> QED
  BY <1>2, <1>3, EndStep, Zenon

(* A call that has its answer has nothing to cut off. *)
LEMMA NothingSevered ==
    ASSUME SlotsInv, NEW c \in Calls, rpc[c] \notin {"sent", "wait"}, rpc' = rpc
    PROVE  rpc' = [rpc EXCEPT ![c] = Severed(@)]
<1>1. rpc \in [Calls -> RpcStates] /\ Severed(rpc[c]) = rpc[c]
  BY SeveredFacts, Zenon DEF SlotsInv, TypeInv
<1> QED
  BY <1>1, Zenon

(* The task is cancelled where nothing shields what it waits for. *)
LEMMA CancelledStep ==
    ASSUME SlotsInv, NEW c \in Calls, CancelCall(c) \/ CancelCopy(c)
    PROVE  SlotsInv'
<1> USE DEF SlotsInv
<1>1. CASE CancelCall(c)
  <2>1. Holds(c) /\ Return(c, "late", None)
    BY <1>1, Zenon DEF CancelCall, Holds
  <2>2. rpc' = [rpc EXCEPT ![c] = Severed(@)] /\ UNCHANGED <<conn, memory, worker>>
    BY <1>1, Zenon DEF CancelCall
  <2> QED
    BY <2>1, <2>2, ReturnStep, Zenon DEF Contents
<1>2. CASE CancelCopy(c)
  <2>1. Holds(c) /\ UNCHANGED <<conn, memory, worker>> /\ rpc' = rpc
    BY <1>2, Zenon DEF CancelCopy, Holds
  <2>2. call[c].session \in Sessions /\ call[c].slot \in Slots
    BY <2>1, Zenon DEF SlotsHeld
  <2>3. /\ call' \in [Calls -> CallRecords] /\ Only(c) /\ Identified(c)
        /\ call'[c].pc = (IF call[c].pc = "copy" THEN "left" ELSE "over")
        /\ call'[c].outcome = (IF call[c].pc = "copy" THEN "left" ELSE "late")
        /\ free' \in [Sessions -> SUBSET Slots] /\ FreesOnly(c)
        /\ call[c].pc \in {"copy", "read"}
    BY <1>2, <2>2, CancelCopyFacts, Zenon
  <2>4. rpc[c] \notin {"sent", "wait"} /\ rpc \in [Calls -> RpcStates]
    BY <2>3, Zenon DEF ClaimsKept, Announced, TypeInv
  <2>5. rpc'[c] = Severed(rpc[c])
    BY <2>1, <2>4, SeveredFacts, Zenon
  <2> QED
    BY <2>1, <2>3, <2>4, <2>5, EndStep, Zenon
<1> QED
  BY <1>1, <1>2, Zenon

(* The answer is here. *)
LEMMA ReceiveStep ==
    ASSUME SlotsInv, NEW c \in Calls, Receive(c)
    PROVE  SlotsInv'
<1> USE DEF SlotsInv
<1>1. Holds(c) /\ call[c].pc = "rpc" /\ rpc[c] \in {"ok", "failed", "lost", "cut"}
        /\ UNCHANGED <<conn, memory, rpc, worker>>
  BY Zenon DEF Receive, Answered, Holds
<1>2. CASE /\ rpc[c] = "ok" /\ call' = [call EXCEPT ![c].pc = "read"] /\ free' = free
  <2>1. /\ call' \in [Calls -> CallRecords] /\ Only(c) /\ Identified(c) /\ call'[c].pc = "read"
        /\ call'[c].outcome = call[c].outcome /\ call'[c].result = call[c].result
    BY <1>2, MoveFacts, Zenon
  <2>2. Slotted(c) /\ call[c].slot \notin free[call[c].session] /\ call[c].outcome # "left"
    BY <1>1, Zenon DEF SlotsHeld, Strays
  <2>3. Stays(c)
    BY <1>1, <1>2, <2>1, <2>2, Zenon DEF Stays, Strays
  <2>4. claim' = claim /\ last' = last /\ item' = item /\ read' = read
    BY <1>1, Zenon DEF worker
  <2>5. (SlotOf(c))' = SlotOf(c) /\ (ClaimOf(c))' = ClaimOf(c)
          /\ last'[call'[c].session][call'[c].slot] = last[call[c].session][call[c].slot]
    BY <1>1, <2>1, <2>2, <2>4, Zenon DEF SlotOf, ClaimOf, Identified
  <2>6. Announced(c) /\ Settled(c) /\ (Own(c) \/ LeftOn(c))
    BY Zenon DEF ClaimsKept, ContentsOwn, Kept
  <2>7. (Announced(c))'
    BY <1>1, <1>2, <2>1, <2>2, <2>4, <2>6, Zenon DEF Announced, Slotted, Identified, InWorker
  <2>8. (Settled(c))' /\ (Own(c) => (Own(c))')
    BY <1>1, <1>2, <2>1, <2>4, <2>5, <2>6, Zenon DEF Own, Settled, Identified
  <2>9. free \in [Sessions -> SUBSET Slots] /\ rpc \in [Calls -> RpcStates]
    BY Zenon DEF TypeInv
  <2> QED
    BY <1>1, <1>2, <2>1, <2>3, <2>6, <2>7, <2>8, <2>9, CallOnly, Zenon
<1>3. CASE \E outcome \in {"late", "error"} : Return(c, outcome, None)
  <2>1. rpc' = [rpc EXCEPT ![c] = Severed(@)]
    BY <1>1, NothingSevered, Zenon
  <2> QED
    BY <1>1, <1>3, <2>1, ReturnStep, Zenon DEF Contents
<1> QED
  BY <1>2, <1>3, Zenon DEF Receive, Unfilled

(* The output is copied to the caller's tensor. *)
LEMMA CopiedOutStep ==
    ASSUME SlotsInv, NEW c \in Calls, CopiedOut(c)
    PROVE  SlotsInv'
<1> USE DEF SlotsInv
<1>1. Holds(c) /\ call[c].pc = "read" /\ UNCHANGED <<conn, memory, rpc, worker>>
  BY Zenon DEF CopiedOut, Holds
<1>2. rpc[c] = "ok" /\ (SlotOf(c).output = c \/ LeftOn(c))
  BY <1>1, Zenon DEF ContentsOwn, Kept, Settled, Own
<1>3. rpc' = [rpc EXCEPT ![c] = Severed(@)]
  BY <1>1, <1>2, NothingSevered, Zenon
<1>4. SlotOf(c).output \in Contents
  <2>1. call[c].session \in Sessions /\ call[c].slot \in Slots
    BY <1>1, Zenon DEF SlotsHeld
  <2>2. SlotOf(c) \in SlotRecords
    BY <2>1, Zenon DEF TypeInv, SlotOf
  <2> QED
    BY <2>2, Zenon DEF SlotRecords
<1>5. CASE Return(c, "late", None)
  BY <1>1, <1>3, <1>5, ReturnStep, Zenon DEF Contents
<1>6. CASE Return(c, "filled", SlotOf(c).output)
  BY <1>1, <1>2, <1>3, <1>4, <1>6, ReturnStep, Zenon
<1> QED
  BY <1>5, <1>6, Zenon DEF CopiedOut, SlotOf

(* What lies in the slots of the others, when a call writes to one: they have other slots,
   or a copy was left on theirs. *)
LEMMA OthersOwn ==
    ASSUME SlotsInv, NEW c \in Calls, NEW d \in Calls \ {c}, call'[d] = call[d],
           LeftOn(d) => (LeftOn(d))', NEW x \in Sessions, NEW b \in Slots,
           \A y \in Sessions, e \in Slots : ~(y = x /\ e = b) => SameSlotState(y, e),
           Holds(d) /\ call[d].session = x /\ call[d].slot = b =>
             LeftOn(d) /\ memory'[x][b].output = memory[x][b].output,
           rpc'[d] = rpc[d], UNCHANGED <<claim, last, item, read>>
    PROVE  (Kept(d))'
<1> USE DEF SlotsInv
<1>1. Kept(d) /\ Announced(d)
  BY Zenon DEF ContentsOwn, ClaimsKept
<1>2. call[d].pc = "rpc" \/ Watches(d) => Holds(d)
  BY <1>1, Zenon DEF Watches, Announced, Holds
<1>3. ASSUME Holds(d)
      PROVE  /\ (SlotOf(d))'.input = SlotOf(d).input \/ (LeftOn(d))'
             /\ (SlotOf(d))'.output = SlotOf(d).output
  <2>1. call[d].session \in Sessions /\ call[d].slot \in Slots
    BY <1>3, Zenon DEF SlotsHeld
  <2>2. CASE call[d].session = x /\ call[d].slot = b
    BY <1>3, <2>2, Zenon DEF SlotOf
  <2>3. CASE ~(call[d].session = x /\ call[d].slot = b)
    <3>1. SameSlotState(call[d].session, call[d].slot)
      BY <2>1, <2>3, Zenon
    <3> QED
      BY <3>1, Zenon DEF SameSlotState, SlotOf
  <2> QED
    BY <2>2, <2>3, Zenon
<1>4. (ClaimOf(d))' = ClaimOf(d)
  BY Zenon DEF ClaimOf
<1> QED
  BY <1>1, <1>2, <1>3, <1>4, KeptUntouched, Zenon

(* A slot is taken. *)
LEMMA AcquireStep ==
    ASSUME SlotsInv, NEW c \in Calls, Acquire(c)
    PROVE  SlotsInv'
<1> USE DEF SlotsInv
<1> DEFINE x == call[c].session
<1>1. call[c].pc = "permit" /\ UNCHANGED <<conn, rpc, worker>>
  BY Zenon DEF Acquire
<1>2. x \in Sessions /\ call[c].generation = 0 /\ ~Slotted(c)
  BY <1>1 DEF SlotsHeld, Slotted
<1>3. PICK b \in Slots : Takes(c, x, b)
  BY <1>2, AcquireFacts, Zenon
<1> HIDE DEF x
<1> DEFINE n == memory[x][b].generation
<1>4. n \in Nat
  BY <1>2 DEF TypeInv, SlotRecords
<1>5. UNCHANGED <<reg, claim, last, item, read, dropped, wclose>>
  BY <1>1, Zenon DEF worker
<1>6. TypeInv'
  BY <1>1, <1>3, <1>5, Zenon DEF TypeInv, Takes
<1>7. /\ \A d \in Calls \ {c} : call'[d] = call[d]
      /\ b \in free[x] /\ b \notin free'[x] /\ \A y \in Sessions : free'[y] \subseteq free[y]
      /\ call'[c].pc = "copy" /\ call'[c].slot = b /\ call'[c].session = x
      /\ call'[c].generation = n + 1
      /\ call'[c].outcome = call[c].outcome /\ call'[c].result = call[c].result
      /\ memory'[x][b].generation = n + 1
      /\ \A y \in Sessions, e \in Slots : ~(y = x /\ e = b) => SameSlotState(y, e)
  BY <1>3, Zenon DEF Takes, Only
<1>8. \A y \in Sessions, e \in Slots :
        ~(y = x /\ e = b) => memory'[y][e].generation = memory[y][e].generation
  BY <1>7, Zenon DEF SameSlotState
<1> HIDE DEF n
(* The slots of the other calls are other slots, or the call has returned it. *)
<1>a. ASSUME NEW d \in Calls \ {c}, Holds(d) PROVE ~(call[d].session = x /\ call[d].slot = b)
  BY <1>7, <1>a, Zenon DEF SlotsHeld
<1>b. ASSUME NEW d \in Calls \ {c}, Slotted(d)
      PROVE  /\ call[d].session \in Sessions /\ call[d].slot \in Slots
             /\ call[d].generation =< (SlotOf(d))'.generation
             /\ Holds(d) => call[d].generation = (SlotOf(d))'.generation
             /\ call[d].session = x /\ call[d].slot = b => call[d].generation =< n
             /\ call[d].generation \in Nat
  <2>1. /\ call[d].session \in Sessions /\ call[d].slot \in Slots
        /\ call[d].generation =< SlotOf(d).generation
        /\ Holds(d) => call[d].generation = SlotOf(d).generation
        /\ call'[d] = call[d]
    BY <1>7, <1>b, Zenon DEF SlotsHeld
  <2>2. call[d].generation \in Nat
    BY Zenon DEF TypeInv, CallRecords
  <2>3. CASE call[d].session = x /\ call[d].slot = b
    <3>1. SlotOf(d).generation = n /\ (SlotOf(d))'.generation = n + 1 /\ ~Holds(d)
      BY <1>7, <1>a, <2>1, <2>3, Zenon DEF SlotOf, n
    <3> QED
      BY <1>4, <2>1, <2>2, <3>1
  <2>4. CASE ~(call[d].session = x /\ call[d].slot = b)
    <3>1. (SlotOf(d))'.generation = SlotOf(d).generation
      BY <1>8, <2>1, <2>4, Zenon DEF SlotOf
    <3> QED
      BY <2>1, <2>2, <2>4, <3>1, Zenon
  <2> QED
    BY <2>3, <2>4, Zenon
<1>c. (Slotted(c))' /\ (Holds(c))' /\ call'[c].generation = (SlotOf(c))'.generation
  BY <1>4, <1>7 DEF Slotted, Holds, SlotOf
<1>d. \A d \in Calls \ {c} : ((Slotted(d))' <=> Slotted(d)) /\ ((Holds(d))' <=> Holds(d))
  BY <1>7, Zenon DEF Slotted, Holds
<1>9. SlotsHeld'
  <2>1. \A d \in Calls : call'[d].pc = "new" => call'[d].generation = 0
    BY <1>7 DEF SlotsHeld
  <2>2. \A d \in Calls : call'[d].pc = "permit" => call'[d].generation = 0 /\ call'[d].session \in Sessions
    BY <1>7 DEF SlotsHeld
  <2>3. \A d \in Calls : (Slotted(d))' =>
          /\ call'[d].session \in Sessions /\ call'[d].slot \in Slots
          /\ call'[d].generation =< (SlotOf(d))'.generation
    BY <1>2, <1>4, <1>7, <1>b, <1>c, <1>d
  <2>4. ASSUME NEW d \in Calls, (Holds(d))'
        PROVE  /\ (Slotted(d))' /\ call'[d].slot \notin free'[call'[d].session]
               /\ call'[d].generation = (SlotOf(d))'.generation
    <3>1. CASE d = c
      BY <1>7, <1>c, <3>1, Zenon
    <3>2. CASE d # c
      <4>1. Holds(d) /\ Slotted(d) /\ call[d].slot \notin free[call[d].session]
        BY <1>d, <2>4, <3>2, Zenon DEF SlotsHeld
      <4> QED
        BY <1>7, <1>b, <1>d, <3>2, <4>1, Zenon
    <3> QED
      BY <3>1, <3>2, Zenon
  <2>5. ASSUME NEW d \in Calls, NEW e \in Calls, (Slotted(d))', (Slotted(e))', (SameSlot(d, e))',
               call'[d].generation = call'[e].generation
        PROVE  d = e
    <3>1. CASE d # c /\ e # c
      BY <1>7, <1>d, <2>5, <3>1 DEF SlotsHeld, SameSlot
    <3>2. ASSUME NEW f \in Calls \ {c}, Slotted(f), call[f].session = x, call[f].slot = b
          PROVE  call[f].generation # n + 1
      BY <1>4, <1>b, <3>2
    <3>3. CASE d = c /\ e # c
      BY <1>7, <1>d, <2>5, <3>2, <3>3 DEF SameSlot
    <3>4. CASE d # c /\ e = c
      BY <1>7, <1>d, <2>5, <3>2, <3>4, Zenon DEF SameSlot
    <3> QED
      BY <3>1, <3>3, <3>4, Zenon
  <2>6. ASSUME NEW d \in Calls PROVE (Strays(d))'
    <3>1. Strays(d)
      BY Zenon DEF SlotsHeld
    <3>2. CASE d # c
      BY <1>7, <3>1, <3>2, Zenon DEF Strays, Slotted
    <3>3. CASE d = c
      BY <1>1, <1>7, <1>d, <3>1, <3>3, Zenon DEF Strays
    <3> QED
      BY <3>2, <3>3, Zenon
  <2> QED
    BY <2>1, <2>2, <2>3, <2>4, <2>5, <2>6, Zenon DEF SlotsHeld
<1>10. rpc[c] = "none" /\ item[c] = "none" /\ read[c] = None
  BY <1>2, Zenon DEF ClaimsKept, Announced
<1>11. \A d \in Calls : (Announced(d))'
  <2>1. (Announced(c))'
    BY <1>1, <1>5, <1>10, Zenon DEF Announced, InWorker
  <2> QED
    BY <1>1, <1>5, <1>7, <2>1, AnnouncedUntouched, Zenon DEF ClaimsKept
<1>12. \A d \in Calls : Slotted(d) => Identified(d)
  BY <1>2, <1>7, Zenon DEF Identified
<1>13. ClaimsKept'
  BY <1>5, <1>11, <1>12, ClaimsClient, Zenon
<1>14. (Kept(c))'
  <2>1. call[c].outcome # "filled" \/ call[c].result = c \/ LeftOn(c)
    BY Zenon DEF ContentsOwn, Kept, Own
  <2>2. ~LeftOn(c)
    BY <1>2 DEF LeftOn, TypeInv, CallRecords
  <2> QED
    BY <1>1, <1>5, <1>7, <1>10, <2>1, <2>2, Zenon DEF Kept, Settled, Own
<1>15. \A d \in Calls : LeftOn(d) => (LeftOn(d))'
  <2>1. \A d \in Calls : call[d].outcome = "left" => call'[d].outcome = "left"
    BY <1>7, Zenon
  <2> QED
    BY <1>12, <2>1, LeftOnStays, Zenon
<1>16. \A d \in Calls \ {c} : (Kept(d))'
  BY <1>1, <1>2, <1>5, <1>7, <1>15, <1>a, OthersOwn, Zenon
<1> QED
  BY <1>6, <1>9, <1>13, <1>14, <1>16, Zenon DEF ContentsOwn

(* A thread ends its copy to the slot of c: what is in it then, and what the others see. *)
LEMMA InputWritten ==
    ASSUME SlotsInv, NEW c \in Calls, Slotted(c), Stays(c), Only(c),
           call' \in [Calls -> CallRecords], NEW value \in Contents,
           memory' = [memory EXCEPT ![call[c].session][call[c].slot].input = value],
           free' \in [Sessions -> SUBSET Slots], free' = free \/ (Holds(c) /\ FreesOnly(c)),
           rpc' \in [Calls -> RpcStates], \A d \in Calls \ {c} : rpc'[d] = rpc[d],
           UNCHANGED <<conn, worker>>, (Announced(c))',
           Holds(c) \/ call[c].outcome = "left",
           (SlotOf(c))'.input = value => (Settled(c))' /\ ((Own(c))' \/ LeftOn(c))
    PROVE  SlotsInv'
<1> USE DEF SlotsInv
<1> DEFINE x == call[c].session  b == call[c].slot  mem == [memory[x][b] EXCEPT !.input = value]
<1>1. memory' = [memory EXCEPT ![x] = [memory[x] EXCEPT ![b] = mem]]
  BY Zenon
<1>2. x \in Sessions /\ b \in Slots
  BY Zenon DEF SlotsHeld
<1>3. memory[x][b] \in SlotRecords
  BY <1>2 DEF TypeInv
<1>4. mem \in SlotRecords /\ mem.generation = memory[x][b].generation /\ mem.input = value
        /\ mem.output = memory[x][b].output
  BY <1>3, Zenon DEF SlotRecords
<1> HIDE DEF mem
<1>5. /\ memory' \in [Sessions -> [Slots -> SlotRecords]] /\ memory'[x][b] = mem
      /\ \A y \in Sessions, e \in Slots : ~(y = x /\ e = b) => memory'[y][e] = memory[y][e]
  <2>1. memory \in [Sessions -> [Slots -> SlotRecords]] /\ memory[x] \in [Slots -> SlotRecords]
    BY <1>2, Zenon DEF TypeInv
  <2>2. [memory[x] EXCEPT ![b] = mem] \in [Slots -> SlotRecords]
    BY <1>4, <2>1, Zenon
  <2> HIDE DEF x, b
  <2>3. memory' \in [Sessions -> [Slots -> SlotRecords]]
    BY <1>1, <1>2, <2>1, <2>2, Zenon
  <2>4. memory'[x] = [memory[x] EXCEPT ![b] = mem]
    BY <1>1, <1>2, <2>1, Zenon
  <2>5. \A y \in Sessions : y # x => memory'[y] = memory[y]
    BY <1>1, <1>2, <2>1, Zenon
  <2>6. memory'[x][b] = mem /\ \A e \in Slots : e # b => memory'[x][e] = memory[x][e]
    BY <1>2, <2>1, <2>4, Zenon
  <2> QED
    BY <2>3, <2>5, <2>6, Zenon
<1>6. SameGenerations /\ \A y \in Sessions, e \in Slots : ~(y = x /\ e = b) => SameSlotState(y, e)
  BY <1>4, <1>5, Zenon DEF SameGenerations, SameSlotState
<1>7. UNCHANGED <<reg, claim, last, item, read, dropped, wclose>>
  BY Zenon DEF worker
<1>8. (SlotOf(c))'.input = value
  BY <1>4, <1>5, Zenon DEF SlotOf, Stays, Identified, x, b
<1>9. TypeInv'
  BY <1>5, <1>7, Zenon DEF TypeInv
<1>10. \A d \in Calls : Stays(d)
  BY OthersStay, Zenon
<1>11. \A d \in Calls : LeftOn(d) => (LeftOn(d))'
  BY <1>10, LeftOnStays, Zenon DEF Stays
<1>12. \A d \in Calls \ {c} : call'[d] = call[d]
  BY Zenon DEF Only
<1>13. \A d \in Calls : (Announced(d))'
  BY <1>7, <1>12, AnnouncedUntouched, Zenon DEF ClaimsKept
<1>14. (Kept(c))'
  BY <1>8, <1>11, Zenon DEF Kept
<1>15. ASSUME NEW d \in Calls \ {c} PROVE (Kept(d))'
  <2>1. ASSUME Holds(d), call[d].session = x, call[d].slot = b
        PROVE  LeftOn(d) /\ memory'[x][b].output = memory[x][b].output
    <3>1. SameSlot(c, d) /\ SameSlot(d, c)
      BY <2>1, Zenon DEF SameSlot
    <3>2. ~Holds(c)
      BY <2>1, <3>1, HoldersApart, Zenon
    <3> QED
      BY <1>4, <1>5, <2>1, <3>1, <3>2, LeftBefore, Zenon
  <2> HIDE DEF x, b
  <2> QED
    BY <1>2, <1>6, <1>7, <1>11, <1>12, <2>1, OthersOwn, Zenon
<1> QED
  BY <1>6, <1>7, <1>9, <1>10, <1>13, <1>14, <1>15, ClientStep, Zenon

(* The input is in the slot: the slot is announced, or returned. *)
LEMMA CopiedStep ==
    ASSUME SlotsInv, NEW c \in Calls, Copied(c)
    PROVE  SlotsInv'
<1> USE DEF SlotsInv
<1> DEFINE value == IF Disturbed(c) THEN Mixed ELSE c
<1>1. call[c].pc = "copy" /\ Holds(c) /\ UNCHANGED <<conn, worker>>
        /\ memory' = [memory EXCEPT ![call[c].session][call[c].slot].input = value]
  BY Zenon DEF Copied, Holds
<1>2. Slotted(c) /\ call[c].session \in Sessions /\ call[c].slot \in Slots
        /\ call[c].slot \notin free[call[c].session] /\ call[c].outcome # "left"
  BY <1>1, Zenon DEF SlotsHeld, Strays
<1>3. value \in Contents
  BY Zenon DEF Contents
<1>4. value = c \/ LeftOn(c)
  BY <1>1, LeftBefore, Zenon DEF Disturbed, SlotsHeld, Strays
<1> HIDE DEF value
<1>5. UNCHANGED <<item, read>>
  BY <1>1, Zenon DEF worker
<1>6. rpc[c] = "none" /\ item[c] = "none" /\ read[c] = None
  BY <1>1, Zenon DEF ClaimsKept, Announced
<1>7. free \in [Sessions -> SUBSET Slots] /\ rpc \in [Calls -> RpcStates]
  BY Zenon DEF TypeInv
<1>8. CASE \E outcome \in {"late", "error"} : Return(c, outcome, None) /\ rpc' = rpc
  <2>1. /\ call' \in [Calls -> CallRecords] /\ Only(c) /\ Identified(c)
        /\ call'[c].pc = "over" /\ call'[c].outcome \in {"late", "error"}
        /\ free' \in [Sessions -> SUBSET Slots] /\ FreesOnly(c)
    <3>1. PICK outcome \in {"late", "error"} : Return(c, outcome, None)
      BY <1>8, Zenon
    <3>2. outcome \in {"filled", "late", "error"} /\ None \in Contents
      BY <3>1, Zenon DEF Contents
    <3> QED
      BY <1>2, <3>1, <3>2, ReturnFacts, Zenon
  <2>2. Stays(c)
    BY <1>2, <2>1, Zenon DEF Stays, Holds, Strays
  <2>3. (Announced(c))' /\ (Settled(c))' /\ (Own(c))'
    BY <1>5, <1>6, <1>8, <2>1, Zenon DEF Announced, Settled, Own, InWorker
  <2> QED
    BY <1>1, <1>2, <1>3, <1>7, <1>8, <2>1, <2>2, <2>3, InputWritten, Zenon
<1>9. CASE /\ call' = [call EXCEPT ![c].pc = "rpc"]
           /\ rpc' = [rpc EXCEPT ![c] = "sent"]
           /\ free' = free
  <2>1. /\ call' \in [Calls -> CallRecords] /\ Only(c) /\ Identified(c) /\ call'[c].pc = "rpc"
        /\ call'[c].outcome = call[c].outcome /\ call'[c].result = call[c].result
    BY <1>9, MoveFacts, Zenon
  <2>2. rpc'[c] = "sent" /\ (\A d \in Calls \ {c} : rpc'[d] = rpc[d]) /\ rpc' \in [Calls -> RpcStates]
    BY <1>7, <1>9, Zenon DEF RpcStates
  <2>3. Stays(c)
    BY <1>1, <1>2, <1>9, <2>1, Zenon DEF Stays, Strays
  <2>4. (Announced(c))'
    BY <1>2, <1>5, <1>6, <2>1, <2>2, Zenon DEF Announced, Slotted, Identified, InWorker
  <2>5. ASSUME (SlotOf(c))'.input = value PROVE (Settled(c))' /\ ((Own(c))' \/ LeftOn(c))
    <3>1. (Settled(c))'
      BY <2>1, <2>2, Zenon DEF Settled
    <3>2. ASSUME ~LeftOn(c) PROVE (Own(c))'
      <4>1. call[c].outcome = "filled" => call[c].result = c
        BY <3>2, Zenon DEF ContentsOwn, Kept, Own
      <4> QED
        BY <1>4, <1>5, <1>6, <2>1, <2>2, <2>5, <3>2, <4>1, Zenon DEF Own
    <3> QED
      BY <3>1, <3>2, Zenon
  <2> QED
    BY <1>1, <1>2, <1>3, <1>7, <1>9, <2>1, <2>2, <2>3, <2>4, <2>5, InputWritten, Zenon
<1> QED
  BY <1>8, <1>9, Zenon DEF Copied, Unfilled

(* The thread of a call that was left is done. *)
LEMMA LeftCopiedStep ==
    ASSUME SlotsInv, NEW c \in Calls, LeftCopied(c)
    PROVE  SlotsInv'
<1> USE DEF SlotsInv
<1>1. /\ call[c].pc = "left" /\ UNCHANGED <<conn, free, rpc, worker>>
      /\ memory' = [memory EXCEPT ![call[c].session][call[c].slot].input = Mixed]
      /\ call' = [call EXCEPT ![c].pc = "over"]
  BY Zenon DEF LeftCopied
<1>2. /\ call' \in [Calls -> CallRecords] /\ Only(c) /\ Identified(c) /\ call'[c].pc = "over"
      /\ call'[c].outcome = call[c].outcome /\ call'[c].result = call[c].result
  BY <1>1, MoveFacts, Zenon
<1>3. Slotted(c) /\ call[c].outcome = "left"
  BY <1>1, Zenon DEF SlotsHeld, Strays
<1>4. Stays(c)
  BY <1>2, <1>3, Zenon DEF Stays, Holds, Strays, Slotted, Identified
<1>5. UNCHANGED <<item, read>> /\ free \in [Sessions -> SUBSET Slots] /\ rpc \in [Calls -> RpcStates]
  BY <1>1, Zenon DEF worker, TypeInv
<1>6. rpc[c] = "none" /\ item[c] = "none" /\ read[c] = None
  BY <1>1, Zenon DEF ClaimsKept, Announced
<1>7. (Announced(c))' /\ (Settled(c))' /\ (Own(c))'
  BY <1>1, <1>2, <1>3, <1>5, <1>6, Zenon DEF Announced, Settled, Own, InWorker
<1>8. Mixed \in Contents
  BY Zenon DEF Contents
<1> QED
  BY <1>1, <1>2, <1>3, <1>4, <1>5, <1>7, <1>8, InputWritten, Zenon

(* A client ends. *)
LEMMA CrashStep ==
    ASSUME SlotsInv, NEW x \in Sessions, Crash(x)
    PROVE  SlotsInv'
<1> USE DEF SlotsInv
<1>1. UNCHANGED <<free, memory, worker>> /\ conn' = [conn EXCEPT ![x] = "crashed"]
  BY Zenon DEF Crash
<1>2. call' \in [Calls -> CallRecords] /\ rpc' \in [Calls -> RpcStates]
  BY CrashFacts, Zenon
<1>3. UNCHANGED <<reg, claim, last, item, read, dropped, wclose>>
  BY <1>1, Zenon DEF worker
<1>4. TypeInv'
  BY <1>1, <1>2, <1>3, Zenon DEF TypeInv, ConnStates
<1> DEFINE Crashed(c) == /\ Identified(c) /\ call'[c].pc = "over" /\ call'[c].outcome = "crashed"
                         /\ call[c].pc \notin {"new", "over", "left"} /\ rpc'[c] = Severed(rpc[c])
<1>5. \A c \in Calls : (call'[c] = call[c] /\ rpc'[c] = rpc[c]) \/ Crashed(c)
  BY CrashFacts, Zenon
<1>6. ASSUME NEW c \in Calls PROVE Stays(c)
  <2>1. CASE call'[c] = call[c]
    BY <1>1, <2>1, Zenon DEF Stays, Identified, Holds, SlotsHeld, Strays, Slotted
  <2>2. CASE Crashed(c)
    BY <2>2, Zenon DEF Stays, Holds, SlotsHeld, Strays
  <2> QED
    BY <1>5, <2>1, <2>2, Zenon
<1>7. \A c \in Calls : LeftOn(c) => (LeftOn(c))'
  BY <1>6, LeftOnStays, Zenon DEF Stays
<1>8. ASSUME NEW c \in Calls PROVE (Announced(c))' /\ (Kept(c))'
  <2>1. Announced(c) /\ Kept(c) /\ rpc[c] \in RpcStates
    BY Zenon DEF ClaimsKept, ContentsOwn, TypeInv
  <2>2. CASE call'[c] = call[c] /\ rpc'[c] = rpc[c]
    <3>1. (Announced(c))'
      BY <1>3, <2>1, <2>2, Zenon DEF Announced, Slotted, InWorker
    <3>2. (SlotOf(c))' = SlotOf(c) /\ (ClaimOf(c))' = ClaimOf(c)
      BY <1>1, <1>3, <2>2, Zenon DEF SlotOf, ClaimOf
    <3> QED
      BY <1>3, <1>7, <2>1, <2>2, <3>1, <3>2, KeptUntouched, Zenon
  <2>3. CASE Crashed(c)
    <3>1. /\ rpc'[c] \notin {"sent", "wait"}
          /\ rpc[c] = "sent" => rpc'[c] = "lost"
          /\ rpc[c] = "wait" => rpc'[c] = "cut"
          /\ rpc[c] \notin {"sent", "wait"} => rpc'[c] = rpc[c]
      BY <2>1, <2>3, SeveredFacts, Zenon
    <3>2. (Announced(c))'
      BY <1>3, <2>1, <2>3, <3>1, Zenon DEF Announced, Slotted, Identified, InWorker
    <3>3. rpc'[c] # "cut" => read'[c] \in {c, None} \/ LeftOn(c)
      BY <1>3, <2>1, <3>1, Zenon DEF Kept, Own, Announced
    <3>4. (Settled(c))' /\ ((Own(c))' \/ LeftOn(c))
      BY <2>3, <3>1, <3>3, Zenon DEF Own, Settled
    <3> QED
      BY <1>7, <3>2, <3>4, Zenon DEF Kept
  <2> QED
    BY <1>5, <2>2, <2>3, Zenon
<1>9. SameGenerations
  BY <1>1, Zenon DEF SameGenerations
<1> QED
  BY <1>3, <1>4, <1>6, <1>8, <1>9, ClientStep, Zenon

-----------------------------------------------------------------------------
(* The Worker has, or may claim, the slot of c: no other batch has it, and no other call
   waits to read it. The generation keeps those apart whose client gave up. *)
LEMMA SlotAlone ==
    ASSUME SlotsInv, NEW c \in Calls, NEW d \in Calls, c # d, Slotted(c), SameSlot(c, d),
           InWorker(c) \/ Claimable(c)
    PROVE  ~InWorker(d) /\ ~Watches(d)
<1> USE DEF SlotsInv
<1>1. call[c].generation \in Nat /\ call[d].generation \in Nat
        /\ call[c].session \in Sessions /\ call[c].slot \in Slots
  BY Zenon DEF TypeInv, CallRecords, SlotsHeld
<1>2. \A e \in Calls : InWorker(e) => Slotted(e) /\ ClaimOf(e) = call[e].generation
  BY Zenon DEF ClaimsKept, Announced, Claimed, InWorker
<1>3. ClaimOf(c) = ClaimOf(d)
  BY Zenon DEF SameSlot, ClaimOf
<1>4. ~InWorker(d)
  <2>1. SUFFICES ASSUME InWorker(d) PROVE FALSE
    BY Zenon
  <2>2. Slotted(d) /\ ClaimOf(d) = call[d].generation
    BY <1>2, <2>1, Zenon
  <2>3. CASE InWorker(c)
    BY <1>2, <1>3, <2>2, <2>3, Zenon DEF SlotsHeld
  <2>4. CASE Claimable(c)
    BY <1>1, <1>3, <2>2, <2>4 DEF Claimable, Slotted
  <2> QED
    BY <2>3, <2>4, Zenon
<1>5. ~(rpc[d] = "ok" /\ call[d].pc \in {"rpc", "read"})
  <2>1. SUFFICES ASSUME rpc[d] = "ok", call[d].pc \in {"rpc", "read"} PROVE FALSE
    BY Zenon
  <2>2. ClaimOf(d) = 0 /\ last[call[d].session][call[d].slot] >= call[d].generation
    BY <2>1, Zenon DEF ContentsOwn, Kept, Settled
  <2>3. call[d].generation = SlotOf(d).generation
    BY <2>1, Zenon DEF SlotsHeld, Holds
  <2>4. CASE InWorker(c)
    BY <1>1, <1>2, <1>3, <2>2, <2>4 DEF Slotted
  <2>5. CASE Claimable(c)
    <3>1. call[c].generation =< SlotOf(c).generation /\ SlotOf(c) = SlotOf(d)
      BY Zenon DEF SlotsHeld, SlotOf, SameSlot
    <3>2. call[c].generation > last[call[c].session][call[c].slot]
            /\ last[call[c].session][call[c].slot] \in Nat
      BY <1>1, <2>5, Zenon DEF Claimable, TypeInv
    <3> QED
      BY <1>1, <2>2, <2>3, <3>1, <3>2 DEF SameSlot
  <2> QED
    BY <2>4, <2>5, Zenon
<1> QED
  BY <1>4, <1>5, Zenon DEF Watches, InWorker

(* The Worker leaves the calls alone, and with them what was left on their slots. *)
LEMMA CallsUntouched ==
    ASSUME SlotsHeld, call' = call, free' = free
    PROVE  \A c \in Calls : Stays(c) /\ (LeftOn(c) => (LeftOn(c))')
<1>1. \A c \in Calls : LeftOn(c) => (LeftOn(c))'
  BY Zenon DEF LeftOn, SameSlot
<1>2. \A c \in Calls : Stays(c)
  BY Zenon DEF Stays, Identified, Holds, SlotsHeld, Strays, Slotted
<1> QED
  BY <1>1, <1>2, Zenon

(* What a step of the Worker for the batch of c leaves to the others: their calls, the
   inputs, and what is not at the slot of c. *)
ForOne(c) ==
    /\ call' = call /\ free' = free /\ wclose' = wclose
    /\ \A d \in Calls \ {c} : rpc'[d] = rpc[d] /\ item'[d] = item[d] /\ read'[d] = read[d]
    /\ \A y \in Sessions, e \in Slots :
         /\ memory'[y][e].generation = memory[y][e].generation
         /\ memory'[y][e].input = memory[y][e].input
         /\ ~(y = call[c].session /\ e = call[c].slot) =>
              /\ memory'[y][e].output = memory[y][e].output
              /\ claim'[y][e] = claim[y][e] /\ last'[y][e] = last[y][e]

(* The batch of c has its slot alone, so that its step keeps what the others rely on. *)
LEMMA BatchStep ==
    ASSUME SlotsInv, NEW c \in Calls, Slotted(c), InWorker(c) \/ Claimable(c), TypeInv', ForOne(c),
           (Announced(c))', (Claimed(c))', (Settled(c))', Own(c) => (Own(c))',
           (ClaimOf(c))' # 0 => (InWorker(c))',
           item'[c] = "waiting" => item[c] = "waiting" \/ wclose = "open"
    PROVE  SlotsInv'
<1> USE DEF SlotsInv
<1> DEFINE x == call[c].session  b == call[c].slot
<1>1. x \in Sessions /\ b \in Slots
  BY Zenon DEF SlotsHeld
<1>2. call' = call /\ free' = free /\ wclose' = wclose
        /\ \A d \in Calls \ {c} : rpc'[d] = rpc[d] /\ item'[d] = item[d] /\ read'[d] = read[d]
  BY Zenon DEF ForOne
<1>0. \A d \in Calls : Stays(d) /\ (LeftOn(d) => (LeftOn(d))')
  BY <1>2, CallsUntouched, Zenon
<1>3. SlotsHeld'
  BY <1>0, SlotsKept, Zenon DEF ForOne, SameGenerations
<1>4. ASSUME NEW d \in Calls \ {c}
      PROVE  /\ InWorker(d) \/ Watches(d) => ~(call[d].session = x /\ call[d].slot = b)
             /\ InWorker(d) \/ Watches(d) \/ call[d].pc = "rpc" =>
                  call[d].session \in Sessions /\ call[d].slot \in Slots
             /\ Announced(d) /\ Claimed(d) /\ Kept(d)
  <2>1. Announced(d) /\ Claimed(d) /\ Kept(d)
    BY Zenon DEF ClaimsKept, ContentsOwn
  <2>2. InWorker(d) \/ Watches(d) \/ call[d].pc = "rpc" => Slotted(d)
    BY <2>1, Zenon DEF Announced, InWorker, Watches, SlotsHeld, Holds
  <2>3. Slotted(d) => call[d].session \in Sessions /\ call[d].slot \in Slots
    BY Zenon DEF SlotsHeld
  <2> QED
    BY <2>1, <2>2, <2>3, SlotAlone, Zenon DEF SameSlot
<1>5. ASSUME NEW d \in Calls \ {c} PROVE (Announced(d))' /\ (Claimed(d))'
  <2>1. (InWorker(d))' <=> InWorker(d)
    BY <1>2, Zenon DEF InWorker
  <2>2. InWorker(d) => /\ (ClaimOf(d))' = ClaimOf(d)
                       /\ last'[call[d].session][call[d].slot] = last[call[d].session][call[d].slot]
    BY <1>2, <1>4 DEF ForOne, ClaimOf
  <2> QED
    BY <1>2, <1>4, <2>1, <2>2, Zenon DEF Announced, Claimed, Slotted, InWorker
<1>6. ASSUME NEW d \in Calls \ {c} PROVE (Kept(d))'
  <2>1. call[d].pc = "rpc" => (SlotOf(d))'.input = SlotOf(d).input
    BY <1>2, <1>4 DEF ForOne, SlotOf
  <2>2. Watches(d) => /\ (SlotOf(d))'.output = SlotOf(d).output
                      /\ (ClaimOf(d))' = ClaimOf(d)
                      /\ last'[call[d].session][call[d].slot] = last[call[d].session][call[d].slot]
    BY <1>2, <1>4 DEF ForOne, SlotOf, ClaimOf
  <2> QED
    BY <1>0, <1>2, <1>4, <2>1, <2>2, KeptUntouched, Zenon
<1>a. (Kept(c))'
  BY <1>0, Zenon DEF Kept, ContentsOwn
<1>7. ASSUME NEW y \in Sessions, NEW e \in Slots, claim'[y][e] # 0
      PROVE  \E d \in Calls : (InWorker(d))' /\ call'[d].session = y /\ call'[d].slot = e
  <2>1. CASE y = x /\ e = b
    BY <1>2, <1>7, <2>1, Zenon DEF ClaimOf
  <2>2. CASE ~(y = x /\ e = b)
    <3>1. claim[y][e] # 0
      BY <1>7, <2>2, Zenon DEF ForOne
    <3>2. PICK d \in Calls : InWorker(d) /\ call[d].session = y /\ call[d].slot = e
      BY <3>1 DEF ClaimsKept
    <3>3. d # c
      BY <2>2, <3>2, Zenon
    <3> QED
      BY <1>2, <3>2, <3>3, Zenon DEF InWorker
  <2> QED
    BY <2>1, <2>2, Zenon
<1>8. wclose' # "failed" /\ (wclose' \in {"active", "closed"} => \A d \in Calls : item'[d] # "waiting")
  BY <1>2, Zenon DEF ClaimsKept
<1>9. ClaimsKept'
  BY <1>5, <1>7, <1>8, Zenon DEF ClaimsKept
<1> QED
  BY <1>3, <1>6, <1>9, <1>a, Zenon DEF ContentsOwn

(* The callers see their calls fail: the Worker goes on with what it has. *)
LEMMA RpcOnly ==
    ASSUME SlotsInv, UNCHANGED <<client, reg, claim, last, item, read, dropped>>,
           rpc' \in [Calls -> RpcStates],
           wclose' = wclose \/ (wclose = "open" /\ wclose' = "stop"),
           \A c \in Calls : \/ rpc'[c] = rpc[c]
                            \/ rpc[c] \in {"sent", "lost"} /\ rpc'[c] \in {"failed", "lost"}
                            \/ rpc[c] = "wait" /\ rpc'[c] = "cut"
    PROVE  SlotsInv'
<1> USE DEF SlotsInv
<1>1. conn' = conn /\ free' = free /\ memory' = memory /\ call' = call
  BY Zenon DEF client
<1>2. TypeInv'
  BY <1>1, Zenon DEF TypeInv
<1>0. \A d \in Calls : Stays(d) /\ (LeftOn(d) => (LeftOn(d))')
  BY <1>1, CallsUntouched, Zenon
<1>3. SlotsHeld'
  BY <1>0, <1>1, SlotsKept, Zenon DEF SameGenerations
<1>4. ASSUME NEW c \in Calls PROVE (Announced(c))' /\ (Claimed(c))' /\ (Kept(c))'
  <2>1. Announced(c) /\ Claimed(c) /\ Kept(c)
    BY Zenon DEF ClaimsKept, ContentsOwn
  <2>2. (InWorker(c))' <=> InWorker(c)
    BY Zenon DEF InWorker
  <2>3. (Announced(c))'
    BY <1>1, <2>1, <2>2, Zenon DEF Announced, Slotted, InWorker
  <2>4. (Claimed(c))'
    BY <1>1, <2>1, <2>2, Zenon DEF Claimed, ClaimOf
  <2>5. (Settled(c))'
    BY <1>1, <2>1, Zenon DEF Announced, Kept, Settled, ClaimOf
  <2>6. Own(c) => (Own(c))'
    BY <1>1, Zenon DEF Own, SlotOf
  <2> QED
    BY <1>0, <2>1, <2>3, <2>4, <2>5, <2>6, Zenon DEF Kept
<1>5. \A x \in Sessions, b \in Slots : claim'[x][b] # 0 =>
         \E c \in Calls : (InWorker(c))' /\ call'[c].session = x /\ call'[c].slot = b
  BY <1>1 DEF ClaimsKept, InWorker
<1>6. wclose' # "failed" /\ (wclose' \in {"active", "closed"} => \A d \in Calls : item'[d] # "waiting")
  BY Zenon DEF ClaimsKept
<1> QED
  BY <1>2, <1>3, <1>4, <1>5, <1>6, Zenon DEF ClaimsKept, ContentsOwn

(* A number at one slot is set. *)
LEMMA SetAtSlot ==
    ASSUME NEW f \in [Sessions -> [Slots -> Nat]], NEW x \in Sessions, NEW b \in Slots,
           NEW n \in Nat, NEW g, g = [f EXCEPT ![x][b] = n]
    PROVE  /\ g \in [Sessions -> [Slots -> Nat]] /\ g[x][b] = n
           /\ \A y \in Sessions, e \in Slots : ~(y = x /\ e = b) => g[y][e] = f[y][e]
BY Zenon

(* A batch the Worker has, or is told of, has a slot. *)
LEMMA BatchSlot ==
    ASSUME SlotsInv, NEW c \in Calls, InWorker(c) \/ rpc[c] # "none"
    PROVE  /\ Slotted(c) /\ call[c].session \in Sessions /\ call[c].slot \in Slots
           /\ call[c].generation \in Nat
           /\ InWorker(c) => /\ rpc[c] \in {"wait", "cut"}
                             /\ ClaimOf(c) = call[c].generation
                             /\ last[call[c].session][call[c].slot] >= call[c].generation
<1>1. Slotted(c) /\ (InWorker(c) => rpc[c] \in {"wait", "cut"})
  BY Zenon DEF SlotsInv, ClaimsKept, Announced
<1> QED
  BY <1>1, Zenon DEF SlotsInv, SlotsHeld, TypeInv, CallRecords, ClaimsKept, Claimed

(* A request is claimed and admitted, claimed and rejected, or refused. *)
LEMMA HandleStep ==
    ASSUME SlotsInv, NEW c \in Calls, Handle(c)
    PROVE  SlotsInv'
<1> USE DEF SlotsInv
<1> DEFINE x == call[c].session  b == call[c].slot  n == call[c].generation
<1>1. rpc[c] \in {"sent", "lost"} /\ UNCHANGED <<client, reg, lock, read, dropped, wclose>>
  BY Zenon DEF Handle
<1>2. conn' = conn /\ free' = free /\ memory' = memory /\ call' = call
  BY <1>1, Zenon DEF client
<1>3. Slotted(c) /\ x \in Sessions /\ b \in Slots /\ n \in Nat
  BY <1>1, BatchSlot, Zenon
<1>4. /\ Announced(c) /\ item[c] = "none" /\ read[c] = None
      /\ (rpc[c] = "sent" => call[c].pc = "rpc") /\ call[c].pc \in {"rpc", "over"}
  BY <1>1, Zenon DEF ClaimsKept, ContentsOwn, Announced, Kept, Settled
<1>5. SlotOf(c)' = SlotOf(c)
  BY <1>2, Zenon DEF SlotOf
<1>6. CASE /\ Claimable(c) /\ last' = [last EXCEPT ![x][b] = n]
           /\ claim' = [claim EXCEPT ![x][b] = n]
           /\ item' = [item EXCEPT ![c] = "waiting"]
           /\ rpc' = [rpc EXCEPT ![c] = IF @ = "sent" THEN "wait" ELSE "cut"]
  <2>1. /\ claim' \in [Sessions -> [Slots -> Nat]] /\ claim'[x][b] = n
        /\ \A y \in Sessions, e \in Slots : ~(y = x /\ e = b) => claim'[y][e] = claim[y][e]
    BY <1>3, <1>6, SetAtSlot DEF TypeInv
  <2>2. /\ last' \in [Sessions -> [Slots -> Nat]] /\ last'[x][b] = n
        /\ \A y \in Sessions, e \in Slots : ~(y = x /\ e = b) => last'[y][e] = last[y][e]
    BY <1>3, <1>6, SetAtSlot DEF TypeInv
  <2>3. /\ item'[c] = "waiting" /\ rpc'[c] = (IF rpc[c] = "sent" THEN "wait" ELSE "cut")
        /\ \A d \in Calls \ {c} : rpc'[d] = rpc[d] /\ item'[d] = item[d]
        /\ item' \in [Calls -> {"none", "waiting", "active", "copied", "computed", "done"}]
        /\ rpc' \in [Calls -> RpcStates]
    BY <1>6, Zenon DEF TypeInv, RpcStates
  <2>4. TypeInv'
    BY <1>1, <1>2, <2>1, <2>2, <2>3, Zenon DEF TypeInv
  <2>5. ForOne(c)
    BY <1>1, <1>2, <2>1, <2>2, <2>3, Zenon DEF ForOne
  <2>6. (Announced(c))'
    BY <1>1, <1>2, <1>3, <1>4, <2>3, Zenon DEF Announced, Slotted
  <2>7. (Claimed(c))' /\ (InWorker(c))'
    BY <1>2, <1>3, <2>1, <2>2, <2>3 DEF Claimed, ClaimOf, InWorker
  <2>8. (Settled(c))' /\ (Own(c) => (Own(c))')
    BY <1>1, <1>2, <1>4, <1>5, <2>3, Zenon DEF Own, Settled
  <2>9. wclose = "open"
    BY <1>6, Zenon DEF Claimable
  <2> QED
    BY <1>3, <1>6, <2>4, <2>5, <2>6, <2>7, <2>8, <2>9, BatchStep, Zenon
<1>7. CASE /\ Claimable(c) /\ last' = [last EXCEPT ![x][b] = n]
           /\ rpc' = [rpc EXCEPT ![c] = "failed"] /\ claim' = claim /\ item' = item
  <2>1. /\ last' \in [Sessions -> [Slots -> Nat]] /\ last'[x][b] = n
        /\ \A y \in Sessions, e \in Slots : ~(y = x /\ e = b) => last'[y][e] = last[y][e]
    BY <1>3, <1>7, SetAtSlot DEF TypeInv
  <2>2. /\ rpc'[c] = "failed" /\ \A d \in Calls \ {c} : rpc'[d] = rpc[d]
        /\ rpc' \in [Calls -> RpcStates]
    BY <1>7, Zenon DEF TypeInv, RpcStates
  <2>3. TypeInv'
    BY <1>1, <1>2, <1>7, <2>1, <2>2, Zenon DEF TypeInv
  <2>4. ForOne(c)
    BY <1>1, <1>2, <1>7, <2>1, <2>2, Zenon DEF ForOne
  <2>5. (Announced(c))'
    BY <1>1, <1>2, <1>3, <1>4, <1>7, <2>2, Zenon DEF Announced, Slotted, InWorker
  <2>6. (Claimed(c))' /\ (ClaimOf(c))' = 0 /\ item'[c] # "waiting"
    BY <1>2, <1>4, <1>7, Zenon DEF Claimed, ClaimOf, InWorker, Claimable
  <2>7. (Settled(c))' /\ (Own(c) => (Own(c))')
    BY <1>1, <1>2, <1>4, <1>5, <1>7, <2>2, Zenon DEF Own, Settled
  <2> QED
    BY <1>3, <1>7, <2>3, <2>4, <2>5, <2>6, <2>7, BatchStep, Zenon
<1>8. CASE rpc' = [rpc EXCEPT ![c] = "failed"] /\ claim' = claim /\ last' = last /\ item' = item
  <2>1. /\ rpc'[c] = "failed" /\ \A d \in Calls \ {c} : rpc'[d] = rpc[d]
        /\ rpc' \in [Calls -> RpcStates]
    BY <1>8, Zenon DEF TypeInv, RpcStates
  <2> QED
    BY <1>1, <1>8, <2>1, RpcOnly, Zenon
<1> QED
  BY <1>6, <1>7, <1>8, Zenon DEF Handle

(* The connection breaks under a call. *)
LEMMA RpcFailsStep ==
    ASSUME SlotsInv, NEW c \in Calls, RpcFails(c)
    PROVE  SlotsInv'
<1>1. /\ rpc[c] \in {"sent", "wait"} /\ rpc'[c] = Severed(rpc[c])
      /\ \A d \in Calls \ {c} : rpc'[d] = rpc[d]
      /\ rpc' \in [Calls -> RpcStates] /\ rpc[c] \in RpcStates
  <2>1. rpc \in [Calls -> RpcStates]
    BY Zenon DEF SlotsInv, TypeInv
  <2>2. Severed(rpc[c]) \in RpcStates
    BY <2>1, SeveredFacts, Zenon
  <2> QED
    BY <2>1, <2>2, Zenon DEF RpcFails
<1>2. UNCHANGED <<client, reg, claim, last, item, read, dropped>> /\ wclose' = wclose
  BY Zenon DEF RpcFails, worker
<1> QED
  BY <1>1, <1>2, SeveredFacts, RpcOnly, Zenon

(* A slot is released with its batch. *)
LEMMA ReleaseStep ==
    ASSUME SlotsInv, NEW c \in Calls, InWorker(c), Release(c), item' = [item EXCEPT ![c] = "done"],
           UNCHANGED <<client, reg, last, read, wclose>>, dropped' \in [Calls -> BOOLEAN],
           rpc' \in [Calls -> RpcStates],
           \A d \in Calls \ {c} : rpc'[d] = rpc[d],
           rpc'[c] = rpc[c] \/ (rpc[c] = "wait" /\ rpc'[c] = "failed")
             \/ (rpc[c] = "wait" /\ item[c] = "computed" /\ rpc'[c] = "ok")
    PROVE  SlotsInv'
<1> USE DEF SlotsInv
<1> DEFINE x == call[c].session  b == call[c].slot
<1>1. conn' = conn /\ free' = free /\ memory' = memory /\ call' = call
  BY Zenon DEF client
<1>2. /\ Slotted(c) /\ x \in Sessions /\ b \in Slots /\ call[c].generation \in Nat
      /\ rpc[c] \in {"wait", "cut"} /\ last[x][b] >= call[c].generation
      /\ ClaimOf(c) = call[c].generation /\ call[c].generation >= 1
  BY BatchSlot, Zenon DEF Slotted
<1>3. /\ claim' \in [Sessions -> [Slots -> Nat]] /\ claim'[x][b] = 0
      /\ \A y \in Sessions, e \in Slots : ~(y = x /\ e = b) => claim'[y][e] = claim[y][e]
  <2>1. claim' = [claim EXCEPT ![x][b] = 0]
    BY Zenon DEF Release
  <2> QED
    BY <1>2, <2>1, SetAtSlot DEF TypeInv
<1>4. /\ item'[c] = "done" /\ \A d \in Calls \ {c} : item'[d] = item[d]
      /\ item' \in [Calls -> {"none", "waiting", "active", "copied", "computed", "done"}]
  BY Zenon DEF TypeInv
<1>5. TypeInv'
  BY <1>1, <1>3, <1>4, Zenon DEF TypeInv
<1>6. ForOne(c)
  BY <1>1, <1>3, <1>4, Zenon DEF ForOne
<1>7. Announced(c) /\ Settled(c)
  BY Zenon DEF ClaimsKept, ContentsOwn, Kept
<1>8. (Announced(c))'
  BY <1>1, <1>2, <1>4, <1>7, Zenon DEF Announced, Slotted, InWorker
<1>9. (Claimed(c))' /\ (ClaimOf(c))' = 0
  BY <1>1, <1>3, <1>4, Zenon DEF Claimed, ClaimOf, InWorker
<1>10. (SlotOf(c))' = SlotOf(c) /\ last'[call'[c].session][call'[c].slot] = last[x][b]
  BY <1>1, Zenon DEF SlotOf
<1>11. (Settled(c))'
  BY <1>1, <1>2, <1>7, <1>9, <1>10, Zenon DEF Settled, Announced
<1>13. Own(c) => (Own(c))'
  <2>1. CASE rpc'[c] = rpc[c]
    BY <1>1, <1>2, <1>4, <1>10, <2>1, Zenon DEF Own
  <2>2. CASE rpc[c] = "wait" /\ rpc'[c] = "failed"
    BY <1>1, <1>10, <2>2, Zenon DEF Own
  <2>3. CASE rpc[c] = "wait" /\ item[c] = "computed" /\ rpc'[c] = "ok"
    BY <1>1, <1>10, <2>3, Zenon DEF Own
  <2> QED
    BY <2>1, <2>2, <2>3, Zenon
<1>12. item'[c] # "waiting"
  BY <1>4, Zenon
<1> QED
  BY <1>2, <1>5, <1>6, <1>8, <1>9, <1>11, <1>12, <1>13, BatchStep, Zenon

(* The handler of a batch is cancelled. *)
LEMMA HandlerCancelledStep ==
    ASSUME SlotsInv, NEW c \in Calls, HandlerCancelled(c)
    PROVE  SlotsInv'
<1> USE DEF SlotsInv
<1>1. /\ InWorker(c) /\ rpc' = rpc /\ UNCHANGED <<client, reg, last, read, wclose>>
      /\ dropped' \in [Calls -> BOOLEAN]
  BY Zenon DEF HandlerCancelled, TypeInv
<1>2. CASE item' = [item EXCEPT ![c] = "done"] /\ Release(c)
  BY <1>1, <1>2, ReleaseStep, Zenon DEF TypeInv
<1>3. CASE item' = item /\ claim' = claim
  <2>1. TypeInv'
    BY <1>1, <1>3 DEF client, TypeInv
  <2>2. SlotsHeld'
    BY <1>1, <1>3, Zenon DEF client, SlotsHeld, Slotted, Holds, SameSlot, SlotOf, Strays
  <2>3. ContentsOwn'
    BY <1>1, <1>3, Zenon DEF client, ContentsOwn, Kept, Settled, Own, ClaimOf, SlotOf, LeftOn, SameSlot
  <2>4. ClaimsKept'
    BY <1>1, <1>3 DEF client, ClaimsKept, Announced, Claimed, InWorker, ClaimOf, Slotted
  <2> QED
    BY <2>1, <2>2, <2>3, <2>4, Zenon
<1> QED
  BY <1>2, <1>3, Zenon DEF HandlerCancelled

(* A batch is completed: its caller gets the answer, if it still waits. *)
LEMMA CompleteStep ==
    ASSUME SlotsInv, NEW c \in Calls, Complete(c)
    PROVE  SlotsInv'
<1>1. /\ InWorker(c) /\ Release(c) /\ item' = [item EXCEPT ![c] = "done"]
      /\ UNCHANGED <<client, reg, last, read, wclose>> /\ dropped' \in [Calls -> BOOLEAN]
  BY Zenon DEF Complete, Executing, InWorker, SlotsInv, TypeInv
<1>2. PICK answer \in {"ok", "failed"} :
        /\ answer = "ok" => item[c] = "computed"
        /\ rpc' = IF dropped[c] \/ rpc[c] # "wait" THEN rpc ELSE [rpc EXCEPT ![c] = answer]
  BY Zenon DEF Complete
<1>3. rpc \in [Calls -> RpcStates]
  BY Zenon DEF SlotsInv, TypeInv
<1>4. CASE rpc' = rpc
  BY <1>1, <1>3, <1>4, ReleaseStep, Zenon
<1>5. CASE rpc[c] = "wait" /\ rpc' = [rpc EXCEPT ![c] = answer]
  <2>1. /\ rpc'[c] = answer /\ \A d \in Calls \ {c} : rpc'[d] = rpc[d]
        /\ rpc' \in [Calls -> RpcStates]
    BY <1>3, <1>5, Zenon DEF RpcStates
  <2> QED
    BY <1>1, <1>2, <1>5, <2>1, ReleaseStep, Zenon
<1> QED
  BY <1>2, <1>4, <1>5, Zenon

(* A batch goes on to its next stage. *)
LEMMA StageStep ==
    ASSUME SlotsInv, NEW c \in Calls, InWorker(c), NEW stage \in {"active", "copied", "computed"},
           item' = [item EXCEPT ![c] = stage], read' \in [Calls -> Contents],
           memory' \in [Sessions -> [Slots -> SlotRecords]],
           UNCHANGED <<conn, free, call, rpc, reg, claim, last, dropped, wclose>>,
           \A d \in Calls \ {c} : read'[d] = read[d],
           \A y \in Sessions, e \in Slots :
             /\ memory'[y][e].generation = memory[y][e].generation
             /\ memory'[y][e].input = memory[y][e].input
             /\ ~(y = call[c].session /\ e = call[c].slot)
                  => memory'[y][e].output = memory[y][e].output,
           stage = "active" => read'[c] = None,
           Own(c) /\ rpc[c] = "wait" /\ stage \in {"copied", "computed"} => read'[c] = c,
           Own(c) /\ rpc[c] = "wait" /\ stage = "computed" => (SlotOf(c))'.output = c
    PROVE  SlotsInv'
<1> USE DEF SlotsInv
<1>1. /\ item'[c] = stage /\ \A d \in Calls \ {c} : item'[d] = item[d]
      /\ item' \in [Calls -> {"none", "waiting", "active", "copied", "computed", "done"}]
  BY Zenon DEF TypeInv
<1>2. /\ Slotted(c) /\ call[c].session \in Sessions /\ call[c].slot \in Slots
      /\ rpc[c] \in {"wait", "cut"} /\ ClaimOf(c) = call[c].generation
      /\ last[call[c].session][call[c].slot] >= call[c].generation /\ ClaimOf(c) # 0
  BY BatchSlot DEF Slotted
<1>3. TypeInv'
  BY <1>1, Zenon DEF TypeInv
<1>4. ForOne(c)
  BY <1>1 DEF ForOne
<1>5. (Announced(c))'
  BY <1>1, <1>2, Zenon DEF Announced, Slotted, ClaimsKept, InWorker
<1>6. (Claimed(c))' /\ (InWorker(c))'
  BY <1>1, <1>2, Zenon DEF Claimed, ClaimOf, InWorker
<1>7. (Settled(c))'
  BY <1>2, Zenon DEF ContentsOwn, Kept, Settled
<1>8. ASSUME Own(c) PROVE (Own(c))'
  <2>1. call[c].pc = "rpc" => (SlotOf(c))'.input = c
    BY <1>2, <1>8, Zenon DEF Own, SlotOf
  <2>2. rpc[c] # "cut" => read'[c] \in {c, None}
    BY <1>2, <1>8, Zenon
  <2> QED
    BY <1>1, <1>2, <1>8, <2>1, <2>2, Zenon DEF Own
<1> QED
  BY <1>1, <1>2, <1>3, <1>4, <1>5, <1>6, <1>7, <1>8, BatchStep, Zenon

(* The queue's take, copy_input and copy_output. *)
LEMMA StagesStep ==
    ASSUME SlotsInv, NEW c \in Calls, Take(c) \/ CopyInput(c) \/ CopyOutput(c)
    PROVE  SlotsInv'
<1> USE DEF SlotsInv
<1>0. read \in [Calls -> Contents] /\ memory \in [Sessions -> [Slots -> SlotRecords]]
  BY Zenon DEF TypeInv
<1>1. InWorker(c)
  BY Zenon DEF Take, CopyInput, CopyOutput, InWorker
<1>2. call[c].session \in Sessions /\ call[c].slot \in Slots /\ Announced(c)
  BY <1>1, BatchSlot, Zenon DEF ClaimsKept
<1>3. CASE Take(c)
  <2>1. read[c] = None
    BY <1>2, <1>3, Zenon DEF Take, Announced
  <2> QED
    BY <1>0, <1>1, <1>3, <2>1, StageStep, Zenon DEF Take, client
<1>4. CASE CopyInput(c)
  <2>1. /\ item' = [item EXCEPT ![c] = "copied"]
        /\ UNCHANGED <<conn, free, memory, call, rpc, reg, claim, last, dropped, wclose>>
        /\ read' = [read EXCEPT ![c] = SlotOf(c).input]
    BY <1>4, Zenon DEF CopyInput, client, SlotOf
  <2>2. SlotOf(c) \in SlotRecords
    BY <1>0, <1>2, Zenon DEF SlotOf
  <2>3. SlotOf(c).input \in Contents
    BY <2>2, Zenon DEF SlotRecords
  <2>4. /\ read' \in [Calls -> Contents] /\ read'[c] = SlotOf(c).input
        /\ \A d \in Calls \ {c} : read'[d] = read[d]
    BY <1>0, <2>1, <2>3, Zenon
  <2>5. Own(c) /\ rpc[c] = "wait" => read'[c] = c
    BY <1>2, <2>4, Zenon DEF Announced, Own
  <2> QED
    BY <1>0, <1>1, <2>1, <2>4, <2>5, StageStep, Zenon
<1>5. CASE CopyOutput(c)
  <2> DEFINE x == call[c].session  b == call[c].slot  mem == [memory[x][b] EXCEPT !.output = read[c]]
  <2>1. /\ item' = [item EXCEPT ![c] = "computed"] /\ item[c] = "copied"
        /\ UNCHANGED <<conn, free, call, rpc, reg, claim, last, read, dropped, wclose>>
        /\ memory' = [memory EXCEPT ![x] = [memory[x] EXCEPT ![b] = mem]]
    BY <1>5, Zenon DEF CopyOutput
  <2>2. memory[x][b] \in SlotRecords /\ read[c] \in Contents
    BY <1>0, <1>2, Zenon
  <2>3. mem \in SlotRecords /\ mem.generation = memory[x][b].generation
          /\ mem.input = memory[x][b].input /\ mem.output = read[c]
    BY <2>2, Zenon DEF SlotRecords
  <2> HIDE DEF mem
  <2>4. /\ memory' \in [Sessions -> [Slots -> SlotRecords]] /\ memory'[x][b] = mem
        /\ \A y \in Sessions, e \in Slots : ~(y = x /\ e = b) => memory'[y][e] = memory[y][e]
    BY <1>0, <1>2, <2>1, <2>3, Zenon
  <2>5. \A y \in Sessions, e \in Slots :
          /\ memory'[y][e].generation = memory[y][e].generation
          /\ memory'[y][e].input = memory[y][e].input
          /\ ~(y = x /\ e = b) => memory'[y][e].output = memory[y][e].output
    BY <2>3, <2>4, Zenon
  <2>6. Own(c) /\ rpc[c] = "wait" => read[c] = c
    BY <2>1, Zenon DEF Own
  <2>7. (SlotOf(c))'.output = read[c]
    BY <2>1, <2>3, <2>4, Zenon DEF SlotOf
  <2> QED
    <3>1. read' \in [Calls -> Contents] /\ \A d \in Calls \ {c} : read'[d] = read[d]
      BY <1>0, <2>1, Zenon
    <3>2. Own(c) /\ rpc[c] = "wait" => read'[c] = c /\ (SlotOf(c))'.output = c
      BY <2>1, <2>6, <2>7, Zenon
    <3>3. memory' \in [Sessions -> [Slots -> SlotRecords]]
      BY <2>4, Zenon
    <3> HIDE DEF x, b
    <3>4. \A y \in Sessions, e \in Slots :
            /\ memory'[y][e].generation = memory[y][e].generation
            /\ memory'[y][e].input = memory[y][e].input
            /\ ~(y = call[c].session /\ e = call[c].slot)
                 => memory'[y][e].output = memory[y][e].output
      BY <2>5, Zenon DEF x, b
    <3> QED
      BY <1>1, <2>1, <3>1, <3>2, <3>3, <3>4, StageStep, Zenon
<1> QED
  BY <1>3, <1>4, <1>5, Zenon

(* The server stops: the handlers are cancelled. *)
LEMMA StopServerStep ==
    ASSUME SlotsInv, StopServer
    PROVE  SlotsInv'
<1>1. /\ rpc' = [c \in Calls |-> IF rpc[c] = "sent" THEN "failed" ELSE Severed(rpc[c])]
      /\ \A c \in Calls : rpc[c] \in RpcStates
  BY Zenon DEF StopServer, SlotsInv, TypeInv
<1>2. UNCHANGED <<client, reg, claim, last, item, read, dropped>> /\ wclose = "open" /\ wclose' = "stop"
  BY Zenon DEF StopServer
<1>3. \A c \in Calls : \/ rpc'[c] = rpc[c]
                       \/ rpc[c] = "sent" /\ rpc'[c] = "failed"
                       \/ rpc[c] = "wait" /\ rpc'[c] = "cut"
  BY <1>1, SeveredFacts, Zenon
<1>4. rpc' \in [Calls -> RpcStates]
  BY <1>1, SeveredFacts, Zenon DEF RpcStates
<1> QED
  BY <1>2, <1>3, <1>4, RpcOnly, Zenon

(* begin_close discards what waits, and releases its slots and no other. *)
LEMMA BeginCloseStep ==
    ASSUME SlotsInv, BeginClose
    PROVE  SlotsInv'
<1> USE DEF SlotsInv
<1>1. /\ conn' = conn /\ free' = free /\ memory' = memory /\ call' = call
      /\ UNCHANGED <<rpc, reg, last, read>> /\ wclose' = "active"
  BY Zenon DEF BeginClose, client
<1>2. /\ item' \in [Calls -> {"none", "waiting", "active", "copied", "computed", "done"}]
      /\ \A c \in Calls : item'[c] = IF item[c] = "waiting" THEN "done" ELSE item[c]
  BY Zenon DEF BeginClose, TypeInv, Discarded
<1>3. dropped' \in [Calls -> BOOLEAN]
  BY Zenon DEF BeginClose, TypeInv
<1>4. /\ claim' \in [Sessions -> [Slots -> Nat]]
      /\ \A x \in Sessions, b \in Slots :
           claim'[x][b] = IF \E c \in Discarded : call[c].session = x /\ call[c].slot = b
                            THEN 0 ELSE claim[x][b]
  BY Zenon DEF BeginClose, TypeInv
<1>5. TypeInv'
  BY <1>1, <1>2, <1>3, <1>4, Zenon DEF TypeInv
<1>0. \A d \in Calls : Stays(d) /\ (LeftOn(d) => (LeftOn(d))')
  BY <1>1, CallsUntouched, Zenon
<1>6. SlotsHeld'
  BY <1>0, <1>1, SlotsKept, Zenon DEF SameGenerations
<1>7. \A c \in Calls : (InWorker(c))' <=> InWorker(c) /\ item[c] # "waiting"
  BY <1>2, Zenon DEF InWorker
<1>8. ASSUME NEW c \in Calls, InWorker(c), item[c] # "waiting"
      PROVE  (ClaimOf(c))' = ClaimOf(c) /\ call[c].session \in Sessions /\ call[c].slot \in Slots
  <2>1. Slotted(c) /\ call[c].session \in Sessions /\ call[c].slot \in Slots
    BY <1>8, BatchSlot, Zenon
  <2>2. ASSUME NEW d \in Discarded, call[d].session = call[c].session, call[d].slot = call[c].slot
        PROVE  FALSE
    <3>1. d \in Calls /\ InWorker(d) /\ d # c
      BY <1>8, <2>2, Zenon DEF Discarded, InWorker
    <3> QED
      BY <1>8, <2>1, <2>2, <3>1, SlotAlone, Zenon DEF SameSlot
  <2> QED
    BY <1>1, <1>4, <2>1, <2>2, Zenon DEF ClaimOf
<1>9. ASSUME NEW c \in Calls PROVE (Announced(c))' /\ (Claimed(c))' /\ (Kept(c))'
  <2>1. Announced(c) /\ Claimed(c) /\ Kept(c)
    BY Zenon DEF ClaimsKept, ContentsOwn
  <2>2. (Announced(c))'
    BY <1>1, <1>2, <2>1, Zenon DEF Announced, Slotted, InWorker
  <2>3. (Claimed(c))'
    BY <1>1, <1>7, <1>8, <2>1, Zenon DEF Claimed
  <2>4. ClaimOf(c) = 0 /\ rpc[c] = "ok" => (ClaimOf(c))' = 0
    <3>1. SUFFICES ASSUME ClaimOf(c) = 0, rpc[c] = "ok" PROVE (ClaimOf(c))' = 0
      BY Zenon
    <3>2. call[c].session \in Sessions /\ call[c].slot \in Slots
      BY <3>1, BatchSlot, Zenon
    <3> QED
      BY <1>1, <1>4, <3>1, <3>2, Zenon DEF ClaimOf
  <2>5. (SlotOf(c))' = SlotOf(c)
    BY <1>1, Zenon DEF SlotOf
  <2>6. (Settled(c))'
    BY <1>1, <2>1, <2>4, Zenon DEF Kept, Settled
  <2>7. Own(c) => (Own(c))'
    BY <1>1, <1>2, <2>5, Zenon DEF Own
  <2> QED
    BY <1>0, <2>1, <2>2, <2>3, <2>6, <2>7, Zenon DEF Kept
<1>10. ASSUME NEW x \in Sessions, NEW b \in Slots, claim'[x][b] # 0
       PROVE  \E c \in Calls : (InWorker(c))' /\ call'[c].session = x /\ call'[c].slot = b
  <2>1. claim[x][b] # 0 /\ ~\E c \in Discarded : call[c].session = x /\ call[c].slot = b
    BY <1>4, <1>10, Zenon
  <2>2. PICK c \in Calls : InWorker(c) /\ call[c].session = x /\ call[c].slot = b
    BY <2>1, Zenon DEF ClaimsKept
  <2>3. item[c] # "waiting"
    BY <2>1, <2>2, Zenon DEF Discarded
  <2> QED
    BY <1>1, <1>7, <2>2, <2>3, Zenon
<1>11. ClaimsKept'
  BY <1>1, <1>2, <1>9, <1>10, Zenon DEF ClaimsKept
<1> QED
  BY <1>5, <1>6, <1>9, <1>11, Zenon DEF ContentsOwn

(* The steps of the sessions change nothing that the slots see. *)
LEMMA SessionStep ==
    ASSUME SlotsInv, UNCHANGED <<free, memory, call, rpc, claim, last, item, read, dropped, wclose>>,
           conn' \in [Sessions -> ConnStates], reg' \in [Sessions -> RegStates]
    PROVE  SlotsInv'
<1>1. TypeInv'
  BY Zenon DEF SlotsInv, TypeInv
<1>2. SlotsHeld'
  BY Zenon DEF SlotsInv, SlotsHeld, Slotted, Holds, SameSlot, SlotOf, Strays
<1>3. ClaimsKept'
  BY DEF SlotsInv, ClaimsKept, Announced, Claimed, InWorker, ClaimOf, Slotted
<1>4. ContentsOwn'
  BY Zenon DEF SlotsInv, ContentsOwn, Kept, Settled, Own, SlotOf, ClaimOf, LeftOn, SameSlot
<1> QED
  BY <1>1, <1>2, <1>3, <1>4, Zenon DEF SlotsInv

(* The sessions are closed when nothing executes and nothing waits: no slot is in use. *)
LEMMA CloseSessionsStep ==
    ASSUME SlotsInv, CloseSessions
    PROVE  SlotsInv' /\ wclose' = "closed"
<1> USE DEF SlotsInv
<1>1. \A c \in Calls : ~InWorker(c)
  BY Zenon DEF CloseSessions, ClaimsKept, InWorker, Executing
<1>2. \A x \in Sessions : IdleSession(x)
  BY <1>1, Zenon DEF ClaimsKept, IdleSession
<1>3. wclose' = "closed"
  BY <1>2, Zenon DEF CloseSessions, Registered
<1>4. /\ conn' = conn /\ free' = free /\ memory' = memory /\ call' = call
      /\ UNCHANGED <<rpc, claim, last, item, read, dropped>> /\ wclose = "active"
      /\ reg' = [x \in Sessions |-> IF reg[x] = "open" THEN "gone" ELSE reg[x]]
  BY Zenon DEF CloseSessions, client
<1>5. TypeInv'
  BY <1>3, <1>4, Zenon DEF TypeInv, RegStates
<1>6. SlotsHeld'
  BY <1>4, Zenon DEF SlotsHeld, Slotted, Holds, SameSlot, SlotOf, Strays
<1>7. ClaimsKept'
  BY <1>3, <1>4 DEF ClaimsKept, Announced, Claimed, InWorker, ClaimOf, Slotted
<1>8. ContentsOwn'
  BY <1>4, Zenon DEF ContentsOwn, Kept, Settled, Own, SlotOf, ClaimOf, LeftOn, SameSlot
<1> QED
  BY <1>3, <1>5, <1>6, <1>7, <1>8, Zenon

(* What one connection does. *)
Connection(x) == Session(x) \/ Start(x) \/ StartInterrupted(x) \/ Close(x) \/ CloseFails(x)

(* Opening and closing a connection, as far as both sides record it. *)
LEMMA SessionTypes ==
    ASSUME TypeInv, NEW x \in Sessions, Connection(x)
    PROVE  /\ UNCHANGED <<free, memory, call, rpc, claim, last, item, read, dropped, wclose>>
           /\ conn' \in [Sessions -> ConnStates] /\ reg' \in [Sessions -> RegStates]
           /\ \A y \in Sessions \ {x} : conn'[y] = conn[y] /\ reg'[y] = reg[y]
<1> USE DEF TypeInv, worker, ConnStates, RegStates
<1>1. CASE Open(x)
  BY <1>1, Zenon DEF Open, client
<1>2. CASE Mapped(x)
  BY <1>2, Zenon DEF Mapped, client
<1>3. CASE OpenAnswered(x)
  BY <1>3, Zenon DEF OpenAnswered
<1>4. CASE AskClose(x) \/ Start(x) \/ StartInterrupted(x)
  BY <1>4, Zenon DEF AskClose, Start, StartInterrupted
<1>5. CASE Close(x) \/ CloseFails(x)
  BY <1>5, Zenon DEF Close, CloseFails
<1>6. CASE CloseSession(x)
  BY <1>6, Zenon DEF CloseSession
<1> QED
  BY <1>1, <1>2, <1>3, <1>4, <1>5, <1>6, Zenon DEF Connection, Session

(* Every step keeps the slots apart. *)
LEMMA SlotsNext ==
    ASSUME SlotsInv, [Next]_vars
    PROVE  SlotsInv'
<1>1. ASSUME NEW c \in Calls, Caller(c) PROVE SlotsInv'
  BY <1>1, AcquireStep, CopiedStep, LeftCopiedStep, ReceiveStep, CopiedOutStep, Zenon DEF Caller
<1>2. ASSUME NEW c \in Calls, Batch(c) PROVE SlotsInv'
  BY <1>2, HandleStep, HandlerCancelledStep, StagesStep, CompleteStep, Zenon DEF Batch
<1>3. ASSUME NEW c \in Calls, GivenUp(c) \/ RpcFails(c) PROVE SlotsInv'
  BY <1>3, GivenUpStep, CancelledStep, RpcFailsStep, Zenon DEF GivenUp
<1>4. ASSUME NEW x \in Sessions, Connection(x) PROVE SlotsInv'
  BY <1>4, SessionTypes, SessionStep, Zenon DEF SlotsInv
<1>5. CASE StopServer \/ WorkerClose
  BY <1>5, StopServerStep, BeginCloseStep, CloseSessionsStep, Zenon DEF WorkerClose
<1>6. CASE UNCHANGED vars
  <2>1. /\ UNCHANGED <<conn, free, memory, call, rpc, reg, claim, last, item, read, dropped, wclose>>
    BY <1>6, Zenon DEF vars, client, worker
  <2>2. TypeInv
    BY Zenon DEF SlotsInv
  <2> QED
    BY <2>1, <2>2, SessionStep, Zenon DEF TypeInv
<1> QED
  BY <1>1, <1>2, <1>3, <1>4, <1>5, <1>6, ExecuteStep, CrashStep, Zenon DEF Next, Connection

(* The receiver and the clients start with empty hands. *)
LEMMA SlotsInit ==
    ASSUME Init
    PROVE  SlotsInv
<1>1. NewCall \in CallRecords
  BY Zenon DEF NewCall, CallRecords, Contents
<1>2. [generation |-> 0, input |-> None, output |-> None] \in SlotRecords
  BY Zenon DEF SlotRecords, Contents
<1>3. TypeInv
  BY <1>1, <1>2, Zenon DEF Init, TypeInv, Contents, RpcStates, ConnStates, RegStates
<1>4. \A c \in Calls : /\ call[c].pc = "new" /\ call[c].generation = 0 /\ call[c].outcome = "none"
                       /\ rpc[c] = "none" /\ item[c] = "none" /\ ~Slotted(c) /\ ~Holds(c) /\ ~InWorker(c)
                       /\ read[c] = None
  BY DEF Init, NewCall, Slotted, Holds, InWorker
<1>5. SlotsHeld
  BY <1>4, Zenon DEF SlotsHeld, Strays
<1>6. \A x \in Sessions, b \in Slots : claim[x][b] = 0
  BY Zenon DEF Init
<1>7. ClaimsKept
  BY <1>4, <1>6, Zenon DEF ClaimsKept, Announced, Claimed, Init
<1>8. ContentsOwn
  BY <1>4, Zenon DEF ContentsOwn, Kept, Settled, Own
<1> QED
  BY <1>3, <1>5, <1>7, <1>8, Zenon DEF SlotsInv
-----------------------------------------------------------------------------
(* A step of a call keeps its connection, and a call that is over stays so. *)
Done == {"new", "over", "left"}
Stay == \A d \in Calls : /\ call'[d].session = call[d].session
                         /\ call[d].pc \in Done => call'[d].pc \in Done

(* A call that was cut off from the Worker stays so. *)
CutStays == \A d \in Calls : rpc[d] = "cut" => rpc'[d] = "cut"

(* Whatever a call does, a retry on another connection is a call of its own. *)
LEMMA CallerStays ==
    ASSUME TypeInv, NEW c \in Calls, Caller(c) \/ GivenUp(c)
    PROVE  Stay
<1> USE DEF Stay, Done
<1>1. call \in [Calls -> CallRecords] /\ call[c] \in CallRecords
  BY Zenon DEF TypeInv
<1>2. ASSUME NEW outcome, NEW result, Return(c, outcome, result) PROVE Stay
  BY <1>1, <1>2 DEF Return, CallRecords
<1>3. ASSUME NEW p, call' = [call EXCEPT ![c].pc = p], call[c].pc \notin Done \/ p \in Done PROVE Stay
  BY <1>1, <1>3, Zenon DEF CallRecords
<1>4. CASE Acquire(c)
  BY <1>1, <1>4 DEF Acquire, CallRecords
<1>5. CASE Copied(c)
  <2>1. call[c].pc = "copy" /\ (Return(c, Unfilled(c), None) \/ call' = [call EXCEPT ![c].pc = "rpc"])
    BY <1>5, Zenon DEF Copied
  <2> QED
    BY <1>2, <1>3, <2>1, Zenon
<1>6. CASE Receive(c)
  <2>1. call[c].pc = "rpc" /\ (Return(c, Unfilled(c), None) \/ call' = [call EXCEPT ![c].pc = "read"])
    BY <1>6, Zenon DEF Receive, Answered
  <2> QED
    BY <1>2, <1>3, <2>1, Zenon
<1>7. CASE CopiedOut(c) \/ CancelCall(c)
  BY <1>2, <1>7, Zenon DEF CopiedOut, CancelCall
<1>8. CASE LeftCopied(c)
  BY <1>3, <1>8, Zenon DEF LeftCopied
<1>9. ASSUME NEW why,
             call' = [call EXCEPT ![c].late = why, ![c].pc = IF @ = "permit" THEN "over" ELSE @]
      PROVE  Stay
  BY <1>1, <1>9, Zenon DEF CallRecords
<1>10. CASE Expire(c) \/ Cancel(c)
  BY <1>9, <1>10, Zenon DEF Expire, Cancel
<1>11. CASE CancelCopy(c)
  BY <1>1, <1>11, Zenon DEF CancelCopy, CallRecords
<1> QED
  BY <1>4, <1>5, <1>6, <1>7, <1>8, <1>10, <1>11, Zenon DEF Caller, GivenUp

(* Nothing brings back the RPC of a call that was cut off. *)
LEMMA CallsCutStay ==
    ASSUME SlotsInv, NEW c \in Calls, Caller(c) \/ GivenUp(c) \/ Batch(c) \/ RpcFails(c)
    PROVE  CutStays
<1>1. rpc \in [Calls -> RpcStates] /\ Announced(c)
  BY Zenon DEF SlotsInv, TypeInv, ClaimsKept
<1>2. Severed("cut") = "cut"
  BY Zenon DEF Severed
<1>3. CASE Caller(c) \/ GivenUp(c)
  <2>1. \/ rpc' = rpc
        \/ rpc' = [rpc EXCEPT ![c] = Severed(@)]
        \/ call[c].pc = "copy" /\ rpc' = [rpc EXCEPT ![c] = "sent"]
    BY <1>3, Zenon DEF Caller, Acquire, Copied, LeftCopied, Receive, CopiedOut, GivenUp, Expire,
                       Cancel, CancelCall, CancelCopy
  <2>2. call[c].pc = "copy" => rpc[c] # "cut"
    BY <1>1, Zenon DEF Announced
  <2> QED
    BY <1>1, <1>2, <2>1, <2>2, Zenon DEF CutStays
<1>4. CASE Handle(c)
  <2>1. rpc[c] # "cut" /\ \E r \in RpcStates : rpc' = [rpc EXCEPT ![c] = r]
    BY <1>4, Zenon DEF Handle, RpcStates
  <2> QED
    BY <1>1, <2>1, Zenon DEF CutStays
<1>5. CASE Complete(c)
  <2>1. rpc' = rpc \/ (rpc[c] = "wait" /\ \E r \in RpcStates : rpc' = [rpc EXCEPT ![c] = r])
    BY <1>5, Zenon DEF Complete, RpcStates
  <2> QED
    BY <1>1, <2>1, Zenon DEF CutStays
<1>6. CASE RpcFails(c)
  BY <1>1, <1>2, <1>6, Zenon DEF RpcFails, CutStays
<1>7. CASE HandlerCancelled(c) \/ Take(c) \/ CopyInput(c) \/ CopyOutput(c)
  BY <1>7, Zenon DEF HandlerCancelled, Take, CopyInput, CopyOutput, CutStays
<1> QED
  BY <1>3, <1>4, <1>5, <1>6, <1>7, Zenon DEF Batch

(* A session that is kept for a call that was cut off has this reason from then on. *)
LEMMA CutKept ==
    ASSUME ClosedSessionsGone, \A x \in Sessions : conn'[x] = "closed" => conn[x] = "closed",
           reg' = reg, wclose' = "open" => wclose = "open",
           \A d \in Calls : rpc[d] = "cut" => rpc'[d] = "cut" /\ call'[d].session = call[d].session
    PROVE  ClosedSessionsGone'
<1>1. ASSUME NEW x \in Sessions, conn'[x] = "closed", wclose' = "open", reg'[x] = "open"
      PROVE  \E c \in Calls : call'[c].session = x /\ rpc'[c] = "cut"
  <2>1. PICK c \in Calls : call[c].session = x /\ rpc[c] = "cut"
    BY <1>1, Zenon DEF ClosedSessionsGone
  <2> QED
    BY <2>1, Zenon
<1> QED
  BY <1>1, Zenon DEF ClosedSessionsGone

(* Steps that leave the connections alone do not add calls to one that closes. *)
LEMMA ConnectedByCaller ==
    ASSUME Connected, Stay, CutStays, UNCHANGED <<conn, reg>>, wclose' = "open" => wclose = "open"
    PROVE  Connected'
<1>1. \A x \in Sessions : (On(x))' \subseteq On(x)
  BY Zenon DEF On, Stay, Done
<1>2. ClosedSessionsGone'
  BY CutKept, Zenon DEF Connected, Stay, CutStays
<1> QED
  BY <1>1, <1>2, Zenon DEF Connected

(* A connection that is closing admits no call. *)
LEMMA ConnectedByExecute ==
    ASSUME SlotsInv, Connected, NEW c \in Calls, NEW y \in Sessions, Execute(c, y)
    PROVE  Connected'
<1> USE DEF SlotsInv
<1>1. conn[y] \in {"open", "closing"} /\ UNCHANGED <<conn, reg, wclose, rpc>> /\ call[c].pc = "new"
  BY Zenon DEF Execute, worker
<1>2. call'[c].session = y /\ Only(c)
  BY ExecuteFacts, Zenon
<1>3. \A x \in Sessions : x # y => (On(x))' \subseteq On(x)
  BY <1>2, Zenon DEF On, Only
<1>4. rpc[c] # "cut"
  BY <1>1, Zenon DEF ClaimsKept, Announced
<1>5. ClosedSessionsGone'
  BY <1>1, <1>2, <1>4, CutKept, Zenon DEF Connected, Only
<1> QED
  BY <1>1, <1>3, <1>5, Zenon DEF Connected

(* A connection whose calls have ended is closed on both sides: the Worker finds its
   session idle, or has a batch whose call was cut off. *)
LEMMA ConnectedBySession ==
    ASSUME SlotsInv, Connected, NEW x \in Sessions, Connection(x)
    PROVE  Connected'
<1> USE DEF SlotsInv
<1>1. UNCHANGED <<call, rpc, wclose>> /\ \A y \in Sessions \ {x} : conn'[y] = conn[y] /\ reg'[y] = reg[y]
  BY SessionTypes, Zenon
<1>2. \A y \in Sessions : (On(y))' = On(y)
  BY <1>1, Zenon DEF On
<1>3. conn \in [Sessions -> ConnStates] /\ reg \in [Sessions -> RegStates]
  BY Zenon DEF TypeInv
<1> DEFINE Cut == \E c \in Calls : call[c].session = x /\ rpc[c] = "cut"
<1>4. /\ conn'[x] \notin {"open", "closing"} => On(x) = {}
      /\ reg'[x] \in {"asked", "mapping"} => conn'[x] \in {"opening", "unstarted", "crashed"}
      /\ conn'[x] = "closed" /\ wclose = "open" => reg'[x] # "open" \/ Cut
  <2>0. /\ conn[x] \notin {"open", "closing"} => On(x) = {}
        /\ reg[x] \in {"asked", "mapping"} => conn[x] \in {"opening", "unstarted", "crashed"}
        /\ conn[x] = "closed" /\ wclose = "open" => reg[x] # "open" \/ Cut
    BY Zenon DEF Connected, ClosedSessionsGone
  <2> HIDE DEF Cut
  <2>1. CASE Open(x)
    BY <1>3, <2>0, <2>1, Zenon DEF Open, client
  <2>2. CASE Mapped(x)
    BY <1>3, <2>0, <2>2, Zenon DEF Mapped, client
  <2>3. CASE OpenAnswered(x)
    BY <1>3, <2>0, <2>3, Zenon DEF OpenAnswered, worker
  <2>4. CASE AskClose(x) \/ Start(x) \/ Close(x)
    BY <1>3, <2>0, <2>4, Zenon DEF AskClose, Start, Close, worker
  <2>5. CASE StartInterrupted(x) \/ CloseFails(x)
    BY <1>3, <2>0, <2>5, Zenon DEF StartInterrupted, CloseFails, worker
  <2>6. CASE CloseSession(x)
    <3>1. On(x) = {} /\ conn'[x] = "closed" /\ conn[x] = "asking"
      BY <1>3, <2>0, <2>6, Zenon DEF CloseSession
    <3>2. IdleSession(x) \/ Cut
      <4>1. ASSUME NEW b \in Slots, claim[x][b] # 0 PROVE Cut
        <5>1. PICK c \in Calls : InWorker(c) /\ call[c].session = x
          BY <4>1, Zenon DEF ClaimsKept
        <5>2. rpc[c] = "cut" \/ call[c].pc = "rpc"
          BY <5>1, Zenon DEF ClaimsKept, Announced
        <5> QED
          BY <3>1, <5>1, <5>2, Zenon DEF On, Cut
      <4> QED
        BY <4>1, Zenon DEF IdleSession
    <3>3. reg' = IF reg[x] = "open" /\ IdleSession(x) /\ wclose = "open" THEN [reg EXCEPT ![x] = "gone"] ELSE reg
      BY <2>6, Zenon DEF CloseSession
    <3> QED
      BY <1>3, <2>0, <3>1, <3>2, <3>3, Zenon
  <2> QED
    BY <2>1, <2>2, <2>3, <2>4, <2>5, <2>6, Zenon DEF Connection, Session
<1>5. ASSUME NEW y \in Sessions, conn'[y] = "closed", wclose' = "open"
      PROVE  reg'[y] # "open" \/ \E c \in Calls : call'[c].session = y /\ rpc'[c] = "cut"
  <2>1. CASE y = x
    BY <1>1, <1>4, <1>5, <2>1, Zenon
  <2>2. CASE y # x
    <3>1. conn[y] = "closed" /\ wclose = "open" /\ reg'[y] = reg[y] /\ call' = call /\ rpc' = rpc
      BY <1>1, <1>5, <2>2, Zenon
    <3>2. reg[y] # "open" \/ \E c \in Calls : call[c].session = y /\ rpc[c] = "cut"
      BY <3>1, Zenon DEF Connected, ClosedSessionsGone
    <3> QED
      BY <3>1, <3>2, Zenon
  <2> QED
    BY <2>1, <2>2, Zenon
<1>6. ClosedSessionsGone'
  BY <1>5, Zenon DEF ClosedSessionsGone
<1> QED
  BY <1>1, <1>2, <1>4, <1>6, Zenon DEF Connected

(* A client that ends leaves no call. *)
LEMMA ConnectedByCrash ==
    ASSUME SlotsInv, Connected, NEW x \in Sessions, Crash(x)
    PROVE  Connected'
<1> USE DEF SlotsInv
<1>1. /\ conn' = [conn EXCEPT ![x] = "crashed"] /\ conn \in [Sessions -> ConnStates]
      /\ UNCHANGED <<reg, wclose>> /\ rpc \in [Calls -> RpcStates]
  BY Zenon DEF Crash, worker, TypeInv
<1>2. \A c \in Calls : /\ call'[c].session = call[c].session
                       /\ call'[c] = call[c] \/ call'[c].pc = "over"
                       /\ c \in On(x) => call'[c].pc = "over"
                       /\ rpc'[c] = rpc[c] \/ rpc'[c] = Severed(rpc[c])
  BY CrashFacts, Zenon
<1>3. CutStays
  BY <1>1, <1>2, SeveredFacts, Zenon DEF CutStays
<1>4. ASSUME NEW y \in Sessions, NEW c \in (On(y))' PROVE c \in On(y)
  <2>1. c \in Calls /\ call'[c].session = y /\ call'[c].pc \notin {"new", "over", "left"}
    BY <1>4, Zenon DEF On
  <2>2. call[c].session = y /\ call'[c] = call[c]
    BY <1>2, <2>1, Zenon
  <2> QED
    BY <2>1, <2>2, Zenon DEF On
<1>5. (On(x))' = {}
  <2>1. ASSUME NEW c \in (On(x))' PROVE FALSE
    <3>1. c \in Calls /\ call'[c].pc # "over" /\ c \in On(x)
      BY <1>4, <2>1, Zenon DEF On
    <3> QED
      BY <1>2, <3>1, Zenon
  <2> QED
    BY <2>1, Zenon
<1>6. conn'[x] = "crashed" /\ \A y \in Sessions \ {x} : conn'[y] = conn[y]
  BY <1>1, Zenon
<1>7. ClosedSessionsGone'
  BY <1>1, <1>2, <1>3, <1>6, CutKept, Zenon DEF Connected, CutStays
<1>8. \A y \in Sessions : conn'[y] \notin {"open", "closing"} => (On(y))' = {}
  BY <1>4, <1>5, <1>6, Zenon DEF Connected
<1> QED
  BY <1>1, <1>6, <1>7, <1>8, Zenon DEF Connected

(* A connection that does not take calls has none and, once closed, no session that is idle. *)
LEMMA ConnectedNext ==
    ASSUME SlotsInv, Connected, [Next]_vars
    PROVE  Connected'
<1> USE DEF SlotsInv
<1>1. ASSUME NEW c \in Calls, Caller(c) \/ GivenUp(c) PROVE Connected'
  <2>1. UNCHANGED <<conn, reg, wclose>>
    BY <1>1, Zenon DEF Caller, Acquire, Copied, LeftCopied, Receive, CopiedOut, GivenUp, Expire,
                       Cancel, CancelCall, CancelCopy, worker
  <2> QED
    BY <1>1, <2>1, CallerStays, CallsCutStay, ConnectedByCaller, Zenon
<1>2. ASSUME NEW c \in Calls, Batch(c) \/ RpcFails(c) PROVE Connected'
  <2>1. UNCHANGED <<conn, reg, wclose, call>>
    BY <1>2, Zenon DEF Batch, Handle, HandlerCancelled, Take, CopyInput, CopyOutput, Complete, RpcFails,
                       client, worker
  <2> QED
    BY <1>2, <2>1, CallsCutStay, ConnectedByCaller, Zenon DEF Stay
<1>3. CASE StopServer \/ BeginClose \/ UNCHANGED vars
  <2>1. UNCHANGED <<conn, reg, call>> /\ (wclose' = "open" => wclose = "open")
    BY <1>3, Zenon DEF StopServer, BeginClose, vars, client, worker
  <2>2. CutStays
    <3>1. rpc' = rpc \/ rpc' = [c \in Calls |-> IF rpc[c] = "sent" THEN "failed" ELSE Severed(rpc[c])]
      BY <1>3, Zenon DEF StopServer, BeginClose, vars
    <3>2. Severed("cut") = "cut"
      BY Zenon DEF Severed
    <3> QED
      BY <3>1, <3>2, Zenon DEF CutStays
  <2> QED
    BY <2>1, <2>2, ConnectedByCaller, Zenon DEF Stay
<1>4. CASE CloseSessions
  <2>1. UNCHANGED <<conn, call>> /\ wclose' # "open"
          /\ \A x \in Sessions : reg'[x] \in {"asked", "mapping"} => reg[x] = reg'[x]
    BY <1>4, Zenon DEF CloseSessions, client, TypeInv
  <2>2. \A x \in Sessions : (On(x))' = On(x)
    BY <2>1, Zenon DEF On
  <2> QED
    BY <2>1, <2>2, Zenon DEF Connected, ClosedSessionsGone
<1> QED
  BY <1>1, <1>2, <1>3, <1>4, ConnectedByExecute, ConnectedBySession, ConnectedByCrash, Zenon
     DEF Next, WorkerClose, Connection

(* The client and the Worker of the same-host transport keep what they promise of the
   slots, for any number of connections, slots and calls, whatever is cancelled, fails or
   crashes: a batch in the Worker has the claim on its slot at its generation and the only
   one; a caller is given the output of its own input, and the Worker computes on the
   input it validated as long as the call is not cut off, unless an earlier call was
   cancelled twice while it copied to the slot; a connection that was closed in an orderly
   way keeps a session on the Worker only for a call that was cut off (session.py claim
   and release, client.py execute and close). *)
THEOREM SlotsAlwaysOwned == Spec => []SlotsOwned
<1>1. Init => IInv
  <2> SUFFICES ASSUME Init PROVE IInv
    BY Zenon
  <2>1. SlotsInv
    BY SlotsInit, Zenon
  <2>2. \A x \in Sessions : On(x) = {}
    BY Zenon DEF Init, On, NewCall
  <2>3. Connected
    BY <2>2, Zenon DEF Init, Connected, ClosedSessionsGone
  <2> QED
    BY <2>1, <2>3, Zenon DEF IInv, SlotsInv
<1>2. IInv /\ [Next]_vars => IInv'
  <2> SUFFICES ASSUME IInv, [Next]_vars PROVE IInv'
    BY Zenon
  <2>1. SlotsInv /\ Connected
    BY Zenon DEF IInv, SlotsInv
  <2>2. SlotsInv' /\ Connected'
    BY <2>1, SlotsNext, ConnectedNext, Zenon
  <2> QED
    BY <2>2, Zenon DEF IInv, SlotsInv
<1>3. IInv => SlotsOwned
  <2> SUFFICES ASSUME IInv PROVE SlotsOwned
    BY Zenon
  <2>1. FilledOwn /\ InputAsValidated
    BY Zenon DEF IInv, ContentsOwn, Kept, Own, FilledOwn, InputAsValidated
  <2>2. ClaimsHeld
    BY Zenon DEF IInv, ClaimsKept, Claimed, ClaimsHeld
  <2>3. ClosedSessionsGone
    BY Zenon DEF IInv, Connected
  <2> QED
    BY <2>1, <2>2, <2>3, Zenon DEF SlotsOwned
<1> QED
  BY <1>1, <1>2, <1>3, PTL DEF Spec
=============================================================================
