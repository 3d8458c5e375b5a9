------------------------- MODULE WeightManagerProofs -------------------------
(***************************************************************************)
(* The theorems of WeightManager and their proofs: device memory is        *)
(* accounted for and the weights computation retains stay, what the        *)
(* Controller is told is true, and every target has a load when the device *)
(* has room for all.                                                       *)
(***************************************************************************)
EXTENDS WeightManager, FiniteSetTheorems, TLAPS

Pcs == {"none", "limit", "target", "fetch", "convert", "publish", "published", "fail", "fatal",
        "end", "dead"}
TaskRecords == [pc : Pcs, cancel : BOOLEAN, cancelled : BOOLEAN]
EntryRecords == [present : BOOLEAN, accepting : BOOLEAN, use : Int]

TypeInv ==
    /\ generation \in 0 .. MaxGeneration
    /\ targets \subseteq Keys /\ readyKeys \subseteq Keys
    /\ states \in [Keys -> {"none", "READY", "FAILED", "FULL", "REMOVED"}]
    /\ loaded \in Int /\ slots \in Int
    /\ tasks \in [Keys -> TaskRecords]
    /\ entries \in [Keys -> EntryRecords]
    /\ leases \in [Users -> SUBSET Keys]
    /\ removal \in [keys : SUBSET Keys, left : SUBSET Keys]
    /\ phase \in {"open", "shutdown", "loads", "withdraw", "closed"}
    /\ fatal \in BOOLEAN

Present == {k \in Keys : entries[k].present}
Making == {k \in Keys : tasks[k].pc \in {"convert", "publish"}}
Holders(k) == {u \in Users : k \in leases[u]}

(* The ready table has the ready experts; while the manager closes it loses them first. *)
TableHeld ==
    /\ Present \subseteq readyKeys
    /\ phase \notin {"withdraw", "closed"} => readyKeys \subseteq Present
    /\ phase = "closed" => readyKeys = {}

(* A removal has the lock for the ready experts of its list, and they alone are withdrawn. *)
RemovalHeld ==
    /\ removal.left = removal.keys \cap readyKeys
    /\ removal.left = {} => removal = NoRemoval
    /\ Closing => removal = NoRemoval
    /\ ~Closing => \A k \in Present : ~entries[k].accepting <=> k \in removal.left

(* A ready expert has no load under way, and after the loads were awaited there is none. *)
LoadsOfOthers ==
    /\ \A k \in readyKeys : tasks[k].pc \in {"none", "published", "end", "dead"}
    /\ phase \in {"withdraw", "closed"} => \A k \in Keys : tasks[k].pc \in {"none", "dead"}

Counted ==
    /\ slots = Cardinality(Present) + Cardinality(Making)
    /\ loaded = Cardinality(readyKeys) /\ loaded =< Capacity
    /\ FixedSlots => slots =< Capacity
    /\ Cardinality(targets) =< Capacity

Retained ==
    \A k \in Keys : /\ entries[k].use = Cardinality(Holders(k))
                    /\ Holders(k) # {} => entries[k].present

(* Once shutdown began, every load that is not past its conversion is cancelled. *)
Cancelling ==
    phase # "open" =>
        \A k \in Keys : /\ tasks[k].pc \in {"limit", "target", "fetch"} => tasks[k].cancel
                        /\ tasks[k].pc = "convert" => tasks[k].cancel \/ tasks[k].cancelled

(* A target is removed only at shutdown, when no load can publish any more. *)
NoneToPublish == phase # "open" /\ \A k \in Keys : tasks[k].pc # "publish"

RemovedTargets ==
    /\ removal.keys \cap targets # {} => NoneToPublish
    /\ ~Closing => \A k \in targets : states[k] = "REMOVED" => NoneToPublish

(* While the Worker runs: a load that is not wanted is cancelled. *)
WantedTask(k) ==
    /\ tasks[k].pc # "dead"
    /\ tasks[k].pc = "none" => tasks[k] = NoTask
    /\ tasks[k].pc = "end" => ~tasks[k].cancel
    /\ (tasks[k].pc \in {"limit", "target", "fetch", "convert", "publish", "published"} /\ k \notin targets) =>
         (tasks[k].cancel \/ tasks[k].cancelled)

Wanted == phase = "open" => \A k \in Keys : WantedTask(k)

(* What LoadsKept says of one expert. *)
LoadKept(k) == k \in targets' /\ ~fatal' =>
    /\ \/ Covered(k)'
       \/ generation' = generation /\ (GaveBack(k) \/ (k \in targets /\ ~Covered(k)))
    /\ GaveBack(k)' => GaveBack(k) \/ loaded >= Capacity

DeviceInv == TypeInv /\ TableHeld /\ RemovalHeld /\ LoadsOfOthers /\ Counted /\ Retained
IInv == DeviceInv /\ Cancelling /\ RemovedTargets /\ ReportsMatchTable
LoadsInv == IInv /\ Wanted
-----------------------------------------------------------------------------
(* The steps of a load, with what its task becomes written out. *)
Move(k, p, c, d) ==
    /\ tasks' \in [Keys -> TaskRecords]
    /\ tasks'[k].pc = p /\ tasks'[k].cancel = c /\ tasks'[k].cancelled = d
    /\ \A j \in Keys \ {k} : tasks'[j] = tasks[j]

Quiet == KeepTable /\ UNCHANGED fatal

States(k, state) ==
    /\ states' \in [Keys -> {"none", "READY", "FAILED", "FULL", "REMOVED"}]
    /\ states'[k] = state /\ \A j \in Keys \ {k} : states'[j] = states[j]

Restarts(k, c) == c /\ phase = "open" /\ k \in targets \ readyKeys

Ends(k, c) ==
    \/ ~LockFree /\ Move(k, "end", FALSE, c) /\ states' = states
    \/ LockFree /\ Restarts(k, c) /\ Move(k, "limit", FALSE, FALSE) /\ States(k, "none")
    \/ LockFree /\ ~Restarts(k, c) /\ Move(k, "none", FALSE, FALSE) /\ states' = states

Starts(k) ==
    LET t == tasks[k] IN
    /\ ~t.cancel /\ Quiet /\ slots' = slots /\ states' = states
    /\ \/ t.pc \in {"limit", "target"} /\ LockFree /\ k \in targets /\ Move(k, "fetch", FALSE, t.cancelled)
       \/ t.pc = "limit" /\ ~LockFree /\ Move(k, "target", FALSE, t.cancelled)
       \/ t.pc \in {"limit", "target"} /\ LockFree /\ k \notin targets /\ Move(k, "none", FALSE, FALSE)

Converts(k) ==
    LET t == tasks[k] IN
    /\ ~t.cancel /\ Quiet /\ states' = states
    /\ \/ /\ t.pc = "fetch" /\ (FixedSlots => slots < Capacity)
          /\ Move(k, "convert", FALSE, t.cancelled) /\ slots' = slots + 1
       \/ t.pc = "convert" /\ ~t.cancelled /\ Move(k, "publish", FALSE, FALSE) /\ slots' = slots

Breaks(k) ==
    LET t == tasks[k] IN
    /\ ~t.cancel /\ KeepTable
    /\ t.pc \in {"fetch", "convert", "fail", "fatal"}
    /\ slots' = slots - (IF t.pc = "convert" THEN 1 ELSE 0)
    /\ \/ /\ LockFree /\ t.pc # "fatal" /\ Move(k, "none", FALSE, FALSE) /\ fatal' = fatal
          /\ IF Closing \/ k \notin targets \ readyKeys THEN states' = states ELSE States(k, "FAILED")
       \/ /\ ~LockFree /\ t.pc \in {"fetch", "convert"} /\ Move(k, "fail", FALSE, FALSE)
          /\ states' = states /\ fatal' = fatal
       \/ /\ LockFree /\ t.pc \in {"convert", "fatal"} /\ Move(k, "none", FALSE, FALSE)
          /\ states' = states /\ fatal'
       \/ /\ ~LockFree /\ t.pc = "convert" /\ Move(k, "fatal", FALSE, FALSE)
          /\ states' = states /\ fatal' = fatal

Finishes(k) ==
    LET t == tasks[k] IN
    /\ Quiet
    /\ \/ t.pc = "convert" /\ ~t.cancel /\ t.cancelled /\ Ends(k, TRUE) /\ slots' = slots - 1
       \/ t.pc \in {"published", "end"} /\ ~t.cancel /\ Ends(k, t.cancelled) /\ slots' = slots
       \/ /\ t.pc \notin {"convert", "publish", "published", "end"} /\ t.cancel
          /\ Ends(k, TRUE) /\ slots' = slots

Notes(k) ==
    LET t == tasks[k] IN
    /\ t.cancel /\ Quiet /\ slots' = slots /\ states' = states
    /\ \/ t.pc \in {"convert", "publish", "published"} /\ Move(k, t.pc, FALSE, TRUE)
       \/ t.pc = "end" /\ Move(k, "dead", FALSE, FALSE)

Publishes(k) ==
    /\ Publishable(k) /\ loaded < Capacity
    /\ entries' = [entries EXCEPT ![k] = NewEntry]
    /\ readyKeys' = readyKeys \union {k} /\ loaded' = loaded + 1 /\ slots' = slots
    /\ States(k, "READY")

GivesBack(k) ==
    /\ UNCHANGED <<entries, readyKeys, loaded>> /\ slots' = slots - 1
    /\ \/ Publishable(k) /\ loaded >= Capacity /\ States(k, "FULL")
       \/ ~Publishable(k) /\ states' = states

Ready(k) ==
    /\ tasks[k].pc = "publish" /\ LockFree
    /\ Move(k, "published", tasks[k].cancel, tasks[k].cancelled)
    /\ UNCHANGED <<generation, targets, leases, removal, phase, fatal>>
    /\ Publishes(k) \/ GivesBack(k)

(* A task is replaced, the others stay. *)
LEMMA SetTask ==
    ASSUME TypeInv, NEW k \in Keys, NEW t \in TaskRecords, tasks' = [tasks EXCEPT ![k] = t]
    PROVE  Move(k, t.pc, t.cancel, t.cancelled)
<1>1. tasks' \in [Keys -> TaskRecords] /\ tasks'[k] = t /\ \A j \in Keys \ {k} : tasks'[j] = tasks[j]
  BY Zenon DEF TypeInv
<1> QED
  BY <1>1, Zenon DEF Move

(* A task that starts, fails or is over. *)
LEMMA FreshTask ==
    ASSUME NEW p \in Pcs
    PROVE  /\ Task(p) \in TaskRecords
           /\ Task(p).pc = p /\ Task(p).cancel = FALSE /\ Task(p).cancelled = FALSE
BY Zenon DEF Task, TaskRecords

(* Such a task takes the place of another. *)
LEMMA SetFresh ==
    ASSUME TypeInv, NEW k \in Keys, NEW p \in Pcs, tasks' = [tasks EXCEPT ![k] = Task(p)]
    PROVE  Move(k, p, FALSE, FALSE)
BY FreshTask, SetTask, Zenon

(* A task that goes on. *)
LEMMA SetPc ==
    ASSUME TypeInv, NEW k \in Keys, NEW p \in Pcs, tasks' = [tasks EXCEPT ![k].pc = p]
    PROVE  Move(k, p, tasks[k].cancel, tasks[k].cancelled)
<1> DEFINE t == [tasks[k] EXCEPT !.pc = p]
<1>1. t \in TaskRecords /\ t.pc = p /\ t.cancel = tasks[k].cancel /\ t.cancelled = tasks[k].cancelled
  BY Zenon DEF TypeInv, TaskRecords
<1>2. tasks' = [tasks EXCEPT ![k] = t]
  BY Zenon
<1> HIDE DEF t
<1> QED
  BY <1>1, <1>2, SetTask, Zenon

(* A task that notes its cancellation. *)
LEMMA SetNoted ==
    ASSUME TypeInv, NEW k \in Keys,
           tasks' = [tasks EXCEPT ![k].cancel = FALSE, ![k].cancelled = TRUE]
    PROVE  Move(k, tasks[k].pc, FALSE, TRUE)
<1> DEFINE t == [tasks[k] EXCEPT !.cancel = FALSE, !.cancelled = TRUE]
<1>1. t \in TaskRecords /\ t.pc = tasks[k].pc /\ t.cancel = FALSE /\ t.cancelled = TRUE
  BY Zenon DEF TypeInv, TaskRecords
<1>2. tasks' = [tasks EXCEPT ![k] = t]
  BY Zenon DEF TypeInv
<1> HIDE DEF t
<1> QED
  BY <1>1, <1>2, SetTask, Zenon

(* The state of one expert changes. *)
LEMMA SetState ==
    ASSUME TypeInv, NEW k \in Keys, NEW x \in {"none", "READY", "FAILED", "FULL", "REMOVED"},
           states' = [states EXCEPT ![k] = x]
    PROVE  States(k, x)
BY Zenon DEF TypeInv, States

(* A load is over: it waits for the lock, starts again or is gone. *)
LEMMA EndFacts ==
    ASSUME TypeInv, NEW k \in Keys, NEW c \in BOOLEAN, End(k, c)
    PROVE  Ends(k, c)
<1>0. "end" \in Pcs /\ "limit" \in Pcs /\ "none" \in Pcs
  BY Zenon DEF Pcs
<1>1. NoTask # NewTask /\ NoTask = Task("none") /\ NewTask = Task("limit")
  <2>1. Task("none").pc # Task("limit").pc
    BY <1>0, FreshTask, Zenon
  <2> QED
    BY <2>1, Zenon DEF NoTask, NewTask
<1>2. CASE ~LockFree
  <2> DEFINE t == [pc |-> "end", cancel |-> FALSE, cancelled |-> c]
  <2>1. t \in TaskRecords /\ t.pc = "end" /\ t.cancel = FALSE /\ t.cancelled = c
    BY <1>0, Zenon DEF TaskRecords
  <2>2. LoadEnded(k, c) = t
    BY <1>2, Zenon DEF LoadEnded
  <2> HIDE DEF t
  <2>3. t # NewTask
    BY <1>0, <1>1, <2>1, FreshTask, Zenon
  <2>4. tasks' = [tasks EXCEPT ![k] = t] /\ states' = states
    BY <2>2, <2>3, Zenon DEF End
  <2> QED
    BY <1>2, <2>1, <2>4, SetTask, Zenon DEF Ends
<1>3. CASE LockFree /\ Restarts(k, c)
  <2>1. LoadEnded(k, c) = NewTask
    BY <1>3, Zenon DEF LoadEnded, Restarts
  <2>2. tasks' = [tasks EXCEPT ![k] = Task("limit")] /\ states' = [states EXCEPT ![k] = "none"]
    BY <1>1, <2>1, Zenon DEF End
  <2> QED
    BY <1>0, <1>3, <2>2, SetFresh, SetState, Zenon DEF Ends
<1>4. CASE LockFree /\ ~Restarts(k, c)
  <2>1. LoadEnded(k, c) = NoTask
    BY <1>4, Zenon DEF LoadEnded, Restarts
  <2>2. tasks' = [tasks EXCEPT ![k] = Task("none")] /\ states' = states
    BY <1>1, <2>1, Zenon DEF End
  <2> QED
    BY <1>0, <1>4, <2>2, SetFresh, Zenon DEF Ends
<1> QED
  BY <1>2, <1>3, <1>4, Zenon

(* What _finish_ready does with the weight. *)
LEMMA ReadyFacts ==
    ASSUME ManagerAssumption, TypeInv, NEW k \in Keys, FinishReady(k)
    PROVE  Ready(k)
<1>1. Move(k, "published", tasks[k].cancel, tasks[k].cancelled)
  BY SetPc, Zenon DEF FinishReady, Pcs
<1>2. CASE Publishable(k) /\ loaded < Capacity
  <2>1. States(k, "READY")
    BY <1>2, SetState, Zenon DEF FinishReady
  <2>2. Publishes(k)
    BY <1>2, <2>1, Zenon DEF FinishReady, Publishes
  <2> QED
    BY <1>1, <2>2, Zenon DEF FinishReady, Ready
<1>3. CASE Publishable(k) /\ ~(loaded < Capacity)
  <2>1. States(k, "FULL") /\ UNCHANGED <<entries, readyKeys, loaded>> /\ slots' = slots - 1
    BY <1>3, SetState, Zenon DEF FinishReady
  <2>2. loaded >= Capacity
    BY <1>3 DEF TypeInv, ManagerAssumption
  <2> QED
    BY <1>1, <1>3, <2>1, <2>2, Zenon DEF FinishReady, Ready, GivesBack
<1>4. CASE ~Publishable(k)
  BY <1>1, <1>4, Zenon DEF FinishReady, Ready, GivesBack
<1> QED
  BY <1>2, <1>3, <1>4, Zenon

(* Every step of a load, by what its task becomes. *)
LEMMA LoadMoves ==
    ASSUME ManagerAssumption, TypeInv, NEW k \in Keys, Load(k)
    PROVE  Starts(k) \/ Converts(k) \/ Breaks(k) \/ Finishes(k) \/ Notes(k) \/ Ready(k)
<1>0. {"none", "limit", "target", "fetch", "convert", "publish", "published", "fail", "fatal",
       "end", "dead"} \subseteq Pcs /\ tasks[k].cancel \in BOOLEAN /\ tasks[k].cancelled \in BOOLEAN
  BY Zenon DEF Pcs, TypeInv, TaskRecords
<1>1. CASE StartLoad(k)
  <2>1. CASE LockFree /\ k \notin targets
    <3>1. Ends(k, FALSE)
      BY <1>1, <2>1, EndFacts, Zenon DEF StartLoad
    <3>2. Move(k, "none", FALSE, FALSE) /\ states' = states
      BY <2>1, <3>1, Zenon DEF Ends, Restarts
    <3> QED
      BY <1>1, <2>1, <3>2, Zenon DEF StartLoad, Starts, Quiet
  <2>2. CASE LockFree /\ k \in targets
    <3>1. Move(k, "fetch", tasks[k].cancel, tasks[k].cancelled) /\ states' = states
      BY <1>0, <1>1, <2>2, SetPc, Zenon DEF StartLoad
    <3> QED
      BY <1>0, <1>1, <2>2, <3>1, Zenon DEF StartLoad, Starts, Quiet
  <2>3. CASE ~LockFree
    <3>1. Move(k, "target", tasks[k].cancel, tasks[k].cancelled) /\ states' = states
      BY <1>0, <1>1, <2>3, SetPc, Zenon DEF StartLoad
    <3> QED
      BY <1>0, <1>1, <2>3, <3>1, Zenon DEF StartLoad, Starts, Quiet
  <2> QED
    BY <2>1, <2>2, <2>3, Zenon
<1>2. CASE StartConversion(k)
  <2>1. Move(k, "convert", tasks[k].cancel, tasks[k].cancelled)
    BY <1>0, <1>2, SetPc, Zenon DEF StartConversion
  <2> QED
    BY <1>0, <1>2, <2>1, Zenon DEF StartConversion, Converts, Quiet
<1>3. CASE LoadFails(k)
  <2>1. CASE LockFree
    <3>1. Move(k, "none", FALSE, FALSE)
      BY <1>0, <1>3, <2>1, SetFresh, Zenon DEF LoadFails, NoTask
    <3>2. IF Closing \/ k \notin targets \ readyKeys THEN states' = states ELSE States(k, "FAILED")
      BY <1>3, <2>1, SetState, Zenon DEF LoadFails
    <3> QED
      BY <1>3, <2>1, <3>1, <3>2, Zenon DEF LoadFails, Breaks
  <2>2. CASE ~LockFree
    <3>1. Move(k, "fail", FALSE, FALSE)
      BY <1>0, <1>3, <2>2, SetFresh, Zenon DEF LoadFails
    <3> QED
      BY <1>3, <2>2, <3>1, Zenon DEF LoadFails, Breaks
  <2> QED
    BY <2>1, <2>2, Zenon
<1>4. CASE LoadIsFatal(k)
  <2>1. CASE LockFree
    <3>1. Move(k, "none", FALSE, FALSE)
      BY <1>0, <1>4, <2>1, SetFresh, Zenon DEF LoadIsFatal, NoTask
    <3> QED
      BY <1>4, <2>1, <3>1, Zenon DEF LoadIsFatal, Breaks
  <2>2. CASE ~LockFree
    <3>1. Move(k, "fatal", FALSE, FALSE)
      BY <1>0, <1>4, <2>2, SetFresh, Zenon DEF LoadIsFatal
    <3>2. fatal' = fatal
      BY <1>4, <2>2, Zenon DEF LoadIsFatal, TypeInv
    <3> QED
      BY <1>4, <2>2, <3>1, <3>2, Zenon DEF LoadIsFatal, Breaks
  <2> QED
    BY <2>1, <2>2, Zenon
<1>5. CASE Converted(k)
  <2>1. CASE tasks[k].cancelled
    <3>1. Ends(k, TRUE)
      BY <1>5, <2>1, EndFacts, Zenon DEF Converted
    <3> QED
      BY <1>5, <2>1, <3>1, Zenon DEF Converted, Finishes, Quiet
  <2>2. CASE ~tasks[k].cancelled
    <3>1. Move(k, "publish", tasks[k].cancel, tasks[k].cancelled)
      BY <1>0, <1>5, <2>2, SetPc, Zenon DEF Converted
    <3> QED
      BY <1>0, <1>5, <2>2, <3>1, Zenon DEF Converted, Converts, Quiet
  <2> QED
    BY <2>1, <2>2, Zenon
<1>6. CASE FinishReady(k)
  BY <1>6, ReadyFacts, Zenon
<1>7. CASE Published(k) \/ EndLocked(k)
  <2>1. Ends(k, tasks[k].cancelled)
    BY <1>0, <1>7, EndFacts, Zenon DEF Published, EndLocked
  <2> QED
    BY <1>7, <2>1, Zenon DEF Published, EndLocked, Finishes, Quiet
<1>8. CASE Cancelled(k)
  <2>1. CASE tasks[k].pc \in {"convert", "publish", "published"}
    <3>1. Move(k, tasks[k].pc, FALSE, TRUE) /\ states' = states
      BY <1>8, <2>1, SetNoted, Zenon DEF Cancelled
    <3> QED
      BY <1>8, <2>1, <3>1, Zenon DEF Cancelled, Notes, Quiet
  <2>2. CASE tasks[k].pc = "end"
    <3>1. Move(k, "dead", FALSE, FALSE) /\ states' = states
      BY <1>0, <1>8, <2>2, SetFresh, Zenon DEF Cancelled
    <3> QED
      BY <1>8, <2>2, <3>1, Zenon DEF Cancelled, Notes, Quiet
  <2>3. CASE tasks[k].pc \notin {"convert", "publish", "published", "end"}
    <3>1. Ends(k, TRUE)
      BY <1>8, <2>3, EndFacts, Zenon DEF Cancelled
    <3> QED
      BY <1>8, <2>3, <3>1, Zenon DEF Cancelled, Finishes, Quiet
  <2> QED
    BY <2>1, <2>2, <2>3, Zenon
<1> QED
  BY <1>1, <1>2, <1>3, <1>4, <1>5, <1>6, <1>7, <1>8, Zenon DEF Load
-----------------------------------------------------------------------------
(* Device memory. *)
Same == Present' = Present /\ Making' = Making /\ UNCHANGED <<slots, readyKeys, loaded>>

Claims(k) ==
    /\ k \in Keys \ Making /\ Making' = Making \cup {k} /\ Present' = Present
    /\ slots' = slots + 1 /\ (FixedSlots => slots < Capacity) /\ UNCHANGED <<readyKeys, loaded>>

Frees(k) ==
    /\ k \in Making /\ Making' = Making \ {k} /\ Present' = Present
    /\ slots' = slots - 1 /\ UNCHANGED <<readyKeys, loaded>>

Installs(k) ==
    /\ k \in Making \ readyKeys /\ Making' = Making \ {k} /\ Present' = Present \cup {k}
    /\ readyKeys' = readyKeys \cup {k} /\ loaded' = loaded + 1 /\ loaded < Capacity /\ slots' = slots

Withdraws(k) ==
    /\ k \in Present /\ Present' = Present \ {k} /\ Making' = Making /\ slots' = slots - 1
    /\ \/ UNCHANGED <<readyKeys, loaded>>
       \/ k \in readyKeys /\ readyKeys' = readyKeys \ {k} /\ loaded' = loaded - 1

Empties ==
    Present' = Present /\ Making' = Making /\ slots' = slots /\ readyKeys' = {} /\ loaded' = 0

DeviceStep ==
    \/ Same \/ Empties
    \/ \E k \in Keys : Claims(k) \/ Frees(k) \/ Installs(k) \/ Withdraws(k)

(* The sets the counts are about are finite. *)
LEMMA SetsFinite ==
    ASSUME ManagerAssumption, TypeInv
    PROVE  /\ IsFiniteSet(Present) /\ Cardinality(Present) \in Nat
           /\ IsFiniteSet(Making) /\ Cardinality(Making) \in Nat
           /\ IsFiniteSet(readyKeys) /\ Cardinality(readyKeys) \in Nat
           /\ IsFiniteSet(targets) /\ Cardinality(targets) \in Nat
           /\ \A k \in Keys : IsFiniteSet(Holders(k)) /\ Cardinality(Holders(k)) \in Nat
<1>1. IsFiniteSet(Keys) /\ IsFiniteSet(Users)
  BY Zenon DEF ManagerAssumption
<1>2. Present \subseteq Keys /\ Making \subseteq Keys /\ readyKeys \subseteq Keys /\ targets \subseteq Keys
        /\ \A k \in Keys : Holders(k) \subseteq Users
  BY Zenon DEF Present, Making, Holders, TypeInv
<1>3. IsFiniteSet(Present) /\ IsFiniteSet(Making) /\ IsFiniteSet(readyKeys) /\ IsFiniteSet(targets)
        /\ \A k \in Keys : IsFiniteSet(Holders(k))
  BY <1>1, <1>2, FS_Subset, Zenon
<1> QED
  BY <1>3, FS_CardinalityType, Zenon

(* Whatever a step does to device memory, the counts follow. *)
LEMMA CountedStep ==
    ASSUME ManagerAssumption, TypeInv, TableHeld, Counted, DeviceStep,
           Cardinality(targets') =< Capacity
    PROVE  slots' \in Int /\ loaded' \in Int /\ Counted'
<1> DEFINE a == Cardinality(Present)  b == Cardinality(Making)  n == Cardinality(readyKeys)
<1>1. /\ IsFiniteSet(Present) /\ a \in Nat /\ IsFiniteSet(Making) /\ b \in Nat
      /\ IsFiniteSet(readyKeys) /\ n \in Nat
  BY SetsFinite, Zenon
<1>2. Capacity \in Nat \ {0} /\ slots \in Int /\ loaded \in Int
  BY Zenon DEF ManagerAssumption, TypeInv
<1>3. slots = a + b /\ loaded = n /\ loaded =< Capacity /\ (FixedSlots => slots =< Capacity)
  BY Zenon DEF Counted
<1> DEFINE Right ==
        /\ slots' \in Int /\ loaded' \in Int
        /\ slots' = Cardinality(Present') + Cardinality(Making')
        /\ loaded' = Cardinality(readyKeys') /\ loaded' =< Capacity
        /\ FixedSlots => slots' =< Capacity
<1>4. SUFFICES Right
  BY Zenon DEF Counted
<1>a. ASSUME NEW k PROVE /\ k \notin Making => Cardinality(Making \cup {k}) = b + 1
                         /\ k \notin Present => Cardinality(Present \cup {k}) = a + 1
                         /\ k \notin readyKeys => Cardinality(readyKeys \cup {k}) = n + 1
                         /\ k \in Making => Cardinality(Making \ {k}) = b - 1
                         /\ k \in Present => Cardinality(Present \ {k}) = a - 1
                         /\ k \in readyKeys => Cardinality(readyKeys \ {k}) = n - 1
  BY <1>1, FS_AddElement, FS_RemoveElement, Zenon
<1>b. Cardinality({}) = 0
  BY FS_EmptySet, Zenon
<1> HIDE DEF a, b, n
<1>5. CASE Same
  <2>1. Cardinality(Present') = a /\ Cardinality(Making') = b /\ Cardinality(readyKeys') = n
    BY <1>5, Zenon DEF Same, a, b, n
  <2> QED
    BY <1>1, <1>2, <1>3, <1>5, <2>1, Zenon DEF Same
<1>6. CASE Empties
  <2>1. Cardinality(Present') = a /\ Cardinality(Making') = b /\ Cardinality(readyKeys') = 0
    BY <1>b, <1>6, Zenon DEF Empties, a, b, n
  <2> QED
    BY <1>1, <1>2, <1>3, <1>6, <2>1 DEF Empties
<1>7. ASSUME NEW k \in Keys, Claims(k) PROVE Right
  <2>1. Cardinality(Present') = a /\ Cardinality(Making') = b + 1 /\ Cardinality(readyKeys') = n
    BY <1>a, <1>7, Zenon DEF Claims, a, b, n
  <2> QED
    BY <1>1, <1>2, <1>3, <1>7, <2>1 DEF Claims
<1>8. ASSUME NEW k \in Keys, Frees(k) PROVE Right
  <2>1. Cardinality(Present') = a /\ Cardinality(Making') = b - 1 /\ Cardinality(readyKeys') = n
    BY <1>a, <1>8, Zenon DEF Frees, a, b, n
  <2> QED
    BY <1>1, <1>2, <1>3, <1>8, <2>1 DEF Frees
<1>9. ASSUME NEW k \in Keys, Installs(k) PROVE Right
  <2>1. k \notin Present
    BY <1>9, Zenon DEF Installs, TableHeld
  <2>2. Cardinality(Present') = a + 1 /\ Cardinality(Making') = b - 1 /\ Cardinality(readyKeys') = n + 1
    BY <1>a, <1>9, <2>1, Zenon DEF Installs, a, b, n
  <2> QED
    BY <1>1, <1>2, <1>3, <1>9, <2>2 DEF Installs
<1>10. ASSUME NEW k \in Keys, Withdraws(k) PROVE Right
  <2>1. Cardinality(Present') = a - 1 /\ Cardinality(Making') = b
    BY <1>a, <1>10, Zenon DEF Withdraws, a, b, n
  <2>2. \/ Cardinality(readyKeys') = n /\ loaded' = loaded
        \/ Cardinality(readyKeys') = n - 1 /\ loaded' = loaded - 1
    BY <1>a, <1>10, Zenon DEF Withdraws, a, b, n
  <2> QED
    BY <1>1, <1>2, <1>3, <1>10, <2>1, <2>2 DEF Withdraws
<1> QED
  BY <1>5, <1>6, <1>7, <1>8, <1>9, <1>10, Zenon DEF DeviceStep
-----------------------------------------------------------------------------
(* The records of the ready table. *)
LEMMA EntryUse ==
    ASSUME NEW e \in EntryRecords, NEW n \in Int
    PROVE  /\ [e EXCEPT !.use = n] \in EntryRecords
           /\ [e EXCEPT !.use = n].present = e.present
           /\ [e EXCEPT !.use = n].accepting = e.accepting
           /\ [e EXCEPT !.use = n].use = n
BY Zenon DEF EntryRecords

(* begin_withdrawal stops an entry from accepting users. *)
LEMMA EntryWithdrawn ==
    ASSUME NEW e \in EntryRecords
    PROVE  /\ [e EXCEPT !.accepting = FALSE] \in EntryRecords
           /\ [e EXCEPT !.accepting = FALSE].present = e.present
           /\ ~[e EXCEPT !.accepting = FALSE].accepting
           /\ [e EXCEPT !.accepting = FALSE].use = e.use
BY Zenon DEF EntryRecords

(* The entries that publication makes and that withdrawal leaves. *)
LEMMA FreshEntries ==
    /\ NoEntry \in EntryRecords /\ ~NoEntry.present /\ ~NoEntry.accepting /\ NoEntry.use = 0
    /\ NewEntry \in EntryRecords /\ NewEntry.present /\ NewEntry.accepting /\ NewEntry.use = 0
<1>1. 0 \in Int
  OBVIOUS
<1> QED
  BY <1>1, Zenon DEF NoEntry, NewEntry, EntryRecords

SamePresence == \A k \in Keys : entries'[k].present = entries[k].present
SameUse == \A k \in Keys : entries'[k].use = entries[k].use

(* acquire_many *)
LEMMA AcquireFacts ==
    ASSUME TypeInv, NEW u \in Users, NEW keys \in SUBSET Keys, AcquireMany(u, keys)
    PROVE  /\ entries' \in [Keys -> EntryRecords] /\ SamePresence
           /\ \A k \in Keys : /\ entries'[k].accepting = entries[k].accepting
                              /\ k \in keys => entries[k].present /\ entries'[k].use = entries[k].use + 1
                              /\ k \notin keys => entries'[k].use = entries[k].use
           /\ leases' \in [Users -> SUBSET Keys] /\ leases[u] = {} /\ leases'[u] = keys
           /\ \A v \in Users \ {u} : leases'[v] = leases[v]
<1>1. entries' = [k \in Keys |-> IF k \in keys THEN [entries[k] EXCEPT !.use = @ + 1] ELSE entries[k]]
  BY Zenon DEF AcquireMany
<1>2. \A k \in Keys : entries[k] \in EntryRecords
  BY Zenon DEF TypeInv
<1>3. ASSUME NEW k \in Keys
      PROVE  /\ entries'[k] \in EntryRecords /\ entries'[k].present = entries[k].present
             /\ entries'[k].accepting = entries[k].accepting
             /\ k \in keys => entries'[k].use = entries[k].use + 1
             /\ k \notin keys => entries'[k].use = entries[k].use
  <2>1. CASE k \in keys
    <3> DEFINE n == entries[k].use + 1
    <3>1. entries'[k] = [entries[k] EXCEPT !.use = n]
      BY <1>1, <2>1, Zenon
    <3>2. n \in Int
      BY <1>2 DEF EntryRecords
    <3> HIDE DEF n
    <3>3. entries[k] \in EntryRecords
      BY <1>2, Zenon
    <3>4. /\ entries'[k] \in EntryRecords /\ entries'[k].present = entries[k].present
          /\ entries'[k].accepting = entries[k].accepting /\ entries'[k].use = n
      BY <3>1, <3>2, <3>3, EntryUse
    <3> QED
      BY <2>1, <3>4, Zenon DEF n
  <2>2. CASE k \notin keys
    BY <1>1, <1>2, <2>2, Zenon
  <2> QED
    BY <2>1, <2>2, Zenon
<1>4. entries' \in [Keys -> EntryRecords]
  BY <1>1, <1>3, Zenon
<1>5. leases' \in [Users -> SUBSET Keys] /\ leases[u] = {} /\ leases'[u] = keys
        /\ \A v \in Users \ {u} : leases'[v] = leases[v]
  BY Zenon DEF AcquireMany, TypeInv
<1>6. \A k \in keys : entries[k].present
  BY Zenon DEF AcquireMany
<1> QED
  BY <1>3, <1>4, <1>5, <1>6, Zenon DEF SamePresence

(* ReadyWeightLease.close *)
LEMMA ReleaseFacts ==
    ASSUME TypeInv, NEW u \in Users, Release(u)
    PROVE  /\ entries' \in [Keys -> EntryRecords] /\ SamePresence
           /\ \A k \in Keys : /\ entries'[k].accepting = entries[k].accepting
                              /\ k \in leases[u] => entries'[k].use = entries[k].use - 1
                              /\ k \notin leases[u] => entries'[k].use = entries[k].use
           /\ leases' \in [Users -> SUBSET Keys] /\ leases'[u] = {}
           /\ \A v \in Users \ {u} : leases'[v] = leases[v]
<1>1. entries' = [k \in Keys |-> IF k \in leases[u] THEN [entries[k] EXCEPT !.use = @ - 1] ELSE entries[k]]
  BY Zenon DEF Release
<1>2. \A k \in Keys : entries[k] \in EntryRecords /\ entries[k].use \in Int
  BY Zenon DEF TypeInv, EntryRecords
<1>3. ASSUME NEW k \in Keys
      PROVE  /\ entries'[k] \in EntryRecords /\ entries'[k].present = entries[k].present
             /\ entries'[k].accepting = entries[k].accepting
             /\ k \in leases[u] => entries'[k].use = entries[k].use - 1
             /\ k \notin leases[u] => entries'[k].use = entries[k].use
  <2>1. CASE k \in leases[u]
    <3> DEFINE n == entries[k].use - 1
    <3>1. entries'[k] = [entries[k] EXCEPT !.use = n]
      BY <1>1, <2>1, Zenon
    <3>2. n \in Int
      BY <1>2
    <3> HIDE DEF n
    <3>3. entries[k] \in EntryRecords
      BY <1>2, Zenon
    <3>4. /\ entries'[k] \in EntryRecords /\ entries'[k].present = entries[k].present
          /\ entries'[k].accepting = entries[k].accepting /\ entries'[k].use = n
      BY <3>1, <3>2, <3>3, EntryUse
    <3> QED
      BY <2>1, <3>4, Zenon DEF n
  <2>2. CASE k \notin leases[u]
    BY <1>1, <1>2, <2>2, Zenon
  <2> QED
    BY <2>1, <2>2, Zenon
<1>4. entries' \in [Keys -> EntryRecords]
  BY <1>1, <1>3, Zenon
<1>5. leases' \in [Users -> SUBSET Keys] /\ leases'[u] = {}
        /\ \A v \in Users \ {u} : leases'[v] = leases[v]
  BY Zenon DEF Release, TypeInv
<1> QED
  BY <1>3, <1>4, <1>5, Zenon DEF SamePresence

(* begin_withdrawal of several entries *)
LEMMA WithdrawingFacts ==
    ASSUME TypeInv, NEW keys, entries' = Withdrawing(keys)
    PROVE  /\ entries' \in [Keys -> EntryRecords] /\ SamePresence /\ SameUse
           /\ \A k \in Keys : entries'[k].accepting <=> entries[k].accepting /\ k \notin keys
<1>1. entries' = [k \in Keys |-> IF k \in keys THEN [entries[k] EXCEPT !.accepting = FALSE] ELSE entries[k]]
  BY Zenon DEF Withdrawing
<1>2. \A k \in Keys : entries[k] \in EntryRecords
  BY Zenon DEF TypeInv
<1>3. ASSUME NEW k \in Keys
      PROVE  /\ entries'[k] \in EntryRecords /\ entries'[k].present = entries[k].present
             /\ entries'[k].accepting <=> entries[k].accepting /\ k \notin keys
             /\ entries'[k].use = entries[k].use
  BY <1>1, <1>2, EntryWithdrawn, Zenon
<1> QED
  BY <1>1, <1>3, Zenon DEF SamePresence, SameUse

(* An entry is made or taken out. *)
LEMMA EntryFacts ==
    ASSUME TypeInv, NEW k \in Keys, NEW e \in EntryRecords, entries' = [entries EXCEPT ![k] = e]
    PROVE  /\ entries' \in [Keys -> EntryRecords] /\ entries'[k] = e
           /\ \A j \in Keys \ {k} : entries'[j] = entries[j]
BY Zenon DEF TypeInv
-----------------------------------------------------------------------------
(* Task.cancel() of a load that runs. *)
CancelSet(k) ==
    /\ tasks'[k].pc = tasks[k].pc /\ tasks'[k].cancelled = tasks[k].cancelled
    /\ tasks[k].pc \notin {"none", "dead"} => tasks'[k].cancel
    /\ tasks[k].pc \in {"none", "dead"} => tasks'[k] = tasks[k]

Launched(k) ==
    /\ phase = "open" /\ k \notin readyKeys /\ tasks[k].pc = "none"
    /\ tasks'[k].pc = "limit" /\ ~tasks'[k].cancel /\ ~tasks'[k].cancelled

(* What cancel() leaves of a task. *)
LEMMA CancelFacts ==
    ASSUME NEW t \in TaskRecords
    PROVE  /\ CancelledTask(t) \in TaskRecords
           /\ CancelledTask(t).pc = t.pc /\ CancelledTask(t).cancelled = t.cancelled
           /\ t.pc \notin {"none", "dead"} => CancelledTask(t).cancel
           /\ t.pc \in {"none", "dead"} => CancelledTask(t) = t
<1>1. CASE t.pc \in {"none", "dead"}
  BY <1>1, Zenon DEF CancelledTask
<1>2. CASE t.pc \notin {"none", "dead"}
  <2> DEFINE c == [t EXCEPT !.cancel = TRUE]
  <2>1. c \in TaskRecords /\ c.pc = t.pc /\ c.cancelled = t.cancelled /\ c.cancel
    BY Zenon DEF TaskRecords
  <2>2. CancelledTask(t) = c
    BY <1>2, Zenon DEF CancelledTask
  <2> HIDE DEF c
  <2> QED
    BY <1>2, <2>1, <2>2, Zenon
<1> QED
  BY <1>1, <1>2, Zenon

(* begin_shutdown and close cancel every load. *)
LEMMA CancelAll ==
    ASSUME TypeInv, tasks' = [k \in Keys |-> CancelledTask(tasks[k])]
    PROVE  tasks' \in [Keys -> TaskRecords] /\ \A k \in Keys : CancelSet(k)
<1>1. \A k \in Keys : tasks[k] \in TaskRecords
  BY Zenon DEF TypeInv
<1>2. \A k \in Keys : tasks'[k] = CancelledTask(tasks[k]) /\ CancelledTask(tasks[k]) \in TaskRecords
  BY <1>1, CancelFacts, Zenon
<1>3. \A k \in Keys : CancelSet(k)
  BY <1>1, <1>2, CancelFacts, Zenon DEF CancelSet
<1>4. tasks' \in [Keys -> TaskRecords]
  BY <1>2, Zenon
<1> QED
  BY <1>3, <1>4, Zenon

(* apply_targets cancels the loads of dropped experts and starts missing ones. *)
LEMMA ApplyFacts ==
    ASSUME TypeInv, NEW list \in SUBSET Keys, ApplyTargets(list)
    PROVE  /\ tasks' \in [Keys -> TaskRecords]
           /\ \A k \in Keys :
                /\ k \in targets \ list => CancelSet(k)
                /\ k \notin targets \ list => tasks'[k] = tasks[k] \/ (k \in list /\ Launched(k))
                /\ k \in list \ readyKeys /\ phase = "open" => tasks[k] # NoTask \/ Launched(k)
           /\ states' \in [Keys -> {"none", "READY", "FAILED", "FULL", "REMOVED"}]
           /\ \A k \in Keys :
                /\ k \in readyKeys => states'[k] = states[k]
                /\ k \in list \ readyKeys => states'[k] = "none"
                /\ k \notin readyKeys => states'[k] = states[k] \/ states'[k] \in {"none", "REMOVED"}
<1>1. tasks' = [k \in Keys |->
          IF k \in targets \ list THEN CancelledTask(tasks[k])
          ELSE IF k \in list \ readyKeys /\ tasks[k] = NoTask /\ phase = "open" THEN NewTask
          ELSE tasks[k]]
  BY Zenon DEF ApplyTargets
<1>2. states' = [k \in Keys |->
          IF k \in RemovedAtOnce(list) THEN "REMOVED"
          ELSE IF k \in list \ readyKeys THEN "none"
          ELSE states[k]]
  BY Zenon DEF ApplyTargets
<1>3. \A k \in Keys : tasks[k] \in TaskRecords
  BY Zenon DEF TypeInv
<1>4. /\ NewTask \in TaskRecords /\ NewTask.pc = "limit" /\ ~NewTask.cancel /\ ~NewTask.cancelled
      /\ NoTask.pc = "none"
  BY FreshTask, Zenon DEF NewTask, NoTask, Pcs
<1>5. ASSUME NEW k \in Keys
      PROVE  /\ tasks'[k] \in TaskRecords
             /\ k \in targets \ list => CancelSet(k)
             /\ k \notin targets \ list => tasks'[k] = tasks[k] \/ (k \in list /\ Launched(k))
             /\ k \in list \ readyKeys /\ phase = "open" => tasks[k] # NoTask \/ Launched(k)
  <2>1. CASE k \in targets \ list
    BY <1>1, <1>3, <2>1, CancelFacts, Zenon DEF CancelSet
  <2>2. CASE k \notin targets \ list /\ k \in list \ readyKeys /\ tasks[k] = NoTask /\ phase = "open"
    <3>1. tasks'[k] = NewTask
      BY <1>1, <2>2, Zenon
    <3> QED
      BY <1>4, <2>2, <3>1, Zenon DEF Launched
  <2>3. CASE k \notin targets \ list /\ ~(k \in list \ readyKeys /\ tasks[k] = NoTask /\ phase = "open")
    BY <1>1, <1>3, <2>3, Zenon
  <2> QED
    BY <2>1, <2>2, <2>3, Zenon
<1>6. tasks' \in [Keys -> TaskRecords]
  BY <1>1, <1>5, Zenon
<1>7. states \in [Keys -> {"none", "READY", "FAILED", "FULL", "REMOVED"}]
  BY Zenon DEF TypeInv
<1>8. ASSUME NEW k \in Keys
      PROVE  /\ states'[k] \in {"none", "READY", "FAILED", "FULL", "REMOVED"}
             /\ k \in readyKeys => states'[k] = states[k]
             /\ k \in list \ readyKeys => states'[k] = "none"
             /\ k \notin readyKeys => states'[k] = states[k] \/ states'[k] \in {"none", "REMOVED"}
  BY <1>2, <1>7, Zenon DEF RemovedAtOnce
<1>9. states' \in [Keys -> {"none", "READY", "FAILED", "FULL", "REMOVED"}]
  BY <1>2, <1>8, Zenon
<1> QED
  BY <1>5, <1>6, <1>8, <1>9, Zenon

(* The loads that make a weight, after the task of one expert changed. *)
LEMMA MoveMaking ==
    ASSUME NEW k \in Keys, NEW p, NEW c, NEW d, Move(k, p, c, d)
    PROVE  Making' = IF p \in {"convert", "publish"} THEN Making \cup {k} ELSE Making \ {k}
<1>1. tasks'[k].pc = p /\ \A j \in Keys \ {k} : tasks'[j].pc = tasks[j].pc
  BY Zenon DEF Move
<1> QED
  BY <1>1, Zenon DEF Making

(* A load claims device memory, gives it back or hands it over. *)
LEMMA LoadDevice ==
    ASSUME ManagerAssumption, TypeInv, NEW k \in Keys, Load(k)
    PROVE  DeviceStep
<1> DEFINE t == tasks[k]  M == {"convert", "publish"}
<1>0. k \in Making <=> t.pc \in M
  BY Zenon DEF Making
<1>1. ASSUME NEW p, NEW c, NEW d, Move(k, p, c, d)
      PROVE  /\ p \in M /\ t.pc \in M => Making' = Making
             /\ p \notin M /\ t.pc \notin M => Making' = Making
             /\ p \in M /\ t.pc \notin M => Making' = Making \cup {k}
             /\ p \notin M /\ t.pc \in M => Making' = Making \ {k}
  BY <1>0, <1>1, MoveMaking, Zenon
<1>2. KeepTable => Present' = Present /\ UNCHANGED <<readyKeys, loaded>>
  BY Zenon DEF KeepTable, Present
<1> HIDE DEF t
<1>3. ASSUME NEW c, Ends(k, c) PROVE Making' = IF t.pc \in M THEN Making \ {k} ELSE Making
  <2>1. ASSUME NEW p \in {"end", "limit", "none"}, NEW d, Move(k, p, FALSE, d)
        PROVE  Making' = IF t.pc \in M THEN Making \ {k} ELSE Making
    BY <1>1, <2>1, Zenon
  <2> QED
    BY <1>3, <2>1, Zenon DEF Ends
<1>4. CASE Starts(k)
  <2>a. ASSUME t.pc \in {"limit", "target"}, NEW p \in {"fetch", "target", "none"}, NEW d, Move(k, p, FALSE, d)
        PROVE  Making' = Making
    BY <1>1, <2>a, Zenon
  <2>1. t.pc \notin M /\ Making' = Making
    BY <1>4, <2>a, Zenon DEF Starts, t
  <2> QED
    BY <1>2, <1>4, <2>1, Zenon DEF Starts, Quiet, Same, DeviceStep
<1>5. CASE Converts(k)
  <2>1. CASE t.pc = "fetch"
    <3>1. Making' = Making \cup {k} /\ slots' = slots + 1 /\ (FixedSlots => slots < Capacity)
      BY <1>1, <1>5, <2>1, Zenon DEF Converts, t
    <3>2. Claims(k)
      BY <1>0, <1>2, <1>5, <2>1, <3>1, Zenon DEF Converts, Quiet, Claims
    <3> QED
      BY <3>2, Zenon DEF DeviceStep
  <2>2. CASE t.pc = "convert"
    <3>1. Making' = Making /\ slots' = slots
      BY <1>1, <1>5, <2>2, Zenon DEF Converts, t
    <3> QED
      BY <1>2, <1>5, <3>1, Zenon DEF Converts, Quiet, Same, DeviceStep
  <2> QED
    BY <1>5, <2>1, <2>2, Zenon DEF Converts, t
<1>6. CASE Breaks(k)
  <2>a. ASSUME NEW p \in {"none", "fail", "fatal"}, Move(k, p, FALSE, FALSE)
        PROVE  Making' = IF t.pc \in M THEN Making \ {k} ELSE Making
    BY <1>1, <2>a, Zenon
  <2>1. Making' = IF t.pc \in M THEN Making \ {k} ELSE Making
    BY <1>6, <2>a, Zenon DEF Breaks, t
  <2>2. CASE t.pc = "convert"
    <3>1. Frees(k)
      BY <1>0, <1>2, <1>6, <2>1, <2>2, Zenon DEF Breaks, Frees, t
    <3> QED
      BY <3>1, Zenon DEF DeviceStep
  <2>3. CASE t.pc \in {"fetch", "fail", "fatal"}
    <3>1. slots' = slots
      BY <1>6, <2>3 DEF Breaks, t, TypeInv
    <3> QED
      BY <1>2, <1>6, <2>1, <2>3, <3>1, Zenon DEF Breaks, Same, DeviceStep
  <2> QED
    BY <1>6, <2>2, <2>3, Zenon DEF Breaks, t
<1>7. CASE Finishes(k)
  <2>1. Making' = IF t.pc \in M THEN Making \ {k} ELSE Making
    BY <1>3, <1>7, Zenon DEF Finishes
  <2>2. CASE t.pc = "convert"
    <3>1. Frees(k)
      BY <1>0, <1>2, <1>7, <2>1, <2>2, Zenon DEF Finishes, Quiet, Frees, t
    <3> QED
      BY <3>1, Zenon DEF DeviceStep
  <2>3. CASE t.pc # "convert"
    <3>1. t.pc \notin M /\ slots' = slots
      BY <1>7, <2>3, Zenon DEF Finishes, t
    <3> QED
      BY <1>2, <1>7, <2>1, <3>1, Zenon DEF Finishes, Quiet, Same, DeviceStep
  <2> QED
    BY <2>2, <2>3, Zenon
<1>8. CASE Notes(k)
  <2>a. ASSUME t.pc \in {"convert", "publish", "published"}, Move(k, t.pc, FALSE, TRUE)
        PROVE  Making' = Making
    BY <1>1, <2>a, Zenon
  <2>b. ASSUME t.pc = "end", NEW p \in {"dead"}, Move(k, p, FALSE, FALSE) PROVE Making' = Making
    BY <1>1, <2>b, Zenon
  <2>1. Making' = Making
    BY <1>8, <2>a, <2>b, Zenon DEF Notes, t
  <2> QED
    BY <1>2, <1>8, <2>1, Zenon DEF Notes, Quiet, Same, DeviceStep
<1>9. CASE Ready(k)
  <2>1. k \in Making /\ Making' = Making \ {k}
    BY <1>0, <1>1, <1>9 DEF Ready, t
  <2>2. CASE Publishes(k)
    <3>1. \A j \in Keys : entries'[j].present <=> entries[j].present \/ j = k
      BY <2>2, EntryFacts, FreshEntries, Zenon DEF Publishes
    <3>2. Present' = Present \cup {k}
      BY <3>1, Zenon DEF Present
    <3>3. Installs(k)
      BY <2>1, <2>2, <3>2, Zenon DEF Publishes, Publishable, Installs
    <3> QED
      BY <3>3, Zenon DEF DeviceStep
  <2>3. CASE GivesBack(k)
    <3>1. Frees(k)
      BY <2>1, <2>3, Zenon DEF GivesBack, Frees, Present
    <3> QED
      BY <3>1, Zenon DEF DeviceStep
  <2> QED
    BY <1>9, <2>2, <2>3, Zenon DEF Ready
<1> QED
  BY <1>4, <1>5, <1>6, <1>7, <1>8, <1>9, LoadMoves, Zenon

(* The entries after a withdrawal was finished. *)
LEMMA WithdrawnFacts ==
    ASSUME TypeInv, NEW k \in Keys, entries' = [entries EXCEPT ![k] = NoEntry]
    PROVE  /\ entries' \in [Keys -> EntryRecords] /\ Present' = Present \ {k}
           /\ entries'[k].use = 0 /\ \A j \in Keys \ {k} : entries'[j] = entries[j]
<1>1. entries' \in [Keys -> EntryRecords] /\ entries'[k] = NoEntry /\ \A j \in Keys \ {k} : entries'[j] = entries[j]
  BY EntryFacts, FreshEntries, Zenon
<1>2. \A j \in Keys : entries'[j].present <=> entries[j].present /\ j # k
  BY <1>1, FreshEntries, Zenon
<1>3. Present' = Present \ {k}
  BY <1>2, Zenon DEF Present
<1> QED
  BY <1>1, <1>3, FreshEntries, Zenon

(* The entries after a publication. *)
LEMMA PublishedFacts ==
    ASSUME TypeInv, NEW k \in Keys, entries' = [entries EXCEPT ![k] = NewEntry]
    PROVE  /\ entries' \in [Keys -> EntryRecords] /\ Present' = Present \cup {k}
           /\ entries'[k].use = 0 /\ entries'[k].accepting
           /\ \A j \in Keys \ {k} : entries'[j] = entries[j]
<1>1. entries' \in [Keys -> EntryRecords] /\ entries'[k] = NewEntry /\ \A j \in Keys \ {k} : entries'[j] = entries[j]
  BY EntryFacts, FreshEntries, Zenon
<1>2. \A j \in Keys : entries'[j].present <=> entries[j].present \/ j = k
  BY <1>1, FreshEntries, Zenon
<1>3. Present' = Present \cup {k}
  BY <1>2, Zenon DEF Present
<1> QED
  BY <1>1, <1>3, FreshEntries, Zenon

(* The weights that a removal or the close withdraws are in the table. *)
LEMMA WithdrawnPresent ==
    ASSUME TypeInv, TableHeld, RemovalHeld, NEW k \in Keys, k \in removal.left
    PROVE  k \in Present /\ k \in readyKeys /\ ~Closing
<1>1. k \in readyKeys /\ removal # NoRemoval
  BY DEF RemovalHeld, NoRemoval
<1>2. ~Closing
  BY <1>1, Zenon DEF RemovalHeld
<1>3. phase \notin {"withdraw", "closed"}
  BY <1>2, Zenon DEF Closing
<1> QED
  BY <1>1, <1>2, <1>3, Zenon DEF TableHeld

(* Every step leaves device memory alone, or moves one weight. *)
LEMMA DeviceSteps ==
    ASSUME ManagerAssumption, TypeInv, TableHeld, RemovalHeld, [Next]_vars
    PROVE  DeviceStep
<1>a. ASSUME SamePresence PROVE Present' = Present
  BY <1>a, Zenon DEF SamePresence, Present
<1>b. ASSUME \A k \in Keys : tasks'[k].pc = tasks[k].pc \/ Launched(k) PROVE Making' = Making
  BY <1>b, Zenon DEF Launched, Making
<1>c. UNCHANGED tasks => Making' = Making
  BY Zenon DEF Making
<1>d. UNCHANGED entries => Present' = Present
  BY Zenon DEF Present
<1>1. ASSUME NEW list \in SUBSET Keys, ApplyTargets(list) PROVE DeviceStep
  <2>1. \A k \in Keys : tasks'[k].pc = tasks[k].pc \/ Launched(k)
    BY <1>1, ApplyFacts, Zenon DEF CancelSet
  <2>2. Making' = Making
    BY <1>b, <2>1, Zenon
  <2> QED
    BY <1>d, <1>1, <2>2, Zenon DEF ApplyTargets, Same, DeviceStep
<1>2. CASE BeginShutdown \/ Close
  <2>1. Making' = Making
    BY <1>b, <1>2, CancelAll, Zenon DEF BeginShutdown, Close, CancelSet
  <2> QED
    BY <1>d, <1>2, <2>1, Zenon DEF BeginShutdown, Close, Same, DeviceStep
<1>3. ASSUME NEW k \in Keys, Load(k) PROVE DeviceStep
  BY <1>3, LoadDevice, Zenon
<1>4. ASSUME NEW u \in Users, NEW keys \in SUBSET Keys, AcquireMany(u, keys) PROVE DeviceStep
  BY <1>a, <1>c, <1>4, AcquireFacts, Zenon DEF AcquireMany, Same, DeviceStep
<1>5. ASSUME NEW u \in Users, Release(u) PROVE DeviceStep
  BY <1>a, <1>c, <1>5, ReleaseFacts, Zenon DEF Release, Same, DeviceStep
<1>6. ASSUME NEW keys \in SUBSET Keys, RemoveAfterDrain(keys) PROVE DeviceStep
  BY <1>a, <1>c, <1>6, WithdrawingFacts, Zenon DEF RemoveAfterDrain, Same, DeviceStep
<1>7. ASSUME NEW k \in Keys, FinishWithdrawal(k) PROVE DeviceStep
  <2>1. Present' = Present \ {k}
    BY <1>7, WithdrawnFacts, Zenon DEF FinishWithdrawal
  <2>2. k \in Present /\ k \in readyKeys
    BY <1>7, WithdrawnPresent, Zenon DEF FinishWithdrawal
  <2>3. Withdraws(k)
    BY <1>c, <1>7, <2>1, <2>2, Zenon DEF FinishWithdrawal, Withdraws
  <2> QED
    BY <2>3, Zenon DEF DeviceStep
<1>8. ASSUME NEW k \in Keys, CloseBegins(k) PROVE DeviceStep
  BY <1>a, <1>c, <1>8, WithdrawingFacts, Zenon DEF CloseBegins, Same, DeviceStep
<1>9. ASSUME NEW k \in Keys, CloseFinishes(k) PROVE DeviceStep
  <2>1. Present' = Present \ {k}
    BY <1>9, WithdrawnFacts, Zenon DEF CloseFinishes
  <2>2. k \in Present
    BY <1>9, Zenon DEF CloseFinishes, Present
  <2>3. Withdraws(k)
    BY <1>c, <1>9, <2>1, <2>2, Zenon DEF CloseFinishes, Withdraws
  <2> QED
    BY <2>3, Zenon DEF DeviceStep
<1>10. CASE LoadsEnded
  BY <1>c, <1>d, <1>10, Zenon DEF LoadsEnded, Same, DeviceStep
<1>11. CASE Closed
  BY <1>c, <1>d, <1>11, Zenon DEF Closed, Empties, DeviceStep
<1>12. CASE UNCHANGED vars
  BY <1>c, <1>d, <1>12, Zenon DEF vars, Same, DeviceStep
<1> QED
  BY <1>1, <1>2, <1>3, <1>4, <1>5, <1>6, <1>7, <1>8, <1>9, <1>10, <1>11, <1>12, Zenon DEF Next

(* The table, the removal and the loads of ready experts after a step of a load. *)
LEMMA LoadTable ==
    ASSUME ManagerAssumption, TypeInv, TableHeld, RemovalHeld, LoadsOfOthers, NEW k \in Keys, Load(k)
    PROVE  /\ tasks' \in [Keys -> TaskRecords] /\ entries' \in [Keys -> EntryRecords]
           /\ states' \in [Keys -> {"none", "READY", "FAILED", "FULL", "REMOVED"}]
           /\ fatal' \in BOOLEAN /\ UNCHANGED <<generation, targets, leases, removal, phase>>
           /\ \A j \in Keys \ {k} : tasks'[j] = tasks[j] /\ states'[j] = states[j] /\ entries'[j] = entries[j]
           /\ TableHeld' /\ RemovalHeld' /\ LoadsOfOthers'
<1> DEFINE Still == {"none", "published", "end", "dead"}
<1>1. Starts(k) \/ Converts(k) \/ Breaks(k) \/ Finishes(k) \/ Notes(k) \/ Ready(k)
  BY LoadMoves, Zenon
<1>2. /\ tasks' \in [Keys -> TaskRecords] /\ \A j \in Keys \ {k} : tasks'[j] = tasks[j]
      /\ UNCHANGED <<generation, targets, leases, removal, phase>>
  <2>1. ASSUME NEW p, NEW c, NEW d, Move(k, p, c, d)
        PROVE  tasks' \in [Keys -> TaskRecords] /\ \A j \in Keys \ {k} : tasks'[j] = tasks[j]
    BY <2>1, Zenon DEF Move
  <2>2. ASSUME NEW c, Ends(k, c)
        PROVE  tasks' \in [Keys -> TaskRecords] /\ \A j \in Keys \ {k} : tasks'[j] = tasks[j]
    BY <2>1, <2>2, Zenon DEF Ends
  <2> QED
    BY <1>1, <2>1, <2>2, Zenon DEF Starts, Converts, Breaks, Finishes, Notes, Ready, Quiet, KeepTable
<1>3. /\ states' \in [Keys -> {"none", "READY", "FAILED", "FULL", "REMOVED"}]
      /\ \A j \in Keys \ {k} : states'[j] = states[j]
  <2>1. states \in [Keys -> {"none", "READY", "FAILED", "FULL", "REMOVED"}]
    BY Zenon DEF TypeInv
  <2>2. states' = states \/ \E x : States(k, x)
    BY <1>1, Zenon DEF Starts, Converts, Breaks, Finishes, Notes, Ready, Ends, Publishes, GivesBack
  <2> QED
    BY <2>1, <2>2, Zenon DEF States
<1>4. UNCHANGED <<entries, readyKeys>> \/ (Ready(k) /\ Publishes(k))
  BY <1>1, Zenon DEF Starts, Converts, Breaks, Finishes, Notes, Ready, GivesBack, Quiet, KeepTable
<1>5. fatal' \in BOOLEAN
  BY <1>1, Zenon DEF Starts, Converts, Breaks, Finishes, Notes, Ready, Quiet, TypeInv
<1>6. CASE UNCHANGED <<entries, readyKeys>>
  <2>1. entries' \in [Keys -> EntryRecords] /\ \A j \in Keys \ {k} : entries'[j] = entries[j]
    BY <1>6, Zenon DEF TypeInv
  <2>2. TableHeld' /\ RemovalHeld'
    BY <1>2, <1>6, Zenon DEF TableHeld, RemovalHeld, Present, Closing
  <2>3. k \in readyKeys => tasks'[k].pc \in Still
    <3>1. SUFFICES ASSUME k \in readyKeys PROVE tasks'[k].pc \in Still
      BY Zenon
    <3>2. tasks[k].pc \in Still
      BY <3>1, Zenon DEF LoadsOfOthers
    <3>3. Finishes(k) \/ Notes(k)
      BY <1>1, <3>2, Zenon DEF Starts, Converts, Breaks, Ready
    <3>4. ASSUME NEW c, Ends(k, c) PROVE tasks'[k].pc \in Still
      BY <3>1, <3>4, Zenon DEF Ends, Move, Restarts
    <3> QED
      BY <3>2, <3>3, <3>4, Zenon DEF Finishes, Notes, Move
  <2>4. phase \in {"withdraw", "closed"} => tasks'[k].pc \in {"none", "dead"}
    <3>1. SUFFICES ASSUME phase \in {"withdraw", "closed"} PROVE tasks'[k].pc \in {"none", "dead"}
      BY Zenon
    <3>2. tasks[k].pc \in {"none", "dead"} /\ LockFree
      BY <3>1, Zenon DEF LoadsOfOthers, RemovalHeld, Closing, LockFree
    <3>3. Finishes(k)
      BY <1>1, <3>2, Zenon DEF Starts, Converts, Breaks, Ready, Notes
    <3>4. Ends(k, TRUE)
      BY <3>2, <3>3, Zenon DEF Finishes
    <3> QED
      BY <3>1, <3>2, <3>4, Zenon DEF Ends, Restarts, Move
  <2>5. LoadsOfOthers'
    BY <1>2, <1>6, <2>3, <2>4, Zenon DEF LoadsOfOthers, TypeInv
  <2> QED
    BY <1>2, <1>3, <1>5, <2>1, <2>2, <2>5, Zenon
<1>7. CASE Ready(k) /\ Publishes(k)
  <2>1. /\ entries' \in [Keys -> EntryRecords] /\ Present' = Present \cup {k} /\ entries'[k].accepting
        /\ \A j \in Keys \ {k} : entries'[j] = entries[j]
    BY <1>7, PublishedFacts, Zenon DEF Publishes
  <2>2. ~Closing /\ k \notin readyKeys /\ readyKeys' = readyKeys \cup {k} /\ LockFree
    BY <1>7, Zenon DEF Publishes, Publishable, Ready
  <2>3. removal.keys = {} /\ removal.left = {}
    BY <2>2, Zenon DEF LockFree, NoRemoval
  <2>4. phase \in {"open", "shutdown"}
    BY <2>2, Zenon DEF Closing, TypeInv
  <2>5. TableHeld'
    BY <1>2, <2>1, <2>2, <2>4, Zenon DEF TableHeld
  <2>6. RemovalHeld'
    <3>1. removal' = NoRemoval /\ removal'.keys = {} /\ removal'.left = {}
      BY <1>2, <2>2, <2>3, Zenon DEF LockFree
    <3>2. \A j \in Present' : entries'[j].accepting
      BY <2>1, <2>2, <2>3, Zenon DEF RemovalHeld, Present
    <3> QED
      BY <3>1, <3>2, Zenon DEF RemovalHeld
  <2>7. tasks'[k].pc = "published"
    BY <1>7, Zenon DEF Ready, Move
  <2>8. LoadsOfOthers'
    BY <1>2, <2>2, <2>4, <2>7, Zenon DEF LoadsOfOthers, TypeInv
  <2> QED
    BY <1>2, <1>3, <1>5, <2>1, <2>5, <2>6, <2>8, Zenon
<1> QED
  BY <1>4, <1>6, <1>7, Zenon

(* What the other steps keep besides the counts. *)
Kept ==
    /\ generation' \in 0 .. MaxGeneration /\ targets' \subseteq Keys /\ readyKeys' \subseteq Keys
    /\ states' \in [Keys -> {"none", "READY", "FAILED", "FULL", "REMOVED"}]
    /\ tasks' \in [Keys -> TaskRecords] /\ entries' \in [Keys -> EntryRecords]
    /\ leases' \in [Users -> SUBSET Keys] /\ removal' \in [keys : SUBSET Keys, left : SUBSET Keys]
    /\ phase' \in {"open", "shutdown", "loads", "withdraw", "closed"} /\ fatal' \in BOOLEAN
    /\ TableHeld' /\ RemovalHeld' /\ LoadsOfOthers'

(* A removal that runs, or none. *)
LEMMA RemovalFacts ==
    ASSUME TypeInv, TableHeld, RemovalHeld
    PROVE  /\ NoRemoval.keys = {} /\ NoRemoval.left = {}
           /\ NoRemoval \in [keys : SUBSET Keys, left : SUBSET Keys]
           /\ LockFree => removal.keys = {} /\ removal.left = {}
           /\ LockFree /\ ~Closing => \A k \in Present : entries[k].accepting
           /\ ~Closing => Present = readyKeys
<1>1. NoRemoval.keys = {} /\ NoRemoval.left = {} /\ NoRemoval \in [keys : SUBSET Keys, left : SUBSET Keys]
  BY Zenon DEF NoRemoval
<1>2. LockFree => removal.keys = {} /\ removal.left = {}
  BY <1>1, Zenon DEF LockFree
<1>3. ~Closing => Present = readyKeys
  BY Zenon DEF Closing, TableHeld
<1> QED
  BY <1>1, <1>2, <1>3, Zenon DEF RemovalHeld

(* Placements, shutdown and the first steps of close. *)
LEMMA PlacementKept ==
    ASSUME ManagerAssumption, TypeInv, TableHeld, RemovalHeld, LoadsOfOthers,
           \/ \E list \in SUBSET Keys : ApplyTargets(list)
           \/ BeginShutdown \/ Close \/ LoadsEnded \/ UNCHANGED vars
    PROVE  Kept
<1>1. UNCHANGED <<readyKeys, entries, leases, removal, fatal>>
  BY Zenon DEF ApplyTargets, BeginShutdown, Close, LoadsEnded, vars
<1>2. /\ readyKeys' \subseteq Keys /\ entries' \in [Keys -> EntryRecords]
      /\ leases' \in [Users -> SUBSET Keys] /\ removal' \in [keys : SUBSET Keys, left : SUBSET Keys]
      /\ fatal' \in BOOLEAN
  BY <1>1, Zenon DEF TypeInv
<1>3. /\ generation' \in 0 .. MaxGeneration /\ targets' \subseteq Keys
      /\ states' \in [Keys -> {"none", "READY", "FAILED", "FULL", "REMOVED"}]
      /\ tasks' \in [Keys -> TaskRecords]
      /\ \A k \in Keys : tasks'[k].pc = tasks[k].pc \/ Launched(k)
  <2>1. ASSUME NEW list \in SUBSET Keys, ApplyTargets(list)
        PROVE  /\ generation' \in 0 .. MaxGeneration /\ targets' \subseteq Keys
               /\ states' \in [Keys -> {"none", "READY", "FAILED", "FULL", "REMOVED"}]
               /\ tasks' \in [Keys -> TaskRecords]
               /\ \A k \in Keys : tasks'[k].pc = tasks[k].pc \/ Launched(k)
    <3>1. generation' \in 0 .. MaxGeneration /\ targets' \subseteq Keys
      BY <2>1 DEF ApplyTargets, TypeInv, ManagerAssumption
    <3> QED
      BY <2>1, <3>1, ApplyFacts, Zenon DEF CancelSet
  <2>2. CASE BeginShutdown \/ Close
    BY <2>2, CancelAll, Zenon DEF BeginShutdown, Close, CancelSet, TypeInv
  <2>3. CASE LoadsEnded \/ UNCHANGED vars
    BY <2>3, Zenon DEF LoadsEnded, vars, TypeInv
  <2> QED
    BY <2>1, <2>2, <2>3, Zenon
<1>4. /\ phase' \in {"open", "shutdown", "loads", "withdraw", "closed"}
      /\ phase \in {"loads", "withdraw", "closed"} => Closing'
      /\ Closing' => Closing \/ LockFree
      /\ phase' \in {"withdraw", "closed"} => phase' = phase \/ \A k \in Keys : tasks[k].pc \in {"none", "dead"}
      /\ phase \in {"withdraw", "closed"} => phase' = phase
      /\ phase' \in {"withdraw", "closed"} => phase # "open"
      /\ phase' = "closed" => phase = "closed"
  BY Zenon DEF ApplyTargets, BeginShutdown, Close, LoadsEnded, vars, Closing, TypeInv
<1>5. TableHeld'
  BY <1>1, <1>4, Zenon DEF TableHeld, Present
<1>6. RemovalHeld'
  BY <1>1, <1>4, Zenon DEF RemovalHeld, Present, Closing, LockFree
<1>7. LoadsOfOthers'
  BY <1>1, <1>3, <1>4, Zenon DEF LoadsOfOthers, Launched, TypeInv
<1> QED
  BY <1>2, <1>3, <1>4, <1>5, <1>6, <1>7, Zenon DEF Kept

(* The users of weights, the removals and the rest of close. *)
LEMMA TableKept ==
    ASSUME ManagerAssumption, TypeInv, TableHeld, RemovalHeld, LoadsOfOthers,
           \/ \E u \in Users, keys \in SUBSET Keys : AcquireMany(u, keys)
           \/ \E u \in Users : Release(u)
           \/ \E keys \in SUBSET Keys : RemoveAfterDrain(keys)
           \/ \E k \in Keys : FinishWithdrawal(k) \/ CloseBegins(k) \/ CloseFinishes(k)
           \/ Closed
    PROVE  Kept
<1>0. UNCHANGED <<generation, targets, tasks, fatal>>
  BY Zenon DEF AcquireMany, Release, RemoveAfterDrain, FinishWithdrawal, CloseBegins, CloseFinishes, Closed
<1>a. ASSUME entries' \in [Keys -> EntryRecords], leases' \in [Users -> SUBSET Keys],
             readyKeys' \subseteq readyKeys,
             states' \in [Keys -> {"none", "READY", "FAILED", "FULL", "REMOVED"}],
             removal' \in [keys : SUBSET Keys, left : SUBSET Keys],
             phase' = phase \/ (phase = "withdraw" /\ phase' = "closed"), TableHeld', RemovalHeld'
      PROVE  Kept
  <2>1. LoadsOfOthers'
    BY <1>0, <1>a, Zenon DEF LoadsOfOthers
  <2> QED
    BY <1>0, <1>a, <2>1, Zenon DEF Kept, TypeInv
<1>b. SamePresence => Present' = Present
  BY Zenon DEF SamePresence, Present
<1>1. ASSUME entries' \in [Keys -> EntryRecords], leases' \in [Users -> SUBSET Keys], SamePresence,
             \A k \in Keys : entries'[k].accepting = entries[k].accepting,
             UNCHANGED <<readyKeys, states, removal, phase>>
      PROVE  Kept
  <2>1. TableHeld' /\ RemovalHeld'
    BY <1>b, <1>1, Zenon DEF TableHeld, RemovalHeld, Present, Closing
  <2> QED
    BY <1>a, <1>1, <2>1, Zenon DEF TypeInv
<1>2. ASSUME NEW u \in Users, NEW keys \in SUBSET Keys, AcquireMany(u, keys) PROVE Kept
  BY <1>1, <1>2, AcquireFacts, Zenon DEF AcquireMany
<1>3. ASSUME NEW u \in Users, Release(u) PROVE Kept
  BY <1>1, <1>3, ReleaseFacts, Zenon DEF Release
<1>4. ASSUME NEW keys \in SUBSET Keys, RemoveAfterDrain(keys) PROVE Kept
  <2> DEFINE withdrawn == keys \cap readyKeys
             rem == [keys |-> keys, left |-> withdrawn]
  <2>1. /\ entries' = Withdrawing(withdrawn)
        /\ removal' = IF withdrawn = {} THEN NoRemoval ELSE rem
        /\ states' = IF withdrawn = {} THEN Removed(keys) ELSE states
        /\ LockFree /\ ~Closing /\ UNCHANGED <<readyKeys, leases, phase>>
    BY <1>4, Zenon DEF RemoveAfterDrain
  <2>2. /\ entries' \in [Keys -> EntryRecords] /\ SamePresence
        /\ \A k \in Keys : entries'[k].accepting <=> entries[k].accepting /\ k \notin withdrawn
    BY <2>1, WithdrawingFacts, Zenon
  <2>3. rem.keys = keys /\ rem.left = withdrawn /\ rem \in [keys : SUBSET Keys, left : SUBSET Keys]
    BY Zenon DEF TypeInv
  <2>4. states' \in [Keys -> {"none", "READY", "FAILED", "FULL", "REMOVED"}]
    BY <2>1, Zenon DEF Removed, TypeInv
  <2> HIDE DEF rem
  <2>5. /\ removal' \in [keys : SUBSET Keys, left : SUBSET Keys] /\ removal'.left = withdrawn
        /\ removal'.left = removal'.keys \cap readyKeys /\ (removal'.left = {} => removal' = NoRemoval)
    BY <2>1, <2>3, RemovalFacts, Zenon DEF withdrawn
  <2>6. TableHeld'
    BY <1>b, <2>1, <2>2, Zenon DEF TableHeld
  <2>7. \A k \in Present : entries[k].accepting
    BY <2>1, RemovalFacts, Zenon
  <2>8. RemovalHeld'
    BY <1>b, <2>1, <2>2, <2>5, <2>7, Zenon DEF RemovalHeld, Closing, Present
  <2> QED
    BY <1>a, <2>1, <2>2, <2>4, <2>5, <2>6, <2>8, Zenon DEF TypeInv
<1>5. ASSUME NEW k \in Keys, FinishWithdrawal(k) PROVE Kept
  <2> DEFINE left == removal.left \ {k}
             rem == [removal EXCEPT !.left = left]
  <2>1. /\ k \in removal.left /\ entries' = [entries EXCEPT ![k] = NoEntry] /\ readyKeys' = readyKeys \ {k}
        /\ removal' = IF left = {} THEN NoRemoval ELSE rem
        /\ states' = IF left = {} THEN Removed(removal.keys) ELSE states
        /\ UNCHANGED <<leases, phase>>
    BY <1>5, Zenon DEF FinishWithdrawal
  <2>2. /\ entries' \in [Keys -> EntryRecords] /\ Present' = Present \ {k}
        /\ \A j \in Keys \ {k} : entries'[j] = entries[j]
    BY <2>1, WithdrawnFacts, Zenon
  <2>3. rem.keys = removal.keys /\ rem.left = left /\ rem \in [keys : SUBSET Keys, left : SUBSET Keys]
    BY Zenon DEF TypeInv
  <2>4. states' \in [Keys -> {"none", "READY", "FAILED", "FULL", "REMOVED"}]
    BY <2>1, Zenon DEF Removed, TypeInv
  <2> HIDE DEF rem
  <2>5. removal.left = removal.keys \cap readyKeys /\ ~Closing
    BY <2>1, WithdrawnPresent, Zenon DEF RemovalHeld
  <2>6. /\ removal' \in [keys : SUBSET Keys, left : SUBSET Keys] /\ removal'.left = left
        /\ removal'.left = removal'.keys \cap readyKeys' /\ (removal'.left = {} => removal' = NoRemoval)
    BY <2>1, <2>3, <2>5, RemovalFacts, Zenon DEF left
  <2>7. TableHeld'
    BY <2>1, <2>2, Zenon DEF TableHeld
  <2>8. \A j \in Present' : ~entries'[j].accepting <=> j \in left
    BY <2>2, <2>5, Zenon DEF RemovalHeld, Present
  <2>9. RemovalHeld'
    BY <2>1, <2>5, <2>6, <2>8, Zenon DEF RemovalHeld, Closing
  <2> QED
    BY <1>a, <2>1, <2>2, <2>4, <2>6, <2>7, <2>9, Zenon DEF TypeInv
<1>6. ASSUME NEW k \in Keys, CloseBegins(k) \/ CloseFinishes(k) PROVE Kept
  <2>1. phase = "withdraw" /\ UNCHANGED <<readyKeys, states, leases, removal, phase>>
    BY <1>6, Zenon DEF CloseBegins, CloseFinishes
  <2>2. entries' \in [Keys -> EntryRecords] /\ Present' \subseteq Present
    BY <1>b, <1>6, WithdrawingFacts, WithdrawnFacts, Zenon DEF CloseBegins, CloseFinishes
  <2>3. TableHeld' /\ RemovalHeld'
    BY <2>1, <2>2, Zenon DEF TableHeld, RemovalHeld, Closing
  <2> QED
    BY <1>a, <2>1, <2>2, <2>3, Zenon DEF TypeInv
<1>7. CASE Closed
  <2>1. phase = "withdraw" /\ phase' = "closed" /\ readyKeys' = {} /\ UNCHANGED <<entries, states, leases, removal>>
    BY <1>7, Zenon DEF Closed
  <2>2. Present' = {}
    BY <1>7, Zenon DEF Closed, Present
  <2>3. removal = NoRemoval
    BY <2>1, Zenon DEF RemovalHeld, Closing
  <2>4. TableHeld' /\ RemovalHeld'
    BY <2>1, <2>2, <2>3, RemovalFacts, Zenon DEF TableHeld, RemovalHeld, Closing
  <2> QED
    BY <1>a, <2>1, <2>4, Zenon DEF TypeInv
<1> QED
  BY <1>2, <1>3, <1>4, <1>5, <1>6, <1>7, Zenon

(* An entry that nobody holds is made or taken out. *)
LEMMA RetainedOthers ==
    ASSUME ManagerAssumption, TypeInv, Retained, UNCHANGED leases, NEW k \in Keys, Holders(k) = {},
           entries'[k].use = 0, \A j \in Keys \ {k} : entries'[j] = entries[j]
    PROVE  Retained'
<1>1. \A j \in Keys : (Holders(j))' = Holders(j)
  BY Zenon DEF Holders
<1>2. Cardinality(Holders(k)) = 0
  BY FS_EmptySet, Zenon
<1> QED
  BY <1>1, <1>2, Zenon DEF Retained

(* A weight is in the table with the number of its holders. *)
LEMMA RetainedStep ==
    ASSUME ManagerAssumption, TypeInv, TableHeld, RemovalHeld, Retained, [Next]_vars
    PROVE  Retained'
<1>1. ASSUME UNCHANGED leases, SamePresence, SameUse PROVE Retained'
  <2>1. \A j \in Keys : (Holders(j))' = Holders(j)
    BY <1>1, Zenon DEF Holders
  <2> QED
    BY <1>1, <2>1, Zenon DEF Retained, SamePresence, SameUse
<1>2. ASSUME UNCHANGED <<leases, entries>> PROVE Retained'
  BY <1>1, <1>2, Zenon DEF SamePresence, SameUse
<1>3. ASSUME NEW k \in Keys, Unused(k) PROVE Holders(k) = {}
  <2>1. Cardinality(Holders(k)) = 0 /\ IsFiniteSet(Holders(k))
    BY <1>3, SetsFinite, Zenon DEF Retained, Unused
  <2> QED
    BY <2>1, FS_EmptySet, Zenon
<1>4. ASSUME NEW k \in Keys, Load(k) PROVE Retained'
  <2>1. UNCHANGED <<leases, entries>> \/ (Ready(k) /\ Publishes(k))
    BY <1>4, LoadMoves, Zenon DEF Starts, Converts, Breaks, Finishes, Notes, Ready, GivesBack, Quiet, KeepTable
  <2>2. CASE Ready(k) /\ Publishes(k)
    <3>1. k \notin Present
      BY <2>2, Zenon DEF Publishes, Publishable, TableHeld
    <3>2. Holders(k) = {}
      BY <3>1, Zenon DEF Retained, Present
    <3>3. entries'[k].use = 0 /\ \A j \in Keys \ {k} : entries'[j] = entries[j]
      BY <2>2, PublishedFacts, Zenon DEF Publishes
    <3> QED
      BY <2>2, <3>2, <3>3, RetainedOthers, Zenon DEF Ready
  <2> QED
    BY <1>2, <2>1, <2>2, Zenon
<1>5. ASSUME NEW u \in Users, NEW keys \in SUBSET Keys, AcquireMany(u, keys) PROVE Retained'
  <2>1. SUFFICES ASSUME NEW k \in Keys
                 PROVE  /\ entries'[k].use = Cardinality((Holders(k))')
                        /\ (Holders(k))' # {} => entries'[k].present
    BY Zenon DEF Retained
  <2>2. /\ k \in keys => entries[k].present /\ entries'[k].use = entries[k].use + 1
        /\ k \notin keys => entries'[k].use = entries[k].use
        /\ leases[u] = {} /\ leases'[u] = keys /\ \A v \in Users \ {u} : leases'[v] = leases[v]
        /\ entries'[k].present = entries[k].present
    BY <1>5, AcquireFacts DEF SamePresence
  <2>3. IsFiniteSet(Holders(k)) /\ u \notin Holders(k)
    BY <2>2, SetsFinite, Zenon DEF Holders
  <2>4. CASE k \in keys
    <3>1. (Holders(k))' = Holders(k) \cup {u}
      BY <2>2, <2>4, Zenon DEF Holders
    <3>2. Cardinality(Holders(k) \cup {u}) = Cardinality(Holders(k)) + 1
      BY <2>3, FS_AddElement, Zenon
    <3> QED
      BY <2>2, <2>4, <3>1, <3>2, Zenon DEF Retained
  <2>5. CASE k \notin keys
    <3>1. (Holders(k))' = Holders(k)
      BY <2>2, <2>5, Zenon DEF Holders
    <3> QED
      BY <2>2, <2>5, <3>1, Zenon DEF Retained
  <2> QED
    BY <2>4, <2>5, Zenon
<1>6. ASSUME NEW u \in Users, Release(u) PROVE Retained'
  <2>1. SUFFICES ASSUME NEW k \in Keys
                 PROVE  /\ entries'[k].use = Cardinality((Holders(k))')
                        /\ (Holders(k))' # {} => entries'[k].present
    BY Zenon DEF Retained
  <2>2. /\ k \in leases[u] => entries'[k].use = entries[k].use - 1
        /\ k \notin leases[u] => entries'[k].use = entries[k].use
        /\ leases'[u] = {} /\ \A v \in Users \ {u} : leases'[v] = leases[v]
        /\ entries'[k].present = entries[k].present
    BY <1>6, ReleaseFacts, Zenon DEF SamePresence
  <2>3. IsFiniteSet(Holders(k))
    BY SetsFinite, Zenon
  <2>4. CASE k \in leases[u]
    <3>1. (Holders(k))' = Holders(k) \ {u} /\ u \in Holders(k)
      BY <2>2, <2>4, Zenon DEF Holders
    <3>2. Cardinality(Holders(k) \ {u}) = Cardinality(Holders(k)) - 1
      BY <2>3, <3>1, FS_RemoveElement, Zenon
    <3>3. Holders(k) # {}
      BY <3>1, Zenon
    <3> QED
      BY <2>2, <2>4, <3>1, <3>2, <3>3, Zenon DEF Retained
  <2>5. CASE k \notin leases[u]
    <3>1. (Holders(k))' = Holders(k)
      BY <2>2, <2>5, Zenon DEF Holders
    <3> QED
      BY <2>2, <2>5, <3>1, Zenon DEF Retained
  <2> QED
    BY <2>4, <2>5, Zenon
<1>7. ASSUME NEW k \in Keys, FinishWithdrawal(k) \/ CloseFinishes(k) PROVE Retained'
  <2>1. entries' = [entries EXCEPT ![k] = NoEntry] /\ UNCHANGED leases /\ Holders(k) = {}
    BY <1>3, <1>7, Zenon DEF FinishWithdrawal, CloseFinishes
  <2>2. entries'[k].use = 0 /\ \A j \in Keys \ {k} : entries'[j] = entries[j]
    BY <2>1, WithdrawnFacts, Zenon
  <2> QED
    BY <2>1, <2>2, RetainedOthers, Zenon
<1>8. ASSUME NEW keys, entries' = Withdrawing(keys), UNCHANGED leases PROVE Retained'
  BY <1>1, <1>8, WithdrawingFacts, Zenon
<1>9. ASSUME NEW keys \in SUBSET Keys, RemoveAfterDrain(keys) PROVE Retained'
  BY <1>8, <1>9, Zenon DEF RemoveAfterDrain
<1>10. ASSUME NEW k \in Keys, CloseBegins(k) PROVE Retained'
  BY <1>8, <1>10, Zenon DEF CloseBegins
<1>11. ASSUME NEW list \in SUBSET Keys, ApplyTargets(list) PROVE Retained'
  BY <1>2, <1>11, Zenon DEF ApplyTargets
<1>12. CASE BeginShutdown \/ Close \/ LoadsEnded \/ Closed \/ UNCHANGED vars
  BY <1>2, <1>12, Zenon DEF BeginShutdown, Close, LoadsEnded, Closed, vars
<1> QED
  BY <1>4, <1>5, <1>6, <1>7, <1>9, <1>10, <1>11, <1>12, Zenon DEF Next

(* The invariant of device memory is inductive. *)
LEMMA DeviceNext ==
    ASSUME ManagerAssumption, DeviceInv, [Next]_vars
    PROVE  DeviceInv'
<1>0. TypeInv /\ TableHeld /\ RemovalHeld /\ LoadsOfOthers /\ Counted /\ Retained
  BY Zenon DEF DeviceInv
<1>1. Kept
  <2>1. ASSUME NEW k \in Keys, Load(k) PROVE Kept
    <3>1. readyKeys' \subseteq Keys
      BY <1>0, <2>1, LoadMoves, Zenon DEF Starts, Converts, Breaks, Finishes, Notes, Ready, Publishes, GivesBack,
                                 Quiet, KeepTable, TypeInv
    <3> QED
      BY <1>0, <2>1, <3>1, LoadTable, Zenon DEF Kept, TypeInv
  <2> QED
    BY <1>0, <2>1, PlacementKept, TableKept, Zenon DEF Next
<1>2. DeviceStep
  BY <1>0, DeviceSteps, Zenon
<1>3. Cardinality(targets') =< Capacity
  <2>1. ASSUME NEW list \in SUBSET Keys, ApplyTargets(list) PROVE Cardinality(targets') =< Capacity
    BY <2>1, Zenon DEF ApplyTargets, ValidTargets
  <2>2. ASSUME UNCHANGED targets PROVE Cardinality(targets') =< Capacity
    BY <1>0, <2>2, Zenon DEF Counted
  <2>3. ASSUME NEW k \in Keys, Load(k) PROVE UNCHANGED targets
    BY <1>0, <2>3, LoadTable, Zenon
  <2>4. \/ UNCHANGED targets \/ (\E list \in SUBSET Keys : ApplyTargets(list)) \/ (\E k \in Keys : Load(k))
    BY Zenon DEF Next, BeginShutdown, AcquireMany, Release, RemoveAfterDrain, FinishWithdrawal,
                 CloseBegins, CloseFinishes, Close, LoadsEnded, Closed, vars
  <2> QED
    BY <2>1, <2>2, <2>3, <2>4, Zenon
<1>4. slots' \in Int /\ loaded' \in Int /\ Counted'
  BY <1>0, <1>2, <1>3, CountedStep, Zenon
<1>5. Retained'
  BY <1>0, RetainedStep, Zenon
<1> QED
  BY <1>1, <1>4, <1>5, Zenon DEF DeviceInv, TypeInv, Kept
-----------------------------------------------------------------------------
(* What the Controller is told. *)

(* Once shutdown began, the loads that are not past their conversion stay cancelled. *)
LEMMA CancellingStep ==
    ASSUME ManagerAssumption, DeviceInv, Cancelling, [Next]_vars
    PROVE  Cancelling'
<1>0. TypeInv /\ TableHeld /\ RemovalHeld /\ LoadsOfOthers
  BY Zenon DEF DeviceInv
<1> DEFINE Stays(k) == /\ tasks'[k].pc \in {"limit", "target", "fetch"} => tasks'[k].cancel
                       /\ tasks'[k].pc = "convert" => tasks'[k].cancel \/ tasks'[k].cancelled
<1>1. ASSUME NEW list \in SUBSET Keys, ApplyTargets(list) PROVE Cancelling'
  <2>1. SUFFICES ASSUME phase # "open", NEW k \in Keys PROVE Stays(k)
    BY <1>1, Zenon DEF Cancelling, ApplyTargets
  <2>2. CancelSet(k) \/ tasks'[k] = tasks[k]
    BY <1>0, <1>1, <2>1, ApplyFacts, Zenon DEF Launched
  <2> QED
    BY <2>1, <2>2, Zenon DEF Cancelling, CancelSet
<1>2. CASE BeginShutdown \/ Close
  <2>1. \A k \in Keys : CancelSet(k)
    BY <1>0, <1>2, CancelAll, Zenon DEF BeginShutdown, Close
  <2> QED
    BY <2>1, Zenon DEF Cancelling, CancelSet
<1>3. ASSUME NEW k \in Keys, Load(k) PROVE Cancelling'
  <2>1. phase' = phase /\ \A j \in Keys \ {k} : tasks'[j] = tasks[j]
    BY <1>0, <1>3, LoadTable, Zenon
  <2>2. SUFFICES ASSUME phase # "open" PROVE Stays(k)
    BY <2>1, Zenon DEF Cancelling
  <2>3. /\ tasks[k].pc \in {"limit", "target", "fetch"} => tasks[k].cancel
        /\ tasks[k].pc = "convert" => tasks[k].cancel \/ tasks[k].cancelled
    BY <2>2, Zenon DEF Cancelling
  <2>4. Breaks(k) \/ Finishes(k) \/ Notes(k) \/ Ready(k)
    BY <1>0, <1>3, <2>3, LoadMoves, Zenon DEF Starts, Converts
  <2>5. ASSUME NEW c, Ends(k, c) PROVE tasks'[k].pc \in {"end", "none"}
    BY <2>2, <2>5, Zenon DEF Ends, Restarts, Move
  <2>6. CASE Breaks(k) \/ Finishes(k)
    <3>1. tasks'[k].pc \in {"end", "none", "fail", "fatal"}
      BY <2>5, <2>6, Zenon DEF Breaks, Finishes, Move
    <3> QED
      BY <3>1, Zenon
  <2>7. CASE Notes(k) \/ Ready(k)
    BY <2>7, Zenon DEF Notes, Ready, Move
  <2> QED
    BY <2>4, <2>6, <2>7, Zenon
<1>4. ASSUME tasks' = tasks, phase # "open" \/ phase' = phase PROVE Cancelling'
  BY <1>4, Zenon DEF Cancelling
<1>5. ASSUME NEW u \in Users, NEW keys \in SUBSET Keys, AcquireMany(u, keys) \/ Release(u)
      PROVE  Cancelling'
  BY <1>4, <1>5, Zenon DEF AcquireMany, Release
<1>6. ASSUME NEW k \in Keys, FinishWithdrawal(k) \/ CloseBegins(k) \/ CloseFinishes(k) PROVE Cancelling'
  BY <1>4, <1>6, Zenon DEF FinishWithdrawal, CloseBegins, CloseFinishes
<1>7. CASE LoadsEnded \/ Closed \/ UNCHANGED vars
  <2>1. tasks' = tasks /\ (phase # "open" \/ phase' = phase)
    BY <1>7, Zenon DEF LoadsEnded, Closed, vars
  <2> QED
    BY <1>4, <2>1, Zenon
<1>8. ASSUME NEW keys \in SUBSET Keys, RemoveAfterDrain(keys) PROVE Cancelling'
  BY <1>4, <1>8, Zenon DEF RemoveAfterDrain
<1> QED
  BY <1>1, <1>2, <1>3, <1>5, <1>6, <1>7, <1>8, Zenon DEF Next

(* Once shutdown began and no load is about to publish, none ever is. *)
LEMMA NoneToPublishStep ==
    ASSUME ManagerAssumption, DeviceInv, Cancelling, [Next]_vars, NoneToPublish
    PROVE  NoneToPublish'
<1>0. TypeInv /\ TableHeld /\ RemovalHeld /\ LoadsOfOthers
  BY Zenon DEF DeviceInv
<1>a. phase # "open" /\ \A k \in Keys : tasks[k].pc # "publish"
  BY Zenon DEF NoneToPublish
<1>1. ASSUME NEW list \in SUBSET Keys, ApplyTargets(list) PROVE NoneToPublish'
  <2>1. phase' = phase /\ \A k \in Keys : CancelSet(k) \/ tasks'[k] = tasks[k] \/ Launched(k)
    BY <1>0, <1>1, ApplyFacts, Zenon DEF ApplyTargets
  <2> QED
    BY <1>a, <2>1, Zenon DEF NoneToPublish, CancelSet, Launched
<1>2. CASE BeginShutdown \/ Close
  <2>1. \A k \in Keys : CancelSet(k)
    BY <1>0, <1>2, CancelAll, Zenon DEF BeginShutdown, Close
  <2> QED
    BY <1>a, <1>2, <2>1, Zenon DEF NoneToPublish, CancelSet, BeginShutdown, Close
<1>3. ASSUME NEW k \in Keys, Load(k) PROVE NoneToPublish'
  <2>1. phase' = phase /\ \A j \in Keys \ {k} : tasks'[j] = tasks[j]
    BY <1>0, <1>3, LoadTable, Zenon
  <2>2. tasks[k].pc = "convert" => tasks[k].cancel \/ tasks[k].cancelled
    BY <1>a, Zenon DEF Cancelling
  <2>3. ASSUME NEW c, Ends(k, c) PROVE tasks'[k].pc # "publish"
    BY <2>3, Zenon DEF Ends, Move
  <2>4. tasks'[k].pc # "publish"
    <3>1. CASE Starts(k) \/ Converts(k)
      BY <2>2, <3>1, Zenon DEF Starts, Converts, Move
    <3>2. CASE Breaks(k) \/ Finishes(k)
      BY <2>3, <3>2, Zenon DEF Breaks, Finishes, Move
    <3>3. CASE Notes(k) \/ Ready(k)
      BY <1>a, <3>3, Zenon DEF Notes, Ready, Move
    <3> QED
      BY <1>0, <1>3, <3>1, <3>2, <3>3, LoadMoves, Zenon
  <2> QED
    BY <1>a, <2>1, <2>4, Zenon DEF NoneToPublish
<1>4. ASSUME tasks' = tasks, phase' # "open" PROVE NoneToPublish'
  BY <1>a, <1>4, Zenon DEF NoneToPublish
<1>5. ASSUME NEW u \in Users, NEW keys \in SUBSET Keys, AcquireMany(u, keys) \/ Release(u)
      PROVE  NoneToPublish'
  BY <1>a, <1>4, <1>5, Zenon DEF AcquireMany, Release
<1>6. ASSUME NEW k \in Keys, FinishWithdrawal(k) \/ CloseBegins(k) \/ CloseFinishes(k) PROVE NoneToPublish'
  BY <1>a, <1>4, <1>6, Zenon DEF FinishWithdrawal, CloseBegins, CloseFinishes
<1>7. CASE LoadsEnded \/ Closed \/ UNCHANGED vars
  <2>1. tasks' = tasks /\ phase' # "open"
    BY <1>a, <1>7, Zenon DEF LoadsEnded, Closed, vars
  <2> QED
    BY <1>4, <2>1, Zenon
<1>8. ASSUME NEW keys \in SUBSET Keys, RemoveAfterDrain(keys) PROVE NoneToPublish'
  BY <1>a, <1>4, <1>8, Zenon DEF RemoveAfterDrain
<1> QED
  BY <1>1, <1>2, <1>3, <1>5, <1>6, <1>7, <1>8, Zenon DEF Next

(* What a load reports of its expert, and what it leaves of the table. *)
LEMMA LoadStates ==
    ASSUME ManagerAssumption, TypeInv, LoadsOfOthers, NEW k \in Keys, Load(k)
    PROVE  \/ states'[k] = states[k] /\ entries' = entries
           \/ k \notin readyKeys /\ states'[k] \in {"none", "FAILED"} /\ entries' = entries
           \/ /\ k \in targets \ readyKeys /\ ~Closing /\ loaded >= Capacity
              /\ states'[k] = "FULL" /\ entries' = entries
           \/ /\ k \in targets /\ ~Closing /\ tasks[k].pc = "publish" /\ LockFree
              /\ states'[k] = "READY" /\ entries'[k].present /\ entries'[k].accepting
<1>1. ASSUME NEW c, Ends(k, c) PROVE states'[k] = states[k] \/ (k \notin readyKeys /\ states'[k] = "none")
  BY <1>1, Zenon DEF Ends, Restarts, States
<1>2. CASE Starts(k) \/ Converts(k) \/ Notes(k)
  BY <1>2, Zenon DEF Starts, Converts, Notes, Quiet, KeepTable
<1>3. CASE Breaks(k)
  <2>1. entries' = entries
    BY <1>3, Zenon DEF Breaks, KeepTable
  <2>2. tasks[k].pc \in {"fetch", "convert", "fail", "fatal"}
    BY <1>3, Zenon DEF Breaks
  <2>3. k \notin readyKeys
    BY <2>2, Zenon DEF LoadsOfOthers
  <2>4. states'[k] = states[k] \/ states'[k] = "FAILED"
    BY <1>3, Zenon DEF Breaks, States
  <2> QED
    BY <2>1, <2>3, <2>4, Zenon
<1>4. CASE Finishes(k)
  <2>1. entries' = entries
    BY <1>4, Zenon DEF Finishes, Quiet, KeepTable
  <2>2. states'[k] = states[k] \/ (k \notin readyKeys /\ states'[k] = "none")
    BY <1>1, <1>4, Zenon DEF Finishes
  <2> QED
    BY <2>1, <2>2, Zenon
<1>5. CASE Ready(k) /\ Publishes(k)
  <2>1. entries'[k] = NewEntry
    BY <1>5, Zenon DEF Publishes, TypeInv
  <2> QED
    BY <1>5, <2>1, FreshEntries, Zenon DEF Ready, Publishes, Publishable, States
<1>6. CASE Ready(k) /\ GivesBack(k)
  BY <1>6, Zenon DEF GivesBack, Publishable, States
<1> QED
  BY <1>2, <1>3, <1>4, <1>5, <1>6, LoadMoves, Zenon DEF Ready

(* What a removal reports when it starts: at once if nothing has to be withdrawn. *)
LEMMA RemovalStates ==
    ASSUME TypeInv, TableHeld, RemovalHeld, NEW keys \in SUBSET Keys, RemoveAfterDrain(keys)
    PROVE  \/ /\ keys \cap readyKeys = {} /\ removal'.keys = {}
              /\ \A k \in Keys : IF k \in keys THEN states'[k] = "REMOVED" ELSE states'[k] = states[k]
           \/ removal'.keys = keys /\ states' = states
<1>1. CASE keys \cap readyKeys = {}
  <2>1. states' = Removed(keys) /\ removal' = NoRemoval
    BY <1>1, Zenon DEF RemoveAfterDrain
  <2> QED
    BY <1>1, <2>1, RemovalFacts, Zenon DEF Removed
<1>2. CASE keys \cap readyKeys # {}
  BY <1>2, Zenon DEF RemoveAfterDrain
<1> QED
  BY <1>1, <1>2, Zenon

(* And when one more of its weights is withdrawn: after the last one, all of them. *)
LEMMA WithdrawalStates ==
    ASSUME TypeInv, TableHeld, RemovalHeld, NEW k \in Keys, FinishWithdrawal(k)
    PROVE  \/ /\ removal.left = {k} /\ removal'.keys = {}
              /\ \A j \in Keys : IF j \in removal.keys THEN states'[j] = "REMOVED" ELSE states'[j] = states[j]
           \/ removal'.keys = removal.keys /\ states' = states
<1>1. CASE removal.left \ {k} = {}
  <2>1. states' = Removed(removal.keys) /\ removal' = NoRemoval
    BY <1>1, Zenon DEF FinishWithdrawal
  <2>2. removal.left = {k}
    BY <1>1, Zenon DEF FinishWithdrawal
  <2> QED
    BY <2>1, <2>2, RemovalFacts, Zenon DEF Removed
<1>2. CASE removal.left \ {k} # {}
  <2>1. removal' = [removal EXCEPT !.left = removal.left \ {k}] /\ states' = states
    BY <1>2, Zenon DEF FinishWithdrawal
  <2>2. removal'.keys = removal.keys
    BY <2>1, Zenon DEF TypeInv
  <2> QED
    BY <2>1, <2>2, Zenon
<1> QED
  BY <1>1, <1>2, Zenon

(* A target that is reported REMOVED was given up by the whole Worker. *)
LEMMA RemovedTargetsStep ==
    ASSUME ManagerAssumption, IInv, [Next]_vars
    PROVE  RemovedTargets'
<1>0. /\ DeviceInv /\ TypeInv /\ TableHeld /\ RemovalHeld /\ LoadsOfOthers
      /\ Cancelling /\ RemovedTargets /\ ReportsMatchTable
  BY Zenon DEF DeviceInv, IInv
<1>1. NoneToPublish => NoneToPublish'
  BY <1>0, NoneToPublishStep, Zenon
<1>2. ASSUME NEW list \in SUBSET Keys, ApplyTargets(list) PROVE RemovedTargets'
  <2>1. removal'.keys = {} /\ ~Closing /\ LockFree /\ targets' = list
    BY <1>0, <1>2, RemovalFacts, Zenon DEF ApplyTargets, Serialised, Closing
  <2>2. ASSUME NEW k \in list PROVE states'[k] # "REMOVED"
    <3>1. CASE k \notin readyKeys
      BY <1>0, <1>2, <3>1, ApplyFacts, Zenon
    <3>2. CASE k \in readyKeys
      <4>1. k \in Present /\ entries[k].accepting /\ k \notin removal.keys
        BY <1>0, <2>1, <3>2, RemovalFacts, Zenon
      <4>2. states[k] = "READY"
        BY <1>0, <2>1, <4>1, Zenon DEF ReportsMatchTable, Present
      <4>3. states'[k] = states[k]
        BY <1>0, <1>2, <3>2, ApplyFacts, Zenon
      <4> QED
        BY <4>2, <4>3, Zenon
    <3> QED
      BY <3>1, <3>2, Zenon
  <2> QED
    BY <2>1, <2>2, Zenon DEF RemovedTargets
<1>3. ASSUME NEW k \in Keys, Load(k) PROVE RemovedTargets'
  <2>1. UNCHANGED <<targets, removal, phase>> /\ \A j \in Keys \ {k} : states'[j] = states[j]
    BY <1>0, <1>3, LoadTable, Zenon
  <2>2. states'[k] = "REMOVED" => states[k] = "REMOVED"
    BY <1>0, <1>3, LoadStates, Zenon
  <2> QED
    BY <1>0, <1>1, <2>1, <2>2, Zenon DEF RemovedTargets, Closing, TypeInv
<1>4. ASSUME NEW keys \in SUBSET Keys, RemoveAfterDrain(keys) PROVE RemovedTargets'
  <2>1. UNCHANGED <<targets, phase>> /\ (keys \cap targets # {} => NoneToPublish)
    BY <1>4, Zenon DEF RemoveAfterDrain, NoneToPublish
  <2>2. removal'.keys = {} \/ removal'.keys = keys
    BY <1>0, <1>4, RemovalStates, Zenon
  <2>3. \A k \in targets : states'[k] = "REMOVED" => states[k] = "REMOVED" \/ k \in keys
    BY <1>0, <1>4, RemovalStates, Zenon DEF TypeInv
  <2> QED
    BY <1>0, <1>1, <2>1, <2>2, <2>3, Zenon DEF RemovedTargets, Closing
<1>5. ASSUME NEW k \in Keys, FinishWithdrawal(k) PROVE RemovedTargets'
  <2>1. UNCHANGED <<targets, phase>>
    BY <1>5, Zenon DEF FinishWithdrawal
  <2>2. removal'.keys = {} \/ removal'.keys = removal.keys
    BY <1>0, <1>5, WithdrawalStates, Zenon
  <2>3. \A j \in targets : states'[j] = "REMOVED" => states[j] = "REMOVED" \/ j \in removal.keys
    BY <1>0, <1>5, WithdrawalStates, Zenon DEF TypeInv
  <2> QED
    BY <1>0, <1>1, <2>1, <2>2, <2>3, Zenon DEF RemovedTargets, Closing
<1>6. ASSUME UNCHANGED <<targets, states, removal>>, Closing => Closing' PROVE RemovedTargets'
  BY <1>0, <1>1, <1>6, Zenon DEF RemovedTargets
<1>7. CASE BeginShutdown \/ Close \/ LoadsEnded \/ Closed \/ UNCHANGED vars
  <2>1. UNCHANGED <<targets, states, removal>> /\ (Closing => Closing')
    BY <1>7, Zenon DEF BeginShutdown, Close, LoadsEnded, Closed, vars, Closing
  <2> QED
    BY <1>6, <2>1, Zenon
<1>8. ASSUME NEW u \in Users, NEW keys \in SUBSET Keys, AcquireMany(u, keys) \/ Release(u)
      PROVE  RemovedTargets'
  BY <1>6, <1>8, Zenon DEF AcquireMany, Release, Closing
<1>9. ASSUME NEW k \in Keys, CloseBegins(k) \/ CloseFinishes(k) PROVE RemovedTargets'
  BY <1>6, <1>9, Zenon DEF CloseBegins, CloseFinishes, Closing
<1> QED
  BY <1>2, <1>3, <1>4, <1>5, <1>7, <1>8, <1>9, Zenon DEF Next

(* An expert that is reported READY is served, and only such a one. *)
LEMMA ReportsStep ==
    ASSUME ManagerAssumption, IInv, [Next]_vars
    PROVE  ReportsMatchTable'
<1>0. /\ TypeInv /\ TableHeld /\ RemovalHeld /\ LoadsOfOthers /\ ReportsMatchTable
      /\ removal.left = removal.keys \cap readyKeys
  BY Zenon DEF DeviceInv, IInv, RemovalHeld
<1> DEFINE Served(k) == entries[k].present /\ entries[k].accepting
           ServedNext(k) == entries'[k].present /\ entries'[k].accepting
<1>a. ~Closing => Present = readyKeys
  BY <1>0, RemovalFacts, Zenon
<1>1. ASSUME NEW k \in Keys, k \notin removal.keys, ~Closing PROVE (states[k] = "READY") <=> Served(k)
  BY <1>0, <1>1, Zenon DEF ReportsMatchTable
<1>2. ASSUME NEW list \in SUBSET Keys, ApplyTargets(list) PROVE ReportsMatchTable'
  <2>1. removal'.keys = {} /\ removal.keys = {} /\ ~Closing /\ entries' = entries
    BY <1>0, <1>2, RemovalFacts, Zenon DEF ApplyTargets, Serialised, Closing
  <2>2. ASSUME NEW k \in Keys PROVE (states'[k] = "READY") <=> ServedNext(k)
    <3>1. CASE k \in readyKeys
      BY <1>0, <1>1, <1>2, <2>1, <3>1, ApplyFacts, Zenon
    <3>2. CASE k \notin readyKeys
      <4>1. ~entries[k].present /\ states[k] # "READY"
        BY <1>a, <1>1, <2>1, <3>2, Zenon DEF Present
      <4>2. states'[k] # "READY"
        BY <1>0, <1>2, <3>2, <4>1, ApplyFacts, Zenon
      <4> QED
        BY <2>1, <4>1, <4>2, Zenon
    <3> QED
      BY <3>1, <3>2, Zenon
  <2> QED
    BY <2>2, Zenon DEF ReportsMatchTable
<1>3. ASSUME NEW k \in Keys, Load(k) PROVE ReportsMatchTable'
  <2>1. /\ UNCHANGED <<removal, phase>>
        /\ \A j \in Keys \ {k} : states'[j] = states[j] /\ entries'[j] = entries[j]
    BY <1>0, <1>3, LoadTable, Zenon
  <2>2. SUFFICES ASSUME k \notin removal.keys, ~Closing PROVE (states'[k] = "READY") <=> ServedNext(k)
    BY <1>1, <2>1, Zenon DEF ReportsMatchTable, Closing
  <2>3. (states[k] = "READY") <=> Served(k)
    BY <1>1, <2>2, Zenon
  <2>4. k \notin readyKeys => ~entries[k].present
    BY <1>a, <2>2, Zenon DEF Present
  <2> QED
    BY <1>0, <1>3, <2>3, <2>4, LoadStates, Zenon
<1>4. ASSUME NEW keys \in SUBSET Keys, RemoveAfterDrain(keys) PROVE ReportsMatchTable'
  <2>1. removal.keys = {} /\ ~Closing /\ entries' = Withdrawing(keys \cap readyKeys)
    BY <1>0, <1>4, RemovalFacts, Zenon DEF RemoveAfterDrain
  <2>2. \A k \in Keys : /\ entries'[k].present = entries[k].present
                        /\ entries'[k].accepting <=> entries[k].accepting /\ k \notin keys \cap readyKeys
    BY <1>0, <2>1, WithdrawingFacts, Zenon DEF SamePresence
  <2>3. CASE keys \cap readyKeys = {}
    <3>1. ASSUME NEW k \in Keys PROVE (states'[k] = "READY") <=> ServedNext(k)
      <4>1. CASE k \in keys
        <5>1. ~entries[k].present
          BY <1>a, <2>1, <2>3, <4>1, Zenon DEF Present
        <5>2. states'[k] = "REMOVED"
          BY <1>0, <1>4, <2>3, <4>1, Zenon DEF RemoveAfterDrain, Removed
        <5> QED
          BY <2>2, <5>1, <5>2, Zenon
      <4>2. CASE k \notin keys
        <5>1. states'[k] = states[k]
          BY <1>0, <1>4, <4>2, RemovalStates, Zenon
        <5> QED
          BY <1>1, <2>1, <2>2, <4>2, <5>1, Zenon
      <4> QED
        BY <4>1, <4>2, Zenon
    <3> QED
      BY <3>1, Zenon DEF ReportsMatchTable
  <2>4. CASE keys \cap readyKeys # {}
    <3>1. removal'.keys = keys /\ states' = states
      BY <1>0, <1>4, <2>4, RemovalStates, Zenon
    <3> QED
      BY <1>1, <2>1, <2>2, <3>1, Zenon DEF ReportsMatchTable
  <2> QED
    BY <2>3, <2>4, Zenon
<1>5. ASSUME NEW k \in Keys, FinishWithdrawal(k) PROVE ReportsMatchTable'
  <2>1. k \in removal.keys /\ k \in removal.left /\ ~Closing
    BY <1>0, <1>5, WithdrawnPresent, Zenon DEF FinishWithdrawal
  <2>2. ~entries'[k].present /\ \A j \in Keys \ {k} : entries'[j] = entries[j]
    BY <1>0, <1>5, EntryFacts, FreshEntries, Zenon DEF FinishWithdrawal
  <2>3. CASE removal.left = {k}
    <3>1. ASSUME NEW j \in Keys PROVE (states'[j] = "READY") <=> ServedNext(j)
      <4>1. CASE j \in removal.keys
        <5>1. j = k \/ ~entries[j].present
          BY <1>0, <1>a, <2>1, <2>3, <4>1, Zenon DEF Present
        <5>2. states'[j] = "REMOVED"
          BY <1>0, <1>5, <2>3, <4>1, Zenon DEF FinishWithdrawal, Removed
        <5> QED
          BY <2>2, <5>1, <5>2, Zenon
      <4>2. CASE j \notin removal.keys
        <5>1. states'[j] = states[j]
          BY <1>0, <1>5, <4>2, WithdrawalStates, Zenon
        <5> QED
          BY <1>1, <2>1, <2>2, <4>2, <5>1, Zenon
      <4> QED
        BY <4>1, <4>2, Zenon
    <3> QED
      BY <3>1, Zenon DEF ReportsMatchTable
  <2>4. CASE removal.left # {k}
    <3>1. removal'.keys = removal.keys /\ states' = states
      BY <1>0, <1>5, <2>4, WithdrawalStates, Zenon
    <3> QED
      BY <1>1, <2>1, <2>2, <3>1, Zenon DEF ReportsMatchTable
  <2> QED
    BY <2>3, <2>4, Zenon
<1>6. CASE BeginShutdown \/ Close \/ LoadsEnded \/ Closed \/ UNCHANGED vars
  <2>1. Closing' \/ (~Closing /\ UNCHANGED <<removal, states, entries>>)
    BY <1>6, Zenon DEF BeginShutdown, Close, LoadsEnded, Closed, vars, Closing
  <2> QED
    BY <1>1, <2>1, Zenon DEF ReportsMatchTable
<1>7. ASSUME NEW u \in Users, NEW keys \in SUBSET Keys, AcquireMany(u, keys) \/ Release(u)
      PROVE  ReportsMatchTable'
  <2>1. UNCHANGED <<removal, states, phase>>
    BY <1>7, Zenon DEF AcquireMany, Release
  <2>2. \A k \in Keys : entries'[k].present = entries[k].present /\ entries'[k].accepting = entries[k].accepting
    <3>1. CASE AcquireMany(u, keys)
      BY <1>0, <3>1, AcquireFacts, Zenon DEF SamePresence
    <3>2. CASE Release(u)
      BY <1>0, <3>2, ReleaseFacts, Zenon DEF SamePresence
    <3> QED
      BY <1>7, <3>1, <3>2, Zenon
  <2> QED
    BY <1>1, <2>1, <2>2, Zenon DEF ReportsMatchTable, Closing
<1>8. ASSUME NEW k \in Keys, CloseBegins(k) \/ CloseFinishes(k) PROVE ReportsMatchTable'
  <2>1. Closing'
    BY <1>8, Zenon DEF CloseBegins, CloseFinishes, Closing
  <2> QED
    BY <2>1, Zenon DEF ReportsMatchTable
<1> QED
  BY <1>2, <1>3, <1>4, <1>5, <1>6, <1>7, <1>8, Zenon DEF Next

(* The inductive invariant holds at first. *)
LEMMA InvInit ==
    ASSUME ManagerAssumption, Init
    PROVE  IInv
<1>1. "none" \in Pcs
  BY Zenon DEF Pcs
<1>2. /\ \A k \in Keys : /\ tasks[k] \in TaskRecords /\ tasks[k].pc = "none" /\ states[k] = "none"
                         /\ entries[k] \in EntryRecords /\ ~entries[k].present /\ ~entries[k].accepting
                         /\ entries[k].use = 0
      /\ \A u \in Users : leases[u] = {}
  BY <1>1, FreshTask, FreshEntries, Zenon DEF Init, NoTask
<1>3. TypeInv
  <2>1. tasks \in [Keys -> TaskRecords] /\ entries \in [Keys -> EntryRecords] /\ leases \in [Users -> SUBSET Keys]
    BY <1>2, Zenon DEF Init
  <2>2. removal \in [keys : SUBSET Keys, left : SUBSET Keys]
    BY Zenon DEF Init, NoRemoval
  <2>3. states \in [Keys -> {"none", "READY", "FAILED", "FULL", "REMOVED"}]
    BY Zenon DEF Init
  <2>4. generation \in 0 .. MaxGeneration
    BY DEF Init, ManagerAssumption
  <2>5. targets \subseteq Keys /\ readyKeys \subseteq Keys /\ loaded \in Int /\ slots \in Int
    BY DEF Init
  <2>6. phase \in {"open", "shutdown", "loads", "withdraw", "closed"} /\ fatal \in BOOLEAN
    BY Zenon DEF Init
  <2> QED
    BY <2>1, <2>2, <2>3, <2>4, <2>5, <2>6, Zenon DEF TypeInv
<1>4. Present = {} /\ Making = {} /\ readyKeys = {} /\ targets = {} /\ \A k \in Keys : Holders(k) = {}
  BY <1>2, Zenon DEF Init, Present, Making, Holders
<1>5. removal.keys = {} /\ removal.left = {} /\ removal = NoRemoval /\ phase = "open" /\ ~Closing
  BY Zenon DEF Init, NoRemoval, Closing
<1>6. TableHeld /\ RemovalHeld /\ LoadsOfOthers
  BY <1>2, <1>4, <1>5, Zenon DEF TableHeld, RemovalHeld, LoadsOfOthers
<1>7. Counted /\ Retained
  BY <1>2, <1>4, FS_EmptySet DEF Counted, Retained, Init, ManagerAssumption
<1>8. Cancelling /\ RemovedTargets /\ ReportsMatchTable
  BY <1>2, <1>4, <1>5, Zenon DEF Cancelling, RemovedTargets, ReportsMatchTable
<1> QED
  BY <1>3, <1>6, <1>7, <1>8, Zenon DEF DeviceInv, IInv

(* Every step keeps the inductive invariant. *)
LEMMA InvNext ==
    ASSUME ManagerAssumption, IInv, [Next]_vars
    PROVE  IInv'
<1>1. DeviceInv /\ Cancelling
  BY Zenon DEF IInv
<1> QED
  BY <1>1, DeviceNext, CancellingStep, RemovedTargetsStep, ReportsStep, Zenon DEF IInv

(* The only reports of READY are of targets a load publishes, and those of FULL of targets
   that find Capacity experts ready. *)
LEMMA ReportedStep ==
    ASSUME ManagerAssumption, IInv, [Next]_vars, NEW k \in Keys
    PROVE  \/ states'[k] = states[k]
           \/ states'[k] \in {"none", "FAILED", "REMOVED"}
           \/ states'[k] = "FULL" /\ k \in targets \ readyKeys /\ loaded >= Capacity
           \/ states'[k] = "READY" /\ k \in targets /\ ~Closing /\ tasks[k].pc = "publish"
<1>0. TypeInv /\ TableHeld /\ RemovalHeld /\ LoadsOfOthers
  BY Zenon DEF DeviceInv, IInv
<1>1. ASSUME NEW list \in SUBSET Keys, ApplyTargets(list)
      PROVE  states'[k] = states[k] \/ states'[k] \in {"none", "REMOVED"}
  BY <1>0, <1>1, ApplyFacts, Zenon
<1>2. ASSUME NEW j \in Keys, Load(j), j # k PROVE states'[k] = states[k]
  BY <1>0, <1>2, LoadTable, Zenon
<1>3. CASE Load(k)
  BY <1>0, <1>3, LoadStates, Zenon
<1>4. ASSUME NEW keys \in SUBSET Keys, RemoveAfterDrain(keys)
      PROVE  states'[k] = states[k] \/ states'[k] = "REMOVED"
  BY <1>0, <1>4, RemovalStates, Zenon
<1>5. ASSUME NEW j \in Keys, FinishWithdrawal(j) PROVE states'[k] = states[k] \/ states'[k] = "REMOVED"
  BY <1>0, <1>5, WithdrawalStates, Zenon
<1>6. ASSUME NEW u \in Users, NEW keys \in SUBSET Keys, AcquireMany(u, keys) \/ Release(u)
      PROVE  states'[k] = states[k]
  BY <1>6, Zenon DEF AcquireMany, Release
<1>7. ASSUME NEW j \in Keys, CloseBegins(j) \/ CloseFinishes(j) PROVE states'[k] = states[k]
  BY <1>7, Zenon DEF CloseBegins, CloseFinishes
<1>8. CASE BeginShutdown \/ Close \/ LoadsEnded \/ Closed \/ UNCHANGED vars
  BY <1>8, Zenon DEF BeginShutdown, Close, LoadsEnded, Closed, vars
<1> QED
  BY <1>1, <1>2, <1>3, <1>4, <1>5, <1>6, <1>7, <1>8, Zenon DEF Next

(* No step reports an expert READY that is reported REMOVED: _finish_ready publishes targets
   only, and when a target was removed no load publishes any more. *)
LEMMA RemovedStaysStep ==
    ASSUME ManagerAssumption, IInv, [Next]_vars
    PROVE  RemovedStays
<1>1. SUFFICES ASSUME NEW k \in Keys, states[k] = "REMOVED", states'[k] = "READY" PROVE FALSE
  BY Zenon DEF RemovedStays
<1>2. k \in targets /\ ~Closing /\ tasks[k].pc = "publish"
  BY <1>1, ReportedStep, Zenon
<1>3. RemovedTargets
  BY Zenon DEF IInv
<1> QED
  BY <1>1, <1>2, <1>3, Zenon DEF RemovedTargets, NoneToPublish

(* A target finds the device full only while an expert that is none any more is ready: a
   placement never has more targets than the device has room for. *)
LEMMA FullStep ==
    ASSUME ManagerAssumption, IInv, [Next]_vars
    PROVE  FullWhileDraining
<1>1. SUFFICES ASSUME NEW k \in Keys, states[k] # "FULL", states'[k] = "FULL", readyKeys \subseteq targets
               PROVE  FALSE
  BY Zenon DEF FullWhileDraining
<1>2. k \in targets \ readyKeys /\ loaded >= Capacity
  BY <1>1, ReportedStep, Zenon
<1>3. TypeInv /\ Counted
  BY Zenon DEF IInv, DeviceInv
<1>4. /\ IsFiniteSet(readyKeys) /\ Cardinality(readyKeys) \in Nat
      /\ IsFiniteSet(targets) /\ Cardinality(targets) \in Nat
  BY <1>3, SetsFinite, Zenon
<1>5. Cardinality(readyKeys \cup {k}) = Cardinality(readyKeys) + 1
  BY <1>2, <1>4, FS_AddElement, Zenon
<1>6. Cardinality(readyKeys \cup {k}) =< Cardinality(targets)
  <2>1. readyKeys \cup {k} \subseteq targets
    BY <1>1, <1>2, Zenon
  <2> QED
    BY <1>4, <2>1, FS_Subset, Zenon
<1> QED
  BY <1>2, <1>3, <1>4, <1>5, <1>6 DEF Counted, ManagerAssumption
-----------------------------------------------------------------------------
(* The variables keep their types; in particular no more weights occupy device memory than
   there are experts, and no count of users passes the number of slots. *)
LEMMA TypesBounded ==
    ASSUME ManagerAssumption, DeviceInv
    PROVE  TypeOK
<1>1. TypeInv /\ TableHeld /\ LoadsOfOthers /\ Counted /\ Retained
  BY Zenon DEF DeviceInv
<1>2. loaded \in 0 .. Capacity
  BY <1>1, SetsFinite DEF Counted, ManagerAssumption
<1>3. slots \in 0 .. Cardinality(Keys)
  <2>1. Present \cap Making = {}
    BY <1>1, Zenon DEF TableHeld, LoadsOfOthers, Making
  <2>2. Cardinality(Present \cup Making) = Cardinality(Present) + Cardinality(Making)
    <3>1. Cardinality(Present \cup Making) =
            Cardinality(Present) + Cardinality(Making) - Cardinality(Present \cap Making)
      BY <1>1, SetsFinite, FS_Union, Zenon
    <3>2. Cardinality(Present \cap Making) = 0
      BY <2>1, FS_EmptySet, Zenon
    <3>3. Cardinality(Present) \in Nat /\ Cardinality(Making) \in Nat
      BY <1>1, SetsFinite, Zenon
    <3> QED
      BY <3>1, <3>2, <3>3
  <2>3. Cardinality(Present \cup Making) =< Cardinality(Keys) /\ Cardinality(Keys) \in Nat
    <3>1. Present \cup Making \subseteq Keys
      BY Zenon DEF Present, Making
    <3> QED
      BY <3>1, FS_Subset, FS_CardinalityType, Zenon DEF ManagerAssumption
  <2>4. slots = Cardinality(Present) + Cardinality(Making)
    BY <1>1, Zenon DEF Counted
  <2>5. Cardinality(Present) \in Nat /\ Cardinality(Making) \in Nat
    BY <1>1, SetsFinite, Zenon
  <2> QED
    BY <2>2, <2>3, <2>4, <2>5
<1>4. entries \in [Keys -> [present : BOOLEAN, accepting : BOOLEAN, use : 0 .. Cardinality(Users)]]
  <2>1. SUFFICES ASSUME NEW k \in Keys
                 PROVE  entries[k] \in [present : BOOLEAN, accepting : BOOLEAN, use : 0 .. Cardinality(Users)]
    BY <1>1, Zenon DEF TypeInv
  <2>2. entries[k].use = Cardinality(Holders(k)) /\ Cardinality(Holders(k)) \in Nat
    BY <1>1, SetsFinite, Zenon DEF Retained
  <2>3. Cardinality(Holders(k)) =< Cardinality(Users) /\ Cardinality(Users) \in Nat
    <3>1. Holders(k) \subseteq Users
      BY Zenon DEF Holders
    <3> QED
      BY <3>1, FS_Subset, FS_CardinalityType, Zenon DEF ManagerAssumption
  <2>4. entries[k].use \in 0 .. Cardinality(Users)
    BY <2>2, <2>3
  <2>5. entries[k] \in EntryRecords
    BY <1>1, Zenon DEF TypeInv
  <2> QED
    BY <2>4, <2>5, Zenon DEF EntryRecords
<1>5. tasks \in [Keys -> [pc : {"none", "limit", "target", "fetch", "convert", "publish",
                              "published", "fail", "fatal", "end", "dead"},
                        cancel : BOOLEAN, cancelled : BOOLEAN]]
  BY <1>1, Zenon DEF TypeInv, TaskRecords, Pcs
<1> QED
  BY <1>1, <1>2, <1>3, <1>4, <1>5, Zenon DEF TypeInv, TypeOK

(* Device memory is neither lost nor used twice, whatever loads are cancelled, fail or find
   the device full and whatever is withdrawn, and a weight that computation retains stays in
   the table until the last of its holders released it (manager.py:614, :722; ready.py:153). *)
THEOREM DeviceMemoryIsSafe ==
    ASSUME ManagerAssumption
    PROVE  Spec => [](TypeOK /\ DeviceMemorySafe)
<1>1. Init => IInv
  BY InvInit, Zenon
<1>2. IInv /\ [Next]_vars => IInv'
  BY InvNext, Zenon
<1>3. ASSUME IInv PROVE TypeOK /\ DeviceMemorySafe
  <2>1. TypeInv /\ Counted /\ Retained
    BY <1>3, Zenon DEF IInv, DeviceInv
  <2>2. DeviceAccounted
    BY <2>1, Zenon DEF Counted, DeviceAccounted, Present, Making
  <2>3. ASSUME NEW k \in Keys
        PROVE  entries[k].use = Cardinality(Holders(k)) /\ (entries[k].use > 0 => entries[k].present)
    <3>1. CASE Holders(k) = {}
      BY <2>1, <3>1, FS_EmptySet DEF Retained
    <3>2. CASE Holders(k) # {}
      BY <2>1, <3>2, Zenon DEF Retained
    <3> QED
      BY <3>1, <3>2, Zenon
  <2>4. LeasesRetained
    BY <2>3, Zenon DEF LeasesRetained, Holders
  <2>5. TypeOK
    BY <1>3, TypesBounded, Zenon DEF IInv
  <2> QED
    BY <2>2, <2>4, <2>5, Zenon DEF DeviceMemorySafe
<1> QED
  BY <1>1, <1>2, <1>3, PTL DEF Spec

(* What the Controller is told is true: READY is reported of the experts computation can get
   and of no others, none is READY after REMOVED without a new placement, and the device is
   full only while an expert waits for its drain (manager.py:663, :664, :667). *)
THEOREM ReportsAreTrue ==
    ASSUME ManagerAssumption
    PROVE  Spec => ReportsTrue
<1>1. Init => IInv
  BY InvInit, Zenon
<1>2. IInv /\ [Next]_vars => IInv'
  BY InvNext, Zenon
<1>3. IInv => ReportsMatchTable
  BY Zenon DEF IInv
<1>4. IInv /\ [Next]_vars => RemovedStays
  BY RemovedStaysStep, Zenon
<1>5. IInv /\ [Next]_vars => FullWhileDraining
  BY FullStep, Zenon
<1> QED
  BY <1>1, <1>2, <1>3, <1>4, <1>5, PTL DEF Spec, ReportsTrue, NoReadyAfterRemoved, FullOnlyWhileDraining
-----------------------------------------------------------------------------
(* Missing loads are started. *)

(* A record of a task that is over is NoTask. *)
LEMMA OverTask ==
    ASSUME NEW t \in TaskRecords, t.pc = "none", t.cancel = FALSE, t.cancelled = FALSE
    PROVE  t = NoTask
BY Zenon DEF TaskRecords, NoTask, Task

(* An expert that no step of the manager is about. *)
LEMMA WantedSame ==
    ASSUME NEW k \in Keys, WantedTask(k), tasks'[k] = tasks[k], targets' = targets,
           generation' = generation, k \in targets => (k \in readyKeys' <=> k \in readyKeys),
           k \in targets => states'[k] = states[k]
    PROVE  WantedTask(k)' /\ LoadKept(k)
<1>1. WantedTask(k)'
  BY Zenon DEF WantedTask
<1>2. k \in targets => (Covered(k)' <=> Covered(k)) /\ (GaveBack(k)' <=> GaveBack(k))
  BY Zenon DEF Covered, GaveBack
<1> QED
  BY <1>1, <1>2, Zenon DEF LoadKept

(* A load that goes on keeps its expert covered, and has not given anything back. *)
LEMMA WantedGoesOn ==
    ASSUME NEW k \in Keys, tasks'[k].pc \notin {"none", "dead"},
           GaveBack(k)' => GaveBack(k) \/ loaded >= Capacity
    PROVE  LoadKept(k)
BY Zenon DEF LoadKept, Covered

(* A load starts, converts its weight or notes that it was cancelled. *)
LEMMA WantedRuns ==
    ASSUME TypeInv, NEW k \in Keys, WantedTask(k), Starts(k) \/ Converts(k) \/ Notes(k)
    PROVE  WantedTask(k)' /\ LoadKept(k)
<1>1. UNCHANGED <<targets, readyKeys, fatal, states>>
  BY Zenon DEF Starts, Converts, Notes, Quiet, KeepTable
<1>2. tasks[k].pc \in {"limit", "target", "fetch", "convert", "publish", "published"} /\ k \notin targets =>
        (tasks[k].cancel \/ tasks[k].cancelled)
  BY Zenon DEF WantedTask
<1>3. CASE Starts(k)
  <2>1. CASE Move(k, "none", FALSE, FALSE) /\ k \notin targets
    <3>1. tasks'[k].pc = "none" /\ tasks'[k] = NoTask
      BY <2>1, OverTask, Zenon DEF Move
    <3> QED
      BY <1>1, <2>1, <3>1, Zenon DEF WantedTask, LoadKept
  <2>2. CASE ~(Move(k, "none", FALSE, FALSE) /\ k \notin targets)
    <3>1. /\ tasks[k].pc \in {"limit", "target"} /\ tasks'[k].pc \in {"fetch", "target"}
          /\ tasks'[k].cancelled = tasks[k].cancelled /\ ~tasks[k].cancel
      BY <1>3, <2>2, Zenon DEF Starts, Move
    <3>2. LoadKept(k)
      BY <3>1, WantedGoesOn, Zenon DEF GaveBack
    <3> QED
      BY <1>1, <1>2, <3>1, <3>2, Zenon DEF WantedTask
  <2> QED
    BY <2>1, <2>2, Zenon
<1>4. CASE Converts(k)
  <2>1. /\ tasks[k].pc \in {"fetch", "convert"} /\ tasks'[k].pc \in {"convert", "publish"}
        /\ ~tasks[k].cancel /\ (tasks[k].cancelled => tasks'[k].cancelled)
    BY <1>4, Zenon DEF Converts, Move
  <2>2. LoadKept(k)
    BY <2>1, WantedGoesOn, Zenon DEF GaveBack
  <2> QED
    BY <1>1, <1>2, <2>1, <2>2, Zenon DEF WantedTask
<1>5. CASE Notes(k)
  <2>1. tasks[k].pc # "end" \/ ~tasks[k].cancel
    BY Zenon DEF WantedTask
  <2>2. tasks'[k].pc \in {"convert", "publish", "published"} /\ tasks'[k].cancelled
    BY <1>5, <2>1, Zenon DEF Notes, Move
  <2>3. LoadKept(k)
    BY <2>2, WantedGoesOn, Zenon DEF GaveBack
  <2> QED
    BY <1>1, <2>2, <2>3, Zenon DEF WantedTask
<1> QED
  BY <1>3, <1>4, <1>5, Zenon

(* A load fails: it is reported, unless its expert is no target or ready. *)
LEMMA WantedBreaks ==
    ASSUME TypeInv, phase = "open", NEW k \in Keys, WantedTask(k), Breaks(k)
    PROVE  WantedTask(k)' /\ LoadKept(k)
<1>1. UNCHANGED <<targets, readyKeys>> /\ ~Closing
  BY Zenon DEF Breaks, KeepTable, Closing
<1>2. CASE Move(k, "none", FALSE, FALSE)
  <2>1. tasks'[k].pc = "none" /\ tasks'[k] = NoTask
    BY <1>2, OverTask, Zenon DEF Move
  <2>2. fatal' \/ k \notin targets \ readyKeys \/ states'[k] = "FAILED"
    BY <1>1, <2>1, Zenon DEF Breaks, States, Move
  <2>3. LoadKept(k)
    BY <1>1, <2>1, <2>2, Zenon DEF LoadKept, Covered, GaveBack
  <2> QED
    BY <1>1, <2>1, <2>3, Zenon DEF WantedTask
<1>3. CASE ~Move(k, "none", FALSE, FALSE)
  <2>1. tasks'[k].pc \in {"fail", "fatal"}
    BY <1>3, Zenon DEF Breaks, Move
  <2>2. LoadKept(k)
    BY <2>1, WantedGoesOn, Zenon DEF GaveBack
  <2> QED
    BY <1>1, <2>1, <2>2, Zenon DEF WantedTask
<1> QED
  BY <1>2, <1>3, Zenon

(* A load is over: a cancelled one starts again when its expert is a target, and one that
   was not cancelled had published its weight or given it back. *)
LEMMA WantedFinishes ==
    ASSUME TypeInv, phase = "open", NEW k \in Keys, WantedTask(k), Finishes(k)
    PROVE  WantedTask(k)' /\ LoadKept(k)
<1>1. UNCHANGED <<targets, readyKeys, generation>>
  BY Zenon DEF Finishes, Quiet, KeepTable
<1>2. PICK c \in BOOLEAN : Ends(k, c) /\ (k \in targets \ readyKeys => c \/ GaveBack(k))
  <2>1. CASE Ends(k, TRUE)
    BY <2>1, Zenon
  <2>2. CASE tasks[k].pc \in {"published", "end"} /\ ~tasks[k].cancel /\ Ends(k, tasks[k].cancelled)
    <3>1. k \in targets \ readyKeys => tasks[k].cancelled \/ GaveBack(k)
      BY <2>2, Zenon DEF GaveBack
    <3>2. tasks[k].cancelled \in BOOLEAN
      BY Zenon DEF TypeInv, TaskRecords
    <3> QED
      BY <2>2, <3>1, <3>2, Zenon
  <2> QED
    BY <2>1, <2>2, Zenon DEF Finishes
<1>3. CASE ~LockFree /\ Move(k, "end", FALSE, c) /\ states' = states
  <2>1. tasks'[k].pc = "end" /\ ~tasks'[k].cancel /\ (k \in targets \ readyKeys => tasks'[k].cancelled \/ GaveBack(k))
    BY <1>2, <1>3, Zenon DEF Move
  <2>2. GaveBack(k)' => GaveBack(k)
    BY <1>1, <2>1, Zenon DEF GaveBack
  <2>3. LoadKept(k)
    BY <2>1, <2>2, WantedGoesOn, Zenon
  <2> QED
    BY <1>1, <2>1, <2>3, Zenon DEF WantedTask
<1>4. CASE Restarts(k, c) /\ Move(k, "limit", FALSE, FALSE) /\ States(k, "none")
  <2>1. tasks'[k].pc = "limit" /\ k \in targets
    BY <1>4, Zenon DEF Move, Restarts
  <2>2. LoadKept(k)
    BY <2>1, WantedGoesOn, Zenon DEF GaveBack
  <2> QED
    BY <1>1, <2>1, <2>2, Zenon DEF WantedTask
<1>5. CASE ~Restarts(k, c) /\ Move(k, "none", FALSE, FALSE) /\ states' = states
  <2>1. tasks'[k].pc = "none" /\ tasks'[k] = NoTask
    BY <1>5, OverTask, Zenon DEF Move
  <2>2. k \in targets \ readyKeys => GaveBack(k)
    BY <1>2, <1>5, Zenon DEF Restarts
  <2>3. LoadKept(k)
    BY <1>1, <2>1, <2>2, Zenon DEF LoadKept, Covered, GaveBack
  <2> QED
    BY <1>1, <2>1, <2>3, Zenon DEF WantedTask
<1> QED
  BY <1>2, <1>3, <1>4, <1>5, Zenon DEF Ends

(* A weight is published, or given back: that of a target only when the device is full. *)
LEMMA WantedReady ==
    ASSUME TypeInv, phase = "open", NEW k \in Keys, WantedTask(k), Ready(k)
    PROVE  WantedTask(k)' /\ LoadKept(k)
<1>1. /\ UNCHANGED <<targets, fatal>> /\ ~Closing /\ tasks[k].pc = "publish"
      /\ tasks'[k].pc = "published"
      /\ tasks'[k].cancel = tasks[k].cancel /\ tasks'[k].cancelled = tasks[k].cancelled
  BY Zenon DEF Ready, Move, Closing
<1>2. k \notin targets => tasks[k].cancel \/ tasks[k].cancelled
  BY <1>1, Zenon DEF WantedTask
<1>3. k \in targets => k \in readyKeys' \/ loaded >= Capacity
  <2>1. CASE Publishes(k)
    BY <2>1, Zenon DEF Publishes
  <2>2. CASE GivesBack(k)
    BY <1>1, <2>2, Zenon DEF GivesBack, Publishable
  <2> QED
    BY <2>1, <2>2, Zenon DEF Ready
<1>4. LoadKept(k)
  BY <1>1, <1>3, WantedGoesOn, Zenon DEF GaveBack
<1> QED
  BY <1>1, <1>2, <1>4, Zenon DEF WantedTask

(* A placement cancels the loads of what it drops and starts those it misses. *)
LEMMA WantedApply ==
    ASSUME TypeInv, phase = "open", NEW list \in SUBSET Keys, ApplyTargets(list),
           NEW k \in Keys, WantedTask(k)
    PROVE  WantedTask(k)' /\ LoadKept(k)
<1>1. targets' = list /\ readyKeys' = readyKeys /\ tasks[k].pc \notin {"end", "dead"}
  BY Zenon DEF ApplyTargets, Serialised, WantedTask
<1>2. CASE Launched(k) /\ k \in list
  <2>1. tasks'[k].pc = "limit"
    BY <1>2, Zenon DEF Launched
  <2>2. LoadKept(k)
    BY <2>1, WantedGoesOn, Zenon DEF GaveBack
  <2> QED
    BY <1>1, <1>2, <2>1, <2>2, Zenon DEF WantedTask
<1>3. CASE k \in targets \ list
  <2>1. CancelSet(k)
    BY <1>3, ApplyFacts, Zenon
  <2>2. LoadKept(k)
    BY <1>1, <1>3, Zenon DEF LoadKept
  <2> QED
    BY <1>1, <1>3, <2>1, <2>2, Zenon DEF WantedTask, CancelSet
<1>4. CASE ~(Launched(k) /\ k \in list) /\ k \notin targets \ list
  <2>1. tasks'[k] = tasks[k] /\ (k \in list \ readyKeys => tasks[k] # NoTask)
    BY <1>4, ApplyFacts, Zenon
  <2>2. WantedTask(k)'
    BY <1>1, <1>4, <2>1, Zenon DEF WantedTask
  <2>3. k \in list => Covered(k)'
    BY <1>1, <2>1, Zenon DEF Covered, WantedTask
  <2>4. GaveBack(k)' => GaveBack(k)
    BY <1>1, <2>1, Zenon DEF GaveBack, WantedTask
  <2> QED
    BY <1>1, <2>2, <2>3, <2>4, Zenon DEF LoadKept
<1> QED
  BY <1>2, <1>3, <1>4, ApplyFacts, Zenon

(* While the Worker runs, every step leaves the loads as the placement wants them. *)
LEMMA LoadsStep ==
    ASSUME ManagerAssumption, LoadsInv, [Next]_vars
    PROVE  Wanted' /\ LoadsKept
<1>0. /\ TypeInv /\ TableHeld /\ RemovalHeld /\ LoadsOfOthers /\ Counted /\ RemovedTargets
      /\ removal.left = removal.keys \cap readyKeys
  BY Zenon DEF LoadsInv, IInv, DeviceInv, RemovalHeld
<1>1. targets' \subseteq Keys
  <2>1. IInv'
    BY InvNext, Zenon DEF LoadsInv
  <2> QED
    BY <2>1, Zenon DEF IInv, DeviceInv, TypeInv
<1>2. SUFFICES ASSUME phase' = "open", NEW k \in Keys PROVE WantedTask(k)' /\ LoadKept(k)
  BY <1>1, Zenon DEF Wanted, LoadsKept, LoadKept, Running
<1>3. phase = "open" /\ ~Closing
  <2>1. ASSUME NEW j \in Keys, Load(j) PROVE phase' = phase
    BY <1>0, <2>1, LoadTable, Zenon
  <2>2. ASSUME \E list \in SUBSET Keys : ApplyTargets(list) PROVE phase' = phase
    BY <2>2, Zenon DEF ApplyTargets
  <2>3. ASSUME \E u \in Users, keys \in SUBSET Keys : AcquireMany(u, keys) PROVE phase' = phase
    BY <2>3, Zenon DEF AcquireMany
  <2>4. ASSUME \E j \in Keys : FinishWithdrawal(j) \/ CloseBegins(j) \/ CloseFinishes(j) PROVE phase' = phase
    BY <2>4, Zenon DEF FinishWithdrawal, CloseBegins, CloseFinishes
  <2>5. ASSUME \E keys \in SUBSET Keys : RemoveAfterDrain(keys) PROVE phase' = phase
    BY <2>5, Zenon DEF RemoveAfterDrain
  <2>6. ASSUME \E u \in Users : Release(u) PROVE phase' = phase
    BY <2>6, Zenon DEF Release
  <2>7. ASSUME BeginShutdown \/ Close \/ LoadsEnded \/ Closed \/ UNCHANGED vars PROVE phase = "open"
    BY <1>2, <2>7, Zenon DEF BeginShutdown, Close, LoadsEnded, Closed, vars
  <2>8. phase = "open"
    BY <1>2, <2>1, <2>2, <2>3, <2>4, <2>5, <2>6, <2>7, Zenon DEF Next
  <2> QED
    BY <2>8, Zenon DEF Closing
<1>4. WantedTask(k)
  BY <1>3, Zenon DEF LoadsInv, Wanted
<1>5. ASSUME tasks' = tasks, targets' = targets, generation' = generation,
             k \in targets => (k \in readyKeys' <=> k \in readyKeys),
             k \in targets => states'[k] = states[k]
      PROVE  WantedTask(k)' /\ LoadKept(k)
  BY <1>4, <1>5, WantedSame, Zenon
<1>6. ASSUME NEW list \in SUBSET Keys, ApplyTargets(list) PROVE WantedTask(k)' /\ LoadKept(k)
  BY <1>0, <1>3, <1>4, <1>6, WantedApply, Zenon
<1>7. ASSUME NEW j \in Keys, Load(j) PROVE WantedTask(k)' /\ LoadKept(k)
  <2>1. Starts(j) \/ Converts(j) \/ Breaks(j) \/ Finishes(j) \/ Notes(j) \/ Ready(j)
    BY <1>0, <1>7, LoadMoves, Zenon
  <2>2. CASE j = k
    BY <1>0, <1>3, <1>4, <2>1, <2>2, WantedRuns, WantedBreaks, WantedFinishes, WantedReady, Zenon
  <2>3. CASE j # k
    <3>1. tasks'[k] = tasks[k] /\ states'[k] = states[k] /\ targets' = targets /\ generation' = generation
      BY <1>0, <1>7, <2>3, LoadTable, Zenon
    <3>2. readyKeys' = readyKeys \/ readyKeys' = readyKeys \cup {j}
      <4>1. CASE Starts(j) \/ Converts(j) \/ Finishes(j) \/ Notes(j)
        BY <4>1, Zenon DEF Starts, Converts, Finishes, Notes, Quiet, KeepTable
      <4>2. CASE Breaks(j)
        BY <4>2, Zenon DEF Breaks, KeepTable
      <4>3. CASE Ready(j)
        BY <4>3, Zenon DEF Ready, Publishes, GivesBack
      <4> QED
        BY <2>1, <4>1, <4>2, <4>3, Zenon
    <3>3. k \in readyKeys' <=> k \in readyKeys
      BY <2>3, <3>2, Zenon
    <3> QED
      BY <1>4, <3>1, <3>2, <3>3, WantedSame, Zenon
  <2> QED
    BY <2>2, <2>3, Zenon
<1>8. ASSUME NEW keys \in SUBSET Keys, RemoveAfterDrain(keys) PROVE WantedTask(k)' /\ LoadKept(k)
  <2>1. keys \cap targets = {} /\ UNCHANGED <<tasks, targets, generation, readyKeys>>
    BY <1>3, <1>8, Zenon DEF RemoveAfterDrain
  <2>2. states'[k] = states[k] \/ (states'[k] = "REMOVED" /\ k \in keys)
    BY <1>0, <1>8, RemovalStates, Zenon
  <2> QED
    BY <1>5, <2>1, <2>2, Zenon
<1>9. ASSUME NEW j \in Keys, FinishWithdrawal(j) PROVE WantedTask(k)' /\ LoadKept(k)
  <2>1. removal.keys \cap targets = {}
    BY <1>0, <1>3, Zenon DEF RemovedTargets, NoneToPublish
  <2>2. j \in removal.keys /\ readyKeys' = readyKeys \ {j} /\ UNCHANGED <<tasks, targets, generation>>
    BY <1>0, <1>9, Zenon DEF FinishWithdrawal
  <2>3. states'[k] = states[k] \/ (states'[k] = "REMOVED" /\ k \in removal.keys)
    BY <1>0, <1>9, WithdrawalStates, Zenon
  <2> QED
    BY <1>5, <2>1, <2>2, <2>3, Zenon
<1>10. ASSUME NEW u \in Users, NEW keys \in SUBSET Keys, AcquireMany(u, keys) \/ Release(u)
       PROVE  WantedTask(k)' /\ LoadKept(k)
  BY <1>5, <1>10, Zenon DEF AcquireMany, Release
<1>11. ASSUME NEW j \in Keys, CloseBegins(j) \/ CloseFinishes(j) PROVE WantedTask(k)' /\ LoadKept(k)
  BY <1>5, <1>11, Zenon DEF CloseBegins, CloseFinishes
<1>12. CASE BeginShutdown \/ Close \/ LoadsEnded \/ Closed \/ UNCHANGED vars
  <2>1. UNCHANGED vars
    BY <1>2, <1>12, Zenon DEF BeginShutdown, Close, LoadsEnded, Closed
  <2> QED
    BY <1>5, <2>1, Zenon DEF vars
<1> QED
  BY <1>6, <1>7, <1>8, <1>9, <1>10, <1>11, <1>12, Zenon DEF Next

(* "start missing loads" (manager.py:275): while the Worker runs, a placement leaves every
   target ready or with a load, and a load ends without a result or a report only when it
   found the device full (manager.py:667), whatever the placements in between cancelled.
   For every capacity. *)
THEOREM LoadsAreStarted ==
    ASSUME ManagerAssumption
    PROVE  Spec => MissingLoadsStarted
<1>1. ASSUME Init PROVE LoadsInv
  <2>1. "none" \in Pcs
    BY Zenon DEF Pcs
  <2>2. \A k \in Keys : tasks[k] = NoTask /\ tasks[k].pc = "none"
    BY <1>1, <2>1, FreshTask, Zenon DEF Init, NoTask
  <2>3. Wanted
    BY <2>2, Zenon DEF Wanted, WantedTask
  <2> QED
    BY <1>1, <2>3, InvInit, Zenon DEF LoadsInv
<1>2. ASSUME LoadsInv, [Next]_vars PROVE LoadsInv'
  <2>1. IInv'
    BY <1>2, InvNext, Zenon DEF LoadsInv
  <2> QED
    BY <1>2, <2>1, LoadsStep, Zenon DEF LoadsInv
<1>3. ASSUME LoadsInv, [Next]_vars PROVE LoadsKept
  BY <1>3, LoadsStep, Zenon
<1> QED
  BY <1>1, <1>2, <1>3, PTL DEF Spec, MissingLoadsStarted
=============================================================================
