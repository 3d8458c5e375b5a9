--------------------------- MODULE WeightFilesProofs ---------------------------
(***************************************************************************)
(* The shared weight files for any number of processes, files and pages:   *)
(* a published file is complete, the temporary file of a live process is   *)
(* left in place, and no abandoned one outlives the cleanup of a starting  *)
(* process. What each of them needs of the pids is its own hypothesis.     *)
(***************************************************************************)
EXTENDS WeightFiles, TLAPS

Names == {"gone", "tmp", "probe", "weight"}

ProcRecords ==
    [pc : {"down", "clean", "write", "rename", "syncdir", "read", "serve"}, pid : Nat,
     id : 0 .. MaxFiles, scan : SUBSET Ids, old : SUBSET Ids]

FileRecords ==
    [at : Names, on : Names, pages : 0 .. Pages, exact : BOOLEAN, synced : BOOLEAN,
     target : {"probe", "weight"}, pid : Nat, by : Procs \cup {"nobody"}]

Up(p) == proc[p].pc # "down"

(* The process is inside write_direct_atomic or reads its probe back. *)
Busy(p) == proc[p].pc \in {"write", "rename", "syncdir", "read"}

Durable(f) == f.pages = Pages /\ f.exact /\ f.synced

TypeInv ==
    /\ proc \in [Procs -> ProcRecords]
    /\ file \in [Ids -> FileRecords]
    /\ boots \in 0 .. MaxBoots
    /\ \A p \in Procs : Busy(p) => proc[p].id \in Ids

(* A name of the expert's path, now or after a power loss, leads to data that was
   synced, and so does every name a rename is about to give. *)
PublishedDurable ==
    /\ \A i \in Ids : "weight" \in {file[i].at, file[i].on} => Durable(file[i])
    /\ \A p \in Procs : proc[p].pc = "rename" => Durable(file[proc[p].id])

(* A process that writes owns its file: it is named by its pid and no other process
   of its namespace has that pid. *)
OwnFiles ==
    /\ \A p \in Procs : Up(p) => proc[p].pid >= 1
    /\ \A p, q \in Procs : Up(p) /\ Up(q) /\ proc[p].pid = proc[q].pid
                             /\ Namespace[p] = Namespace[q] => p = q
    /\ \A p \in Procs : Busy(p) => /\ file[proc[p].id].pid = proc[p].pid
                                   /\ file[proc[p].id].by = p

(* Where the file is that a process writes. *)
Placed(pc, f) ==
    /\ pc \in {"write", "rename"} => f.at = "tmp"
    /\ pc = "read" => f.at = "probe"
    /\ pc = "syncdir" /\ f.target = "probe" => f.at = "probe"
    /\ pc = "syncdir" /\ f.target = "weight" => f.at \in {"weight", "gone"}

InPlace == \A p \in Procs : Placed(proc[p].pc, file[proc[p].id])

(* Pids are not used twice, and a live process leaves no temporary file behind but
   the one it works on. *)
PidsFresh ==
    /\ \A p \in Procs : Up(p) => proc[p].pid =< boots
    /\ \A i \in Ids : /\ file[i].pid =< boots
                      /\ {file[i].at, file[i].on} # {"gone"} => file[i].pid >= 1
    /\ \A p \in Procs, i \in Ids :
         Up(p) /\ i \in Temporary /\ file[i].pid = proc[p].pid => Busy(p) /\ proc[p].id = i

(* The files abandoned when a process started: nobody alive has their pid, and the
   cleanup still has those to come that are there. *)
OldAbandoned ==
    \A p \in Procs : \A i \in proc[p].old :
        /\ Up(p)
        /\ file[i].pid >= 1
        /\ \A q \in Procs : Up(q) => proc[q].pid # file[i].pid
        /\ i \in Temporary => proc[p].pc = "clean" /\ i \in proc[p].scan

OneNamespace == \A p, q \in Procs : Namespace[p] = Namespace[q]
-----------------------------------------------------------------------------
(* A step of one process leaves the records of the others alone. *)
LEMMA OneProcess ==
    ASSUME TypeInv, NEW p \in Procs, NEW rec, proc' = [proc EXCEPT ![p] = rec]
    PROVE  proc'[p] = rec /\ \A q \in Procs \ {p} : proc'[q] = proc[q]
BY DEF TypeInv

(* So does a step on one file. *)
LEMMA OneFile ==
    ASSUME TypeInv, NEW i \in Ids, NEW rec, file' = [file EXCEPT ![i] = rec]
    PROVE  file'[i] = rec /\ \A j \in Ids \ {i} : file'[j] = file[j]
BY DEF TypeInv

(* Changing the name, the pages, the marks or nothing of a file makes a file again. *)
LEMMA FileRecordType ==
    ASSUME FilesAssumption, NEW f \in FileRecords
    PROVE  /\ \A n \in Names : [f EXCEPT !.at = n] \in FileRecords
           /\ [f EXCEPT !.on = f.at] \in FileRecords
           /\ f.pages < Pages => [f EXCEPT !.pages = @ + 1] \in FileRecords
           /\ [f EXCEPT !.exact = TRUE, !.synced = TRUE] \in FileRecords
           /\ f.target \in Names
<1>1. \A n \in Names : [f EXCEPT !.at = n] \in FileRecords
  BY DEF FileRecords
<1>2. [f EXCEPT !.on = f.at] \in FileRecords
  BY DEF FileRecords
<1>3. f.pages < Pages => [f EXCEPT !.pages = @ + 1] \in FileRecords
  BY DEF FileRecords, FilesAssumption
<1>4. [f EXCEPT !.exact = TRUE, !.synced = TRUE] \in FileRecords
  BY Zenon DEF FileRecords
<1>5. f.target \in Names
  BY DEF FileRecords, Names
<1> QED
  BY <1>1, <1>2, <1>3, <1>4, <1>5

(* The file a process creates. *)
NewFile(p, target) ==
    [Unused EXCEPT !.at = "tmp", !.target = target, !.pid = proc[p].pid, !.by = p]

(* Its record. *)
LEMMA NewFileType ==
    ASSUME FilesAssumption, TypeInv, NEW p \in Procs, NEW target \in {"probe", "weight"}
    PROVE  /\ NewFile(p, target) \in FileRecords
           /\ NewFile(p, target).at = "tmp" /\ NewFile(p, target).on = "gone"
           /\ NewFile(p, target).target = target
           /\ NewFile(p, target).pid = proc[p].pid /\ NewFile(p, target).by = p
<1>1. "gone" \in Names /\ "tmp" \in Names /\ 0 \in 0 .. Pages
  BY DEF Names, FilesAssumption
<1>2. proc[p].pid \in Nat
  BY DEF TypeInv, ProcRecords
<1>3. Unused \in FileRecords /\ Unused.on = "gone"
  BY <1>1 DEF Unused, FileRecords
<1>4. ASSUME NEW f \in FileRecords, f.on = "gone"
      PROVE  LET new == [f EXCEPT !.at = "tmp", !.target = target, !.pid = proc[p].pid, !.by = p]
             IN  /\ new \in FileRecords /\ new.at = "tmp" /\ new.on = "gone"
                 /\ new.target = target /\ new.pid = proc[p].pid /\ new.by = p
  BY <1>1, <1>2, <1>4, Zenon DEF FileRecords
<1> QED
  BY <1>3, <1>4, Zenon DEF NewFile

(* A power loss makes a file again, too. *)
LEMMA PowerLossType ==
    ASSUME FilesAssumption, NEW f \in FileRecords, NEW kept \in BOOLEAN,
           NEW pages \in 0 .. Pages, NEW exact \in BOOLEAN
    PROVE  AfterPowerLoss(f, kept, pages, exact) \in FileRecords
<1> DEFINE at == IF kept THEN f.at ELSE f.on
           on == IF kept THEN f.at ELSE f.on
           left == IF f.synced THEN f.pages ELSE pages
           cut == IF f.synced THEN f.exact ELSE exact
<1>1. at \in Names /\ on \in Names /\ left \in 0 .. Pages
  BY DEF FileRecords
<1>2. cut \in BOOLEAN
  BY DEF FileRecords
<1>3. AfterPowerLoss(f, kept, pages, exact)
        = [f EXCEPT !.at = at, !.on = on, !.pages = left, !.exact = cut]
  BY DEF AfterPowerLoss, FileRecords
<1> HIDE DEF at, on, left, cut
<1> QED
  BY <1>1, <1>2, <1>3, Zenon DEF FileRecords

(* What a process does after its write is a record again. *)
LEMMA AfterType ==
    ASSUME FilesAssumption, TypeInv, NEW p \in Procs, NEW ok, Busy(p)
    PROVE  /\ After(p, ok) \in ProcRecords
           /\ After(p, ok).pc \in {"down", "read", "serve"}
           /\ After(p, ok).pc = "read" => After(p, ok).id \in Ids
<1>1. proc[p] \in ProcRecords /\ proc[p].id \in Ids
  BY DEF TypeInv
<1>2. Down \in ProcRecords /\ Down.pc = "down"
  BY DEF Down, ProcRecords, FilesAssumption
<1>3. [proc[p] EXCEPT !.pc = "read"] \in ProcRecords
  BY <1>1 DEF ProcRecords
<1>b. 0 \in 0 .. MaxFiles
  BY DEF FilesAssumption
<1>4. [proc[p] EXCEPT !.pc = "serve", !.id = 0] \in ProcRecords
  BY <1>1, <1>b, Zenon DEF ProcRecords
<1>5. After(p, ok) \in {Down, [proc[p] EXCEPT !.pc = "read"], [proc[p] EXCEPT !.pc = "serve", !.id = 0]}
  BY DEF After
<1> QED
  BY <1>1, <1>2, <1>3, <1>4, <1>5, Zenon DEF ProcRecords

(* A step of one process keeps the types when its record and the files are typed. *)
LEMMA TypeKept ==
    ASSUME TypeInv, NEW p \in Procs, NEW rec \in ProcRecords,
           proc' \in {[proc EXCEPT ![p] = rec], proc},
           rec.pc \in {"write", "rename", "syncdir", "read"} => rec.id \in Ids,
           file' \in [Ids -> FileRecords], boots' \in 0 .. MaxBoots
    PROVE  TypeInv'
<1>1. \A q \in Procs : proc'[q] = proc[q] \/ proc'[q] = rec
  BY DEF TypeInv
<1> QED
  BY <1>1 DEF TypeInv, Busy

(* The records are records, through every step. *)
LEMMA TypeStep ==
    ASSUME FilesAssumption, TypeInv, [Next]_vars
    PROVE  TypeInv'
<1>0. /\ \A q \in Procs : proc[q] \in ProcRecords
      /\ \A i \in Ids : file[i] \in FileRecords
      /\ boots \in 0 .. MaxBoots
  BY DEF TypeInv
<1>a. {"gone", "tmp", "weight"} \subseteq Names
  BY DEF Names
<1>b. 0 \in 0 .. MaxFiles /\ 0 \in 0 .. Pages /\ Ids \subseteq 0 .. MaxFiles
  BY DEF FilesAssumption, Ids
<1>c. \A i \in Ids, n \in Names : [file[i] EXCEPT !.at = n] \in FileRecords
  BY <1>0, FileRecordType, Zenon
<1>1. ASSUME NEW p \in Procs, Boot(p) PROVE TypeInv'
  <2> DEFINE rec == [pc |-> "clean", pid |-> IF ReusePids THEN 1 ELSE boots + 1, id |-> 0,
                     scan |-> Temporary, old |-> {i \in Temporary : ~OwnerUp(i)}]
  <2>1. Temporary \in SUBSET Ids /\ {i \in Temporary : ~OwnerUp(i)} \in SUBSET Ids
    BY DEF Temporary
  <2>2. boots + 1 \in Nat /\ boots + 1 \in 0 .. MaxBoots /\ 0 \in 0 .. MaxFiles
    BY <1>0, <1>1 DEF Boot, FilesAssumption
  <2>3. rec \in ProcRecords /\ rec.pc = "clean"
    BY <2>1, <2>2 DEF ProcRecords
  <2>4. proc' = [proc EXCEPT ![p] = rec] /\ file' = file /\ boots' = boots + 1
    BY <1>1 DEF Boot
  <2> HIDE DEF rec
  <2> QED
    BY <2>2, <2>3, <2>4, TypeKept, Zenon DEF TypeInv
<1>2. ASSUME NEW p \in Procs, NEW i \in Ids, Clean(p, i) PROVE TypeInv'
  <2> DEFINE rec == [proc[p] EXCEPT !.scan = @ \ {i}]
  <2>1. rec \in ProcRecords /\ rec.pc = "clean"
    BY <1>0, <1>2 DEF Clean, ProcRecords
  <2>2. proc' = [proc EXCEPT ![p] = rec] /\ boots' = boots
    BY <1>2 DEF Clean
  <2>3. file' \in {[file EXCEPT ![i] = [file[i] EXCEPT !.at = "gone"]], file}
    BY <1>2 DEF Clean
  <2>4. file' \in [Ids -> FileRecords]
    BY <1>a, <1>c, <2>3 DEF TypeInv
  <2> HIDE DEF rec
  <2> QED
    BY <1>0, <2>1, <2>2, <2>4, TypeKept, Zenon
<1>3. ASSUME NEW p \in Procs, NEW target \in {"probe", "weight"}, Create(p, target) PROVE TypeInv'
  <2> DEFINE new == NewFile(p, target)
  <2>1. PICK i \in Ids : /\ file' = [file EXCEPT ![i] = new]
                         /\ proc' = [proc EXCEPT ![p].pc = "write", ![p].id = i]
    BY <1>3, Zenon DEF Create, NewFile
  <2> DEFINE rec == [proc[p] EXCEPT !.pc = "write", !.id = i]
  <2>2. proc' = [proc EXCEPT ![p] = rec]
    BY <2>1, Zenon
  <2>3. new \in FileRecords
    BY NewFileType
  <2>4. rec \in ProcRecords /\ rec.id = i
    BY <1>0, <1>b, Zenon DEF ProcRecords
  <2> HIDE DEF new, rec
  <2>5. file' \in [Ids -> FileRecords]
    BY <2>1, <2>3 DEF TypeInv
  <2>6. proc' = [proc EXCEPT ![p] = rec] /\ boots' = boots
    BY <1>3, <2>2, Zenon DEF Create
  <2> QED
    BY <1>0, <2>4, <2>5, <2>6, TypeKept, Zenon
<1>4. ASSUME NEW p \in Procs, WritePage(p) PROVE TypeInv'
  <2>1. proc[p].id \in Ids
    BY <1>4 DEF WritePage, TypeInv, Busy
  <2>2. file' = [file EXCEPT ![proc[p].id] = [file[proc[p].id] EXCEPT !.pages = @ + 1]]
    BY <1>4 DEF WritePage
  <2>3. file' \in [Ids -> FileRecords]
    <3>1. [file[proc[p].id] EXCEPT !.pages = @ + 1] \in FileRecords
      BY <1>0, <1>4, <2>1, FileRecordType, Zenon DEF WritePage
    <3> QED
      BY <2>1, <2>2, <3>1 DEF TypeInv
  <2> QED
    BY <1>4, <2>3 DEF WritePage, TypeInv, Busy
<1>5. ASSUME NEW p \in Procs, Sync(p) PROVE TypeInv'
  <2> DEFINE rec == [proc[p] EXCEPT !.pc = "rename"]
  <2>1. proc[p].id \in Ids
    BY <1>5 DEF Sync, TypeInv, Busy
  <2>2. /\ file' = [file EXCEPT ![proc[p].id] = [file[proc[p].id] EXCEPT !.exact = TRUE, !.synced = TRUE]]
        /\ proc' = [proc EXCEPT ![p] = rec] /\ boots' = boots
    BY <1>5, Zenon DEF Sync
  <2>3. file' \in [Ids -> FileRecords]
    BY <1>0, <2>1, <2>2, FileRecordType, Zenon DEF TypeInv
  <2>4. rec \in ProcRecords /\ rec.id \in Ids
    BY <1>0, <2>1 DEF ProcRecords
  <2> HIDE DEF rec
  <2> QED
    BY <1>0, <2>2, <2>3, <2>4, TypeKept, Zenon
<1>6. ASSUME NEW p \in Procs, Rename(p) PROVE TypeInv'
  <2> DEFINE rec == [proc[p] EXCEPT !.pc = "syncdir"]
  <2>1. proc[p].id \in Ids
    BY <1>6 DEF Rename, TypeInv, Busy
  <2>2. ASSUME NEW j \in Ids
        PROVE  file'[j] \in {[file[j] EXCEPT !.at = file[j].target], [file[j] EXCEPT !.at = "gone"], file[j]}
    BY <1>6 DEF Rename
  <2>3. file' = [j \in Ids |-> file'[j]]
    BY <1>6 DEF Rename
  <2>4. ASSUME NEW j \in Ids PROVE file'[j] \in FileRecords
    <3>1. file[j].target \in Names
      BY <1>0, FileRecordType, Zenon
    <3> QED
      BY <1>0, <1>a, <1>c, <2>2, <3>1
  <2>5. rec \in ProcRecords /\ rec.id \in Ids
    BY <1>0, <2>1 DEF ProcRecords
  <2>6. proc' = [proc EXCEPT ![p] = rec] /\ boots' = boots
    BY <1>6 DEF Rename
  <2> HIDE DEF rec
  <2> QED
    BY <1>0, <2>3, <2>4, <2>5, <2>6, TypeKept, Zenon
<1>7. ASSUME NEW p \in Procs, SyncDirectory(p) PROVE TypeInv'
  <2>1. Busy(p)
    BY <1>7 DEF SyncDirectory, Busy
  <2>2. file' \in [Ids -> FileRecords]
    BY <1>0, <1>7, FileRecordType, Zenon DEF SyncDirectory
  <2>3. proc' = [proc EXCEPT ![p] = After(p, TRUE)] /\ boots' = boots
    BY <1>7 DEF SyncDirectory
  <2> QED
    BY <1>0, <2>1, <2>2, <2>3, AfterType, TypeKept, Zenon
<1>8. ASSUME NEW p \in Procs, WriteFails(p) PROVE TypeInv'
  <2>1. Busy(p) /\ proc[p].id \in Ids
    BY <1>8 DEF WriteFails, TypeInv, Busy
  <2>2. file' \in {[file EXCEPT ![proc[p].id] = [file[proc[p].id] EXCEPT !.at = n]] : n \in {"weight", "gone"}}
    BY <1>8, Zenon DEF WriteFails
  <2>3. file' \in [Ids -> FileRecords]
    BY <1>a, <1>c, <2>1, <2>2 DEF TypeInv
  <2>4. proc' = [proc EXCEPT ![p] = After(p, FALSE)] /\ boots' = boots
    BY <1>8 DEF WriteFails
  <2> QED
    BY <1>0, <2>1, <2>3, <2>4, AfterType, TypeKept, Zenon
<1>9. Down \in ProcRecords /\ Down.pc = "down"
  BY DEF Down, ProcRecords, FilesAssumption
<1>10. ASSUME NEW p \in Procs, NEW readable \in BOOLEAN, ReadProbe(p, readable) PROVE TypeInv'
  <2> DEFINE rec == [proc[p] EXCEPT !.pc = "serve", !.id = 0]
  <2>1. proc[p].id \in Ids
    BY <1>10 DEF ReadProbe, TypeInv, Busy
  <2>2. file' = [file EXCEPT ![proc[p].id] = [file[proc[p].id] EXCEPT !.at = "gone"]] /\ boots' = boots
    BY <1>10 DEF ReadProbe
  <2>3. file' \in [Ids -> FileRecords]
    BY <1>a, <1>c, <2>1, <2>2 DEF TypeInv
  <2>4. rec \in ProcRecords /\ rec.pc = "serve"
    BY <1>0, <1>b, Zenon DEF ProcRecords
  <2>5. \E new \in {rec, Down} : proc' = [proc EXCEPT ![p] = new]
    BY <1>10, Zenon DEF ReadProbe
  <2> HIDE DEF rec
  <2> QED
    BY <1>0, <1>9, <2>2, <2>3, <2>4, <2>5, TypeKept, Zenon
<1>11. ASSUME NEW p \in Procs, RemoveWeight(p) PROVE TypeInv'
  <2>1. file' \in [Ids -> FileRecords]
    BY <1>0, <1>11, FileRecordType, Zenon DEF RemoveWeight, Names
  <2> QED
    BY <1>11, <2>1 DEF RemoveWeight, TypeInv, Busy
<1>12. ASSUME NEW p \in Procs, Crash(p) PROVE TypeInv'
  BY <1>9, <1>12, TypeKept, Zenon DEF Crash, TypeInv
<1>13. CASE PowerLoss
  <2>1. PICK kept \in BOOLEAN, lost \in 0 .. Pages, exact \in BOOLEAN :
          file' = [i \in Ids |->
             AfterPowerLoss(file[i], kept, IF file[i].pages < lost THEN file[i].pages ELSE lost,
                            exact /\ file[i].exact)]
    BY <1>13 DEF PowerLoss
  <2>2. ASSUME NEW i \in Ids
        PROVE  (IF file[i].pages < lost THEN file[i].pages ELSE lost) \in 0 .. Pages
    BY <1>0 DEF FileRecords
  <2>3. \A i \in Ids : (exact /\ file[i].exact) \in BOOLEAN
    OBVIOUS
  <2>4. file' \in [Ids -> FileRecords]
    BY <1>0, <2>1, <2>2, <2>3, PowerLossType, Zenon
  <2>5. proc' = [p \in Procs |-> Down] /\ boots' = boots
    BY <1>13 DEF PowerLoss
  <2> QED
    BY <1>0, <1>9, <2>4, <2>5 DEF TypeInv, Busy
<1>14. CASE UNCHANGED vars
  BY <1>14 DEF vars, TypeInv, Busy
<1> QED
  BY <1>1, <1>2, <1>3, <1>4, <1>5, <1>6, <1>7, <1>8, <1>10, <1>11, <1>12, <1>13, <1>14
     DEF Next, Write

-----------------------------------------------------------------------------
(* What the steps change, field by field. A step of one process leaves the others
   alone, and of the files it changes only what is listed. *)
SameFile(i) == file'[i] = file[i]
Renamed(i, name) ==
    /\ file'[i].at = name /\ file'[i].on = file[i].on /\ file'[i].pages = file[i].pages
    /\ file'[i].exact = file[i].exact /\ file'[i].synced = file[i].synced
    /\ file'[i].target = file[i].target /\ file'[i].pid = file[i].pid /\ file'[i].by = file[i].by

Others(p) == \A q \in Procs \ {p} : proc'[q] = proc[q]

(* The pid, and what the cleanup looks for, are those of the process's start. *)
Continues(p) == proc'[p].pid = proc[p].pid /\ proc'[p].old = proc[p].old

(* A start: the record is fresh, the files stay. *)
LEMMA BootFacts ==
    ASSUME TypeInv, NEW p \in Procs, Boot(p)
    PROVE  /\ Others(p) /\ \A i \in Ids : SameFile(i)
           /\ boots' = boots + 1 /\ proc[p].pc = "down" /\ proc'[p].pc = "clean"
           /\ proc'[p].pid = IF ReusePids THEN 1 ELSE boots + 1
           /\ proc'[p].scan = Temporary /\ proc'[p].old = {i \in Temporary : ~OwnerUp(i)}
           /\ \A q \in Procs \ {p} : Up(q) /\ Namespace[q] = Namespace[p]
                                        => proc[q].pid # proc'[p].pid
<1> DEFINE rec == [pc |-> "clean", pid |-> IF ReusePids THEN 1 ELSE boots + 1, id |-> 0,
                   scan |-> Temporary, old |-> {i \in Temporary : ~OwnerUp(i)}]
<1>1. proc' = [proc EXCEPT ![p] = rec] /\ file' = file /\ boots' = boots + 1
  BY DEF Boot
<1>2. proc'[p] = rec /\ \A q \in Procs \ {p} : proc'[q] = proc[q]
  BY <1>1, OneProcess
<1> QED
  BY <1>1, <1>2 DEF Boot, Others, SameFile, Up

(* A step of the cleanup: one file less to scan, gone if it is abandoned. *)
LEMMA CleanFacts ==
    ASSUME TypeInv, NEW p \in Procs, NEW i \in Ids, Clean(p, i)
    PROVE  /\ Others(p) /\ Continues(p) /\ boots' = boots
           /\ proc[p].pc = "clean" /\ proc'[p].pc = "clean" /\ proc'[p].scan = proc[p].scan \ {i}
           /\ \A j \in Ids \ {i} : SameFile(j)
           /\ IF Abandoned(p, i) THEN Renamed(i, "gone") ELSE SameFile(i)
<1>0. proc[p] \in ProcRecords /\ file[i] \in FileRecords
  BY DEF TypeInv
<1> DEFINE rec == [proc[p] EXCEPT !.scan = @ \ {i}]
<1>1. proc' = [proc EXCEPT ![p] = rec]
  BY DEF Clean
<1>2. proc'[p] = rec /\ \A q \in Procs \ {p} : proc'[q] = proc[q]
  BY <1>1, OneProcess, Zenon
<1>3. rec.pc = proc[p].pc /\ rec.pid = proc[p].pid /\ rec.old = proc[p].old
      /\ rec.scan = proc[p].scan \ {i}
  BY <1>0 DEF ProcRecords
<1> HIDE DEF rec
<1>4. CASE Abandoned(p, i)
  <2> DEFINE gone == [file[i] EXCEPT !.at = "gone"]
  <2>1. file' = [file EXCEPT ![i] = gone]
    BY <1>4 DEF Clean
  <2>2. file'[i] = gone /\ \A j \in Ids \ {i} : file'[j] = file[j]
    BY <2>1, OneFile, Zenon
  <2>3. Renamed(i, "gone")
    BY <1>0, <2>2 DEF Renamed, FileRecords
  <2> QED
    BY <1>2, <1>3, <1>4, <2>2, <2>3 DEF Clean, Others, Continues, SameFile
<1>5. CASE ~Abandoned(p, i)
  BY <1>2, <1>3, <1>5 DEF Clean, Others, Continues, SameFile
<1> QED
  BY <1>4, <1>5

(* The temporary file is made. *)
LEMMA CreateFacts ==
    ASSUME FilesAssumption, TypeInv, NEW p \in Procs, NEW target \in {"probe", "weight"},
           Create(p, target)
    PROVE  /\ Others(p) /\ Continues(p) /\ boots' = boots
           /\ target = "probe" => proc[p].pc = "clean" /\ proc[p].scan = {}
           /\ target = "weight" => proc[p].pc = "serve"
           /\ proc'[p].pc = "write"
           /\ \E i \in Ids :
                /\ proc'[p].id = i /\ file[i] = Unused
                /\ \A j \in Ids \ {i} : SameFile(j)
                /\ file'[i].at = "tmp" /\ file'[i].on = "gone" /\ file'[i].target = target
                /\ file'[i].pid = proc[p].pid /\ file'[i].by = p
<1>0. proc[p] \in ProcRecords
  BY DEF TypeInv
<1>1. PICK i \in Ids : /\ file[i] = Unused /\ file' = [file EXCEPT ![i] = NewFile(p, target)]
                       /\ proc' = [proc EXCEPT ![p].pc = "write", ![p].id = i]
  BY Zenon DEF Create, NewFile
<1> DEFINE rec == [proc[p] EXCEPT !.pc = "write", !.id = i]
<1>2. proc' = [proc EXCEPT ![p] = rec]
  BY <1>1, Zenon
<1>3. proc'[p] = rec /\ \A q \in Procs \ {p} : proc'[q] = proc[q]
  BY <1>2, OneProcess, Zenon
<1>4. rec.pc = "write" /\ rec.id = i /\ rec.pid = proc[p].pid /\ rec.old = proc[p].old
  BY <1>0 DEF ProcRecords
<1>5. file'[i] = NewFile(p, target) /\ \A j \in Ids \ {i} : file'[j] = file[j]
  BY <1>1, OneFile, Zenon
<1> HIDE DEF rec
<1>6. /\ file'[i].at = "tmp" /\ file'[i].on = "gone" /\ file'[i].target = target
      /\ file'[i].pid = proc[p].pid /\ file'[i].by = p
  BY <1>5, NewFileType
<1>7. Others(p) /\ Continues(p) /\ proc'[p].pc = "write" /\ proc'[p].id = i
  BY <1>3, <1>4 DEF Others, Continues
<1>8. \A j \in Ids \ {i} : SameFile(j)
  BY <1>5 DEF SameFile
<1>9. /\ boots' = boots
      /\ target = "probe" => proc[p].pc = "clean" /\ proc[p].scan = {}
      /\ target = "weight" => proc[p].pc = "serve"
  BY DEF Create
<1> QED
  BY <1>1, <1>6, <1>7, <1>8, <1>9, Zenon

(* A page more, on a file that is not complete. *)
LEMMA WritePageFacts ==
    ASSUME TypeInv, NEW p \in Procs, WritePage(p)
    PROVE  /\ proc' = proc /\ boots' = boots /\ proc[p].pc = "write" /\ proc[p].id \in Ids
           /\ \A j \in Ids \ {proc[p].id} : SameFile(j)
           /\ file[proc[p].id].pages # Pages
           /\ LET f == file[proc[p].id]  g == file'[proc[p].id]
              IN  /\ g.at = f.at /\ g.on = f.on /\ g.target = f.target
                  /\ g.pid = f.pid /\ g.by = f.by
<1>0. proc[p].id \in Ids /\ file[proc[p].id] \in FileRecords
  BY DEF TypeInv, Busy, WritePage
<1> DEFINE i == proc[p].id
           rec == [file[i] EXCEPT !.pages = @ + 1]
<1>1. file' = [file EXCEPT ![i] = rec]
  BY DEF WritePage
<1>2. file'[i] = rec /\ \A j \in Ids \ {i} : file'[j] = file[j]
  BY <1>0, <1>1, OneFile, Zenon
<1>3. /\ rec.at = file[i].at /\ rec.on = file[i].on /\ rec.target = file[i].target
      /\ rec.pid = file[i].pid /\ rec.by = file[i].by
  BY <1>0 DEF FileRecords
<1>4. file[i].pages # Pages
  BY <1>0 DEF WritePage, FileRecords
<1> HIDE DEF rec, i
<1> QED
  BY <1>0, <1>2, <1>3, <1>4 DEF WritePage, SameFile, i

(* The file is durable when its rename comes. *)
LEMMA SyncFacts ==
    ASSUME TypeInv, NEW p \in Procs, Sync(p)
    PROVE  /\ Others(p) /\ Continues(p) /\ boots' = boots /\ proc[p].id \in Ids
           /\ proc[p].pc = "write" /\ proc'[p].pc = "rename" /\ proc'[p].id = proc[p].id
           /\ \A j \in Ids \ {proc[p].id} : SameFile(j)
           /\ LET f == file[proc[p].id]  g == file'[proc[p].id]
              IN  /\ Durable(g) /\ g.at = f.at /\ g.on = f.on /\ g.target = f.target
                  /\ g.pid = f.pid /\ g.by = f.by
<1>0. proc[p] \in ProcRecords /\ proc[p].id \in Ids /\ file[proc[p].id] \in FileRecords
  BY DEF TypeInv, Busy, Sync
<1> DEFINE i == proc[p].id
           new == [file[i] EXCEPT !.exact = TRUE, !.synced = TRUE]
           rec == [proc[p] EXCEPT !.pc = "rename"]
<1>1. file' = [file EXCEPT ![i] = new] /\ proc' = [proc EXCEPT ![p] = rec]
  BY Zenon DEF Sync
<1>2. file'[i] = new /\ \A j \in Ids \ {i} : file'[j] = file[j]
  BY <1>0, <1>1, OneFile, Zenon
<1>3. proc'[p] = rec /\ \A q \in Procs \ {p} : proc'[q] = proc[q]
  BY <1>1, OneProcess, Zenon
<1>4. /\ new.at = file[i].at /\ new.on = file[i].on /\ new.target = file[i].target
      /\ new.pid = file[i].pid /\ new.by = file[i].by /\ new.pages = file[i].pages
      /\ new.exact /\ new.synced
  BY <1>0 DEF FileRecords
<1>5. rec.pc = "rename" /\ rec.id = i /\ rec.pid = proc[p].pid /\ rec.old = proc[p].old
  BY <1>0 DEF ProcRecords
<1> HIDE DEF new, rec
<1> QED
  BY <1>0, <1>2, <1>3, <1>4, <1>5, Zenon DEF Sync, Others, Continues, SameFile, Durable

(* The process is down, and with it what its cleanup was looking for. *)
Stopped(p) == proc'[p].pc = "down" /\ proc'[p].old = {}

(* os.replace: the file has its name, the one that had it is gone. *)
LEMMA RenameFacts ==
    ASSUME TypeInv, NEW p \in Procs, Rename(p)
    PROVE  /\ Others(p) /\ Continues(p) /\ boots' = boots /\ proc[p].id \in Ids
           /\ proc[p].pc = "rename" /\ proc'[p].pc = "syncdir" /\ proc'[p].id = proc[p].id
           /\ file[proc[p].id].at = "tmp" /\ Renamed(proc[p].id, file[proc[p].id].target)
           /\ \A j \in Ids \ {proc[p].id} :
                SameFile(j) \/ (file[j].at = "weight" /\ Renamed(j, "gone"))
<1>0. proc[p] \in ProcRecords /\ proc[p].id \in Ids
  BY DEF TypeInv, Busy, Rename
<1> DEFINE i == proc[p].id
           rec == [proc[p] EXCEPT !.pc = "syncdir"]
<1>1. proc' = [proc EXCEPT ![p] = rec]
  BY DEF Rename
<1>2. proc'[p] = rec /\ \A q \in Procs \ {p} : proc'[q] = proc[q]
  BY <1>1, OneProcess, Zenon
<1>3. rec.pc = "syncdir" /\ rec.id = i /\ rec.pid = proc[p].pid /\ rec.old = proc[p].old
  BY <1>0 DEF ProcRecords
<1>4. file'[i] = [file[i] EXCEPT !.at = file[i].target]
  BY <1>0 DEF Rename
<1>5. Renamed(i, file[i].target)
  BY <1>0, <1>4 DEF Renamed, TypeInv, FileRecords
<1>6. ASSUME NEW j \in Ids \ {i}
      PROVE  SameFile(j) \/ (file[j].at = "weight" /\ Renamed(j, "gone"))
  <2>1. file[j] \in FileRecords
    BY DEF TypeInv
  <2>2. \/ file'[j] = file[j]
        \/ file[j].at = "weight" /\ file'[j] = [file[j] EXCEPT !.at = "gone"]
    BY DEF Rename
  <2>3. CASE file'[j] = file[j]
    BY <2>3 DEF SameFile
  <2>4. CASE file[j].at = "weight" /\ file'[j] = [file[j] EXCEPT !.at = "gone"]
    BY <2>1, <2>4, Zenon DEF Renamed, FileRecords
  <2> QED
    BY <2>2, <2>3, <2>4
<1> HIDE DEF rec
<1> QED
  BY <1>0, <1>2, <1>3, <1>5, <1>6 DEF Rename, Others, Continues

(* The end of a write: a probe that was written is read back, a process whose probe
   failed is down, and one that wrote a weight serves again. *)
LEMMA AfterFacts ==
    ASSUME TypeInv, NEW p \in Procs, NEW ok \in BOOLEAN, Busy(p),
           proc' = [proc EXCEPT ![p] = After(p, ok)]
    PROVE  /\ Others(p)
           /\ \/ Stopped(p) /\ ~ok
              \/ Continues(p) /\ proc'[p].pc = "read" /\ proc'[p].id = proc[p].id
                   /\ ok /\ file[proc[p].id].target = "probe"
              \/ Continues(p) /\ proc'[p].pc = "serve" /\ file[proc[p].id].target = "weight"
<1>0. proc[p] \in ProcRecords /\ file[proc[p].id].target \in {"probe", "weight"}
  BY DEF TypeInv, FileRecords
<1>1. proc'[p] = After(p, ok) /\ \A q \in Procs \ {p} : proc'[q] = proc[q]
  BY OneProcess, Zenon
<1>2. CASE After(p, ok) = Down /\ ~ok
  BY <1>1, <1>2 DEF Down, Stopped, Others
<1>3. CASE After(p, ok) = [proc[p] EXCEPT !.pc = "read"] /\ ok
             /\ file[proc[p].id].target = "probe"
  <2>1. proc'[p].pc = "read" /\ proc'[p].id = proc[p].id /\ Continues(p)
    BY <1>0, <1>1, <1>3, Zenon DEF ProcRecords, Continues
  <2> QED
    BY <1>1, <1>3, <2>1, Zenon DEF Others
<1>4. CASE After(p, ok) = [proc[p] EXCEPT !.pc = "serve", !.id = 0]
             /\ file[proc[p].id].target = "weight"
  <2> DEFINE rec == [proc[p] EXCEPT !.pc = "serve", !.id = 0]
  <2>1. rec.pc = "serve" /\ rec.pid = proc[p].pid /\ rec.old = proc[p].old
    BY <1>0, Zenon DEF ProcRecords
  <2>2. proc'[p] = rec
    BY <1>1, <1>4, Zenon
  <2> HIDE DEF rec
  <2> QED
    BY <1>1, <1>4, <2>1, <2>2, Zenon DEF Others, Continues
<1> QED
  BY <1>0, <1>2, <1>3, <1>4 DEF After

(* The names of now are those that survive. *)
LEMMA SyncDirectoryFacts ==
    ASSUME TypeInv, NEW p \in Procs, SyncDirectory(p)
    PROVE  /\ Others(p) /\ Continues(p) /\ boots' = boots /\ proc[p].id \in Ids
           /\ proc[p].pc = "syncdir"
           /\ \/ /\ proc'[p].pc = "read" /\ proc'[p].id = proc[p].id
                 /\ file[proc[p].id].target = "probe"
              \/ proc'[p].pc = "serve" /\ file[proc[p].id].target = "weight"
           /\ \A j \in Ids : /\ file'[j].at = file[j].at /\ file'[j].on = file[j].at
                             /\ file'[j].pages = file[j].pages /\ file'[j].exact = file[j].exact
                             /\ file'[j].synced = file[j].synced /\ file'[j].pid = file[j].pid
                             /\ file'[j].by = file[j].by /\ file'[j].target = file[j].target
<1>1. Busy(p) /\ proc[p].id \in Ids /\ proc[p].pc = "syncdir" /\ boots' = boots
  BY DEF SyncDirectory, Busy, TypeInv
<1>2. /\ Others(p) /\ Continues(p)
      /\ \/ /\ proc'[p].pc = "read" /\ proc'[p].id = proc[p].id
            /\ file[proc[p].id].target = "probe"
         \/ proc'[p].pc = "serve" /\ file[proc[p].id].target = "weight"
  BY <1>1, AfterFacts, Zenon DEF SyncDirectory
<1>3. ASSUME NEW j \in Ids
      PROVE  /\ file'[j].at = file[j].at /\ file'[j].on = file[j].at
             /\ file'[j].pages = file[j].pages /\ file'[j].exact = file[j].exact
             /\ file'[j].synced = file[j].synced /\ file'[j].pid = file[j].pid
             /\ file'[j].by = file[j].by /\ file'[j].target = file[j].target
  <2>1. file[j] \in FileRecords /\ file'[j] = [file[j] EXCEPT !.on = file[j].at]
    BY DEF TypeInv, SyncDirectory
  <2> QED
    BY <2>1 DEF FileRecords
<1> QED
  BY <1>1, <1>2, <1>3

(* A write that raises removes its temporary file. *)
LEMMA WriteFailsFacts ==
    ASSUME TypeInv, NEW p \in Procs, WriteFails(p)
    PROVE  /\ Others(p) /\ boots' = boots /\ proc[p].id \in Ids /\ Busy(p)
           /\ \/ Stopped(p)
              \/ Continues(p) /\ proc'[p].pc = "serve"
           /\ \A j \in Ids \ {proc[p].id} : SameFile(j)
           /\ \/ file[proc[p].id].at = "weight" /\ Renamed(proc[p].id, "weight")
              \/ Renamed(proc[p].id, "gone")
<1> DEFINE i == proc[p].id
           name == IF file[i].at = "weight" THEN "weight" ELSE "gone"
           new == [file[i] EXCEPT !.at = name]
<1>1. Busy(p) /\ i \in Ids /\ boots' = boots /\ file[i] \in FileRecords
  BY DEF WriteFails, Busy, TypeInv
<1>a. proc' = [proc EXCEPT ![p] = After(p, FALSE)]
  BY DEF WriteFails
<1>2. Others(p) /\ (Stopped(p) \/ (Continues(p) /\ proc'[p].pc = "serve"))
  BY <1>1, <1>a, AfterFacts, Zenon
<1>3. file' = [file EXCEPT ![i] = new]
  BY Zenon DEF WriteFails
<1> HIDE DEF i, name, new
<1>4. file'[i] = new /\ \A j \in Ids \ {i} : file'[j] = file[j]
  BY <1>1, <1>3, OneFile, Zenon
<1>5. Renamed(i, name)
  BY <1>1, <1>4 DEF Renamed, FileRecords, new
<1>6. name = "gone" \/ (file[i].at = "weight" /\ name = "weight")
  BY DEF name
<1> QED
  BY <1>1, <1>2, <1>4, <1>5, <1>6 DEF SameFile, i

(* The probe is gone, whatever was read. *)
LEMMA ReadProbeFacts ==
    ASSUME TypeInv, NEW p \in Procs, NEW readable \in BOOLEAN, ReadProbe(p, readable)
    PROVE  /\ Others(p) /\ boots' = boots /\ proc[p].id \in Ids /\ Busy(p)
           /\ \/ Stopped(p)
              \/ Continues(p) /\ proc'[p].pc = "serve"
           /\ \A j \in Ids \ {proc[p].id} : SameFile(j)
           /\ Renamed(proc[p].id, "gone")
<1> DEFINE i == proc[p].id
           new == [file[i] EXCEPT !.at = "gone"]
           rec == [proc[p] EXCEPT !.pc = "serve", !.id = 0]
<1>1. /\ Busy(p) /\ i \in Ids /\ boots' = boots
      /\ file[i] \in FileRecords /\ proc[p] \in ProcRecords
  BY DEF ReadProbe, Busy, TypeInv
<1>2. \E r \in {rec, Down} : proc' = [proc EXCEPT ![p] = r]
  BY Zenon DEF ReadProbe
<1>3. rec.pc = "serve" /\ rec.pid = proc[p].pid /\ rec.old = proc[p].old
  BY <1>1 DEF ProcRecords
<1>4. Down.pc = "down" /\ Down.old = {}
  BY DEF Down
<1>5. file' = [file EXCEPT ![i] = new]
  BY DEF ReadProbe
<1> HIDE DEF i, new, rec
<1>6. proc'[p] \in {rec, Down} /\ Others(p)
  BY <1>2, OneProcess, Zenon DEF Others
<1>7. file'[i] = new /\ \A j \in Ids \ {i} : file'[j] = file[j]
  BY <1>1, <1>5, OneFile, Zenon
<1>8. Renamed(i, "gone")
  BY <1>1, <1>7 DEF Renamed, FileRecords, new
<1> QED
  BY <1>1, <1>3, <1>4, <1>6, <1>7, <1>8 DEF SameFile, Stopped, Continues, i

(* Only published files are removed. *)
LEMMA RemoveWeightFacts ==
    ASSUME TypeInv, NEW p \in Procs, RemoveWeight(p)
    PROVE  /\ proc' = proc /\ boots' = boots
           /\ \A j \in Ids : SameFile(j) \/ (file[j].at = "weight" /\ Renamed(j, "gone"))
<1>1. ASSUME NEW j \in Ids
      PROVE  SameFile(j) \/ (file[j].at = "weight" /\ Renamed(j, "gone"))
  <2>1. file[j] \in FileRecords
    BY DEF TypeInv
  <2>2. CASE file[j].at = "weight" /\ file'[j] = [file[j] EXCEPT !.at = "gone"]
    BY <2>1, <2>2 DEF Renamed, FileRecords
  <2>3. CASE file'[j] = file[j]
    BY <2>3 DEF SameFile
  <2> QED
    BY <2>2, <2>3 DEF RemoveWeight
<1> QED
  BY <1>1 DEF RemoveWeight

(* A crash leaves the files. *)
LEMMA CrashFacts ==
    ASSUME TypeInv, NEW p \in Procs, Crash(p)
    PROVE  /\ Others(p) /\ boots' = boots /\ Stopped(p)
           /\ \A j \in Ids : SameFile(j)
<1>1. proc'[p] = Down /\ \A q \in Procs \ {p} : proc'[q] = proc[q]
  BY OneProcess, Zenon DEF Crash
<1> QED
  BY <1>1 DEF Crash, Others, Stopped, SameFile, Down

(* A power loss leaves durable files durable, and no name that was not there. *)
LEMMA PowerLossFacts ==
    ASSUME TypeInv, PowerLoss
    PROVE  /\ boots' = boots
           /\ \A p \in Procs : Stopped(p)
           /\ \A j \in Ids : /\ {file'[j].at, file'[j].on} \subseteq {file[j].at, file[j].on}
                             /\ file'[j].pid = file[j].pid
                             /\ Durable(file[j]) => Durable(file'[j])
<1>1. PICK kept \in BOOLEAN, lost \in 0 .. Pages, exact \in BOOLEAN :
        file' = [i \in Ids |->
          AfterPowerLoss(file[i], kept, IF file[i].pages < lost THEN file[i].pages ELSE lost,
                         exact /\ file[i].exact)]
  BY DEF PowerLoss
<1>2. ASSUME NEW j \in Ids
      PROVE  /\ {file'[j].at, file'[j].on} \subseteq {file[j].at, file[j].on}
             /\ file'[j].pid = file[j].pid
             /\ Durable(file[j]) => Durable(file'[j])
  <2> DEFINE f == file[j]
             at == IF kept THEN f.at ELSE f.on
             on == IF kept THEN f.at ELSE f.on
             left == IF f.synced THEN f.pages ELSE IF f.pages < lost THEN f.pages ELSE lost
             cut == IF f.synced THEN f.exact ELSE exact /\ f.exact
             new == [f EXCEPT !.at = at, !.on = on, !.pages = left, !.exact = cut]
  <2>1. f \in FileRecords
    BY DEF TypeInv
  <2>2. file'[j] = new
    BY <1>1, <2>1, Zenon DEF AfterPowerLoss, FileRecords
  <2>3. {at, on} \subseteq {f.at, f.on}
    OBVIOUS
  <2>4. f.synced => left = f.pages /\ cut = f.exact
    OBVIOUS
  <2> HIDE DEF f, at, on, left, cut
  <2>5. /\ new.at = at /\ new.on = on /\ new.pid = f.pid /\ new.pages = left /\ new.exact = cut
        /\ new.synced = f.synced
    BY <2>1 DEF FileRecords
  <2> HIDE DEF new
  <2> QED
    BY <2>2, <2>3, <2>4, <2>5 DEF Durable, f
<1>3. \A p \in Procs : Stopped(p)
  BY DEF PowerLoss, Stopped, Down
<1> QED
  BY <1>2, <1>3 DEF PowerLoss

-----------------------------------------------------------------------------
(* Enough for PublishedDurable to last: durable files stay durable, and no name, and
   no rename to come, is new for a file that is not. *)
LEMMA DurableKept ==
    ASSUME TypeInv, PublishedDurable,
           \A j \in Ids : Durable(file[j]) => Durable(file'[j]),
           \A j \in Ids : "weight" \in {file'[j].at, file'[j].on}
                            => "weight" \in {file[j].at, file[j].on} \/ Durable(file'[j]),
           \A q \in Procs : proc'[q].pc = "rename"
                              => proc'[q] = proc[q] \/ Durable(file'[proc'[q].id])
    PROVE  PublishedDurable'
<1>1. ASSUME NEW q \in Procs, proc'[q].pc = "rename" PROVE Durable(file'[proc'[q].id])
  BY <1>1 DEF PublishedDurable, TypeInv, Busy
<1>2. ASSUME NEW j \in Ids, "weight" \in {file'[j].at, file'[j].on} PROVE Durable(file'[j])
  BY <1>2 DEF PublishedDurable
<1> QED
  BY <1>1, <1>2 DEF PublishedDurable, Durable

(* write_direct_atomic syncs the data before it gives the name: no step, of any
   process, publishes a file that is not durable. *)
LEMMA DurableStep ==
    ASSUME FilesAssumption, TypeInv, PublishedDurable, [Next]_vars
    PROVE  PublishedDurable'
<1>0. \A i \in Ids : file[i].target \in {"probe", "weight"}
  BY DEF TypeInv, FileRecords
<1>1. ASSUME NEW p \in Procs, Boot(p) PROVE PublishedDurable'
  BY <1>1, BootFacts, DurableKept DEF Others, SameFile
<1>2. ASSUME NEW p \in Procs, NEW i \in Ids, Clean(p, i) PROVE PublishedDurable'
  <2>1. ASSUME NEW j \in Ids
        PROVE  /\ Durable(file[j]) => Durable(file'[j])
               /\ file'[j].at \in {file[j].at, "gone"} /\ file'[j].on = file[j].on
    BY <1>2, CleanFacts DEF SameFile, Renamed, Durable
  <2>2. \A q \in Procs : proc'[q].pc = "rename" => proc'[q] = proc[q]
    BY <1>2, CleanFacts DEF Others
  <2> QED
    BY <2>1, <2>2, DurableKept
<1>3. ASSUME NEW p \in Procs, NEW target \in {"probe", "weight"}, Create(p, target)
      PROVE  PublishedDurable'
  <2>1. PICK i \in Ids : /\ file[i] = Unused /\ \A j \in Ids \ {i} : SameFile(j)
                         /\ file'[i].at = "tmp" /\ file'[i].on = "gone"
    BY <1>3, CreateFacts
  <2>2. ~Durable(file[i])
    BY <2>1 DEF Durable, Unused
  <2>3. \A q \in Procs : proc'[q].pc = "rename" => proc'[q] = proc[q]
    BY <1>3, CreateFacts DEF Others
  <2> QED
    BY <2>1, <2>2, <2>3, DurableKept DEF SameFile
<1>4. ASSUME NEW p \in Procs, WritePage(p) PROVE PublishedDurable'
  <2>1. ~Durable(file[proc[p].id])
    BY <1>4, WritePageFacts DEF Durable
  <2> QED
    BY <1>4, <2>1, WritePageFacts, DurableKept DEF SameFile
<1>5. ASSUME NEW p \in Procs, Sync(p) PROVE PublishedDurable'
  <2>1. \A q \in Procs : q # p => proc'[q] = proc[q]
    BY <1>5, SyncFacts DEF Others
  <2> QED
    BY <1>5, <2>1, SyncFacts, DurableKept DEF SameFile
<1>6. ASSUME NEW p \in Procs, Rename(p) PROVE PublishedDurable'
  <2>1. Durable(file[proc[p].id])
    BY <1>6, RenameFacts DEF PublishedDurable
  <2>2. ASSUME NEW j \in Ids PROVE Durable(file[j]) => Durable(file'[j])
    BY <1>6, RenameFacts DEF SameFile, Renamed, Durable
  <2>3. ASSUME NEW j \in Ids, j # proc[p].id
        PROVE  file'[j].at \in {file[j].at, "gone"} /\ file'[j].on = file[j].on
    BY <1>6, <2>3, RenameFacts DEF SameFile, Renamed
  <2>4. \A q \in Procs : proc'[q].pc = "rename" => proc'[q] = proc[q]
    BY <1>6, RenameFacts DEF Others
  <2> QED
    BY <2>1, <2>2, <2>3, <2>4, DurableKept
<1>7. ASSUME NEW p \in Procs, SyncDirectory(p) PROVE PublishedDurable'
  <2>1. \A q \in Procs : proc'[q].pc = "rename" => proc'[q] = proc[q]
    BY <1>7, SyncDirectoryFacts DEF Others
  <2>2. \A j \in Ids : /\ Durable(file[j]) => Durable(file'[j])
                       /\ file'[j].at = file[j].at /\ file'[j].on = file[j].at
    BY <1>7, SyncDirectoryFacts DEF Durable
  <2> QED
    BY <2>1, <2>2, DurableKept
<1>8. ASSUME NEW p \in Procs, WriteFails(p) PROVE PublishedDurable'
  <2>1. \A q \in Procs : proc'[q].pc = "rename" => proc'[q] = proc[q]
    BY <1>8, WriteFailsFacts, Zenon DEF Others, Stopped
  <2>2. ASSUME NEW j \in Ids
        PROVE  /\ Durable(file[j]) => Durable(file'[j])
               /\ file'[j].at \in {file[j].at, "gone"} /\ file'[j].on = file[j].on
    BY <1>8, WriteFailsFacts DEF Durable, SameFile, Renamed
  <2> QED
    BY <2>1, <2>2, DurableKept
<1>9. ASSUME NEW p \in Procs, NEW readable \in BOOLEAN, ReadProbe(p, readable)
      PROVE  PublishedDurable'
  <2>1. \A q \in Procs : proc'[q].pc = "rename" => proc'[q] = proc[q]
    BY <1>9, ReadProbeFacts, Zenon DEF Others, Stopped
  <2>2. ASSUME NEW j \in Ids
        PROVE  /\ Durable(file[j]) => Durable(file'[j])
               /\ file'[j].at \in {file[j].at, "gone"} /\ file'[j].on = file[j].on
    BY <1>9, ReadProbeFacts DEF Durable, SameFile, Renamed
  <2> QED
    BY <2>1, <2>2, DurableKept
<1>10. ASSUME NEW p \in Procs, RemoveWeight(p) PROVE PublishedDurable'
  <2>1. ASSUME NEW j \in Ids
        PROVE  /\ Durable(file[j]) => Durable(file'[j])
               /\ file'[j].at \in {file[j].at, "gone"} /\ file'[j].on = file[j].on
    BY <1>10, RemoveWeightFacts DEF Durable, SameFile, Renamed
  <2> QED
    BY <1>10, <2>1, RemoveWeightFacts, DurableKept
<1>11. ASSUME NEW p \in Procs, Crash(p) PROVE PublishedDurable'
  BY <1>11, CrashFacts, DurableKept DEF Others, Stopped, SameFile
<1>12. CASE PowerLoss
  BY <1>12, PowerLossFacts, DurableKept DEF Stopped
<1>13. CASE UNCHANGED vars
  BY <1>13 DEF vars, PublishedDurable, Durable
<1> QED
  BY <1>1, <1>2, <1>3, <1>4, <1>5, <1>6, <1>7, <1>8, <1>9, <1>10, <1>11, <1>12, <1>13
     DEF Next, Write

(* Nothing is there at first. *)
LEMMA InitTypes ==
    ASSUME FilesAssumption, Init
    PROVE  TypeInv /\ PublishedDurable
<1>1. Down \in ProcRecords /\ Down.pc = "down"
  BY DEF Down, ProcRecords, FilesAssumption
<1>2. "gone" \in Names /\ 0 \in 0 .. Pages /\ 0 \in 0 .. MaxBoots
  BY DEF Names, FilesAssumption
<1>3. Unused \in FileRecords /\ Unused.at = "gone" /\ Unused.on = "gone"
  BY <1>2 DEF Unused, FileRecords
<1>4. (\A p \in Procs : proc[p] = Down) /\ (\A i \in Ids : file[i] = Unused)
  BY DEF Init
<1>5. TypeInv
  BY <1>1, <1>2, <1>3, <1>4 DEF Init, TypeInv, Busy
<1> QED
  BY <1>1, <1>3, <1>4, <1>5 DEF PublishedDurable

(* Whoever opens the path of an expert's weights finds a complete file, also after a
   crash or a power loss: write_direct_atomic fsyncs before os.replace. Nothing is
   assumed of pids, namespaces or the number of processes. *)
THEOREM WeightsComplete == ASSUME FilesAssumption PROVE Spec => []WeightComplete
<1>1. Init => TypeInv /\ PublishedDurable
  BY InitTypes
<1>2. TypeInv /\ PublishedDurable /\ [Next]_vars => (TypeInv /\ PublishedDurable)'
  BY TypeStep, DurableStep
<1>3. PublishedDurable => WeightComplete
  BY DEF PublishedDurable, WeightComplete, Durable
<1> QED
  BY <1>1, <1>2, <1>3, PTL DEF Spec

-----------------------------------------------------------------------------
(* The file of a process that writes, through the step of another: it keeps its owner,
   and its name unless it was published and another was published since. *)
Kept(i) ==
    /\ file'[i].pid = file[i].pid /\ file'[i].by = file[i].by /\ file'[i].target = file[i].target
    /\ file'[i].at = file[i].at \/ (file[i].at = "weight" /\ file'[i].at = "gone")

(* What a step of process p does: the others' files stay theirs; its pid is its own; the
   file it writes is its own and lies where its progress says. *)
OthersKept(p) == \A q \in Procs \ {p} : Busy(q) => Kept(proc[q].id)

PidOwn(p) == proc'[p].pc # "down" =>
    /\ proc'[p].pid >= 1
    /\ \A q \in Procs \ {p} : Up(q) /\ Namespace[q] = Namespace[p] => proc'[p].pid # proc[q].pid

FileOwn(p) == proc'[p].pc \in {"write", "rename", "syncdir", "read"} =>
    /\ file'[proc'[p].id].pid = proc'[p].pid /\ file'[proc'[p].id].by = p
    /\ Placed(proc'[p].pc, file'[proc'[p].id])

(* Two processes that write do not write the same file. *)
LEMMA OwnIds ==
    ASSUME TypeInv, OwnFiles, NEW p \in Procs, NEW q \in Procs, p # q, Busy(p), Busy(q)
    PROVE  proc[p].id # proc[q].id
BY DEF OwnFiles

(* A step of process p that leaves the files of the others to them, and its own where
   it belongs, keeps both invariants. *)
LEMMA OwnKept ==
    ASSUME TypeInv, OwnFiles, InPlace, NEW p \in Procs, Others(p),
           OthersKept(p), PidOwn(p), FileOwn(p)
    PROVE  OwnFiles' /\ InPlace'
<1>1. \A q \in Procs \ {p} : proc'[q] = proc[q]
  BY DEF Others
<1>2. \A q \in Procs : (Up(q))' => proc'[q].pid >= 1
  BY <1>1 DEF OwnFiles, Up, PidOwn
<1>3. \A q, r \in Procs : (Up(q))' /\ (Up(r))' /\ proc'[q].pid = proc'[r].pid
                            /\ Namespace[q] = Namespace[r] => q = r
  BY <1>1 DEF OwnFiles, Up, PidOwn
<1>4. ASSUME NEW q \in Procs, (Busy(q))'
      PROVE  file'[proc'[q].id].pid = proc'[q].pid /\ file'[proc'[q].id].by = q
  BY <1>1, <1>4 DEF OwnFiles, Busy, Kept, OthersKept, FileOwn
<1>5. ASSUME NEW q \in Procs PROVE Placed(proc'[q].pc, file'[proc'[q].id])
  <2>1. CASE proc'[q].pc \notin {"write", "rename", "syncdir", "read"}
    BY <2>1 DEF Placed
  <2>2. CASE q = p /\ proc'[q].pc \in {"write", "rename", "syncdir", "read"}
    BY <2>2 DEF FileOwn
  <2>3. CASE q # p /\ proc'[q].pc \in {"write", "rename", "syncdir", "read"}
    <3>1. Busy(q) /\ proc'[q] = proc[q] /\ Kept(proc[q].id) /\ Placed(proc[q].pc, file[proc[q].id])
      BY <1>1, <2>3 DEF Busy, InPlace, OthersKept
    <3> QED
      BY <3>1 DEF Placed, Kept
  <2> QED
    BY <2>1, <2>2, <2>3
<1> QED
  BY <1>2, <1>3, <1>4, <1>5 DEF OwnFiles, InPlace

(* os.kill(pid, 0) finds the writer of a file that is being written, when the processes
   that share the directory share their pids. *)
LEMMA OwnersLive ==
    ASSUME TypeInv, OwnFiles, OneNamespace, NEW p \in Procs, NEW q \in Procs, Busy(q)
    PROVE  LiveOwner(p, proc[q].id)
<1>1. proc[q].pc # "down" /\ proc[q].pid = file[proc[q].id].pid /\ Namespace[q] = Namespace[p]
  BY DEF OwnFiles, OneNamespace, Busy
<1> QED
  BY <1>1 DEF LiveOwner

(* Processes that share their pids leave each other's files in place, whatever they do
   at the same time. *)
LEMMA OwnStep ==
    ASSUME FilesAssumption, OneNamespace, TypeInv, OwnFiles, InPlace, [Next]_vars
    PROVE  OwnFiles' /\ InPlace'
<1> DEFINE Goal == OwnFiles' /\ InPlace'
<1>0. /\ \A q \in Procs : Up(q) => proc[q].pid >= 1
      /\ \A q, r \in Procs : Up(q) /\ Up(r) /\ q # r => proc[q].pid # proc[r].pid
      /\ \A q \in Procs : Busy(q) => /\ file[proc[q].id].pid = proc[q].pid
                                     /\ file[proc[q].id].by = q
                                     /\ proc[q].id \in Ids
  BY DEF OwnFiles, OneNamespace, TypeInv
<1>a. \A i \in Ids : SameFile(i) => Kept(i)
  BY DEF SameFile, Kept
<1>b. \A q \in Procs : Placed(proc[q].pc, file[proc[q].id])
  BY DEF InPlace
(* The pid of a process that goes on is its own. *)
<1>c. ASSUME NEW p \in Procs, Up(p), Continues(p) PROVE PidOwn(p)
  BY <1>0, <1>c DEF Continues, PidOwn
<1>1. ASSUME NEW p \in Procs, Boot(p) PROVE Goal
  <2>1. Others(p) /\ proc'[p].pc \notin {"write", "rename", "syncdir", "read"}
    BY <1>1, BootFacts
  <2>2. PidOwn(p)
    BY <1>1, BootFacts DEF TypeInv, PidOwn
  <2>3. \A q \in Procs \ {p} : Busy(q) => Kept(proc[q].id)
    BY <1>0, <1>1, <1>a, BootFacts, Zenon
  <2> QED
    BY <2>1, <2>2, <2>3, OwnKept DEF OthersKept, FileOwn
<1>2. ASSUME NEW p \in Procs, NEW i \in Ids, Clean(p, i) PROVE Goal
  <2>1. Up(p)
    BY <1>2 DEF Clean, Up
  <2>2. ASSUME NEW q \in Procs, Busy(q) PROVE Kept(proc[q].id)
    <3>1. ~Abandoned(p, proc[q].id)
      BY <2>2, OwnersLive DEF Abandoned
    <3>2. SameFile(proc[q].id)
      BY <1>0, <1>2, <2>2, <3>1, CleanFacts
    <3> QED
      BY <1>0, <1>a, <2>2, <3>2
  <2>3. Others(p) /\ Continues(p) /\ proc'[p].pc \notin {"write", "rename", "syncdir", "read"}
    BY <1>2, CleanFacts
  <2> QED
    BY <1>c, <2>1, <2>2, <2>3, OwnKept DEF OthersKept, FileOwn
<1>3. ASSUME NEW p \in Procs, NEW target \in {"probe", "weight"}, Create(p, target) PROVE Goal
  <2>1. Up(p) /\ Others(p) /\ Continues(p) /\ proc'[p].pc = "write"
    BY <1>3, CreateFacts DEF Up
  <2>2. PICK i \in Ids : /\ proc'[p].id = i /\ file[i] = Unused
                         /\ \A j \in Ids \ {i} : SameFile(j)
                         /\ file'[i].at = "tmp" /\ file'[i].pid = proc[p].pid /\ file'[i].by = p
    BY <1>3, CreateFacts
  <2>3. file[i].pid = 0
    BY <2>2 DEF Unused
  <2>4. ASSUME NEW q \in Procs, Busy(q) PROVE Kept(proc[q].id)
    <3>1. proc[q].id # i
      BY <1>0, <2>3, <2>4 DEF Busy, Up
    <3> QED
      BY <1>0, <1>a, <2>2, <2>4, <3>1
  <2>5. FileOwn(p)
    BY <2>1, <2>2, Zenon DEF Placed, Continues, FileOwn
  <2> QED
    BY <1>c, <2>1, <2>4, <2>5, OwnKept DEF OthersKept
(* A process that goes on with its file, which keeps its owner. *)
<1>d. ASSUME NEW p \in Procs, Busy(p), Others(p), Continues(p), Kept(proc[p].id),
             proc'[p].pc # "serve" => proc'[p].id = proc[p].id,
             proc'[p].pc # "serve" => Placed(proc'[p].pc, file'[proc[p].id]),
             proc'[p].pc \in {"write", "rename", "syncdir", "read", "serve"},
             \A q \in Procs \ {p} : Busy(q) => Kept(proc[q].id)
      PROVE  Goal
  <2>1. /\ file'[proc[p].id].by = p
        /\ file'[proc[p].id].pid = proc'[p].pid
    BY <1>0, <1>d DEF Kept, Continues
  <2>2. FileOwn(p)
    BY <1>d, <2>1 DEF FileOwn
  <2>3. Up(p)
    BY <1>d, Zenon DEF Up, Busy
  <2> QED
    BY <1>c, <1>d, <2>2, <2>3, OwnKept, Zenon DEF OthersKept
<1>4. ASSUME NEW p \in Procs, WritePage(p) PROVE Goal
  <2>1. \A i \in Ids : Kept(i) /\ file'[i].at = file[i].at
    BY <1>4, WritePageFacts DEF Kept, SameFile
  <2>2. Others(p) /\ Continues(p) /\ proc'[p] = proc[p] /\ proc[p].pc = "write"
    BY <1>4, WritePageFacts DEF Others, Continues
  <2>3. Busy(p)
    BY <2>2, Zenon DEF Busy
  <2>4. Placed(proc'[p].pc, file'[proc[p].id])
    BY <1>0, <1>b, <2>1, <2>2, <2>3, Zenon DEF Placed, Kept
  <2> QED
    BY <1>0, <1>d, <2>1, <2>2, <2>3, <2>4, Zenon
<1>5. ASSUME NEW p \in Procs, Sync(p) PROVE Goal
  <2>1. \A i \in Ids : Kept(i) /\ file'[i].at = file[i].at
    BY <1>5, SyncFacts DEF Kept, SameFile
  <2>2. Others(p) /\ Continues(p) /\ proc[p].pc = "write" /\ proc'[p].pc = "rename"
          /\ proc'[p].id = proc[p].id
    BY <1>5, SyncFacts
  <2>3. Busy(p)
    BY <2>2, Zenon DEF Busy
  <2>4. Placed(proc'[p].pc, file'[proc[p].id])
    BY <1>0, <1>b, <2>1, <2>2, <2>3, Zenon DEF Placed, Kept
  <2> QED
    BY <1>0, <1>d, <2>1, <2>2, <2>3, <2>4
<1>6. ASSUME NEW p \in Procs, Rename(p) PROVE Goal
  <2>1. proc[p].pc = "rename" /\ Others(p) /\ Continues(p) /\ proc'[p].pc = "syncdir"
          /\ proc'[p].id = proc[p].id
    BY <1>6, RenameFacts
  <2>2. Busy(p)
    BY <2>1, Zenon DEF Busy
  <2>3. \A i \in Ids \ {proc[p].id} : Kept(i)
    BY <1>6, RenameFacts, Zenon DEF Kept, SameFile, Renamed
  <2>4. \A q \in Procs \ {p} : Busy(q) => Kept(proc[q].id)
    BY <1>0, <2>2, <2>3, OwnIds, Zenon
  <2>5. Placed(proc'[p].pc, file'[proc[p].id])
    BY <1>6, RenameFacts DEF Placed, Renamed
  <2>6. file'[proc[p].id].by = p /\ file'[proc[p].id].pid = proc'[p].pid
    <3>1. file'[proc[p].id].by = file[proc[p].id].by /\ file'[proc[p].id].pid = file[proc[p].id].pid
      BY <1>6, RenameFacts, Zenon DEF Renamed
    <3> QED
      BY <1>0, <2>1, <2>2, <3>1, Zenon DEF Continues
  <2>7. FileOwn(p) /\ Up(p)
    BY <2>1, <2>5, <2>6, Zenon DEF FileOwn, Up
  <2> QED
    BY <1>c, <2>1, <2>4, <2>7, OwnKept DEF OthersKept
<1>7. ASSUME NEW p \in Procs, SyncDirectory(p) PROVE Goal
  <2>1. \A i \in Ids : Kept(i) /\ file'[i].at = file[i].at
    BY <1>7, SyncDirectoryFacts DEF Kept
  <2>2. Others(p) /\ Continues(p) /\ proc[p].pc = "syncdir" /\ proc'[p].pc \in {"read", "serve"}
    BY <1>7, SyncDirectoryFacts
  <2>3. proc'[p].pc # "serve" => proc'[p].id = proc[p].id
    BY <1>7, SyncDirectoryFacts
  <2>4. Busy(p)
    BY <2>2 DEF Busy
  <2>5. proc'[p].pc # "serve" => Placed(proc'[p].pc, file'[proc[p].id])
    <3>1. proc'[p].pc # "serve" => proc'[p].pc = "read" /\ file[proc[p].id].target = "probe"
      BY <1>7, SyncDirectoryFacts
    <3>2. Placed("syncdir", file[proc[p].id]) /\ file'[proc[p].id].at = file[proc[p].id].at
      BY <1>0, <1>b, <2>1, <2>2, <2>4
    <3> QED
      BY <3>1, <3>2 DEF Placed
  <2> QED
    BY <1>0, <1>d, <2>1, <2>2, <2>3, <2>4, <2>5, Zenon
(* A process that ends its write, or ends, touches no file but its own. *)
<1>e. ASSUME NEW p \in Procs, Busy(p), Others(p), \A j \in Ids \ {proc[p].id} : SameFile(j),
             Stopped(p) \/ (Continues(p) /\ proc'[p].pc = "serve")
      PROVE  Goal
  <2>1. \A q \in Procs \ {p} : Busy(q) => Kept(proc[q].id)
    BY <1>0, <1>a, <1>e, OwnIds
  <2>2. Up(p) /\ proc'[p].pc \in {"down", "serve"} /\ (proc'[p].pc = "serve" => Continues(p))
    BY <1>e DEF Up, Busy, Stopped
  <2>3. PidOwn(p)
    BY <1>c, <2>2 DEF PidOwn
  <2> QED
    BY <1>e, <2>1, <2>2, <2>3, OwnKept, Zenon DEF OthersKept, FileOwn
<1>8. ASSUME NEW p \in Procs, WriteFails(p) PROVE Goal
  BY <1>8, <1>e, WriteFailsFacts
<1>9. ASSUME NEW p \in Procs, NEW readable \in BOOLEAN, ReadProbe(p, readable) PROVE Goal
  BY <1>9, <1>e, ReadProbeFacts, Zenon
<1>10. ASSUME NEW p \in Procs, RemoveWeight(p) PROVE Goal
  <2>1. \A i \in Ids : Kept(i)
    BY <1>10, RemoveWeightFacts DEF Kept, SameFile, Renamed
  <2>2. Up(p) /\ ~Busy(p) /\ proc'[p] = proc[p] /\ Others(p) /\ Continues(p)
    BY <1>10, RemoveWeightFacts DEF RemoveWeight, Up, Busy, Others, Continues
  <2>3. FileOwn(p)
    BY <2>2 DEF Busy, FileOwn
  <2> QED
    BY <1>0, <1>c, <2>1, <2>2, <2>3, OwnKept DEF OthersKept
<1>11. ASSUME NEW p \in Procs, Crash(p) PROVE Goal
  <2>1. \A q \in Procs : Busy(q) => Kept(proc[q].id)
    BY <1>0, <1>11, <1>a, CrashFacts
  <2>2. Others(p) /\ proc'[p].pc = "down"
    BY <1>11, CrashFacts, Zenon DEF Stopped
  <2> QED
    BY <2>1, <2>2, OwnKept DEF OthersKept, PidOwn, FileOwn
<1>12. CASE PowerLoss
  <2>1. \A q \in Procs : proc'[q].pc = "down"
    BY <1>12, PowerLossFacts, Zenon DEF Stopped
  <2> QED
    BY <2>1 DEF OwnFiles, InPlace, Placed, Up, Busy
<1>13. CASE UNCHANGED vars
  BY <1>13 DEF vars, OwnFiles, InPlace, Placed, Up, Busy
<1> QED
  BY <1>1, <1>2, <1>3, <1>4, <1>5, <1>6, <1>7, <1>8, <1>9, <1>10, <1>11, <1>12, <1>13, Zenon
     DEF Next, Write

(* "Temporary files owned by a live process are left in place": the cleanup of one
   Worker never takes the file another is writing, or probing, when the processes that
   share the cache directory share their pid namespace. *)
THEOREM LiveFilesKept ==
    ASSUME FilesAssumption, OneNamespace
    PROVE  Spec => []LiveTemporariesKept
<1>1. Init => TypeInv /\ OwnFiles /\ InPlace
  <2>1. Down.pc = "down"
    BY DEF Down
  <2> QED
    BY <2>1, InitTypes DEF Init, OwnFiles, InPlace, Placed, Up, Busy
<1>2. TypeInv /\ OwnFiles /\ InPlace /\ [Next]_vars => (TypeInv /\ OwnFiles /\ InPlace)'
  BY TypeStep, OwnStep
<1>3. InPlace => LiveTemporariesKept
  BY Zenon DEF InPlace, Placed, LiveTemporariesKept
<1> QED
  BY <1>1, <1>2, <1>3, PTL DEF Spec

-----------------------------------------------------------------------------
(* What a step that starts nobody and creates no file does: no file comes back or
   becomes a temporary one; process p stops or goes on; a temporary file with its pid is
   the one it works on; it leaves none of those it looked for, or looks on. *)
Shrinks(i) ==
    /\ file'[i].pid = file[i].pid
    /\ {file'[i].at, file'[i].on} # {"gone"} => {file[i].at, file[i].on} # {"gone"}
    /\ file'[i].at \in {"tmp", "probe"} => i \in Temporary

AllShrink == \A i \in Ids : Shrinks(i)

Proceeds(p) == Stopped(p) \/ (Up(p) /\ proc'[p].pc # "down" /\ Continues(p))

OwnTemporary(p) == \A i \in Ids :
    proc'[p].pc # "down" /\ file'[i].at \in {"tmp", "probe"} /\ file[i].pid = proc[p].pid
      => (Busy(p))' /\ proc'[p].id = i

OldLeft(p) == \A i \in proc[p].old :
    proc'[p].pc # "down" /\ file'[i].at \in {"tmp", "probe"}
      => proc'[p].pc = "clean" /\ i \in proc'[p].scan

(* A step of process p that makes no temporary file, and leaves those of its cleanup to
   its cleanup, keeps both invariants about pids. *)
LEMMA PidsKept ==
    ASSUME TypeInv, TypeInv', PidsFresh, OldAbandoned, NEW p \in Procs, Others(p), boots' = boots,
           Proceeds(p), AllShrink, OwnTemporary(p), OldLeft(p)
    PROVE  PidsFresh' /\ OldAbandoned'
<1>0. /\ \A q \in Procs \ {p} : proc'[q] = proc[q]
      /\ proc'[p].pc # "down" => Up(p) /\ proc'[p].pid = proc[p].pid /\ proc'[p].old = proc[p].old
      /\ proc'[p].pc = "down" => proc'[p].old = {}
  BY DEF Others, Stopped, Continues, Proceeds
<1>1. \A q \in Procs : (Up(q))' => proc'[q].pid =< boots'
  BY <1>0 DEF PidsFresh, Up
<1>2. \A i \in Ids : /\ file'[i].pid =< boots'
                     /\ {file'[i].at, file'[i].on} # {"gone"} => file'[i].pid >= 1
  BY DEF PidsFresh, AllShrink, Shrinks
<1>3. ASSUME NEW q \in Procs, NEW i \in Ids,
             (Up(q))', i \in Temporary', file'[i].pid = proc'[q].pid
      PROVE  (Busy(q))' /\ proc'[q].id = i
  <2>1. i \in Temporary /\ file'[i].at \in {"tmp", "probe"} /\ file[i].pid = proc'[q].pid
    BY <1>3, Zenon DEF Temporary, AllShrink, Shrinks
  <2>2. CASE q = p
    BY <1>0, <1>3, <2>1, <2>2, Zenon DEF Up, OwnTemporary
  <2>3. CASE q # p
    BY <1>0, <1>3, <2>1, <2>3 DEF Up, PidsFresh, Busy
  <2> QED
    BY <2>2, <2>3, Zenon
<1>4. ASSUME NEW q \in Procs, NEW i \in proc'[q].old
      PROVE  /\ (Up(q))' /\ file'[i].pid >= 1
             /\ \A r \in Procs : (Up(r))' => proc'[r].pid # file'[i].pid
             /\ i \in Temporary' => proc'[q].pc = "clean" /\ i \in proc'[q].scan
  <2>1. i \in Ids /\ i \in proc[q].old /\ (Up(q))'
    BY <1>0, <1>4 DEF TypeInv, ProcRecords, OldAbandoned, Up
  <2>2. file'[i].pid >= 1 /\ \A r \in Procs : (Up(r))' => proc'[r].pid # file'[i].pid
    BY <1>0, <2>1 DEF OldAbandoned, Up, AllShrink, Shrinks
  <2>3. ASSUME i \in Temporary' PROVE proc'[q].pc = "clean" /\ i \in proc'[q].scan
    <3>1. i \in Temporary /\ file'[i].at \in {"tmp", "probe"}
      BY <2>1, <2>3 DEF Temporary, AllShrink, Shrinks
    <3>2. CASE q = p
      BY <2>1, <3>1, <3>2 DEF Up, OldLeft
    <3>3. CASE q # p
      BY <1>0, <2>1, <3>1, <3>3, Zenon DEF OldAbandoned
    <3> QED
      BY <3>2, <3>3
  <2> QED
    BY <2>1, <2>2, <2>3
<1> QED
  BY <1>1, <1>2, <1>3, <1>4, Zenon DEF PidsFresh, OldAbandoned

(* A process that starts has a pid nobody had, and finds what was abandoned. *)
LEMMA BootPids ==
    ASSUME FilesAssumption, ~ReusePids, TypeInv, OwnFiles, PidsFresh, OldAbandoned,
           NEW p \in Procs, Boot(p)
    PROVE  PidsFresh' /\ OldAbandoned'
<1>0. /\ \A q \in Procs \ {p} : proc'[q] = proc[q]
      /\ \A i \in Ids : file'[i] = file[i]
      /\ boots' = boots + 1 /\ boots \in Nat /\ proc'[p].pid = boots + 1 /\ proc'[p].pc = "clean"
      /\ proc'[p].scan = Temporary /\ proc'[p].old = {i \in Temporary : ~OwnerUp(i)}
  BY BootFacts DEF Others, SameFile, TypeInv
<1>1. /\ \A q \in Procs : Up(q) => proc[q].pid =< boots
      /\ \A i \in Ids : file[i].pid =< boots
      /\ \A i \in Ids : file[i].pid \in Nat
      /\ \A q \in Procs : proc[q].pid \in Nat
  BY DEF PidsFresh, TypeInv, ProcRecords, FileRecords
<1>2. Temporary' = Temporary
  BY <1>0 DEF Temporary
<1>3. \A q \in Procs : (Up(q))' => proc'[q].pid =< boots'
  BY <1>0, <1>1 DEF Up
<1>4. \A i \in Ids : /\ file'[i].pid =< boots'
                     /\ {file'[i].at, file'[i].on} # {"gone"} => file'[i].pid >= 1
  BY <1>0, <1>1 DEF PidsFresh
<1>5. \A q \in Procs, i \in Ids :
        (Up(q))' /\ i \in Temporary' /\ file'[i].pid = proc'[q].pid => (Busy(q))' /\ proc'[q].id = i
  BY <1>0, <1>1, <1>2 DEF PidsFresh, Up, Busy
<1>6. ASSUME NEW i \in proc'[p].old
      PROVE  /\ (Up(p))' /\ file'[i].pid >= 1
             /\ \A r \in Procs : (Up(r))' => proc'[r].pid # file'[i].pid
             /\ i \in Temporary' => proc'[p].pc = "clean" /\ i \in proc'[p].scan
  <2>1. i \in Ids /\ i \in Temporary /\ ~OwnerUp(i)
    BY <1>0, <1>6 DEF Temporary
  <2>2. file[i].pid >= 1
    BY <2>1 DEF PidsFresh, Temporary
  <2>3. \A r \in Procs : Up(r) => proc[r].pid # file[i].pid
    BY <2>1 DEF PidsFresh, OwnFiles, OwnerUp, Up
  <2> QED
    BY <1>0, <1>1, <1>2, <2>1, <2>2, <2>3 DEF Up
<1>7. ASSUME NEW q \in Procs \ {p}, NEW i \in proc'[q].old
      PROVE  /\ (Up(q))' /\ file'[i].pid >= 1
             /\ \A r \in Procs : (Up(r))' => proc'[r].pid # file'[i].pid
             /\ i \in Temporary' => proc'[q].pc = "clean" /\ i \in proc'[q].scan
  <2>1. i \in Ids /\ i \in proc[q].old
    BY <1>0, <1>7, Zenon DEF TypeInv, ProcRecords
  <2> QED
    BY <1>0, <1>1, <1>2, <2>1 DEF OldAbandoned, Up
<1> QED
  BY <1>3, <1>4, <1>5, <1>6, <1>7, Zenon DEF PidsFresh, OldAbandoned

(* The file a process creates is nobody else's, and none that a cleanup looks for. *)
LEMMA CreatePids ==
    ASSUME FilesAssumption, OneNamespace, TypeInv, OwnFiles, PidsFresh, OldAbandoned,
           NEW p \in Procs, NEW target \in {"probe", "weight"}, Create(p, target)
    PROVE  PidsFresh' /\ OldAbandoned'
<1>1. PICK i \in Ids : /\ proc'[p].id = i /\ file[i] = Unused
                       /\ \A j \in Ids \ {i} : file'[j] = file[j]
                       /\ file'[i].at = "tmp" /\ file'[i].pid = proc[p].pid
  BY CreateFacts DEF SameFile
<1>2. /\ \A q \in Procs \ {p} : proc'[q] = proc[q]
      /\ proc'[p].pid = proc[p].pid /\ proc'[p].old = proc[p].old /\ boots' = boots
      /\ proc'[p].pc = "write" /\ Up(p) /\ ~Busy(p)
      /\ proc[p].pc = "clean" => proc[p].scan = {}
  BY CreateFacts DEF Others, Continues, Up, Busy
<1>3. file[i].pid = 0
  BY <1>1 DEF Unused
<1>4. proc[p].pid >= 1 /\ proc[p].pid =< boots
        /\ \A q \in Procs \ {p} : Up(q) => proc[q].pid # proc[p].pid
  BY <1>2 DEF OwnFiles, PidsFresh, OneNamespace
<1>5. \A q \in Procs : (Up(q))' => proc'[q].pid =< boots'
  BY <1>2, <1>4, Zenon DEF PidsFresh, Up
<1>6. \A j \in Ids : /\ file'[j].pid =< boots'
                     /\ {file'[j].at, file'[j].on} # {"gone"} => file'[j].pid >= 1
  BY <1>1, <1>2, <1>4 DEF PidsFresh
<1>7. \A j \in Ids \ {i} : j \in Temporary' => j \in Temporary
  BY <1>1 DEF Temporary
<1>8. ASSUME NEW q \in Procs, NEW j \in Ids,
             (Up(q))', j \in Temporary', file'[j].pid = proc'[q].pid
      PROVE  (Busy(q))' /\ proc'[q].id = j
  <2>1. CASE j = i
    BY <1>1, <1>2, <1>4, <1>8, <2>1 DEF Up, Busy
  <2>2. CASE j # i
    BY <1>1, <1>2, <1>4, <1>7, <1>8, <2>2 DEF PidsFresh, Up, Busy
  <2> QED
    BY <2>1, <2>2, Zenon
<1>9. ASSUME NEW q \in Procs, NEW j \in proc'[q].old
      PROVE  /\ (Up(q))' /\ file'[j].pid >= 1
             /\ \A r \in Procs : (Up(r))' => proc'[r].pid # file'[j].pid
             /\ j \in Temporary' => proc'[q].pc = "clean" /\ j \in proc'[q].scan
  <2>1. j \in Ids /\ j \in proc[q].old
    BY <1>2, <1>9 DEF TypeInv, ProcRecords
  <2>2. j # i
    BY <1>3, <2>1 DEF OldAbandoned
  <2>3. file'[j] = file[j] /\ (j \in Temporary' => j \in Temporary)
    BY <1>1, <1>7, <2>1, <2>2
  <2> QED
    BY <1>2, <2>1, <2>3 DEF OldAbandoned, Up
<1> QED
  BY <1>5, <1>6, <1>8, <1>9, Zenon DEF PidsFresh, OldAbandoned

(* Nothing that the processes do brings an abandoned file back. *)
LEMMA PidsStep ==
    ASSUME FilesAssumption, OneNamespace, ~ReusePids, TypeInv, OwnFiles, InPlace,
           PidsFresh, OldAbandoned, [Next]_vars
    PROVE  PidsFresh' /\ OldAbandoned'
<1> DEFINE Goal == PidsFresh' /\ OldAbandoned'
<1>t. TypeInv'
  BY TypeStep, Zenon
<1>a. ASSUME NEW i \in Ids, SameFile(i) \/ Renamed(i, "gone")
             \/ (Renamed(i, "weight") /\ file[i].at \in {"tmp", "weight"})
             \/ (Renamed(i, "probe") /\ file[i].at = "tmp")
      PROVE  Shrinks(i)
  BY <1>a DEF SameFile, Renamed, Temporary, Shrinks
(* What a process that is past its cleanup looked for is gone. *)
<1>b. ASSUME NEW p \in Procs, proc[p].pc # "clean"
      PROVE  \A i \in proc[p].old : i \in Ids /\ i \notin Temporary
  BY <1>b DEF OldAbandoned, TypeInv, ProcRecords
(* A temporary file with the pid of a process is the one it works on. *)
<1>c. \A p \in Procs, i \in Ids :
        Up(p) /\ i \in Temporary /\ file[i].pid = proc[p].pid => Busy(p) /\ proc[p].id = i
  BY DEF PidsFresh
<1>s. AllShrink => \A i \in Ids : file'[i].at \in {"tmp", "probe"} => i \in Temporary
  BY DEF AllShrink, Shrinks
(* A process that is past its cleanup and goes on with its file. *)
<1>d. ASSUME NEW p \in Procs, Others(p), Continues(p), boots' = boots, Busy(p), (Busy(p))',
             proc'[p].id = proc[p].id, AllShrink
      PROVE  Goal
  <2>1. Up(p) /\ proc[p].pc # "clean" /\ proc'[p].pc # "down"
    BY <1>d DEF Up, Busy
  <2>2. OwnTemporary(p)
    BY <1>c, <1>d, <1>s, <2>1 DEF OwnTemporary
  <2>3. OldLeft(p)
    BY <1>b, <1>d, <1>s, <2>1 DEF OldLeft
  <2>4. Proceeds(p)
    BY <1>d, <2>1 DEF Proceeds
  <2> QED
    BY <1>t, <1>d, <2>2, <2>3, <2>4, PidsKept
(* A process that is done with its file, which is not a temporary one any more. *)
<1>e. ASSUME NEW p \in Procs, Others(p), boots' = boots, Busy(p),
             Stopped(p) \/ (Continues(p) /\ proc'[p].pc = "serve"),
             AllShrink, file'[proc[p].id].at \notin {"tmp", "probe"}
      PROVE  Goal
  <2>1. Up(p) /\ proc[p].pc # "clean" /\ Proceeds(p)
    BY <1>e DEF Up, Busy, Proceeds
  <2>2. OwnTemporary(p)
    BY <1>c, <1>e, <1>s, <2>1 DEF OwnTemporary
  <2>3. OldLeft(p)
    BY <1>b, <1>e, <1>s, <2>1 DEF OldLeft
  <2> QED
    BY <1>t, <1>e, <2>1, <2>2, <2>3, PidsKept
<1>1. ASSUME NEW p \in Procs, Boot(p) PROVE Goal
  BY <1>1, BootPids
<1>2. ASSUME NEW p \in Procs, NEW i \in Ids, Clean(p, i) PROVE Goal
  <2>1. AllShrink
    BY <1>2, <1>a, CleanFacts, Zenon DEF AllShrink
  <2>2. Up(p) /\ proc[p].pc = "clean" /\ proc'[p].pc = "clean" /\ proc'[p].scan = proc[p].scan \ {i}
          /\ Others(p) /\ Continues(p) /\ boots' = boots
    BY <1>2, CleanFacts DEF Up
  <2>3. OwnTemporary(p)
    BY <1>c, <1>s, <2>1, <2>2 DEF Busy, OwnTemporary
  <2>4. ASSUME NEW j \in proc[p].old, file'[j].at \in {"tmp", "probe"}
        PROVE  j \in proc'[p].scan
    <3>1. j \in Ids /\ j \in Temporary /\ j \in proc[p].scan
      BY <1>s, <2>1, <2>4, Zenon DEF OldAbandoned, TypeInv, ProcRecords
    <3>2. j # i
      <4>1. ~LiveOwner(p, j)
        BY <2>4 DEF OldAbandoned, LiveOwner, Up
      <4>2. Abandoned(p, j)
        BY <3>1, <4>1 DEF Abandoned, Temporary
      <4> QED
        BY <1>2, <2>4, <4>2, CleanFacts, Zenon DEF Renamed
    <3> QED
      BY <2>2, <3>1, <3>2, Zenon
  <2>5. OldLeft(p) /\ Proceeds(p)
    BY <2>2, <2>4 DEF OldLeft, Proceeds
  <2> QED
    BY <1>t, <2>1, <2>2, <2>3, <2>5, PidsKept, Zenon
<1>3. ASSUME NEW p \in Procs, NEW target \in {"probe", "weight"}, Create(p, target) PROVE Goal
  BY <1>3, CreatePids
<1>4. ASSUME NEW p \in Procs, WritePage(p) PROVE Goal
  <2>1. AllShrink
    BY <1>4, WritePageFacts, Zenon DEF SameFile, Temporary, AllShrink, Shrinks
  <2>2. Others(p) /\ Continues(p) /\ Busy(p) /\ (Busy(p))' /\ proc'[p].id = proc[p].id /\ boots' = boots
    BY <1>4, WritePageFacts, Zenon DEF Others, Continues, Busy
  <2> QED
    BY <1>d, <2>1, <2>2
<1>5. ASSUME NEW p \in Procs, Sync(p) PROVE Goal
  <2>1. AllShrink
    BY <1>5, SyncFacts DEF SameFile, Temporary, AllShrink, Shrinks
  <2>2. Others(p) /\ Continues(p) /\ Busy(p) /\ (Busy(p))' /\ proc'[p].id = proc[p].id /\ boots' = boots
    BY <1>5, SyncFacts, Zenon DEF Busy
  <2> QED
    BY <1>d, <2>1, <2>2
<1>6. ASSUME NEW p \in Procs, Rename(p) PROVE Goal
  <2>1. file[proc[p].id].target \in {"probe", "weight"}
    BY <1>6, RenameFacts, Zenon DEF TypeInv, FileRecords
  <2>2. AllShrink
    BY <1>6, <1>a, <2>1, RenameFacts, Zenon DEF AllShrink
  <2>3. Others(p) /\ Continues(p) /\ Busy(p) /\ (Busy(p))' /\ proc'[p].id = proc[p].id /\ boots' = boots
    BY <1>6, RenameFacts DEF Busy
  <2> QED
    BY <1>d, <2>2, <2>3
<1>7. ASSUME NEW p \in Procs, SyncDirectory(p) PROVE Goal
  <2>1. \A j \in Ids : file'[j].at = file[j].at /\ file'[j].on = file[j].at /\ file'[j].pid = file[j].pid
    BY <1>7, SyncDirectoryFacts
  <2>a. AllShrink
    BY <2>1, Zenon DEF Temporary, AllShrink, Shrinks
  <2>2. Busy(p) /\ Others(p) /\ Continues(p) /\ boots' = boots
    BY <1>7, SyncDirectoryFacts DEF Busy
  <2>3. CASE proc'[p].pc = "read" /\ proc'[p].id = proc[p].id
    <3>1. (Busy(p))'
      BY <2>3 DEF Busy
    <3> QED
      BY <1>d, <2>a, <2>2, <2>3, <3>1
  <2>4. CASE proc'[p].pc = "serve" /\ file[proc[p].id].target = "weight"
    <3>1. file'[proc[p].id].at \notin {"tmp", "probe"}
      BY <1>7, <2>4, SyncDirectoryFacts DEF InPlace, Placed
    <3> QED
      BY <1>e, <2>a, <2>2, <2>4, <3>1, Zenon
  <2> QED
    BY <1>7, <2>3, <2>4, SyncDirectoryFacts, Zenon
<1>8. ASSUME NEW p \in Procs, WriteFails(p) PROVE Goal
  <2>1. AllShrink
    BY <1>8, <1>a, WriteFailsFacts, Zenon DEF AllShrink
  <2>2. file'[proc[p].id].at \notin {"tmp", "probe"}
    BY <1>8, WriteFailsFacts, Zenon DEF Renamed
  <2>3. Busy(p) /\ Others(p) /\ boots' = boots
          /\ (Stopped(p) \/ (Continues(p) /\ proc'[p].pc = "serve"))
    BY <1>8, WriteFailsFacts
  <2> QED
    BY <1>e, <2>1, <2>2, <2>3, Zenon
<1>9. ASSUME NEW p \in Procs, NEW readable \in BOOLEAN, ReadProbe(p, readable) PROVE Goal
  <2>1. AllShrink
    BY <1>9, <1>a, ReadProbeFacts, Zenon DEF AllShrink
  <2>2. file'[proc[p].id].at \notin {"tmp", "probe"}
    BY <1>9, ReadProbeFacts, Zenon DEF Renamed
  <2>3. Busy(p) /\ Others(p) /\ boots' = boots
          /\ (Stopped(p) \/ (Continues(p) /\ proc'[p].pc = "serve"))
    BY <1>9, ReadProbeFacts
  <2> QED
    BY <1>e, <2>1, <2>2, <2>3
<1>10. ASSUME NEW p \in Procs, RemoveWeight(p) PROVE Goal
  <2>1. AllShrink
    BY <1>10, <1>a, RemoveWeightFacts DEF AllShrink
  <2>2. Up(p) /\ proc[p].pc # "clean" /\ ~Busy(p) /\ proc' = proc /\ boots' = boots
    BY <1>10, RemoveWeightFacts DEF RemoveWeight, Up, Busy
  <2>3. Others(p) /\ Proceeds(p)
    BY <2>2 DEF Others, Continues, Up, Proceeds
  <2>4. OwnTemporary(p)
    BY <1>c, <1>s, <2>1, <2>2, Zenon DEF OwnTemporary
  <2>5. OldLeft(p)
    BY <1>b, <1>s, <2>1, <2>2 DEF OldLeft
  <2> QED
    BY <1>t, <2>1, <2>2, <2>3, <2>4, <2>5, PidsKept
<1>11. ASSUME NEW p \in Procs, Crash(p) PROVE Goal
  <2>1. AllShrink
    BY <1>11, <1>a, CrashFacts DEF AllShrink
  <2>2. Others(p) /\ Stopped(p) /\ boots' = boots /\ proc'[p].pc = "down"
    BY <1>11, CrashFacts DEF Stopped
  <2>3. OwnTemporary(p) /\ OldLeft(p) /\ Proceeds(p)
    BY <2>2, Zenon DEF OwnTemporary, OldLeft, Proceeds
  <2> QED
    BY <1>t, <2>1, <2>2, <2>3, PidsKept
<1>12. CASE PowerLoss
  <2>1. (\A q \in Procs : proc'[q].pc = "down" /\ proc'[q].old = {}) /\ boots' = boots
    BY <1>12, PowerLossFacts DEF Stopped
  <2>2. \A j \in Ids : /\ file'[j].pid = file[j].pid
                       /\ {file'[j].at, file'[j].on} # {"gone"} => {file[j].at, file[j].on} # {"gone"}
    BY <1>12, PowerLossFacts
  <2> QED
    BY <2>1, <2>2, Zenon DEF PidsFresh, OldAbandoned, Up
<1>13. CASE UNCHANGED vars
  BY <1>13 DEF vars, PidsFresh, OldAbandoned, Up, Busy, Temporary
<1> QED
  BY <1>1, <1>2, <1>3, <1>4, <1>5, <1>6, <1>7, <1>8, <1>9, <1>10, <1>11, <1>12, <1>13
     DEF Next, Write

(* The shared weight files are sound for every number of Workers, files and pages: what
   is published is complete (write_direct_atomic), the temporary files of live processes
   stay and the abandoned ones go (cleanup_temporary_files). The last two are about pids:
   the Workers share a pid namespace, and a pid is not given twice. *)
THEOREM SharedFilesSound ==
    ASSUME FilesAssumption, OneNamespace, ~ReusePids
    PROVE  Spec => []WeightFilesSound
<1> DEFINE IInv == TypeInv /\ OwnFiles /\ InPlace /\ PidsFresh /\ OldAbandoned
<1>1. Init => IInv
  <2> SUFFICES ASSUME Init PROVE IInv
    OBVIOUS
  <2>1. TypeInv
    BY InitTypes
  <2>2. Down.pc = "down" /\ Down.old = {}
    BY DEF Down
  <2>3. Unused.at = "gone" /\ Unused.on = "gone" /\ Unused.pid = 0
    BY DEF Unused
  <2>4. /\ \A p \in Procs : proc[p].pc = "down" /\ proc[p].old = {}
        /\ \A i \in Ids : file[i].at = "gone" /\ file[i].on = "gone" /\ file[i].pid = 0
        /\ boots = 0
    BY <2>2, <2>3 DEF Init
  <2>5. OwnFiles /\ InPlace
    BY <2>4 DEF OwnFiles, InPlace, Placed, Up, Busy
  <2>6. PidsFresh /\ OldAbandoned
    BY <2>4 DEF PidsFresh, OldAbandoned, Up
  <2> QED
    BY <2>1, <2>5, <2>6
<1>2. IInv /\ [Next]_vars => IInv'
  BY TypeStep, OwnStep, PidsStep, Zenon
<1>3. IInv => LiveTemporariesKept /\ AbandonedRemoved
  BY DEF InPlace, Placed, LiveTemporariesKept, AbandonedRemoved, OldAbandoned
<1>4. Spec => []WeightComplete
  BY WeightsComplete
<1> QED
  BY <1>1, <1>2, <1>3, <1>4, PTL DEF Spec, WeightFilesSound
==============================================================================
