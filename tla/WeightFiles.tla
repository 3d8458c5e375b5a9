---------------------------- MODULE WeightFiles ----------------------------
(***************************************************************************)
(* The weight files of a disk cache that several Worker processes share     *)
(* (weights/direct_io.py, weights/disk_cache.py): the atomic, durable       *)
(* publication of a file, the startup probe, the removal of abandoned       *)
(* temporary files, with processes that crash and machines that lose power. *)
(* One expert's file is followed; every process writes the same weights.    *)
(*                                                                          *)
(* A temporary file is named after the pid of its writer.  Pids are unique  *)
(* among the live processes of one pid namespace (a host, a container).     *)
(***************************************************************************)
EXTENDS Integers

CONSTANTS
    Procs,       \* Worker processes
    Namespace,   \* their pid namespaces
    ReusePids,   \* a restarted process gets the pid it had, as in a container
    Pages,       \* aligned pages of the file
    MaxFiles,    \* bound: files created
    MaxBoots,    \* bound: process starts
    PowerFails   \* the machine may lose power

FilesAssumption ==
    /\ Pages \in Nat \ {0} /\ MaxFiles \in Nat /\ MaxBoots \in Nat
    /\ {ReusePids, PowerFails} \subseteq BOOLEAN

VARIABLES
    proc,   \* by process: where it is, its pid, the file it writes, what it scans
    file,   \* by number: a file that was created
    boots   \* how many process starts there were

vars == <<proc, file, boots>>

Ids == 1 .. MaxFiles
Down == [pc |-> "down", pid |-> 0, id |-> 0, scan |-> {}, old |-> {}]

(* A file: the name it has now and the name that survives a power loss ("gone" for
   none), its content, and the pid and process in its temporary name. *)
Unused == [at |-> "gone", on |-> "gone", pages |-> 0, exact |-> FALSE, synced |-> FALSE,
           target |-> "weight", pid |-> 0, by |-> "nobody"]

Init ==
    /\ proc = [p \in Procs |-> Down]
    /\ file = [i \in Ids |-> Unused]
    /\ boots = 0

Temporary == {i \in Ids : file[i].at \in {"tmp", "probe"}}

(* os.kill(pid, 0) as process p sees it. *)
LiveOwner(p, i) ==
    \E q \in Procs : /\ proc[q].pc # "down" /\ proc[q].pid = file[i].pid
                     /\ Namespace[q] = Namespace[p]

(* The process that created file i is up and still the one that created it. *)
OwnerUp(i) == file[i].by \in Procs /\ proc[file[i].by].pc # "down" /\ proc[file[i].by].id = i

-----------------------------------------------------------------------------
(* initialize_direct_io_directory. *)

(* A process starts; its cleanup lists the temporary files. *)
Boot(p) ==
    /\ proc[p].pc = "down" /\ boots < MaxBoots
    /\ boots' = boots + 1
    /\ proc' = [proc EXCEPT ![p] =
         [pc |-> "clean", pid |-> IF ReusePids THEN 1 ELSE boots + 1, id |-> 0,
          scan |-> Temporary, old |-> {i \in Temporary : ~OwnerUp(i)}]]
    /\ \A q \in Procs \ {p} : proc[q].pc # "down" /\ Namespace[q] = Namespace[p]
                                => proc[q].pid # proc'[p].pid
    /\ UNCHANGED file

Abandoned(p, i) == file[i].at \in {"tmp", "probe"} /\ ~LiveOwner(p, i)

(* cleanup_temporary_files, one file. *)
Clean(p, i) ==
    /\ proc[p].pc = "clean" /\ i \in proc[p].scan
    /\ proc' = [proc EXCEPT ![p].scan = @ \ {i}]
    /\ file' = IF Abandoned(p, i) THEN [file EXCEPT ![i].at = "gone"] ELSE file
    /\ UNCHANGED boots

-----------------------------------------------------------------------------
(* write_direct_atomic, of the startup probe and of a weight. *)

Create(p, target) ==
    /\ \/ target = "probe" /\ proc[p].pc = "clean" /\ proc[p].scan = {}
       \/ target = "weight" /\ proc[p].pc = "serve"
    /\ \E i \in Ids :
       /\ file[i] = Unused /\ \A j \in Ids : j < i => file[j] # Unused
       /\ file' = [file EXCEPT ![i] = [Unused EXCEPT !.at = "tmp", !.target = target,
                                                    !.pid = proc[p].pid, !.by = p]]
       /\ proc' = [proc EXCEPT ![p].pc = "write", ![p].id = i]
    /\ UNCHANGED boots

WritePage(p) ==
    /\ proc[p].pc = "write" /\ file[proc[p].id].pages < Pages
    /\ file' = [file EXCEPT ![proc[p].id].pages = @ + 1]
    /\ UNCHANGED <<proc, boots>>

(* Variant: no fsync before the rename. *)
SyncLater(p) ==
    /\ proc[p].pc = "write" /\ file[proc[p].id].pages = Pages
    /\ file' = [file EXCEPT ![proc[p].id].exact = TRUE]
    /\ proc' = [proc EXCEPT ![p].pc = "rename"]
    /\ UNCHANGED boots

(* ftruncate to the logical size, fsync, close. *)
Sync(p) ==
    /\ proc[p].pc = "write" /\ file[proc[p].id].pages = Pages
    /\ file' = [file EXCEPT ![proc[p].id].exact = TRUE, ![proc[p].id].synced = TRUE]
    /\ proc' = [proc EXCEPT ![p].pc = "rename"]
    /\ UNCHANGED boots

(* What a process does next when its write is over, or raised. *)
After(p, ok) ==
    LET probing == file[proc[p].id].target = "probe" IN
    IF probing /\ ~ok THEN Down
    ELSE IF probing THEN [proc[p] EXCEPT !.pc = "read"]
    ELSE [proc[p] EXCEPT !.pc = "serve", !.id = 0]

(* os.replace: the file that had the name loses it. *)
Rename(p) ==
    LET i == proc[p].id IN
    /\ proc[p].pc = "rename" /\ file[i].at = "tmp"
    /\ file' = [j \in Ids |->
         IF j = i THEN [file[i] EXCEPT !.at = file[i].target]
         ELSE IF file[j].at = "weight" /\ file[i].target = "weight"
         THEN [file[j] EXCEPT !.at = "gone"] ELSE file[j]]
    /\ proc' = [proc EXCEPT ![p].pc = "syncdir"]
    /\ UNCHANGED boots

(* fsync of the directory: the names of now survive. *)
SyncDirectory(p) ==
    /\ proc[p].pc = "syncdir"
    /\ file' = [j \in Ids |-> [file[j] EXCEPT !.on = file[j].at]]
    /\ proc' = [proc EXCEPT ![p] = After(p, TRUE)]
    /\ UNCHANGED boots

(* A system call raises (no space, a short unaligned write, the temporary file is
   missing): the temporary file is unlinked if it is there, and so is the probe. *)
WriteFails(p) ==
    /\ proc[p].pc \in {"write", "rename", "syncdir"}
    /\ file' = [file EXCEPT ![proc[p].id].at = IF @ = "weight" THEN @ ELSE "gone"]
    /\ proc' = [proc EXCEPT ![p] = After(p, FALSE)]
    /\ UNCHANGED boots

(* The probe is read back and removed; a Worker that cannot read it does not start. *)
ReadProbe(p, readable) ==
    LET found == readable /\ file[proc[p].id].at = "probe" IN
    /\ proc[p].pc = "read"
    /\ file' = [file EXCEPT ![proc[p].id].at = "gone"]
    /\ proc' = [proc EXCEPT ![p] = IF found THEN [@ EXCEPT !.pc = "serve", !.id = 0]
                                            ELSE Down]
    /\ UNCHANGED boots

(* DirectIOWeightDiskCache.remove of a file that the loader found invalid. *)
RemoveWeight(p) ==
    /\ proc[p].pc = "serve" /\ \E i \in Ids : file[i].at = "weight"
    /\ file' = [j \in Ids |-> IF file[j].at = "weight" THEN [file[j] EXCEPT !.at = "gone"]
                              ELSE file[j]]
    /\ UNCHANGED <<proc, boots>>

-----------------------------------------------------------------------------
(* Faults. *)

Crash(p) ==
    /\ proc[p].pc # "down"
    /\ proc' = [proc EXCEPT ![p] = Down]
    /\ UNCHANGED <<file, boots>>

(* What was not synced may be lost: data of a file, and the names since the last
   directory sync. *)
AfterPowerLoss(f, kept, pages, exact) ==
    [f EXCEPT !.at = IF kept THEN @ ELSE f.on, !.on = IF kept THEN f.at ELSE @,
              !.pages = IF f.synced THEN @ ELSE pages,
              !.exact = IF f.synced THEN @ ELSE exact]

PowerLoss ==
    /\ PowerFails /\ \E p \in Procs : proc[p].pc # "down"
    /\ \E kept \in BOOLEAN, lost \in 0 .. Pages, exact \in BOOLEAN :
         file' = [i \in Ids |->
           AfterPowerLoss(file[i], kept,
                          IF file[i].pages < lost THEN file[i].pages ELSE lost,
                          exact /\ file[i].exact)]
    /\ proc' = [p \in Procs |-> Down]
    /\ UNCHANGED boots

Write(p) ==
    \/ \E target \in {"probe", "weight"} : Create(p, target)
    \/ WritePage(p) \/ Sync(p) \/ Rename(p) \/ SyncDirectory(p) \/ WriteFails(p)

Next ==
    \/ \E p \in Procs :
         \/ Boot(p) \/ Write(p) \/ RemoveWeight(p) \/ Crash(p)
         \/ \E readable \in BOOLEAN : ReadProbe(p, readable)
         \/ \E i \in Ids : Clean(p, i)
    \/ PowerLoss

Spec == Init /\ [][Next]_vars

-----------------------------------------------------------------------------
TypeOK ==
    /\ boots \in 0 .. MaxBoots
    /\ \A p \in Procs :
         /\ proc[p].pc \in {"down", "clean", "write", "rename", "syncdir", "read", "serve"}
         /\ proc[p].id \in 0 .. MaxFiles /\ proc[p].scan \subseteq Ids
         /\ proc[p].pc \in {"write", "rename", "syncdir", "read"} => proc[p].id # 0
    /\ \A i \in Ids : /\ {file[i].at, file[i].on} \subseteq {"gone", "tmp", "probe", "weight"}
                      /\ file[i].pages \in 0 .. Pages

(* Whoever opens the expert's path finds a complete file, and so does every process
   after a crash or a power loss at any point, in any interleaving of writers: the
   data is durable before the name is (write_direct_atomic). *)
WeightComplete ==
    \A i \in Ids : "weight" \in {file[i].at, file[i].on} => file[i].pages = Pages /\ file[i].exact

(* "Temporary files owned by a live process are left in place because Workers
   serving the same model may share a disk-cache directory." (direct_io.py:184):
   the file a process is writing, or probing, keeps its name until the process
   gives it another. *)
LiveTemporariesKept ==
    \A p \in Procs :
        /\ proc[p].pc \in {"write", "rename"} => file[proc[p].id].at = "tmp"
        /\ proc[p].pc = "read" => file[proc[p].id].at = "probe"

(* "Remove abandoned writeback and startup-probe files." (direct_io.py:182): once a
   process has cleaned up, no temporary file is left that was abandoned when it
   started. *)
AbandonedRemoved ==
    \A p \in Procs :
        (proc[p].pc # "clean" \/ proc[p].scan = {}) => proc[p].old \cap Temporary = {}

(* The three together: what the Workers that share a cache directory rely on. *)
WeightFilesSound == WeightComplete /\ LiveTemporariesKept /\ AbandonedRemoved
=============================================================================
