----------------------------- MODULE WeightSync -----------------------------
(***************************************************************************)
(* One Worker's weight control (control/weight_stream.py, its reporter     *)
(* state_reporter.py and the assemblers of parts.py) composed with the     *)
(* Controller's weight session for it (weight_control/mod.rs).             *)
(*                                                                         *)
(* The Worker's tasks run on one asyncio loop; an action is the code       *)
(* between two awaits. The weight manager is what the session sees of it:  *)
(* loads end, and a removal is one step (module WeightManager has the      *)
(* rest). The Controller side is what ControllerState says of one Worker;  *)
(* routes and persistence failures are there. A stream carries the         *)
(* messages of one connection in order and loses them when it breaks.      *)
(***************************************************************************)
EXTENDS Integers, FiniteSets, Sequences, SequencesExt, FiniteSetsExt

CONSTANTS
    Keys,
    MaxGeneration,   \* bound: placement generations
    MaxBreaks,       \* bound: streams that break
    MaxRestarts,     \* bound: Controller restarts
    MaxFailures,     \* bound: loads that fail
    OutboundGroups,  \* _OUTBOUND_GROUPS
    FirstVersion,    \* topology version before any route was published
    MayShutDown      \* may the Worker be asked to stop?

SyncAssumption ==
    /\ IsFiniteSet(Keys) /\ MaxGeneration \in Nat /\ MaxBreaks \in Nat /\ MaxRestarts \in Nat
    /\ MaxFailures \in Nat /\ OutboundGroups \in Nat \ {0} /\ FirstVersion \in {0, 1}
    /\ MayShutDown \in BOOLEAN

VARIABLES
    mgr,       \* weight manager: generation, targets, states, and whether it is shutting down
    pending,   \* reporter._pending in the order of change_index
    seq,       \* reporter._last_report_sequence
    enqueued,  \* _last_enqueued_report_sequence
    active,    \* _active_drains: authorisation and the step of each task
    completed, superseded,
    gates,     \* receiver: experts whose new batches are refused ("all": every batch)
    run,       \* the stream attempt, see NoRun
    stop,      \* why the session ended for good, "no" while it runs
    ctl,       \* the Controller's record of the Worker
    nextDrain, \* the Controller's drain counter
    sent,      \* drains sent on this stream
    down,      \* messages to the Worker
    budget     \* what the bounds leave

workerVars == <<mgr, pending, seq, enqueued, active, completed, superseded, gates, stop>>
ctlVars == <<ctl, nextDrain>>
vars == <<workerVars, run, ctlVars, sent, down, budget>>

Kinds == {"none", "READY", "FAILED", "REMOVED"}
NoStates == [k \in Keys |-> "none"]
ReadyIn(states) == {k \in Keys : states[k] = "READY"}
-----------------------------------------------------------------------------
(* ExpertStateReporter *)

\* record: one pending state per expert, the latest, at the place of its change_index.
Recorded(list, keys, kind) ==
    LET change(k) == [key |-> k, gen |-> mgr'.gen, kind |-> kind, old |-> FALSE]
    IN  SelectSeq(list, LAMBDA p : p.key \notin keys) \o SetToSeq({change(k) : k \in keys})

\* _select_pending: the states of the oldest one's generation
SelectPending == SelectSeq(pending, LAMBDA p : p.gen = Head(pending).gen)

StateOf(list) == [k \in {list[i].key : i \in DOMAIN list} |->
                    (CHOOSE i \in DOMAIN list : list[i].key = k)]
Update(list) == [kind |-> "report", full |-> FALSE, gen |-> Head(list).gen, seq |-> seq + 1,
                 states |-> [k \in DOMAIN StateOf(list) |-> list[StateOf(list)[k]].kind]]

\* Faulty variant: the full state stands for every pending change.
KeptNone == <<>>

\* discard_changes: what changed after the snapshot stays pending.
Kept == SelectSeq(pending, LAMBDA p : ~p.old)
-----------------------------------------------------------------------------
(* The Controller's session *)

NoRun == [up |-> FALSE, pc |-> "down", snapshot |-> FALSE, states |-> NoStates, gen |-> 0,
          hand |-> <<>>, out |-> <<>>, sent |-> {}, comp |-> {}, need |-> 0]

\* send_new_drains: authorisations this stream has not carried yet
NewDrains(record, already) == {d \in record.drains : ~d.completed /\ d.id \notin already}

Authorization(d) == [kind |-> "drain", id |-> d.id, gen |-> d.gen, min |-> d.min, all |-> d.all,
                     keys |-> d.keys]

(* Every branch of WeightSession::run ends with send_new_drains; `record` is the
   Worker's record then, `messages` what the branch has sent before. *)
Sends(record, messages) ==
    LET new == NewDrains(record, sent)
        byId == SetToSortSeq(new, LAMBDA a, b : a.id < b.id)
    IN  /\ ctl' = record
        /\ sent' = sent \cup {d.id : d \in new}
        /\ down' = down \o messages \o [i \in DOMAIN byId |-> Authorization(byId[i])]

Drain(record, id, keys, all) ==
    [id |-> id, gen |-> record.gen, keys |-> keys, all |-> all, completed |-> FALSE,
     min |-> IF record.published THEN 1 ELSE FirstVersion]

\* set_targets on the record: incomplete expert drains are superseded and carried over.
Placed(record, list) ==
    LET gone == {k \in ReadyIn(record.states) : k \notin list}
        kept == {d \in record.drains : d.completed \/ d.all}
        open == record.drains \ kept
        drained == gone \cap (record.targets \cup UNION {d.keys : d \in open})
        moved == [record EXCEPT !.gen = @ + 1, !.targets = list,
                    !.drains = kept \cup {[d EXCEPT !.completed = TRUE] : d \in open}]
    IN  IF drained = {} THEN moved
        ELSE [moved EXCEPT !.drains = @ \cup {Drain(moved, nextDrain + 1, drained, FALSE)}]

Targets(record) == <<[kind |-> "targets", gen |-> record.gen, list |-> record.targets]>>

SetTargets(list) ==
    LET record == IF list = ctl.targets /\ ctl.gen > 0 THEN ctl ELSE Placed(ctl, list) IN
    /\ record.gen =< MaxGeneration
    /\ nextDrain' = nextDrain + Cardinality(record.drains) - Cardinality(ctl.drains)
    /\ Sends(record, Targets(record))

(* The Worker registers and opens the stream; the Controller answers with the
   placement the database holds now. *)
OpenStream(list) ==
    /\ stop = "no" /\ ~run.up
    /\ run' = [NoRun EXCEPT !.up = TRUE, !.pc = "read"]
    /\ SetTargets(list)
    /\ UNCHANGED <<workerVars, budget>>

ChangeTargets(list) ==
    /\ run.up /\ list # ctl.targets
    /\ SetTargets(list)
    /\ UNCHANGED <<workerVars, run, budget>>

\* drain_authorizations of a Worker that is shutting down, its replacements ready
AuthorizeShutdown ==
    LET record == [ctl EXCEPT !.drains = @ \cup {Drain(ctl, nextDrain + 1, ReadyIn(ctl.states), TRUE)}] IN
    /\ run.up /\ ctl.shutting /\ \A d \in ctl.drains : ~d.all
    /\ nextDrain' = nextDrain + 1
    /\ Sends(record, <<>>)
    /\ UNCHANGED <<workerVars, run, budget>>

\* A stream ends: nothing in transit survives, and the tasks of run_once are cancelled.
BreakStream ==
    /\ run.up /\ budget.breaks > 0
    /\ run' = NoRun /\ sent' = {} /\ down' = <<>>
    /\ budget' = [budget EXCEPT !.breaks = @ - 1]
    /\ UNCHANGED <<workerVars, ctlVars>>

\* The Controller restarts: placements are stored, Worker records and drains are not.
RestartController ==
    /\ budget.restarts > 0
    /\ budget' = [budget EXCEPT !.restarts = @ - 1]
    /\ ctl' = [ctl EXCEPT !.states = NoStates, !.last = 0, !.drains = {}]
    /\ nextDrain' = 0
    /\ run' = NoRun /\ sent' = {} /\ down' = <<>>
    /\ UNCHANGED workerVars

\* A status that the supervisor does not retry, or an exception, ends the Worker.
Fatal(reason) == stop' = reason

\* apply_state_report: FAILED_PRECONDITION
ReportRefused(m) == m.gen # ctl.gen \/ m.seq < ctl.last

Applied(m) ==
    LET base == IF m.full THEN NoStates ELSE ctl.states
        states == [k \in Keys |-> IF k \in DOMAIN m.states THEN m.states[k] ELSE base[k]]
    IN  [ctl EXCEPT !.states = states, !.last = m.seq,
           !.published = @ \/ ReadyIn(states) \cap ctl.targets # {}]

\* complete_drain
Completed(ids) ==
    [ctl EXCEPT !.drains = {IF d.id \in ids THEN [d EXCEPT !.completed = TRUE] ELSE d : d \in @}]

\* _clear_ready_expert_drains when a group leaves: the gates of targets it reports ready
Opened(m) == IF m.kind # "report" THEN {}
             ELSE {k \in DOMAIN m.states : m.states[k] = "READY" /\ k \in mgr.targets}

(* _requests yields the next group and handle_worker_message takes it. *)
HandleReport ==
    LET m == Head(run.out) IN
    /\ run.up /\ run.out # <<>> /\ m.kind = "report"
    /\ run' = [run EXCEPT !.out = Tail(@)]
    /\ gates' = gates \ Opened(m)
    /\ IF ReportRefused(m)
         THEN Fatal("refused") /\ UNCHANGED <<ctl, sent, down>>
         ELSE Sends(Applied(m), <<[kind |-> "ack", seq |-> m.seq]>>) /\ UNCHANGED stop
    /\ UNCHANGED <<mgr, pending, seq, enqueued, active, completed, superseded, nextDrain, budget>>

HandleCompletion ==
    LET m == Head(run.out) IN
    /\ run.up /\ run.out # <<>> /\ m.kind = "done"
    /\ run' = [run EXCEPT !.out = Tail(@)]
    /\ IF ~(m.ids \subseteq {d.id : d \in ctl.drains})
         THEN Fatal("unknown drain") /\ UNCHANGED <<ctl, sent, down>>
         ELSE Sends(Completed(m.ids), <<>>) /\ UNCHANGED stop
    /\ UNCHANGED <<mgr, pending, seq, enqueued, active, completed, superseded, gates, nextDrain, budget>>
-----------------------------------------------------------------------------
(* WeightControlSession: responses *)

Message(kind) == run.up /\ stop = "no" /\ run.pc = "read" /\ down # <<>> /\ Head(down).kind = kind
Room == Len(run.out) < OutboundGroups

\* _is_superseded
Obsolete(auth, gen) == ~auth.all /\ auth.gen < gen

\* WeightManager.apply_targets with a newer list
AppliedTargets(m) ==
    [mgr EXCEPT !.gen = m.gen, !.targets = m.list,
       !.states = [k \in Keys |-> IF @[k] = "READY" THEN "READY"
                                  ELSE IF k \in m.list THEN "none"
                                  ELSE IF k \in mgr.targets THEN "REMOVED" ELSE @[k]]]

Dropped(m) == {k \in mgr.targets \ m.list : mgr.states[k] \notin {"READY", "REMOVED"}}

Superseded(m) == {a \in active : Obsolete(a.auth, m.gen)}

GatesAfter(ready) == gates \ ready

(* _apply_targets holds _drain_transition and does not yield until it waits for the
   drains it cancelled. Before the first full state of a stream it takes a snapshot,
   which stands for the changes pending then. *)
ApplyTargets ==
    LET m == Head(down)
        newer == m.gen > mgr.gen
        snap == newer \/ ~run.snapshot
    IN
    /\ Message("targets")
    /\ down' = Tail(down)
    /\ UNCHANGED <<seq, enqueued, completed, ctlVars, sent, budget>>
    /\ IF newer /\ mgr.shutting /\ ~(m.list \subseteq mgr.targets)
         THEN Fatal("new targets") /\ UNCHANGED <<mgr, pending, active, superseded, gates, run>>
         ELSE /\ UNCHANGED stop
              /\ mgr' = IF newer THEN AppliedTargets(m) ELSE mgr
              /\ active' = active \ Superseded(m)
              /\ superseded' = superseded \cup {a.auth : a \in Superseded(m)}
              /\ LET list == IF newer THEN Recorded(pending, Dropped(m), "REMOVED") ELSE pending
                 IN  pending' = IF run.snapshot THEN list
                                ELSE [i \in DOMAIN list |-> [list[i] EXCEPT !.old = TRUE]]
              /\ gates' = IF snap THEN GatesAfter(ReadyIn(mgr'.states) \cap mgr'.targets) ELSE gates
              /\ run' = IF run.snapshot THEN run
                        ELSE [run EXCEPT !.pc = "full", !.states = mgr'.states, !.gen = mgr'.gen]

\* full_state_parts: the snapshot replaces the changes before it, the later ones stay.
SendFullState ==
    /\ run.pc = "full" /\ Room /\ stop = "no"
    /\ pending' = Kept
    /\ seq' = seq + 1 /\ enqueued' = seq + 1
    /\ run' = [run EXCEPT !.pc = "read", !.snapshot = TRUE, !.states = NoStates, !.gen = 0,
         !.out = Append(@, [kind |-> "report", full |-> TRUE, gen |-> run.gen, seq |-> seq + 1,
                            states |-> [k \in {x \in Keys : run.states[x] # "none"} |-> run.states[k]]])]
    /\ UNCHANGED <<mgr, active, completed, superseded, gates, stop, ctlVars, sent, down, budget>>

\* acknowledge: the sequence was sent, and acknowledgements do not move backwards.
Acknowledge ==
    /\ Message("ack")
    /\ down' = Tail(down)
    /\ IF Head(down).seq > seq THEN Fatal("ack") ELSE UNCHANGED stop
    /\ UNCHANGED <<mgr, pending, seq, enqueued, active, completed, superseded, gates, run, ctlVars,
                   sent, budget>>

Auth(m) == [id |-> m.id, gen |-> m.gen, min |-> m.min, all |-> m.all, keys |-> m.keys]
Known == completed \cup superseded \cup {a.auth : a \in active}

(* DrainAuthorizationAssembler.add, then _start_drain: an authorisation seen before is
   not run again, and one of an older placement is remembered as superseded. *)
StartDrain ==
    LET auth == Auth(Head(down)) IN
    /\ Message("drain")
    /\ down' = Tail(down)
    /\ IF auth.min = 0 THEN Fatal("version") /\ UNCHANGED <<active, superseded>>
       ELSE IF \E old \in Known : old.id = auth.id /\ old # auth
         THEN Fatal("repeated drain") /\ UNCHANGED <<active, superseded>>
       ELSE /\ UNCHANGED stop
            /\ IF auth \in Known THEN UNCHANGED <<active, superseded>>
               ELSE IF Obsolete(auth, mgr.gen)
               THEN superseded' = superseded \cup {auth} /\ UNCHANGED active
               ELSE active' = active \cup {[auth |-> auth, pc |-> "start", need |-> 0]} /\ UNCHANGED superseded
    /\ UNCHANGED <<mgr, pending, seq, enqueued, completed, gates, run, ctlVars, sent, budget>>
-----------------------------------------------------------------------------
(* _run_drain *)

At(a, pc) == stop = "no" /\ a \in active /\ a.pc = pc
Moved(a, pc, need) == (active \ {a}) \cup {[a EXCEPT !.pc = pc, !.need = need]}
DrainFrame == UNCHANGED <<seq, enqueued, run, ctlVars, sent, down, budget>>

Supersede(a) ==
    /\ active' = active \ {a} /\ superseded' = superseded \cup {a.auth}
    /\ UNCHANGED <<mgr, pending, completed, gates, stop>>

\* The gate closes before the admitted batches are waited for.
BeginDrain(a) ==
    /\ At(a, "start")
    /\ IF Obsolete(a.auth, mgr.gen) THEN Supersede(a)
       ELSE /\ gates' = gates \cup a.auth.keys \cup (IF a.auth.all THEN {"all"} ELSE {})
            /\ active' = Moved(a, "idle", 0)
            /\ UNCHANGED <<mgr, pending, completed, superseded, stop>>
    /\ DrainFrame

\* wait_idle returns, or the shutdown deadline of a whole-Worker drain passes.
Idle(a) ==
    /\ At(a, "idle")
    /\ \/ active' = Moved(a, "remove", 0) /\ UNCHANGED stop
       \/ a.auth.all /\ Fatal("deadline") /\ active' = active \ {a}
    /\ UNCHANGED <<mgr, pending, completed, superseded, gates>> /\ DrainFrame

\* Faulty variant: a drain completes as soon as the weights are withdrawn.
RemoveAfterDrainUnreported(a) ==
    /\ At(a, "remove") /\ a.auth.gen = mgr.gen
    /\ mgr' = [mgr EXCEPT !.states = [k \in Keys |-> IF k \in a.auth.keys THEN "REMOVED" ELSE @[k]]]
    /\ active' = Moved(a, "flush", 0)
    /\ UNCHANGED <<pending, completed, superseded, gates, stop>>
    /\ DrainFrame

\* remove_after_drain, and what an older or newer generation makes of it
RemoveAfterDrain(a) ==
    /\ At(a, "remove")
    /\ IF Obsolete(a.auth, mgr.gen) THEN Supersede(a)
       ELSE IF a.auth.gen # mgr.gen \/ (~a.auth.all /\ a.auth.keys \cap mgr.targets # {})
         THEN /\ Fatal("obsolete drain")
              /\ active' = active \ {a}
              /\ UNCHANGED <<mgr, pending, completed, superseded, gates>>
       ELSE LET gone == {k \in a.auth.keys : mgr.states[k] # "REMOVED"} IN
            /\ mgr' = [mgr EXCEPT !.states = [k \in Keys |-> IF k \in gone THEN "REMOVED" ELSE @[k]]]
            /\ pending' = Recorded(pending, gone, "REMOVED")
            /\ active' = Moved(a, "flush", 0)
            /\ UNCHANGED <<completed, superseded, gates, stop>>
    /\ DrainFrame

\* flush returns when nothing is pending; then the last report must be in the stream.
Flushed(a) ==
    /\ At(a, "flush") /\ pending = <<>>
    /\ active' = Moved(a, "enqueued", seq)
    /\ UNCHANGED <<mgr, pending, completed, superseded, gates, stop>> /\ DrainFrame

Complete(a) ==
    /\ At(a, "enqueued") /\ enqueued >= a.need
    /\ active' = active \ {a} /\ completed' = completed \cup {a.auth}
    /\ UNCHANGED <<mgr, pending, superseded, gates, stop>> /\ DrainFrame
-----------------------------------------------------------------------------
(* The senders, and the loads they report *)

SenderFrame == UNCHANGED <<mgr, active, completed, superseded, gates, stop, ctlVars, sent, down, budget>>

\* _pump_updates: take_updates allocates the sequence; a full queue keeps the message.
TakeUpdates ==
    LET batch == SelectPending  m == Update(batch) IN
    /\ stop = "no" /\ run.snapshot /\ run.hand = <<>> /\ pending # <<>>
    /\ pending' = SelectSeq(pending, LAMBDA p : \A i \in DOMAIN batch : batch[i] # p)
    /\ seq' = seq + 1
    /\ IF Room THEN run' = [run EXCEPT !.out = Append(@, m)] /\ enqueued' = seq + 1
               ELSE run' = [run EXCEPT !.hand = <<m>>] /\ UNCHANGED enqueued
    /\ SenderFrame

PutUpdates ==
    /\ stop = "no" /\ run.hand # <<>> /\ Room
    /\ run' = [run EXCEPT !.out = @ \o run.hand, !.hand = <<>>]
    /\ enqueued' = Max({enqueued, run.hand[1].seq})
    /\ UNCHANGED <<pending, seq>> /\ SenderFrame

\* _pump_completions: flush, wait until the reports are in the stream, then the completions.
FlushCompletions ==
    LET ids == {a.id : a \in completed} \ run.sent IN
    /\ stop = "no" /\ run.snapshot /\ run.comp = {} /\ ids # {} /\ pending = <<>>
    /\ run' = [run EXCEPT !.comp = ids, !.need = seq]
    /\ UNCHANGED <<pending, seq, enqueued>> /\ SenderFrame

PutCompletions ==
    /\ stop = "no" /\ run.comp # {} /\ enqueued >= run.need /\ Room
    /\ run' = [run EXCEPT !.out = Append(@, [kind |-> "done", ids |-> run.comp]),
                          !.sent = @ \cup run.comp, !.comp = {}, !.need = 0]
    /\ UNCHANGED <<pending, seq, enqueued>> /\ SenderFrame

LoadEnds(k, kind) ==
    /\ stop = "no" /\ ~mgr.shutting /\ k \in mgr.targets /\ mgr.states[k] = "none"
    /\ kind = "FAILED" => budget.failures > 0
    /\ mgr' = [mgr EXCEPT !.states[k] = kind]
    /\ pending' = Recorded(pending, {k}, kind)
    /\ budget' = IF kind = "FAILED" THEN [budget EXCEPT !.failures = @ - 1] ELSE budget
    /\ UNCHANGED <<seq, enqueued, active, completed, superseded, gates, stop, run, ctlVars, sent, down>>

BeginShutdown ==
    /\ MayShutDown /\ stop = "no" /\ ~mgr.shutting
    /\ mgr' = [mgr EXCEPT !.shutting = TRUE]
    /\ UNCHANGED <<pending, seq, enqueued, active, completed, superseded, gates, stop, run, ctlVars,
                   sent, down, budget>>

\* The next heartbeat tells the Controller.
ShutdownNoted ==
    /\ mgr.shutting /\ ~ctl.shutting
    /\ ctl' = [ctl EXCEPT !.shutting = TRUE]
    /\ UNCHANGED <<workerVars, run, nextDrain, sent, down, budget>>

Init ==
    /\ mgr = [gen |-> 0, targets |-> {}, states |-> NoStates, shutting |-> FALSE]
    /\ pending = <<>> /\ seq = 0 /\ enqueued = 0
    /\ active = {} /\ completed = {} /\ superseded = {} /\ gates = {}
    /\ run = NoRun /\ stop = "no"
    /\ ctl = [gen |-> 0, targets |-> {}, states |-> NoStates, last |-> 0, drains |-> {},
              published |-> FALSE, shutting |-> FALSE]
    /\ nextDrain = 0 /\ sent = {} /\ down = <<>>
    /\ budget = [breaks |-> MaxBreaks, restarts |-> MaxRestarts, failures |-> MaxFailures]

DrainStep(a) == BeginDrain(a) \/ Idle(a) \/ RemoveAfterDrain(a) \/ Flushed(a) \/ Complete(a)
Responses == ApplyTargets \/ SendFullState \/ Acknowledge \/ StartDrain
Senders == TakeUpdates \/ PutUpdates \/ FlushCompletions \/ PutCompletions
Controller == HandleReport \/ HandleCompletion \/ AuthorizeShutdown \/ ShutdownNoted

\* A Worker whose session has ended is gone.
Next ==
    /\ stop = "no"
    /\ \/ Responses \/ Senders \/ Controller
       \/ \E a \in active : DrainStep(a)
       \/ \E list \in SUBSET Keys : OpenStream(list) \/ ChangeTargets(list)
       \/ \E k \in Keys, kind \in {"READY", "FAILED"} : LoadEnds(k, kind)
       \/ BeginShutdown \/ BreakStream \/ RestartController

Spec == Init /\ [][Next]_vars

(* The event loop and the Controller's session run every step that is ready, the
   supervisor reopens streams, loads end and admitted batches drain. *)
Steps ==
    \/ Responses \/ TakeUpdates \/ PutUpdates \/ FlushCompletions \/ PutCompletions
    \/ HandleReport \/ HandleCompletion \/ ShutdownNoted
    \/ stop = "no" /\ \E a \in active : DrainStep(a)
    \/ \E list \in SUBSET Keys : OpenStream(list)
    \/ \E k \in Keys : LoadEnds(k, "READY")

FairSpec == Spec /\ WF_vars(Steps)
-----------------------------------------------------------------------------
\* The state is that of the session, its reporter and the Controller's record.
TypeOK ==
    /\ mgr \in [gen : 0..MaxGeneration, targets : SUBSET Keys, states : [Keys -> Kinds], shutting : BOOLEAN]
    /\ \A i \in DOMAIN pending : pending[i] \in [key : Keys, gen : 1..MaxGeneration, kind : Kinds, old : BOOLEAN]
    /\ IsInjective([i \in DOMAIN pending |-> pending[i].key])
    /\ enqueued =< seq /\ gates \subseteq Keys \cup {"all"}
    /\ Len(run.out) =< OutboundGroups /\ Len(run.hand) =< 1

(* Controller::complete_drain runs after the reports before it: when a drain is
   completed by the Worker, no expert of it is still reported ready, on the stream
   that carried the removal or on one opened later. *)
CompletesRemoved ==
    \A d \in ctl.drains :
      /\ ~d.completed /\ [d EXCEPT !.completed = TRUE] \in ctl'.drains /\ ctl'.gen = ctl.gen
      => d.keys \cap ReadyIn(ctl.states) = {}
CompletedAfterRemoval == [][CompletesRemoved]_vars

(* apply_targets, remove_after_drain: an expert of the placement the Worker has now
   is loading, held or failed, not left out because an older placement's drain took it
   away, whenever that drain's batches ended and whatever the Controller has forgotten in a restart. *)
AssignedNotRemoved ==
    ~mgr.shutting => \A k \in mgr.targets : mgr.states[k] # "REMOVED"

(* send_new_drains, _run_drain and complete_drain together end every drain: each one
   the Controller authorises is completed, or superseded by a later placement, even if
   the streams that carried the authorisation, the removal or the completion broke. *)
DrainsOver == stop # "no" \/ mgr.shutting \/ \A d \in ctl.drains : d.completed
DrainsEnd == <>[]DrainsOver

(* Whatever streams break, the Controller ends up with the ready experts the Worker
   has, unless the Worker stops. *)
ViewsAgree == stop # "no" \/ mgr.shutting \/ ReadyIn(ctl.states) = ReadyIn(mgr.states)
ViewsConverge == <>[]ViewsAgree

(* An expert that is assigned and ready does not stay behind a drain gate that a
   superseded or finished drain has closed, or no batch could ever use it. *)
ReadyNotGated == stop # "no" \/ mgr.shutting \/ gates \cap mgr.targets \cap ReadyIn(mgr.states) = {}
GatesOpen == <>[]ReadyNotGated

(* A report of the running Worker process is not refused (apply_state_report). *)
ReportsAccepted == stop # "refused"

(* A drain the Controller authorises belongs to the placement the Worker has
   (_run_drain: "Controller drain uses an obsolete placement generation"). *)
DrainsCurrent == stop # "obsolete drain"

(* The topology version of an authorisation is one DrainAuthorizationAssembler takes. *)
VersionsAccepted == stop # "version"

(* A completion replayed on a new stream names a drain the Controller knows. *)
CompletionsKnown == stop # "unknown drain"

(* A Controller that restarts does not give a drain number out again. *)
DrainNumbersFresh == stop # "repeated drain"
=============================================================================
