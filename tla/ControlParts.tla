---------------------------- MODULE ControlParts ----------------------------
(***************************************************************************)
(* Lists of a weight stream that do not fit one message: target lists and  *)
(* drain authorisations of the Controller (runtime_state.rs), joined by    *)
(* the assemblers of control/parts.py, and full state reports of the       *)
(* Worker (state_reporter.py), joined by FullStateAssembler of             *)
(* weight_control/mod.rs.                                                  *)
(*                                                                         *)
(* The Worker's assemblers live as long as its process, the Controller's   *)
(* as long as one stream. A stream delivers in order and may break between *)
(* any two parts. Gates, batches, shutdown and Controller restarts are in  *)
(* module WeightSync; a drain here is one step once it is authorised.      *)
(***************************************************************************)
EXTENDS Integers, FiniteSets, Sequences, SequencesExt, FiniteSetsExt

CONSTANTS
    NumExperts,       \* experts of the model
    MaxExperts,       \* experts the Worker's device holds
    PerPart,          \* MAX_CONTROL_ENTRIES_PER_PART, MAX_EXPERTS_PER_CONTROL_PART
    MaxPendingDrains, \* _MAX_PENDING_DRAINS
    MaxGeneration,    \* bound: placement generations
    MaxBreaks         \* bound: streams that break

PartsAssumption ==
    /\ {NumExperts, MaxExperts, PerPart, MaxPendingDrains, MaxGeneration} \subseteq Nat \ {0}
    /\ MaxBreaks \in Nat

VARIABLES
    ctl,     \* Controller: generation, targets, reported states, drains, last report
    casm,    \* FullStateAssembler.active of the stream
    sent,    \* drains sent on the stream
    up, down,\* the stream: is it open, messages to the Worker
    out,     \* messages to the Controller
    mgr,     \* Worker: generation, targets, states, generation of each change to report
    asm,     \* TargetListAssembler
    pend,    \* DrainAuthorizationAssembler._pending
    active, done, \* authorised drains under way, and completed
    run,     \* of the stream: is the full state sent, which completions are
    seq,     \* the last report sequence
    ended,   \* why the session ended for good
    breaks,  \* streams that may still break
    made, shots \* history: target list of each generation, snapshot of each full report

ctlVars == <<ctl, casm, sent>>
workerVars == <<mgr, asm, pend, active, done, run, seq>>
vars == <<ctlVars, up, down, out, workerVars, ended, breaks, made, shots>>

Experts == 1..NumExperts
Ascending(S) == SetToSortSeq(S, <)
NoStates == [e \in Experts |-> "none"]
NoChanges == [e \in Experts |-> 0]
-----------------------------------------------------------------------------
(* Parts *)

PartCount(n) == Max({1, (n + PerPart - 1) \div PerPart})

Chunk(list, i) == SubSeq(list, i * PerPart + 1, Min({(i + 1) * PerPart, Len(list)}))

Parts(kind, id, gen, list) ==
    [i \in 1..PartCount(Len(list)) |->
       [kind |-> kind, id |-> id, gen |-> gen, index |-> i - 1, count |-> PartCount(Len(list)),
        entries |-> Chunk(list, i - 1)]]

\* An assembly: what its parts have in common and the parts that arrived.
Fresh(m) == [id |-> m.id, gen |-> m.gen, count |-> m.count, parts |-> <<>>]
Nothing == [id |-> 0, gen |-> 0, count |-> 0, parts |-> <<>>]

Bounded(m, most) == m.count \in 1..most /\ m.index < m.count /\ Len(m.entries) =< PerPart
SameList(a, m) == a.id = m.id /\ a.gen = m.gen /\ a.count = m.count
Differs(a, m) == m.index \in DOMAIN a.parts /\ a.parts[m.index] # m.entries
With(a, m) == [a EXCEPT !.parts = [i \in DOMAIN @ \cup {m.index} |->
                                     IF i = m.index THEN m.entries ELSE a.parts[i]]]
IsWhole(a) == DOMAIN a.parts = 0..(a.count - 1) /\ a.count > 0

\* Faulty variant: every part starts the list anew.
WholeLastPart(a) == a.parts[a.count - 1]

Whole(a) == FlattenSeq([i \in 1..a.count |-> a.parts[i - 1]])
Repeats(list) == Cardinality(ToSet(list)) # Len(list)
-----------------------------------------------------------------------------
(* Controller: runtime_state.rs and the session of weight_control/mod.rs *)

ReadyIn(states) == {e \in Experts : states[e] = "READY"}

NewDrains(record) == {d \in record.drains : ~d.completed /\ d.id \notin sent}

\* send_placement, then send_new_drains
Sends(record, messages) ==
    LET drains == SetToSortSeq(NewDrains(record), LAMBDA a, b : a.id < b.id)
    IN  /\ ctl' = record
        /\ sent' = sent \cup {d.id : d \in NewDrains(record)}
        /\ down' = down \o messages \o
             FlattenSeq([i \in DOMAIN drains |->
               Parts("drain", drains[i].id, drains[i].gen, Ascending(drains[i].experts))])

\* set_targets: open drains are superseded, what of them is still ready is carried over.
Placed(list) ==
    LET open == {d \in ctl.drains : ~d.completed}
        drained == (ReadyIn(ctl.states) \ list) \cap (ctl.targets \cup UNION {d.experts : d \in open})
        closed == {[d EXCEPT !.completed = TRUE] : d \in ctl.drains}
        new == [id |-> Cardinality(ctl.drains) + 1, gen |-> ctl.gen + 1, experts |-> drained,
                completed |-> FALSE]
    IN  [ctl EXCEPT !.gen = @ + 1, !.targets = list,
           !.drains = closed \cup (IF drained = {} THEN {} ELSE {new})]

SetTargets(list) ==
    LET record == IF list = ctl.targets /\ ctl.gen > 0 THEN ctl ELSE Placed(list) IN
    /\ Cardinality(list) =< MaxExperts /\ record.gen =< MaxGeneration
    /\ made' = [g \in 1..record.gen |-> IF g = record.gen THEN list ELSE made[g]]
    /\ Sends(record, Parts("targets", 0, record.gen, Ascending(list)))

OpenStream(list) ==
    /\ ~up /\ ended = "no"
    /\ up' = TRUE
    /\ SetTargets(list)
    /\ UNCHANGED <<casm, out, workerVars, ended, breaks, shots>>

ChangeTargets(list) ==
    /\ up /\ ended = "no" /\ list # ctl.targets
    /\ SetTargets(list)
    /\ UNCHANGED <<casm, up, out, workerVars, ended, breaks, shots>>

(* A stream breaks: messages in transit are lost, and with them the Controller's
   assembler; the Worker keeps its own. *)
BreakStream ==
    /\ up /\ breaks > 0 /\ ended = "no"
    /\ up' = FALSE /\ breaks' = breaks - 1
    /\ down' = <<>> /\ out' = <<>> /\ sent' = {} /\ casm' = Nothing
    /\ run' = [full |-> FALSE, sent |-> {}]
    /\ UNCHANGED <<ctl, mgr, asm, pend, active, done, seq, ended, made, shots>>

End(reason) == ended' = reason

\* apply_state_report, without the refusal of another generation
Reported(m, states, full) ==
    [ctl EXCEPT !.states = [e \in Experts |-> IF e \in DOMAIN states THEN states[e]
                                              ELSE IF full THEN "none" ELSE @[e]],
                !.last = m.id, !.full = full]

StatesOf(list) == [e \in {s.expert : s \in ToSet(list)} |->
                     (CHOOSE s \in ToSet(list) : s.expert = e).state]

Apply(m, list, full) ==
    IF m.gen # ctl.gen \/ m.id < ctl.last
      THEN End("refused") /\ UNCHANGED <<ctl, sent, down>>
      ELSE Sends(Reported(m, StatesOf(list), full), <<>>) /\ UNCHANGED ended

Incoming(kind) == up /\ ended = "no" /\ out # <<>> /\ Head(out).kind = kind
ControllerFrame == UNCHANGED <<up, workerVars, breaks, made, shots>>

\* FullStateAssembler.add, and apply_report of a whole one
HandleFullPart ==
    LET m == Head(out)
        a == IF casm = Nothing THEN Fresh(m) ELSE casm
        joined == With(a, m)
    IN
    /\ Incoming("full")
    /\ out' = Tail(out)
    /\ IF ~Bounded(m, PartCount(MaxExperts)) \/ ~SameList(a, m) \/ Differs(a, m)
            \/ (IsWhole(joined) /\ Repeats([i \in DOMAIN Whole(joined) |-> Whole(joined)[i].expert]))
         THEN End("full state") /\ UNCHANGED <<ctl, sent, down, casm>>
         ELSE /\ casm' = IF IsWhole(joined) THEN Nothing ELSE joined
              /\ IF IsWhole(joined) THEN Apply(m, Whole(joined), TRUE)
                                    ELSE UNCHANGED <<ctl, sent, down, ended>>
    /\ ControllerFrame

HandleUpdate ==
    /\ Incoming("update")
    /\ out' = Tail(out)
    /\ Apply(Head(out), Head(out).entries, FALSE)
    /\ UNCHANGED casm /\ ControllerFrame

\* complete_drain: every drain the Worker knows of is the Controller's.
HandleDone ==
    /\ Incoming("done")
    /\ out' = Tail(out)
    /\ Sends([ctl EXCEPT !.drains = {IF d.id = Head(out).id THEN [d EXCEPT !.completed = TRUE] ELSE d
                                     : d \in @}], <<>>)
    /\ UNCHANGED <<casm, ended>> /\ ControllerFrame
-----------------------------------------------------------------------------
(* Worker: the assemblers of parts.py and what the session does with a whole list *)

Message(kind) == up /\ ended = "no" /\ down # <<>> /\ Head(down).kind = kind
WorkerFrame == UNCHANGED <<ctlVars, up, breaks, made>>

States(f) == LET keys == Ascending({e \in Experts : f[e] # "none"})
             IN  [i \in DOMAIN keys |-> [expert |-> keys[i], state |-> f[keys[i]]]]

\* record: one change per expert, with the generation it happened under
Changed(keys, gen) == [e \in Experts |-> IF e \in keys THEN gen ELSE mgr.pending[e]]

\* WeightManager.apply_targets with a newer list
Applied(gen, list) ==
    LET dropped == {e \in mgr.targets \ list : mgr.states[e] = "none"}
        states == [e \in Experts |->
                     IF mgr.states[e] = "READY" THEN "READY"
                     ELSE IF e \in list THEN "none"
                     ELSE IF e \in dropped THEN "REMOVED" ELSE mgr.states[e]]
    IN  [gen |-> gen, targets |-> list, states |-> states, pending |-> Changed(dropped, gen)]

(* _apply_targets: a newer list supersedes the drains of older ones; the first list of a
   stream, new or not, is answered with the full state. *)
ApplyTargets(gen, list) ==
    LET now == IF gen > mgr.gen THEN Applied(gen, ToSet(list)) ELSE mgr
        report == Parts("full", seq + 1, now.gen, States(now.states))
    IN  /\ active' = {d \in active : d.gen >= gen}
        /\ IF run.full
             THEN mgr' = now /\ UNCHANGED <<out, run, seq, shots>>
             ELSE /\ mgr' = [now EXCEPT !.pending = NoChanges]
                  /\ out' = out \o report
                  /\ run' = [run EXCEPT !.full = TRUE]
                  /\ seq' = seq + 1
                  /\ shots' = [s \in DOMAIN shots \cup {seq + 1} |->
                                 IF s = seq + 1 THEN now.states ELSE shots[s]]
        /\ UNCHANGED ended

\* The assembly a part belongs to: a newer generation starts over.
Newer(a, m) == IF m.gen > a.gen THEN Fresh(m) ELSE a

ObsoletePart(a, m) == m.gen < a.gen

\* TargetListAssembler.add and _consume_responses
ReceiveTargets ==
    LET m == Head(down)
        a == Newer(asm, m)
        joined == With(a, m)
        refused == ~Bounded(m, MaxExperts) \/ ~SameList(a, m) \/ Differs(a, m)
        list == Whole(joined)
        invalid == IsWhole(joined) /\ (Repeats(list) \/ Len(list) > MaxExperts)
    IN
    /\ Message("targets")
    /\ down' = Tail(down)
    /\ IF ObsoletePart(asm, m)
         THEN UNCHANGED <<asm, mgr, active, out, run, seq, shots, ended>>
       ELSE IF refused \/ invalid
         THEN End("target part") /\ UNCHANGED <<asm, mgr, active, out, run, seq, shots>>
       ELSE /\ asm' = joined
            /\ IF IsWhole(joined) THEN ApplyTargets(m.gen, list)
               ELSE UNCHANGED <<mgr, active, out, run, seq, shots, ended>>
    /\ UNCHANGED <<pend, done>> /\ WorkerFrame

AssemblyOf(m) == IF \E a \in pend : a.id = m.id THEN CHOOSE a \in pend : a.id = m.id ELSE Fresh(m)

Pending(joined) == {a \in pend : a.id # joined.id} \cup (IF IsWhole(joined) THEN {} ELSE {joined})

\* _start_drain: known and obsolete drains are not started.
Started(d) == IF d \in done \/ d.gen < mgr.gen THEN active ELSE active \cup {d}

\* DrainAuthorizationAssembler.add and _consume_responses
ReceiveDrain ==
    LET m == Head(down)
        a == AssemblyOf(m)
        joined == With(a, m)
        full == Cardinality(pend) >= MaxPendingDrains /\ \A p \in pend : p.id # m.id
        refused == ~Bounded(m, MaxExperts) \/ ~SameList(a, m) \/ Differs(a, m)
        list == Whole(joined)
        invalid == IsWhole(joined) /\ (Repeats(list) \/ Len(list) > MaxExperts \/ list = <<>>)
    IN
    /\ Message("drain")
    /\ down' = Tail(down)
    /\ IF full \/ refused \/ invalid
         THEN End("drain part") /\ UNCHANGED <<pend, active>>
         ELSE /\ pend' = Pending(joined)
              /\ active' = IF IsWhole(joined)
                             THEN Started([id |-> m.id, gen |-> m.gen, experts |-> ToSet(list)])
                             ELSE active
              /\ UNCHANGED ended
    /\ UNCHANGED <<mgr, asm, done, run, seq, out, shots>> /\ WorkerFrame

\* _run_drain up to remove_after_drain
RunDrain(d) ==
    /\ ended = "no" /\ d \in active /\ d.gen = mgr.gen
    /\ active' = active \ {d} /\ done' = done \cup {d}
    /\ mgr' = [mgr EXCEPT !.states = [e \in Experts |-> IF e \in d.experts THEN "REMOVED" ELSE @[e]],
                          !.pending = Changed(d.experts, mgr.gen)]
    /\ UNCHANGED <<down, out, asm, pend, run, seq, ended, shots>> /\ WorkerFrame

LoadEnds(e) ==
    /\ ended = "no" /\ e \in mgr.targets /\ mgr.states[e] = "none"
    /\ mgr' = [mgr EXCEPT !.states[e] = "READY", !.pending = Changed({e}, mgr.gen)]
    /\ UNCHANGED <<down, out, asm, pend, active, done, run, seq, ended, shots>> /\ WorkerFrame

\* _select_pending: changes of the oldest generation
Oldest == LET changed == {e \in Experts : mgr.pending[e] > 0}
          IN  {e \in changed : \A other \in changed : mgr.pending[e] =< mgr.pending[other]}

\* _pump_updates: at most PerPart changes in one message
SendUpdate(keys) ==
    /\ up /\ ended = "no" /\ run.full
    /\ keys # {} /\ Cardinality(keys) =< PerPart
    /\ seq' = seq + 1
    /\ mgr' = [mgr EXCEPT !.pending = Changed(keys, 0)]
    /\ out' = Append(out, [kind |-> "update", id |-> seq + 1, gen |-> Max({mgr.pending[e] : e \in keys}),
                 entries |-> States([e \in Experts |-> IF e \in keys THEN mgr.states[e] ELSE "none"])])
    /\ UNCHANGED <<down, asm, pend, active, done, run, ended, shots>> /\ WorkerFrame

\* _pump_completions: after the reports that precede them
SendDone(d) ==
    /\ up /\ ended = "no" /\ run.full /\ d \in done /\ d.id \notin run.sent /\ mgr.pending = NoChanges
    /\ run' = [run EXCEPT !.sent = @ \cup {d.id}]
    /\ out' = Append(out, [kind |-> "done", id |-> d.id])
    /\ UNCHANGED <<down, mgr, asm, pend, active, done, seq, ended, shots>> /\ WorkerFrame
-----------------------------------------------------------------------------
Init ==
    /\ ctl = [gen |-> 0, targets |-> {}, states |-> NoStates, drains |-> {}, last |-> 0, full |-> FALSE]
    /\ casm = Nothing /\ asm = Nothing /\ pend = {}
    /\ sent = {} /\ up = FALSE /\ down = <<>> /\ out = <<>>
    /\ mgr = [gen |-> 0, targets |-> {}, states |-> NoStates, pending |-> NoChanges]
    /\ active = {} /\ done = {} /\ run = [full |-> FALSE, sent |-> {}] /\ seq = 0
    /\ ended = "no" /\ breaks = MaxBreaks /\ made = <<>> /\ shots = <<>>

\* The session is over, or nothing is left to do within the bounds.
Rest ==
    /\ ended # "no" \/ (up /\ breaks = 0 /\ ctl.gen = MaxGeneration /\ down = <<>> /\ out = <<>>)
    /\ UNCHANGED vars

Next ==
    \/ \E list \in SUBSET Experts : OpenStream(list) \/ ChangeTargets(list)
    \/ BreakStream
    \/ HandleFullPart \/ HandleUpdate \/ HandleDone
    \/ ReceiveTargets \/ ReceiveDrain
    \/ \E d \in active : RunDrain(d)
    \/ \E e \in Experts : LoadEnds(e)
    \/ \E keys \in SUBSET Oldest : SendUpdate(keys)
    \/ \E d \in done : SendDone(d)
    \/ Rest

Spec == Init /\ [][Next]_vars
-----------------------------------------------------------------------------
Unfinished(a) == ~IsWhole(a) /\ DOMAIN a.parts \subseteq 0..(a.count - 1)

(* Assemblies hold parts of their own list only, and an unfinished one is never whole. *)
TypeOK ==
    /\ ctl.gen \in 0..MaxGeneration /\ ctl.targets \subseteq Experts
    /\ up \in BOOLEAN /\ breaks \in 0..MaxBreaks
    /\ ended \in {"no", "refused", "full state", "target part", "drain part"}
    /\ Unfinished(casm) /\ \A a \in pend : Unfinished(a)
    /\ \A a, b \in pend : a.id = b.id => a = b
    /\ mgr.states \in [Experts -> {"none", "READY", "REMOVED"}]

(* TargetListAssembler: the targets a Worker works by are one list the Controller made,
   the one of their generation, whole: never some of its parts and never parts of two
   generations, wherever streams broke before. *)
TargetsWhole == mgr.gen > 0 => mgr.gen \in DOMAIN made /\ mgr.targets = made[mgr.gen]

(* DrainAuthorizationAssembler: a drain the Worker runs or ran is one the Controller
   authorised, with all its experts and under its generation, whatever drains of other
   ids were left half received. *)
DrainsWhole ==
    \A d \in active \cup done :
      \E c \in ctl.drains : c.id = d.id /\ c.gen = d.gen /\ c.experts = d.experts

(* FullStateAssembler: once the last report is a full one, the Controller's states of the
   Worker are exactly the snapshot the Worker took, over any number of parts. *)
ViewWhole == ctl.full => ctl.states = shots[ctl.last]

\* Drains with some of their parts, which the Controller has closed and sends no more of.
LeftBehind ==
    {a \in pend : /\ \E c \in ctl.drains : c.id = a.id /\ c.completed
                  /\ \A m \in ToSet(down) : m.kind = "drain" => m.id # a.id}

(* DrainAuthorizationAssembler never forgets a drain it has some parts of, so one that is
   superseded before it was sent again stays in _pending. A broken stream leaves at most one
   such drain, and a stream is in the middle of at most one. *)
PendingBounded ==
    /\ Cardinality(LeftBehind) =< MaxBreaks - breaks
    /\ Cardinality(pend) =< MaxBreaks - breaks + (IF up THEN 1 ELSE 0)

(* parts.py refuses no target part, neither one sent again on a new stream after half a list
   on the old one nor an empty list; and a drain part only when drains that broken streams
   left behind fill _pending, which takes _MAX_PENDING_DRAINS broken streams. *)
PartsAccepted ==
    /\ ended # "target part"
    /\ ended = "drain part" => Cardinality(LeftBehind) = MaxPendingDrains

(* Once the messages of a stream are read, the Worker has the current list and every drain
   that is still open: no open drain waits in an assembler for a part that will not come. *)
ReadMeansApplied ==
    up /\ ended = "no" /\ down = <<>> =>
      /\ mgr.gen = ctl.gen
      /\ \A c \in ctl.drains : c.completed \/ \E d \in active \cup done : d.id = c.id

(* "Assemble complete drain authorizations independently by drain ID": a drain is received
   whatever became of others. *)
DrainsAccepted == ended # "drain part"

(* The snapshot "for stream recovery" is one the Controller takes: a full report of a
   registered Worker is within the bound its max_experts sets. *)
FullStateAccepted == ended # "full state"
=============================================================================
