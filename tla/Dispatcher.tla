----------------------------- MODULE Dispatcher -----------------------------
(***************************************************************************)
(* How a change of the placement database reaches the weight stream of its *)
(* Worker: the poller (controller/poller.rs) and the tasks that trigger a  *)
(* Worker go through the dispatcher (controller/dispatcher.rs), whose lock *)
(* they hold while they wait for room in a stream's channel; a forwarding  *)
(* task per stream reads the targets again (weight_control/database.rs);   *)
(* the session (weight_control/mod.rs) takes them from a second channel.   *)
(*                                                                         *)
(* What a raw update carries is dropped by its receiver, so a raw channel  *)
(* is a number. A list of experts is a number too, and its fingerprint is  *)
(* the list. The streams of a Worker are numbered in the order in which    *)
(* they subscribe.                                                         *)
(***************************************************************************)
EXTENDS Naturals, Sequences

CONSTANTS
    Workers,
    NumLists,     \* the expert lists a node may have
    Recurring,    \* may a node get a list again that it had before
    RawCap,       \* room of a subscription's channel (10 in the code)
    UpdateCap,    \* PLACEMENT_UPDATE_BUFFER (4 in the code)
    MaxStreams,   \* bound: weight streams a Worker opens
    MaxChanges,   \* bound: changes of the placement database
    MaxTriggers,  \* bound: changes that are followed by a trigger
    MaxLoadErrors \* bound: failed reads of the targets

DispatcherAssumption ==
    /\ NumLists \in Nat \ {0} /\ Recurring \in BOOLEAN /\ RawCap \in Nat \ {0} /\ UpdateCap \in Nat \ {0}
    /\ {MaxStreams, MaxChanges, MaxTriggers, MaxLoadErrors} \subseteq Nat

VARIABLES
    db,      \* expert rows of each node
    lock,    \* holder of DISPATCHER
    poll,    \* the poller: what it read, and the nodes update has not handled yet
    trig,    \* a task that triggers a Worker
    chan,    \* ch_store: current subscription of each Worker, 0 when none
    fp,      \* last_fingerprint
    raw,     \* length of each subscription's channel
    fwd,     \* the forwarding task of each subscription
    updates, \* the channel of target lists
    sess,    \* the session: stage, and the list it last applied
    budget

vars == <<db, lock, poll, trig, chan, fp, raw, fwd, updates, sess, budget>>

NoList == 0
Lists == 1..NumLists
Streams == Workers \X (1..MaxStreams)
Current(w) == <<w, chan[w]>>

\* The session side still holds the receiver of the subscription's channel.
Receives(s) == sess[s].pc \in {"load", "failed"} \/ fwd[s].pc \in {"recv", "load", "send"}
\* The receiver of target lists lives as long as WeightSession::run.
Serving(s) == sess[s].pc \in {"open", "sending"}
-----------------------------------------------------------------------------
(* Changes, with or without a trigger, and the poller *)

MayBecome(w, list) == IF Recurring THEN list # db[w] ELSE list > db[w]

Change(w, list) ==
    /\ budget.changes > 0 /\ MayBecome(w, list)
    /\ db' = [db EXCEPT ![w] = list]
    /\ budget' = [budget EXCEPT !.changes = @ - 1]
    /\ UNCHANGED <<lock, poll, trig, chan, fp, raw, fwd, updates, sess>>

\* A stripe or a recovery: the rows change, then the Worker is triggered.
ChangeAndTrigger(w, list) ==
    /\ budget.changes > 0 /\ budget.triggers > 0 /\ trig.pc = "idle" /\ MayBecome(w, list)
    /\ db' = [db EXCEPT ![w] = list]
    /\ trig' = [pc |-> "lock", w |-> w]
    /\ budget' = [budget EXCEPT !.changes = @ - 1, !.triggers = @ - 1]
    /\ UNCHANGED <<lock, poll, chan, fp, raw, fwd, updates, sess>>

TriggerLocks ==
    /\ trig.pc = "lock" /\ lock = "free"
    /\ lock' = "trigger" /\ trig' = [trig EXCEPT !.pc = "send"]
    /\ UNCHANGED <<db, poll, chan, fp, raw, fwd, updates, sess, budget>>

\* A send waits for room, and fails at once when the receiver is gone.
Reached(w) == chan[w] # 0 /\ Receives(Current(w))
Sendable(w) == Reached(w) => raw[Current(w)] < RawCap
Sent(w) == IF Reached(w) THEN [raw EXCEPT ![Current(w)] = @ + 1] ELSE raw

\* trigger_worker: the fingerprint is not touched.
TriggerSends ==
    /\ trig.pc = "send" /\ Sendable(trig.w)
    /\ raw' = Sent(trig.w)
    /\ lock' = "free" /\ trig' = [trig EXCEPT !.pc = "idle"]
    /\ UNCHANGED <<db, poll, chan, fp, fwd, updates, sess, budget>>

PollReads ==
    /\ poll.pc = "tick"
    /\ poll' = [pc |-> "lock", read |-> db, todo |-> Workers]
    /\ UNCHANGED <<db, lock, trig, chan, fp, raw, fwd, updates, sess, budget>>

PollLocks ==
    /\ poll.pc = "lock" /\ lock = "free"
    /\ lock' = "poll" /\ poll' = [poll EXCEPT !.pc = "update"]
    /\ UNCHANGED <<db, trig, chan, fp, raw, fwd, updates, sess, budget>>

\* One node of update: skipped when the list is the one sent last
UpdateNode(w) ==
    /\ poll.pc = "update" /\ w \in poll.todo
    /\ poll' = [poll EXCEPT !.todo = @ \ {w}]
    /\ fp' = [fp EXCEPT ![w] = poll.read[w]]
    /\ fp[w] = poll.read[w] \/ Sendable(w)
    /\ raw' = IF fp[w] = poll.read[w] THEN raw ELSE Sent(w)
    /\ UNCHANGED <<db, lock, trig, chan, fwd, updates, sess, budget>>

\* Faulty variant: the guard lives as long as the poller.
PollUnlocksNever ==
    /\ poll.pc = "update" /\ poll.todo = {}
    /\ poll' = [pc |-> "update", read |-> db, todo |-> Workers]
    /\ UNCHANGED <<db, lock, trig, chan, fp, raw, fwd, updates, sess, budget>>

PollUnlocks ==
    /\ poll.pc = "update" /\ poll.todo = {}
    /\ lock' = "free" /\ poll' = [pc |-> "tick", read |-> [w \in Workers |-> NoList], todo |-> {}]
    /\ UNCHANGED <<db, trig, chan, fp, raw, fwd, updates, sess, budget>>
-----------------------------------------------------------------------------
(* Streams *)

\* A Worker opens its next stream; the session of the last may not be over.
Connect(s) ==
    /\ sess[s].pc = "idle" /\ (s[2] > 1 => sess[<<s[1], s[2] - 1>>].pc # "idle")
    /\ sess' = [sess EXCEPT ![s].pc = "subscribe"]
    /\ UNCHANGED <<db, lock, poll, trig, chan, fp, raw, fwd, updates, budget>>

\* FIFO for the lock, which numbers the streams
InTurn(s) == s[2] > 1 => sess[<<s[1], s[2] - 1>>].pc # "subscribe"

\* subscribe_with_lease: the sender it replaces is dropped.
Subscribe(s) ==
    /\ sess[s].pc = "subscribe" /\ InTurn(s) /\ lock = "free"
    /\ sess' = [sess EXCEPT ![s].pc = "load"]
    /\ chan' = [chan EXCEPT ![s[1]] = s[2]]
    /\ fp' = [fp EXCEPT ![s[1]] = NoList]
    /\ UNCHANGED <<db, lock, poll, trig, raw, fwd, updates, budget>>

\* load_current_targets, then the forwarding task is spawned
LoadInitial(s) ==
    /\ sess[s].pc = "load"
    /\ sess' = [sess EXCEPT ![s] = [pc |-> "sending", got |-> db[s[1]]]]
    /\ fwd' = [fwd EXCEPT ![s].pc = "recv"]
    /\ UNCHANGED <<db, lock, poll, trig, chan, fp, raw, updates, budget>>

\* The read fails: the receiver is still held while the lock is awaited to unsubscribe.
LoadFails(s) ==
    /\ sess[s].pc = "load" /\ budget.errors > 0
    /\ sess' = [sess EXCEPT ![s].pc = "failed"]
    /\ budget' = [budget EXCEPT !.errors = @ - 1]
    /\ UNCHANGED <<db, lock, poll, trig, chan, fp, raw, fwd, updates>>

\* Faulty variant: whatever subscription the Worker has is removed.
Removed(s) == [chan EXCEPT ![s[1]] = 0]

\* unsubscribe_with_lease
Unsubscribed(s) == [chan EXCEPT ![s[1]] = IF @ = s[2] THEN 0 ELSE @]

\* After a failed read, or when run has returned and dropped its receiver
Unsubscribe(s) ==
    /\ sess[s].pc \in {"failed", "ended"} /\ lock = "free"
    /\ sess' = [sess EXCEPT ![s].pc = "closed"]
    /\ chan' = Unsubscribed(s)
    /\ UNCHANGED <<db, lock, poll, trig, fp, raw, fwd, updates, budget>>

\* The session gets the responses of a placement out to the Worker.
SendDone(s) ==
    /\ sess[s].pc = "sending"
    /\ sess' = [sess EXCEPT ![s].pc = "open"]
    /\ UNCHANGED <<db, lock, poll, trig, chan, fp, raw, fwd, updates, budget>>

\* The stream breaks: run returns, or the handler is dropped before there is a session.
Break(s) ==
    /\ Serving(s) \/ sess[s].pc \in {"subscribe", "load"}
    /\ sess' = [sess EXCEPT ![s].pc = IF Serving(s) THEN "ended" ELSE "closed"]
    /\ UNCHANGED <<db, lock, poll, trig, chan, fp, raw, fwd, updates, budget>>

\* set_targets; a failed read of the targets ends the session.
TakeUpdate(s) ==
    LET list == Head(updates[s]) IN
    /\ sess[s].pc = "open" /\ updates[s] # <<>>
    /\ updates' = [updates EXCEPT ![s] = Tail(@)]
    /\ sess' = [sess EXCEPT ![s] = IF list = NoList THEN [@ EXCEPT !.pc = "ended"]
                                   ELSE IF list = @.got THEN @ ELSE [pc |-> "sending", got |-> list]]
    /\ UNCHANGED <<db, lock, poll, trig, chan, fp, raw, fwd, budget>>

UpdatesEnd(s) ==
    /\ sess[s].pc = "open" /\ updates[s] = <<>> /\ fwd[s].pc = "done"
    /\ sess' = [sess EXCEPT ![s].pc = "ended"]
    /\ UNCHANGED <<db, lock, poll, trig, chan, fp, raw, fwd, updates, budget>>
-----------------------------------------------------------------------------
(* The forwarding task of a stream *)

FwdFrame == UNCHANGED <<db, lock, poll, trig, chan, fp, sess>>

\* It ends when its sender was dropped and nothing is left.
ForwardReceives(s) ==
    /\ fwd[s].pc = "recv" /\ (raw[s] > 0 \/ chan[s[1]] # s[2])
    /\ fwd' = [fwd EXCEPT ![s].pc = IF raw[s] > 0 THEN "load" ELSE "done"]
    /\ raw' = [raw EXCEPT ![s] = IF @ > 0 THEN @ - 1 ELSE 0]
    /\ UNCHANGED <<updates, budget>> /\ FwdFrame

ForwardLoads(s) ==
    /\ fwd[s].pc = "load"
    /\ \/ fwd' = [fwd EXCEPT ![s] = [pc |-> "send", list |-> db[s[1]]]] /\ UNCHANGED budget
       \/ /\ budget.errors > 0 /\ budget' = [budget EXCEPT !.errors = @ - 1]
          /\ fwd' = [fwd EXCEPT ![s] = [pc |-> "send", list |-> NoList]]
    /\ UNCHANGED <<raw, updates>> /\ FwdFrame

\* It waits for room, and ends when the session has.
ForwardSends(s) ==
    /\ fwd[s].pc = "send" /\ (~Serving(s) \/ Len(updates[s]) < UpdateCap)
    /\ updates' = IF Serving(s) THEN [updates EXCEPT ![s] = Append(@, fwd[s].list)] ELSE updates
    /\ fwd' = [fwd EXCEPT ![s] = [pc |-> IF Serving(s) THEN "recv" ELSE "done", list |-> NoList]]
    /\ UNCHANGED <<raw, budget>> /\ FwdFrame
-----------------------------------------------------------------------------
Init ==
    /\ db = [w \in Workers |-> 1] /\ lock = "free"
    /\ poll = [pc |-> "tick", read |-> [w \in Workers |-> NoList], todo |-> {}]
    /\ trig = [pc |-> "idle", w |-> CHOOSE w \in Workers : TRUE]
    /\ chan = [w \in Workers |-> 0] /\ fp = [w \in Workers |-> NoList]
    /\ raw = [s \in Streams |-> 0] /\ updates = [s \in Streams |-> <<>>]
    /\ fwd = [s \in Streams |-> [pc |-> "idle", list |-> NoList]]
    /\ sess = [s \in Streams |-> [pc |-> "idle", got |-> NoList]]
    /\ budget = [changes |-> MaxChanges, triggers |-> MaxTriggers, errors |-> MaxLoadErrors]

Polling == PollReads \/ PollLocks \/ (\E w \in Workers : UpdateNode(w)) \/ PollUnlocks
Triggering == TriggerLocks \/ TriggerSends
Forwarding(s) == ForwardReceives(s) \/ ForwardLoads(s) \/ ForwardSends(s)
Session(s) == Subscribe(s) \/ LoadInitial(s) \/ Unsubscribe(s) \/ SendDone(s) \/ TakeUpdate(s) \/ UpdatesEnd(s)

Next ==
    \/ \E w \in Workers, list \in Lists : Change(w, list) \/ ChangeAndTrigger(w, list)
    \/ Polling \/ Triggering
    \/ \E s \in Streams : Connect(s) \/ Break(s) \/ LoadFails(s) \/ Session(s) \/ Forwarding(s)

Spec == Init /\ [][Next]_vars

(* The runtime runs every task and hands the lock to those who wait in turn; a Worker
   reads its stream, or the stream breaks. *)
Steps == Triggering \/ \E s \in Streams : Session(s) \/ Forwarding(s)

FairSpec == Spec /\ SF_vars(Steps) /\ WF_vars(Polling)
-----------------------------------------------------------------------------
(* The lock has a holder exactly while update or trigger_worker runs. *)
TypeOK ==
    /\ db \in [Workers -> Lists] /\ fp \in [Workers -> Lists \cup {NoList}]
    /\ chan \in [Workers -> 0..MaxStreams] /\ raw \in [Streams -> 0..RawCap]
    /\ \A s \in Streams : Len(updates[s]) =< UpdateCap
    /\ (lock = "poll") = (poll.pc = "update") /\ (lock = "trigger") = (trig.pc = "send")

(* unsubscribe_with_lease: the session of an older stream that ends late never takes the
   subscription of the stream that replaced it. *)
NewestSubscribed ==
    \A s \in Streams :
      /\ sess[s].pc = "load" \/ Serving(s)
      /\ \A n \in (s[2] + 1)..MaxStreams : sess[<<s[1], n>>].pc \in {"idle", "subscribe"}
      => chan[s[1]] = s[2]

(* dispatcher.rs: who holds the lock waits for room in one Worker's channel, and everyone
   else waits for the lock; it is always given back. *)
LockReleased == []<>(lock = "free")

(* Once the database no longer changes, every session that stays open has applied the
   list it holds, whatever was lost or replaced on the way. *)
Arrived(s) == Serving(s) => sess[s].got = db[s[1]]
UpdatesArrive == \A s \in Streams : []<>Arrived(s)
=============================================================================
