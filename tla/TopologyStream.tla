---------------------------- MODULE TopologyStream ----------------------------
(***************************************************************************)
(* How a Frontend follows the Controller's routes: the watch task of       *)
(* controller/service/topology.rs, the stream, and the client side of      *)
(* ek-transport (controller/topology.py, controller/messages.py).          *)
(*                                                                         *)
(* The Controller is the abstract table of module Topology, which          *)
(* ControllerState is shown to implement. The task's reads of the version  *)
(* and of the messages are two steps, since each takes the lock anew. The  *)
(* wire stands for the channel of the task and the gRPC stream together.   *)
(* Worker metadata in a route is left out; a part carries the entries of   *)
(* at most PartSize experts (64 in the code).                              *)
(***************************************************************************)
EXTENDS Topology, SequencesExt

CONSTANTS
    PartSize,      \* routes per message part
    WireCapacity,  \* parts in flight
    MaxDrops,      \* bound: streams broken by the network or a restart
    OpensFail      \* may opening the connection to a new Worker fail (shm)?

ASSUME StreamAssumption ==
    /\ IsFiniteSet(Experts)
    /\ PartSize \in Nat \ {0} /\ WireCapacity \in Nat \ {0} /\ MaxDrops \in Nat

VARIABLES
    task,     \* the spawned watch task of the current stream
    wire,     \* parts sent and not yet consumed
    client,   \* ControllerTopologyProvider
    drops,    \* streams broken so far
    tables    \* auxiliary: the table of every version handed out

streamVars == <<task, wire, client, drops>>
vars == <<topologyVars, streamVars, tables>>

NoPending == [count |-> 0]
NoTask == [pc |-> "none", installed |-> 0, newest |-> 0, initial |-> FALSE,
           changed |-> FALSE, outbox |-> <<>>]

-----------------------------------------------------------------------------
(* snapshot_messages and update_messages: the entries in parts, one at least. *)
Parts(kind, previous, to, entries) ==
    LET keys == SetToSeq(DOMAIN entries)
        count == IF keys = <<>> THEN 1 ELSE (Len(keys) + PartSize - 1) \div PartSize
        slice(i) == {keys[j] : j \in {n \in DOMAIN keys : (n - 1) \div PartSize = i - 1}}
    IN  [i \in 1..count |->
            [kind |-> kind, previous |-> previous, version |-> to, index |-> i,
             count |-> count, entries |-> [k \in slice(i) |-> entries[k]]]]

Snapshot ==
    Parts("snapshot", 0, version,
          [k \in {e \in Experts : routes[e] # {}} |-> routes[k]])

Update(revision) ==
    Parts("update", revision.previous, revision.version, revision.changes)

(* The revisions topology_messages picks while walking the history once. They join end
   to end and versions grow, so at most one joins `from', and the walk takes it and all
   the later ones. *)
Joining(from) == {i \in DOMAIN history : history[i].previous = from}

Replay(from) == SubSeq(history, CHOOSE i \in Joining(from) : TRUE, Len(history))

(* topology_messages, the parts of each message together; with no topology entry
   yet, version 0 is an empty snapshot *)
TopologyMessages(from) ==
    IF from = version /\ version > 0 THEN <<>>
    ELSE IF version > 0 /\ Joining(from) # {}
           THEN [i \in DOMAIN Replay(from) |-> Update(Replay(from)[i])]
           ELSE <<Snapshot>>

-----------------------------------------------------------------------------
(* watch_topology accepts the request and spawns the task; a version newer than
   the Controller's is refused and asked again later. *)
Connect ==
    /\ task.pc = "none"
    /\ ~client.failed
    /\ client.version =< version
    /\ task' = [NoTask EXCEPT !.pc = "read", !.installed = client.version]
    /\ UNCHANGED <<topologyVars, wire, client, drops, tables>>

ReadNewest ==
    /\ task.pc = "read"
    /\ task' = [task EXCEPT
          !.newest = version,
          !.pc = IF ~task.initial \/ task.installed < version THEN "fetch" ELSE "wait"]
    /\ UNCHANGED <<topologyVars, wire, client, drops, tables>>

FetchMessages ==
    /\ task.pc = "fetch"
    /\ task' = [task EXCEPT !.outbox = TopologyMessages(task.installed), !.pc = "send"]
    /\ UNCHANGED <<topologyVars, wire, client, drops, tables>>

SendPart ==
    /\ task.pc = "send"
    /\ task.outbox # <<>>
    /\ Len(wire) < WireCapacity
    /\ LET message == Head(task.outbox) IN
       /\ wire' = Append(wire, Head(message))
       /\ task' = [task EXCEPT !.outbox =
                     IF Len(message) = 1 THEN Tail(@) ELSE [@ EXCEPT ![1] = Tail(message)]]
    /\ UNCHANGED <<topologyVars, client, drops, tables>>

\* Faulty variant: the version recorded is read after the messages were sent.
AllSentLatest ==
    /\ task.pc = "send"
    /\ task.outbox = <<>>
    /\ task' = [task EXCEPT !.installed = version, !.initial = TRUE, !.pc = "read"]
    /\ UNCHANGED <<topologyVars, wire, client, drops, tables>>

(* The version recorded is the one read before the messages were made. *)
AllSent ==
    /\ task.pc = "send"
    /\ task.outbox = <<>>
    /\ task' = [task EXCEPT !.installed = task.newest, !.initial = TRUE, !.pc = "read"]
    /\ UNCHANGED <<topologyVars, wire, client, drops, tables>>

AwaitChange ==
    /\ task.pc = "wait"
    /\ task.changed
    /\ task' = [task EXCEPT !.changed = FALSE, !.pc = "read"]
    /\ UNCHANGED <<topologyVars, wire, client, drops, tables>>

-----------------------------------------------------------------------------
(* TopologyMessageAssembler: a part that does not belong to the message being
   assembled, or that it already holds. *)
Interleaved(part) ==
    /\ client.pending # NoPending
    /\ \/ client.pending.kind # part.kind
       \/ client.pending.version # part.version
       \/ client.pending.previous # part.previous
       \/ client.pending.count # part.count
       \/ part.index \in client.pending.indexes

(* The entries of the parts held, updated by those of one more. *)
Merged(held, more) ==
    [k \in DOMAIN held \union DOMAIN more |-> IF k \in DOMAIN more THEN more[k] ELSE held[k]]

(* The parts held so far together with this one. *)
Held(part) ==
    IF client.pending = NoPending
      THEN [kind |-> part.kind, version |-> part.version, previous |-> part.previous,
            count |-> part.count, indexes |-> {part.index}, entries |-> part.entries]
      ELSE [client.pending EXCEPT !.indexes = @ \union {part.index},
                                  !.entries = Merged(@, part.entries)]

Complete(held) == held.indexes = 1..held.count

\* Faulty variant: an update that does not add replicas is taken for no change.
TableAfterIgnoringRemovals(held) ==
    [k \in Experts |->
        IF k \in DOMAIN held.entries /\ held.entries[k] # {} THEN held.entries[k]
        ELSE IF held.kind = "snapshot" THEN {} ELSE client.routes[k]]

(* A snapshot is the whole table; an update replaces or removes routes. *)
TableAfter(held) ==
    [k \in Experts |->
        IF k \in DOMAIN held.entries THEN held.entries[k]
        ELSE IF held.kind = "snapshot" THEN {} ELSE client.routes[k]]

(* The checks of a complete message against the installed table. *)
Joins(held) ==
    IF held.kind = "snapshot"
      THEN /\ held.version >= client.version
           /\ DOMAIN held.entries # {} => held.version > 0
           /\ held.version = client.version => TableAfter(held) = client.routes
      ELSE /\ held.previous = client.version
           /\ held.version > held.previous
           /\ DOMAIN held.entries # {}

Members(table) == UNION {table[k] : k \in Experts}

Fail == client' = [client EXCEPT !.failed = TRUE] /\ task' = NoTask /\ wire' = <<>>

(* _consume and _install; any exception but an RPC error ends the watch for good *)
Consume ==
    /\ wire # <<>>
    /\ LET part == Head(wire)
           held == Held(part)
       IN  \/ /\ ~Interleaved(part)
              /\ ~Complete(held)
              /\ client' = [client EXCEPT !.pending = held]
              /\ wire' = Tail(wire)
              /\ UNCHANGED task
           \/ /\ ~Interleaved(part)
              /\ Complete(held)
              /\ Joins(held)
              /\ client' = [client EXCEPT !.pending = NoPending, !.version = held.version,
                                          !.routes = TableAfter(held), !.started = TRUE]
              /\ wire' = Tail(wire)
              /\ UNCHANGED task
           \/ /\ ~Interleaved(part)
              /\ Complete(held)
              /\ Joins(held)
              /\ OpensFail
              /\ Members(TableAfter(held)) \ Members(client.routes) # {}
              /\ Fail
           \/ /\ Interleaved(part) \/ (Complete(held) /\ ~Joins(held))
              /\ Fail
    /\ UNCHANGED <<topologyVars, drops, tables>>

(* The stream ends with an RPC error: what is in flight and what is incomplete
   is discarded. *)
Disconnected ==
    /\ drops < MaxDrops
    /\ drops' = drops + 1
    /\ wire' = <<>>
    /\ task' = NoTask
    /\ client' = [client EXCEPT !.pending = NoPending]

Drop ==
    /\ task.pc # "none"
    /\ Disconnected
    /\ UNCHANGED <<topologyVars, tables>>

-----------------------------------------------------------------------------
Republish ==
    /\ \E new \in RouteTables : Publish(new)
    /\ task' = [task EXCEPT !.changed = (task.pc # "none")]
    /\ tables' = [tables EXCEPT ![version'] = routes']
    /\ UNCHANGED <<wire, client, drops>>

StoreFails == AdvanceFails /\ UNCHANGED <<streamVars, tables>>

ControllerRestarts ==
    /\ \E known \in BOOLEAN : (stored > 0 => known) /\ Restore(known)
    /\ tables' = [tables EXCEPT ![version'] = routes']
    /\ Disconnected

Init ==
    /\ TopologyInit
    /\ task = NoTask
    /\ wire = <<>>
    /\ client = [version |-> 0, routes |-> NoRoutes, pending |-> NoPending,
                 started |-> FALSE, failed |-> FALSE]
    /\ drops = 0
    /\ tables = [v \in 0..MaxVersion |-> NoRoutes]

Next ==
    \/ Connect \/ ReadNewest \/ FetchMessages \/ SendPart \/ AllSent \/ AwaitChange
    \/ Consume \/ Drop
    \/ Republish \/ StoreFails \/ ControllerRestarts

(* The runtime polls the task, gRPC delivers, and the client's watch loop runs
   and asks again after its delay; nothing obliges the Controller to publish. *)
Steps ==
    Connect \/ ReadNewest \/ FetchMessages \/ SendPart \/ AllSent \/ AwaitChange \/ Consume

Spec == Init /\ [][Next]_vars /\ WF_vars(Steps)

-----------------------------------------------------------------------------
(* Whatever is dropped, repeated or restarted, the table a Frontend routes by is
   the one the Controller published under the installed version, never a mix of
   two; and no Frontend is ahead of the Controller, so no request is refused.
   (topology_messages, TopologyMessageAssembler._consume_part, restore) *)
InstalledAsPublished ==
    /\ client.version =< version
    /\ client.routes = tables[client.version]

(* Unless its watch has failed, a Frontend's start() is answered and it catches
   up with the Controller again and again: no change notification is lost between
   the task's read and its wait. (watch_topology, _watch) *)
CatchesUp == []<>(client.failed \/ (client.started /\ client.version = version))

(* "TopologyUpdatePart ... joins one exact prior version": the updates a watcher
   is sent always join, so that its watch never ends in a protocol error. *)
UpdatesJoin == ~client.failed
===============================================================================
