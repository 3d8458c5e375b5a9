----------------------------- MODULE RoutedLayer -----------------------------
(***************************************************************************)
(* A routed layer on the client: grouping the assignments by Worker        *)
(* process (routing/grouping.py, selection.py), dispatching them           *)
(* (dispatch.py), the one retry (execute.py), the output pools (buffers.py)*)
(* and the connections that the topology watcher opens, replaces and       *)
(* closes underneath (controller/topology.py).                             *)
(*                                                                         *)
(* One event loop: a step is the code between two awaits. An assignment is *)
(* a token and an expert; of the numbers only how often an assignment was  *)
(* added to the result is kept. A connection is a process and the topology *)
(* version that opened it, for a process may leave and come back.          *)
(***************************************************************************)
EXTENDS Integers, FiniteSets, SequencesExt

CONSTANTS
    Tokens,       \* rows of the layer, 1 .. Tokens
    Experts,
    Processes,    \* Worker process starts, numbered as they are sorted
    Assignments,  \* pairs of a token and an expert
    Topologies,   \* the replicas of each expert, in the messages of the Controller
    Calls,        \* calls of execute_routed_layer
    MaxBatch,     \* max_batch_tokens of every Worker
    Capacity,     \* max_in_flight, the size of every pool
    MaxVersion,   \* bound on the topology versions
    Loses,        \* closing a connection ends its calls (gRPC), or waits (SHM)
    MayFail,      \* may opening a connection fail (SHM)?
    Closer        \* the call whose task closes the client afterwards, or 0

LayerAssumption ==
    /\ Experts \subseteq Nat /\ Processes \subseteq Nat /\ IsFiniteSet(Processes)
    /\ Assignments \subseteq (1 .. Tokens) \X Experts
    /\ Topologies \subseteq [Experts -> SUBSET Processes]
    /\ {MaxBatch, Capacity, MaxVersion} \subseteq Nat \ {0}
    /\ Loses \in BOOLEAN /\ MayFail \in BOOLEAN

VARIABLES
    version, routes,  \* the installed TopologySnapshot
    res,              \* its connection to each process, _resources; 0 for none
    pools,            \* _pools
    conn,             \* the connections
    watch,            \* the watcher and provider: watching, opening, failed or closing
    pending,          \* routes whose connections are being opened
    next,             \* RoundRobinSelector._next
    call, added       \* the calls and their accumulators

provider == <<version, routes, res, pools, conn, watch, pending>>
vars == <<provider, next, call, added>>

Connections == Processes \X (1 .. MaxVersion)
NoPlans == [plan \in {} |-> ""]
NewCall == [pc |-> "new", st |-> NoPlans, pool |-> NoPlans, direct |-> FALSE, observed |-> 0,
            required |-> 0, failed |-> {}, outcome |-> "none"]
-----------------------------------------------------------------------------
(* Grouping *)

Requested(todo) == {a[2] : a \in todo}
RouteMissing(todo) == \E e \in Requested(todo) : routes[e] = {}

\* Faulty variant: the failed process stays a candidate.
EligibleAll(e, avoid) == routes[e]

(* Replicas that did not fail the expert, or all if there is no other. *)
Eligible(e, avoid) == IF routes[e] \ avoid[e] = {} THEN routes[e] ELSE routes[e] \ avoid[e]

\* RoundRobinSelector.select
Selected(e, avoid) ==
    LET eligible == SetToSortSeq(Eligible(e, avoid), <)
    IN  eligible[(next[e] % Len(eligible)) + 1]

(* _split_batch: rows in order, at most MaxBatch in a batch. *)
Chunks(rows) ==
    LET sorted == SetToSortSeq(rows, <)
    IN  {{sorted[j] : j \in {k \in DOMAIN sorted : (k - 1) \div MaxBatch = i}} :
          i \in 0 .. (Len(sorted) - 1) \div MaxBatch}

(* group_worker_batches: a first attempt with one target sends all rows, every
   other batch only the rows that have an assignment for its target. *)
Plans(todo, avoid, first) ==
    LET target == [e \in Requested(todo) |-> Selected(e, avoid)]
        used == {target[e] : e \in Requested(todo)}
        mine(p) == {a \in todo : target[a[2]] = p}
        rows(p) == IF first /\ Cardinality(used) = 1 THEN 1 .. Tokens ELSE {a[1] : a \in mine(p)}
    IN  UNION {{[to |-> <<p, res[p]>>, rows |-> chunk, work |-> {a \in mine(p) : a[1] \in chunk}] :
                  chunk \in Chunks(rows(p))} : p \in used}

Rotate(todo) == next' = [e \in Experts |-> next[e] + IF e \in Requested(todo) THEN 1 ELSE 0]

\* The tasks of dispatch_once start within one turn and look their pool up:
\* without one they raise. A complete plan needs none and is sent at once.
Dispatched(record, plans, pc, direct) ==
    [record EXCEPT !.pc = pc, !.direct = direct, !.pool = [p \in plans |-> pools[p.to[1]]],
        !.st = [p \in plans |-> IF direct THEN "running"
                                ELSE IF pools[p.to[1]] = 0 THEN "raised" ELSE "queued"]]
-----------------------------------------------------------------------------
(* execute_routed_layer *)

Over(c, outcome) == call' = [call EXCEPT ![c].pc = "over", ![c].outcome = outcome]

\* dispatch_complete_plan: one plan for all rows runs in the caller's own task.
Direct(plans) == Cardinality(plans) = 1

Execute(c) ==
    /\ call[c].pc = "new"
    /\ watch \in {"watching", "opening", "failed"} /\ version > 0
    /\ IF watch = "failed" \/ RouteMissing(Assignments)
         THEN Over(c, IF watch = "failed" THEN "protocol" ELSE "error") /\ UNCHANGED next
         ELSE LET plans == Plans(Assignments, [e \in Experts |-> {}], TRUE)
              IN  /\ call' = [call EXCEPT ![c] = Dispatched([@ EXCEPT !.observed = version],
                                                            plans, "first", Direct(plans))]
                  /\ Rotate(Assignments)
    /\ UNCHANGED <<provider, added>>

Plan(c) == DOMAIN call[c].st
Live(c) == call[c].pc \in {"first", "retry"}
Set(c, p, st) == call' = [call EXCEPT ![c].st[p] = st]

Submissions == UNION {{<<c, p>> : p \in Plan(c)} : c \in Calls}

(* Tensors that are leased from the pool of a connection. *)
Leased(r) == {<<c, p>> \in Submissions :
    /\ call[c].st[p] = "running" /\ ~call[c].direct
    /\ p.to[1] = r[1] /\ call[c].pool[p] = r[2]}

(* OutputPool._acquire, which fails with the pool or the deadline, and the
   start of the transport's execute. *)
Submit(c, p) ==
    /\ Live(c) /\ call[c].st[p] = "queued"
    /\ LET pool == <<p.to[1], call[c].pool[p]>> IN
       \/ /\ conn[pool].pool = "open" /\ Cardinality(Leased(pool)) < Capacity
          /\ Set(c, p, IF conn[p.to].st = "open" THEN "running" ELSE "failed")
       \/ conn[pool].pool # "open" /\ Set(c, p, "failed")
       \/ Set(c, p, "fatal")
    /\ UNCHANGED <<provider, next, added>>

\* Faulty variant: what a Worker sent before it failed is added.
AddPartial(c, p, st) == added' = [added EXCEPT ![c] = [a \in Assignments |-> @[a] + IF a \in p.work THEN 1 ELSE 0]]

(* index_add_ of a partial result; a complete result is returned as it is. *)
Add(c, p, st) == added' = [added EXCEPT ![c] = [a \in Assignments |->
                     @[a] + IF st = "added" /\ a \in p.work THEN 1 ELSE 0]]

(* The Worker answers or the deadline passes: a result, a failure that may be
   retried, from some topology version on, or one that may not. *)
Answer(c, p) ==
    /\ Live(c) /\ call[c].st[p] = "running"
    /\ \E st \in {"added", "failed", "fatal"}, wanted \in {0, call[c].observed + 1} :
         /\ wanted > 0 => st = "failed" /\ call[c].pc = "first"
         /\ call' = [call EXCEPT ![c].st[p] = st, ![c].required = IF wanted > @ THEN wanted ELSE @]
         /\ Add(c, p, st)
    /\ UNCHANGED <<provider, next>>

\* The connection closes under a gRPC call: CancelledError, or UsageError when
\* the request was not sent yet. A task group ignores a task that is cancelled;
\* a complete plan is executed by the caller's task.
Lose(c, p) ==
    /\ Loses /\ Live(c) /\ call[c].st[p] = "running" /\ conn[p.to].st = "closing"
    /\ \E st \in {"lost", "raised"} :
         call' = [call EXCEPT ![c].st[p] = IF call[c].direct THEN "raised" ELSE st]
    /\ UNCHANGED <<provider, next, added>>

\* Faulty variant: a task that was cancelled is waited for.
UnsettledLost(c) == {p \in Plan(c) : call[c].st[p] \in {"queued", "running", "lost"}}

(* The tasks the group waits for. *)
Unsettled(c) == {p \in Plan(c) : call[c].st[p] \in {"queued", "running"}}
Failed(c) == {p \in Plan(c) : call[c].st[p] \in {"failed", "fatal"}}

\* An unexpected exception cancels the sibling tasks and propagates.
Abort(c) ==
    /\ Live(c) /\ \E p \in Plan(c) : call[c].st[p] = "raised"
    /\ call' = [call EXCEPT ![c].pc = "over", ![c].outcome = "unexpected",
                            ![c].st = [p \in Plan(c) |-> IF p \in Unsettled(c) THEN "lost" ELSE @[p]]]
    /\ UNCHANGED <<provider, next, added>>

Settled(c) == Live(c) /\ Unsettled(c) = {} /\ \A p \in Plan(c) : call[c].st[p] # "raised"

(* Without failures the result is returned; the first attempt may be followed
   by a refresh of the topology. *)
Finish(c) ==
    /\ Settled(c)
    /\ IF Failed(c) = {} THEN Over(c, "ok")
       ELSE IF call[c].pc = "retry" \/ \E p \in Failed(c) : call[c].st[p] = "fatal" THEN Over(c, "error")
       ELSE call' = [call EXCEPT ![c].pc = "refresh", ![c].failed = Failed(c)]
    /\ UNCHANGED <<provider, next, added>>

\* _unfinished_batch
Unfinished(c) == UNION {p.work : p \in call[c].failed}
Avoid(c) == [e \in Experts |-> {p.to[1] : p \in {q \in call[c].failed : \E a \in q.work : a[2] = e}}]
UsesFailed(c, plans) == \E p \in plans : \E a \in p.work : p.to[1] \in Avoid(c)[a[2]]

(* After the refresh: the deadline, the topology version a Worker asked for,
   the routes of what is unfinished; the failed process only after a delay. *)
Retry(c) ==
    /\ call[c].pc = "refresh"
    /\ \/ Over(c, "error") /\ UNCHANGED next
       \/ watch = "failed" /\ Over(c, "protocol") /\ UNCHANGED next
       \/ /\ watch # "failed" /\ version >= call[c].required /\ ~RouteMissing(Unfinished(c))
          /\ LET plans == Plans(Unfinished(c), Avoid(c), FALSE) IN
             call' = [call EXCEPT ![c] = IF UsesFailed(c, plans)
                        THEN [@ EXCEPT !.pc = "delay", !.st = [p \in plans |-> "planned"]]
                        ELSE Dispatched(@, plans, "retry", FALSE)]
          /\ Rotate(Unfinished(c))
    /\ UNCHANGED <<provider, added>>

RetryDelayed(c) ==
    /\ call[c].pc = "delay"
    /\ \/ Over(c, "error")
       \/ call' = [call EXCEPT ![c] = Dispatched(@, Plan(c), "retry", FALSE)]
    /\ UNCHANGED <<provider, next, added>>
-----------------------------------------------------------------------------
(* ControllerTopologyWatcher *)

Wanted(r) == UNION {r[e] : e \in Experts}
Missing(r) == {p \in Wanted(r) : res[p] = 0}

\* A complete message: connections to processes that have none are opened.
Receive(new) ==
    /\ watch = "watching" /\ version < MaxVersion
    /\ pending' = new
    /\ watch' = "opening"
    /\ UNCHANGED <<version, routes, res, pools, conn, next, call, added>>

\* A connection cannot be opened: what was opened is closed again, and the
\* watcher ends.
OpenFails ==
    /\ watch = "opening" /\ MayFail /\ Missing(pending) # {}
    /\ watch' = "failed"
    /\ UNCHANGED <<version, routes, res, pools, conn, pending, next, call, added>>

\* Tasks that execute a complete plan on a connection; _close waits for them.
Holders(r) == {c \in Calls : call[c].direct /\ Live(c) /\ \E p \in Plan(c) :
                  p.to = r /\ call[c].st[p] = "running"}
Opened(r) == [conn[r] EXCEPT !.st = "open", !.pool = "open"]
Retire(r) == [conn[r] EXCEPT !.st = "closing", !.holders = Holders(r)]

(* The rest of _install is one step; the connections that are no longer routed
   to are closed by tasks of their own. *)
Install ==
    /\ watch = "opening"
    /\ watch' = "watching"
    /\ version' = version + 1
    /\ routes' = pending
    /\ res' = [p \in Processes |-> IF p \in Missing(pending) THEN version + 1
                                   ELSE IF p \in Wanted(pending) THEN res[p] ELSE 0]
    /\ pools' = [p \in Processes |-> IF p \in Wanted(pending) THEN res'[p] ELSE pools[p]]
    /\ conn' = [r \in Connections |->
          IF r[1] \in Missing(pending) /\ r[2] = version + 1
            THEN Opened(r)
          ELSE IF conn[r].st = "open" /\ res'[r[1]] # r[2] THEN Retire(r) ELSE conn[r]]
    /\ UNCHANGED <<pending, next, call, added>>

Running(r) == \E c \in Calls : \E p \in Plan(c) : Live(c) /\ p.to = r /\ call[c].st[p] = "running"
TaskEnded(c) == call[c].pc = "over" /\ (c = Closer => watch = "closed")

\* WorkerTransport.close gathers the tasks that were executing on it.
CloseTransport(r) ==
    /\ conn[r].st = "closing"
    /\ ~Running(r) /\ \A c \in conn[r].holders : TaskEnded(c)
    /\ conn' = [conn EXCEPT ![r].st = "closed", ![r].pool = "closing"]
    /\ UNCHANGED <<version, routes, res, pools, watch, pending, next, call, added>>

\* Faulty variant: the pool of the process is removed, whosever it is.
PopAny(r) == pools' = [pools EXCEPT ![r[1]] = 0]

(* _retire_worker_resources: only the pool of this connection. *)
Pop(r) == pools' = IF res[r[1]] # r[2] /\ pools[r[1]] = r[2] THEN [pools EXCEPT ![r[1]] = 0] ELSE pools

\* OutputPool._close waits for the leases.
ClosePool(r) ==
    /\ conn[r].pool = "closing"
    /\ Leased(r) = {}
    /\ conn' = [conn EXCEPT ![r].pool = "closed"]
    /\ Pop(r)
    /\ UNCHANGED <<version, routes, res, watch, pending, next, call, added>>

\* The client is closed: the watcher is cancelled, with what it was opening.
BeginClose ==
    /\ watch \in {"watching", "opening", "failed"} /\ version > 0
    /\ Closer # 0 => call[Closer].pc = "over"
    /\ watch' = "closing"
    /\ UNCHANGED <<version, routes, res, pools, conn, pending, next, call, added>>

Retiring == {r \in Connections : conn[r].st = "closing" \/ conn[r].pool = "closing"}

\* _close: after the retirements under way, every connection.
CloseAll ==
    /\ watch = "closing" /\ Retiring = {}
    /\ watch' = "draining"
    /\ pools' = [p \in Processes |-> 0]
    /\ conn' = [r \in Connections |-> IF conn[r].st = "open" THEN Retire(r) ELSE conn[r]]
    /\ UNCHANGED <<version, routes, res, pending, next, call, added>>

Closed ==
    /\ watch = "draining" /\ Retiring = {}
    /\ watch' = "closed"
    /\ UNCHANGED <<version, routes, res, pools, conn, pending, next, call, added>>
-----------------------------------------------------------------------------
Init ==
    /\ version = 0 /\ routes = [e \in Experts |-> {}] /\ pending = routes
    /\ res = [p \in Processes |-> 0] /\ pools = res
    /\ conn = [r \in Connections |-> [st |-> "none", pool |-> "none", holders |-> {}]]
    /\ watch = "watching"
    /\ next = [e \in Experts |-> 0]
    /\ call = [c \in Calls |-> NewCall]
    /\ added = [c \in Calls |-> [a \in Assignments |-> 0]]

Task(c) == \/ \E p \in Plan(c) : Submit(c, p) \/ Answer(c, p) \/ Lose(c, p)
           \/ Abort(c) \/ Finish(c) \/ Retry(c) \/ RetryDelayed(c)
Cleanup(r) == CloseTransport(r) \/ ClosePool(r)
Closing == CloseAll \/ Closed

Next ==
    \/ \E c \in Calls : Execute(c) \/ Task(c)
    \/ \E new \in Topologies : Receive(new)
    \/ OpenFails \/ Install \/ BeginClose \/ Closing
    \/ \E r \in Connections : Cleanup(r)

(* Every call has a deadline, and the loop goes on with what was begun; the
   caller that closes the client does so. *)
Steps ==
    \/ \E c \in Calls : Task(c)
    \/ \E r \in Connections : Cleanup(r)
    \/ Closing \/ Install \/ OpenFails

Spec == Init /\ [][Next]_vars /\ WF_vars(Steps)
-----------------------------------------------------------------------------
(* Properties *)

(* The type invariant. *)
TypeOK ==
    /\ version \in 0 .. MaxVersion /\ routes \in [Experts -> SUBSET Processes]
    /\ res \in [Processes -> 0 .. version] /\ pools \in [Processes -> 0 .. version]
    /\ watch \in {"watching", "opening", "failed", "closing", "draining", "closed"}
    /\ \A c \in Calls : \A p \in Plan(c) : p.to[2] > 0 /\ Cardinality(p.rows) =< MaxBatch

(* A layer that is returned has every assignment exactly once, although plans
   are split, fail, are retried elsewhere and the connections are replaced
   under them (dispatch.py:102, execute.py:146). *)
LayerComplete == \A c \in Calls : call[c].outcome = "ok" => \A a \in Assignments : added[c][a] = 1

(* The pool of every connection that is routed to is there: the late cleanup of
   an earlier connection to the same process leaves it alone (topology.py:403). *)
PoolsInstalled == watch \notin {"draining", "closed"} => \A p \in Processes : res[p] # 0 =>
    pools[p] = res[p] /\ conn[<<p, res[p]>>].st = "open"

(* A process that failed an assignment gets it again only if the snapshot of
   the retry had no other replica (execute.py:149). *)
AvoidsFailed == \A c \in Calls : call[c].pc = "refresh" /\ call'[c].pc \in {"delay", "retry"} =>
    \A p \in DOMAIN call'[c].st : \A a \in p.work :
        p.to[1] \in Avoid(c)[a[2]] => routes[a[2]] \subseteq Avoid(c)[a[2]]
RetriedElsewhere == [][AvoidsFailed]_vars

(* As long as the client is open, execute_routed_layer returns a result or
   raises a TransportError (execute.py:174). *)
ResultOrTransportError == watch = "watching" => \A c \in Calls : call[c].outcome # "unexpected"

(* A topology change leaves calls with failures that may be retried, never with
   a client that fails for good. *)
TopologyRecovers == \A c \in Calls : call[c].outcome # "protocol"

(* Every call returns, and closing the client closes every connection. *)
CallsOver == \A c \in Calls : call[c].pc \in {"new", "over"}
CallsReturn == []<>CallsOver
CloseOver == watch \notin {"closing", "draining"}
CloseEnds == []<>CloseOver
=============================================================================
