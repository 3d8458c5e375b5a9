----------------------------- MODULE CpuWeights -----------------------------
(***************************************************************************)
(* How a Worker gets an expert's bytes into host memory: the loader        *)
(* (weights/loader.py), the byte-bounded DRAM cache (dram_cache.py), the   *)
(* disk cache and its writeback (disk_cache.py, writeback.py), the HTTP    *)
(* transfer (transfer.py) and the peer server (peer_server.py).            *)
(*                                                                         *)
(* A call is one CpuWeightLoader._acquire, by a load of the manager        *)
(* (Remote) or by a peer request (local_only). A load is one task of       *)
(* _populate_cache, named after the call that created it: a call creates   *)
(* at most one, for it fails when a load with its own policy does. The     *)
(* cache condition and _inflight_lock are never held across an await, so   *)
(* each operation of the cache is one step, and `async with` of either     *)
(* does not yield.                                                         *)
(***************************************************************************)
EXTENDS Integers, FiniteSets, Sequences, FiniteSetsExt

CONSTANTS
    Keys, Calls,
    Remote,       \* the calls of the manager; the others are peer requests
    MaxBytes,     \* DramCache max_bytes
    Reservation,  \* loader._reservation_bytes
    Sizes,        \* byte counts a prepared entry may have
    Endpoints,    \* distinct HTTP sources of a remote load: peers, then the server
    MaxPending,   \* capacity of the writeback queue
    MaxPeers,     \* max_concurrent_requests of the peer server
    NoCall        \* None

CpuWeightsAssumption ==
    /\ IsFiniteSet(Keys) /\ IsFiniteSet(Calls) /\ Remote \subseteq Calls
    /\ NoCall \notin Calls \cup Keys
    /\ MaxBytes \in Nat /\ Reservation \in 1..MaxBytes
    /\ Sizes \subseteq 1..Reservation
    /\ Endpoints \in Nat /\ MaxPending \in Nat \ {0} /\ MaxPeers \in Nat

VARIABLES
    size,      \* byte_count of each entry, 0 where the key is not cached
    refs,      \* references of each entry
    order,     \* _entries as an OrderedDict: least recently used first
    used, reserved,
    inflight,  \* _inflight: the load of each key
    loads, calls,
    queue,     \* leases the writeback queue owns, by call
    writing,   \* the leases the writer has taken from the queue (at most one)
    disk,      \* each expert file
    phase,     \* "open", "stopping" (peer server and manager), "drain", "closed"
    spin       \* calls that keep the event loop without yielding

cacheVars == <<size, refs, order, used, reserved>>
vars == <<cacheVars, inflight, loads, calls, queue, writing, disk, phase, spin>>

Source == {"none", "dram", "disk", "remote"}
NoLoad == [pc |-> "none", attempt |-> 0, cancel |-> FALSE, seed |-> FALSE, source |-> "none"]
IdleCall == [pc |-> "idle", key |-> NoCall, on |-> NoCall, source |-> "none"]

Ended == {"done", "failed", "cancelled", "error"}
\* The loads that hold a reservation.
Reserving == {l \in Calls : loads[l].pc \in {"disk", "unlink", "http"}}
Waiters(l) == {c \in Calls : calls[c].pc = "wait" /\ calls[c].on = l}
\* _active_requests
ActivePeers == {c \in Calls \ Remote : calls[c].pc \in {"wait", "reap", "lease"}}
SamePolicy(c, l) == (c \in Remote) = (l \in Remote)
-----------------------------------------------------------------------------
(* DramCache. An operation is given by the values of the cache after it. *)

Available(u, r) == MaxBytes - u - r
Without(k) == SelectSeq(order, LAMBDA x : x # k)

Unreferenced == SelectSeq(order, LAMBDA k : refs[k] = 0)

\* _evict_until_available: the shortest prefix of victims that makes room, or all.
Evicted ==
    LET first(n) == {Unreferenced[i] : i \in 1..n}
        freed(n) == MapThenSumSet(LAMBDA k : size[k], first(n))
        enough == {n \in 0..Len(Unreferenced) :
                     Available(used - freed(n), reserved) >= Reservation}
    IN  first(IF enough = {} THEN Len(Unreferenced) ELSE Min(enough))

\* acquire: one more reference, and the most recent position.
Touched(k) == Append(Without(k), k)

\* notify_all
Notified(ls) == [l \in Calls |->
    IF ls[l].pc = "asleep" THEN [ls[l] EXCEPT !.pc = "woken"] ELSE ls[l]]

\* Faulty variant: a release wakes no reservation.
ReleasedSilently(k, n, ls) == refs' = [refs EXCEPT ![k] = @ - n] /\ loads' = ls

\* _release of n leases of k, after the loads became ls
Released(k, n, ls) ==
    /\ refs' = [refs EXCEPT ![k] = @ - n]
    /\ loads' = IF n > 0 THEN Notified(ls) ELSE ls
-----------------------------------------------------------------------------
(* CpuWeightLoader *)

\* Faulty variant: the last waiter leaves the load running.
LeftRunning(c) ==
    LET l == calls[c].on
        last == Waiters(l) = {c} /\ inflight[calls[c].key] = l
        done == loads[l].pc \in Ended
    IN  [inflight |-> IF last THEN [inflight EXCEPT ![calls[c].key] = NoCall] ELSE inflight,
         loads |-> IF last /\ done THEN [loads EXCEPT ![l].seed = FALSE] ELSE loads,
         seeds |-> IF last /\ done /\ loads[l].seed THEN 1 ELSE 0,
         reap |-> last /\ ~done]

(* _leave_inflight by c: the last waiter takes the load out of _inflight, cancels
   it or closes its seed lease; it waits for a load it cancelled. *)
Left(c) ==
    LET l == calls[c].on
        last == Waiters(l) = {c} /\ inflight[calls[c].key] = l
        done == loads[l].pc \in Ended
    IN  [inflight |-> IF last THEN [inflight EXCEPT ![calls[c].key] = NoCall] ELSE inflight,
         loads |-> IF ~last THEN loads
                   ELSE IF done THEN [loads EXCEPT ![l].seed = FALSE]
                   ELSE [loads EXCEPT ![l].cancel = TRUE],
         seeds |-> IF last /\ done /\ loads[l].seed THEN 1 ELSE 0,
         reap |-> last /\ ~done]

\* A call that joins a load which has failed under its own policy raises at once.
FailsAtOnce(c, l) == loads[l].pc = "failed" /\ SamePolicy(c, l)

(* _join_inflight, and the wait for the load when it has not ended. `flights` and
   `ls` are _inflight and the loads when c joins. Under another policy a load that
   has failed is left and joined again, with no await that yields, for ever. *)
Join(c, k, flights, ls) ==
    LET l == flights[k] IN
    IF l = NoCall
      THEN /\ inflight' = [flights EXCEPT ![k] = c]
           /\ loads' = [ls EXCEPT ![c].pc = "new"]
           /\ calls' = [calls EXCEPT ![c] = [pc |-> "wait", key |-> k, on |-> c, source |-> "none"]]
           /\ UNCHANGED spin
      ELSE /\ inflight' = flights
           /\ loads' = ls
           /\ calls' = [calls EXCEPT ![c] = [pc |-> IF FailsAtOnce(c, l) THEN "failed" ELSE "wait",
                                             key |-> k, on |-> l, source |-> "none"]]
           /\ spin' = IF ls[l].pc = "failed" /\ ~FailsAtOnce(c, l) THEN {c} ELSE {}

\* _acquire up to its first wait; a peer request over the limit is answered 503.
Acquire(c, k) ==
    /\ phase = "open" /\ calls[c].pc = "idle"
    /\ UNCHANGED <<size, used, reserved, queue, writing, disk, phase>>
    /\ IF c \notin Remote /\ Cardinality(ActivePeers) >= MaxPeers
         THEN /\ calls' = [calls EXCEPT ![c].pc = "refused"]
              /\ UNCHANGED <<refs, order, inflight, loads, spin>>
         ELSE IF size[k] > 0
         THEN /\ refs' = [refs EXCEPT ![k] = @ + 1]
              /\ order' = Touched(k)
              /\ calls' = [calls EXCEPT ![c] = [pc |-> "lease", key |-> k, on |-> NoCall, source |-> "dram"]]
              /\ UNCHANGED <<inflight, loads, spin>>
         ELSE Join(c, k, inflight, loads) /\ UNCHANGED <<refs, order>>

\* The waiter resumes after its load returned: it takes a lease and leaves.
Obtained(c) ==
    LET k == calls[c].key  l == calls[c].on IN
    /\ calls[c].pc = "wait" /\ loads[l].pc = "done"
    /\ refs' = [refs EXCEPT ![k] = @ + 1 - Left(c).seeds]
    /\ loads' = IF Left(c).seeds > 0 THEN Notified(Left(c).loads) ELSE Left(c).loads
    /\ order' = Touched(k)
    /\ inflight' = Left(c).inflight
    /\ calls' = [calls EXCEPT ![c].pc = "lease", ![c].source = loads[l].source]
    /\ UNCHANGED <<size, used, reserved, queue, writing, disk, phase, spin>>

Raises(c) == SamePolicy(c, calls[c].on)

\* The waiter resumes after its load failed: it raises, or tries with its own policy.
LoadFailed(c) ==
    /\ calls[c].pc = "wait" /\ loads[calls[c].on].pc = "failed"
    /\ IF Raises(c)
         THEN /\ calls' = [calls EXCEPT ![c].pc = "failed"]
              /\ inflight' = Left(c).inflight /\ loads' = Left(c).loads
              /\ UNCHANGED spin
         ELSE Join(c, calls[c].key, Left(c).inflight, Left(c).loads)
    /\ UNCHANGED <<cacheVars, queue, writing, disk, phase>>

(* CancelledError in the wait: the manager drops the target or stops, a peer request
   times out or its connection closes. *)
CancelCall(c) ==
    /\ calls[c].pc = "wait"
    /\ calls' = [calls EXCEPT ![c].pc = IF Left(c).reap THEN "reap" ELSE "cancelled"]
    /\ Released(calls[c].key, Left(c).seeds, Left(c).loads)
    /\ inflight' = Left(c).inflight
    /\ UNCHANGED <<size, order, used, reserved, queue, writing, disk, phase, spin>>

\* The load that the last waiter cancelled has ended, or that wait is cancelled too.
Reaped(c) ==
    LET l == calls[c].on IN
    /\ calls[c].pc = "reap"
    /\ calls' = [calls EXCEPT ![c].pc = "cancelled"]
    /\ IF loads[l].pc = "done" /\ loads[l].seed
         THEN Released(calls[c].key, 1, [loads EXCEPT ![l].seed = FALSE])
         ELSE UNCHANGED <<refs, loads>>
    /\ UNCHANGED <<size, order, used, reserved, inflight, queue, writing, disk, phase, spin>>
-----------------------------------------------------------------------------
(* _populate_cache *)

Runs(l, pcs) == loads[l].pc \in pcs /\ ~loads[l].cancel
KeyOf(l) == calls[l].key

(* reserve: evict, and take the budget or wait for a notification. With the budget
   it looks in the cache again: another load may have ended meanwhile. *)
Reserve(l) ==
    LET k == KeyOf(l)  out == Evicted
        left == used - MapThenSumSet(LAMBDA x : size[x], out)
        hit == size[k] > 0 /\ k \notin out
    IN
    /\ Runs(l, {"new", "woken"})
    /\ size' = [x \in Keys |-> IF x \in out THEN 0 ELSE size[x]]
    /\ used' = left
    /\ IF Available(left, reserved) < Reservation
         THEN /\ loads' = [loads EXCEPT ![l].pc = "asleep"]
              /\ order' = SelectSeq(order, LAMBDA x : x \notin out)
              /\ UNCHANGED <<refs, reserved>>
         ELSE IF hit
         THEN /\ refs' = [refs EXCEPT ![k] = @ + 1]
              /\ order' = Append(SelectSeq(Without(k), LAMBDA x : x \notin out), k)
              /\ loads' = Notified([loads EXCEPT ![l].pc = "done", ![l].seed = TRUE, ![l].source = "dram"])
              /\ UNCHANGED reserved
         ELSE /\ loads' = [loads EXCEPT ![l].pc = "disk"]
              /\ reserved' = reserved + Reservation
              /\ order' = SelectSeq(order, LAMBDA x : x \notin out)
              /\ UNCHANGED refs
    /\ UNCHANGED <<inflight, calls, queue, writing, disk, phase, spin>>

\* reservation.commit: the entry takes its actual bytes, with the seed lease.
Commit(l, bytes, source) ==
    LET k == KeyOf(l) IN
    /\ reserved' = reserved - Reservation
    /\ IF size[k] > 0
         THEN loads' = Notified([loads EXCEPT ![l].pc = "error"]) /\ UNCHANGED <<size, refs, order, used>>
         ELSE /\ loads' = Notified([loads EXCEPT ![l].pc = "done", ![l].seed = TRUE, ![l].source = source])
              /\ size' = [size EXCEPT ![k] = bytes]
              /\ refs' = [refs EXCEPT ![k] = 1]
              /\ order' = Append(order, k)
              /\ used' = used + bytes

\* A source gave nothing: the next endpoint, or WeightLoadFailed and the budget back.
NextSource(l) ==
    LET more == l \in Remote /\ loads[l].attempt < Endpoints IN
    /\ loads' = IF more THEN [loads EXCEPT ![l].pc = "http", ![l].attempt = @ + 1]
                        ELSE Notified([loads EXCEPT ![l].pc = "failed"])
    /\ reserved' = IF more THEN reserved ELSE reserved - Reservation
    /\ UNCHANGED <<size, refs, order, used>>

\* _load_disk: a valid file, no file or an error, or a file that must be removed.
ReadDisk(l) ==
    /\ Runs(l, {"disk"})
    /\ \/ disk[KeyOf(l)] = "valid" /\ \E bytes \in Sizes : Commit(l, bytes, "disk")
       \/ NextSource(l)
       \/ /\ disk[KeyOf(l)] = "invalid"
          /\ loads' = [loads EXCEPT ![l].pc = "unlink"]
          /\ UNCHANGED cacheVars
    /\ UNCHANGED <<inflight, calls, queue, writing, disk, phase, spin>>

RemoveInvalid(l) ==
    /\ Runs(l, {"unlink"})
    /\ disk' = [disk EXCEPT ![KeyOf(l)] = "none"]
    /\ NextSource(l)
    /\ UNCHANGED <<inflight, calls, queue, writing, phase, spin>>

\* _load_http: a complete valid file within the byte bound, or any failure.
Download(l) ==
    /\ Runs(l, {"http"})
    /\ (\E bytes \in Sizes : Commit(l, bytes, "remote")) \/ NextSource(l)
    /\ UNCHANGED <<inflight, calls, queue, writing, disk, phase, spin>>

\* CancelledError in a load: the finally block gives the reservation back.
CancelledLoad(l) ==
    /\ loads[l].cancel /\ loads[l].pc \notin Ended
    /\ IF l \in Reserving
         THEN /\ reserved' = reserved - Reservation
              /\ loads' = Notified([loads EXCEPT ![l].pc = "cancelled"])
         ELSE loads' = [loads EXCEPT ![l].pc = "cancelled"] /\ UNCHANGED reserved
    /\ UNCHANGED <<size, refs, order, used, inflight, calls, queue, writing, disk, phase, spin>>
-----------------------------------------------------------------------------
(* The users of a lease, and the writeback *)

\* DiskWriteback.try_submit accepts the lease of a weight that came over the network.
Submittable(c) ==
    /\ calls[c].source = "remote"
    /\ phase \in {"open", "stopping"}
    /\ Len(queue) < MaxPending

CloseLease(c) ==
    /\ calls' = [calls EXCEPT ![c].pc = "closed"]
    /\ Released(calls[c].key, 1, loads)

\* The manager has converted the weight or failed to: the writer gets the lease, if it can.
FinishLoad(c) ==
    /\ c \in Remote /\ calls[c].pc = "lease"
    /\ IF Submittable(c)
         THEN /\ queue' = Append(queue, c)
              /\ calls' = [calls EXCEPT ![c].pc = "queued"]
              /\ UNCHANGED <<refs, loads>>
         ELSE CloseLease(c) /\ UNCHANGED queue
    /\ UNCHANGED <<size, order, used, reserved, inflight, writing, disk, phase, spin>>

\* The peer server has sent the file, or lost its client.
Served(c) ==
    /\ c \notin Remote /\ calls[c].pc = "lease"
    /\ CloseLease(c)
    /\ UNCHANGED <<size, order, used, reserved, inflight, queue, writing, disk, phase, spin>>

TakeJob ==
    /\ writing = {} /\ queue # <<>>
    /\ writing' = {Head(queue)} /\ queue' = Tail(queue)
    /\ UNCHANGED <<cacheVars, inflight, loads, calls, disk, phase, spin>>

\* Faulty variant: a failed write does not close the lease.
WrittenLeaks(c, ok) ==
    /\ disk' = IF ok THEN [disk EXCEPT ![calls[c].key] = "valid"] ELSE disk
    /\ IF ok THEN Released(calls[c].key, 1, loads) ELSE UNCHANGED <<refs, loads>>

\* The write ended; it may have failed, and the lease is closed either way.
Written(c, ok) ==
    /\ disk' = IF ok THEN [disk EXCEPT ![calls[c].key] = "valid"] ELSE disk
    /\ Released(calls[c].key, 1, loads)

WriteBack ==
    /\ \E c \in writing, ok \in BOOLEAN :
         Written(c, ok) /\ calls' = [calls EXCEPT ![c].pc = "closed"]
    /\ writing' = {}
    /\ UNCHANGED <<size, order, used, reserved, inflight, queue, phase, spin>>

Busy == \E c \in Calls : calls[c].pc \in {"wait", "reap", "lease"}

\* PeerWeightServer.close and WeightManager._close: no new calls, then no calls.
Stop ==
    /\ phase = "open" /\ phase' = "stopping"
    /\ UNCHANGED <<cacheVars, inflight, loads, calls, queue, writing, disk, spin>>

\* DiskWriteback.close: stop accepting, join the queue, end the writer.
CloseWriteback ==
    /\ \/ phase = "stopping" /\ ~Busy /\ phase' = "drain"
       \/ phase = "drain" /\ queue = <<>> /\ writing = {} /\ phase' = "closed"
    /\ UNCHANGED <<cacheVars, inflight, loads, calls, queue, writing, disk, spin>>

Init ==
    /\ size = [k \in Keys |-> 0] /\ refs = [k \in Keys |-> 0] /\ order = <<>>
    /\ used = 0 /\ reserved = 0
    /\ inflight = [k \in Keys |-> NoCall]
    /\ loads = [c \in Calls |-> NoLoad] /\ calls = [c \in Calls |-> IdleCall]
    /\ queue = <<>> /\ writing = {}
    /\ disk \in [Keys -> {"none", "valid", "invalid"}]
    /\ phase = "open" /\ spin = {}

LoadStep(l) ==
    Reserve(l) \/ ReadDisk(l) \/ RemoveInvalid(l) \/ Download(l) \/ CancelledLoad(l)

CallStep(c) ==
    Obtained(c) \/ LoadFailed(c) \/ CancelCall(c) \/ Reaped(c) \/ FinishLoad(c) \/ Served(c)

\* Nothing runs on a loop that one call never gives back.
Next ==
    /\ spin = {}
    /\ \/ \E c \in Calls, k \in Keys : Acquire(c, k)
       \/ \E c \in Calls : LoadStep(c) \/ CallStep(c)
       \/ TakeJob \/ WriteBack \/ Stop \/ CloseWriteback

Spec == Init /\ [][Next]_vars

(* The event loop runs every task that is ready, disk operations return, and the
   connect and read timeouts of the HTTP session end every download. Nothing
   obliges a call to be made or cancelled. *)
Steps ==
    /\ spin = {}
    /\ \/ TakeJob \/ WriteBack
       \/ \E c \in Calls : \/ LoadStep(c) \/ Obtained(c) \/ LoadFailed(c) \/ Reaped(c)
                           \/ FinishLoad(c) \/ Served(c)

FairSpec == Spec /\ WF_vars(Steps)
-----------------------------------------------------------------------------
\* The state is that of the classes named above.
TypeOK ==
    /\ size \in [Keys -> {0} \cup Sizes] /\ refs \in [Keys -> Nat]
    /\ order \in Seq(Keys) /\ used \in Nat /\ reserved \in Nat
    /\ inflight \in [Keys -> Calls \cup {NoCall}]
    /\ loads \in [Calls -> [pc : {"none", "new", "asleep", "woken", "disk", "unlink", "http"} \cup Ended,
                            attempt : 0..Endpoints, cancel : BOOLEAN, seed : BOOLEAN, source : Source]]
    /\ calls \in [Calls -> [pc : {"idle", "refused", "wait", "reap", "lease", "queued", "closed",
                                  "failed", "cancelled"},
                            key : Keys \cup {NoCall}, on : Calls \cup {NoCall}, source : Source]]
    /\ queue \in Seq(Calls) /\ Len(queue) =< MaxPending
    /\ writing \in SUBSET Calls /\ disk \in [Keys -> {"none", "valid", "invalid"}]
    /\ phase \in {"open", "stopping", "drain", "closed"} /\ spin \in SUBSET Calls

(* DramCache's two counters are the bytes of its entries and of the reservations that
   loads hold, whatever fails or is cancelled, and together stay within max_bytes. *)
BudgetAccounted ==
    /\ used = MapThenSumSet(LAMBDA k : size[k], Keys)
    /\ reserved = Reservation * Cardinality(Reserving)
    /\ used + reserved =< MaxBytes
    /\ {order[i] : i \in DOMAIN order} = {k \in Keys : size[k] > 0}

(* The references of a cached entry are exactly its leases: those of the callers, of
   the writeback and the seeds of loads whose waiters have not all left. So an entry
   in use is never evicted, and none stays pinned by a call that was cancelled. *)
ReferencesAreLeases ==
    \A k \in Keys :
       refs[k] = Cardinality({c \in Calls : calls[c].pc \in {"lease", "queued"} /\ calls[c].key = k})
               + Cardinality({l \in Calls : loads[l].seed /\ calls[l].key = k})

(* Calls for one expert share one load (_inflight): a second one runs only when the
   first was cancelled, so no load finds at commit that its key is already present. *)
OneLoadPerKey ==
    /\ \A l \in Calls : loads[l].pc # "error"
    /\ \A l, o \in Calls :
         /\ l # o /\ loads[l].pc \notin Ended \cup {"none"} /\ loads[o].pc \notin Ended \cup {"none"}
         /\ calls[l].key = calls[o].key
         => loads[l].cancel \/ loads[o].cancel

(* A load of the manager fails only after every endpoint of its own policy was tried,
   also when it shared the load of a peer request, which asks no endpoint. *)
FailsAfterEverySource ==
    \A c \in Remote : calls[c].pc = "failed" => loads[calls[c].on].attempt = Endpoints

(* acquire tries each source once, so it ends with a lease or a failure, and the lease
   is released: no call waits for ever for its load, for budget or for the writer. *)
CallsOver == \A c \in Calls : calls[c].pc \notin {"wait", "reap", "lease", "queued"}
CallsEnd == []<>CallsOver
=============================================================================
