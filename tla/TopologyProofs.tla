---------------------------- MODULE TopologyProofs ----------------------------
(***************************************************************************)
(* What the abstract route table guarantees, and what a Frontend that      *)
(* watches it has installed, for every value of the constants.             *)
(* ControllerProofs shows that the Controller implements the table, so the *)
(* guarantees are the Controller's too.                                    *)
(***************************************************************************)
EXTENDS TopologyStream, FiniteSetTheorems, TLAPS

(* The strengthening: memory never runs ahead of the durable counter, so the
   counter alone decides whether a version is new, and no version goes with
   an empty table, so restarting before a first publication loses nothing. *)
VersionDurable == version =< stored /\ (version = 0 => routes = NoRoutes)

TableInv == TopologyTypeOK /\ VersionDurable

(* The revision of a publication is one the history may hold. *)
LEMMA RevisionTyped ==
    ASSUME TopologyTypeOK, NEW new \in RouteTables
    PROVE  Revision(new) \in Revisions
<1> DEFINE keys == Changed(new)
<1>1. [k \in keys |-> new[k]] \in [keys -> SUBSET Replicas]
  BY Zenon DEF Changed, RouteTables
<1>2. keys \in SUBSET Experts
  BY Zenon DEF Changed
<1>3. [k \in keys |-> new[k]] \in UNION {[ks -> SUBSET Replicas] : ks \in SUBSET Experts}
  BY <1>1, <1>2, Zenon
<1>4. version \in Nat /\ NextVersion \in Nat
  BY DEF TopologyTypeOK, NextVersion
<1> QED
  BY <1>3, <1>4, Zenon DEF Revision, Revisions

(* A publication keeps the types. *)
LEMMA PublishTyped ==
    ASSUME TopologyTypeOK, NEW new \in RouteTables, Publish(new)
    PROVE  TopologyTypeOK'
<1>1. Append(history, Revision(new)) \in Seq(Revisions)
  BY RevisionTyped DEF TopologyTypeOK
<1>2. Len(Append(history, Revision(new))) > 0
  BY RevisionTyped DEF TopologyTypeOK
<1>3. Retained(Append(history, Revision(new))) \in Seq(Revisions)
  BY <1>1, <1>2 DEF Retained
<1>4. NextVersion \in Nat
  BY DEF TopologyTypeOK, NextVersion
<1> QED
  BY <1>3, <1>4, Zenon DEF Publish, TopologyTypeOK

(* Every step of the table keeps its types and stays within the counter. *)
LEMMA TableStep == ASSUME TableInv, [TopologyNext]_topologyVars PROVE TableInv'
<1>1. ASSUME NEW new \in RouteTables, Publish(new) PROVE TableInv'
  <2>1. TopologyTypeOK'
    BY <1>1, PublishTyped, Zenon DEF TableInv
  <2>2. version' =< stored' /\ version' # 0
    BY <1>1 DEF Publish, TableInv, TopologyTypeOK, NextVersion
  <2> QED
    BY <2>1, <2>2, Zenon DEF TableInv, VersionDurable
<1>2. ASSUME AdvanceFails PROVE TableInv'
  BY <1>2 DEF AdvanceFails, TableInv, TopologyTypeOK, VersionDurable, NextVersion
<1>3. ASSUME NEW known \in BOOLEAN, Restore(known) PROVE TableInv'
  <2>1. NoRoutes \in RouteTables /\ <<>> \in Seq(Revisions)
    BY DEF NoRoutes, RouteTables
  <2> QED
    BY <1>3, <2>1 DEF Restore, RestoredVersion, TableInv, TopologyTypeOK, VersionDurable
<1>4. CASE UNCHANGED topologyVars
  BY <1>4, Zenon DEF topologyVars, TableInv, TopologyTypeOK, VersionDurable
<1> QED
  BY <1>1, <1>2, <1>3, <1>4, Zenon DEF TopologyNext

(* The table starts typed and within the counter. *)
LEMMA TableStart == TopologyInit => TableInv
<1>1. NoRoutes \in RouteTables /\ <<>> \in Seq(Revisions)
  BY DEF NoRoutes, RouteTables
<1> QED
  BY <1>1 DEF TopologyInit, TableInv, TopologyTypeOK, VersionDurable

(* Every reachable table is typed and within the durable counter. *)
LEMMA TableInvariant == TopologySpec => []TableInv
<1> QED
  BY TableStart, TableStep, PTL DEF TopologySpec

(* A step moves the version above every one handed out, or leaves the version
   and the table alone. *)
LEMMA StepNeverReuses ==
    ASSUME TableInv, [TopologyNext]_topologyVars
    PROVE  \/ version' > version /\ version' > stored
           \/ version' = version /\ routes' = routes
<1> USE DEF TableInv, TopologyTypeOK, VersionDurable
<1>1. ASSUME NEW new \in RouteTables, Publish(new)
      PROVE  version' > version /\ version' > stored
  BY <1>1 DEF Publish, NextVersion
<1>2. ASSUME AdvanceFails PROVE version' = version /\ routes' = routes
  BY <1>2, Zenon DEF AdvanceFails
<1>3. ASSUME NEW known \in BOOLEAN, stored > 0 => known, Restore(known)
      PROVE  \/ version' > version /\ version' > stored
             \/ version' = version /\ routes' = routes
  <2>1. CASE known
    BY <1>3, <2>1 DEF Restore, RestoredVersion
  <2>2. CASE ~known
    <3>1. version = 0
      BY <1>3, <2>2
    <3>2. version' = 0 /\ routes' = NoRoutes
      BY <1>3, <2>2, Zenon DEF Restore
    <3> QED
      BY <3>1, <3>2, Zenon
  <2> QED
    BY <2>1, <2>2, Zenon
<1>4. CASE UNCHANGED topologyVars
  BY <1>4, Zenon DEF topologyVars
<1> QED
  BY <1>1, <1>2, <1>3, <1>4, Zenon DEF TopologyNext

(* No version ever names two route tables, for every set of experts and of
   processes, through failed store calls and restarts. (publish_routes,
   restore, advance_topology_version) *)
THEOREM VersionsAreNew == TopologySpec => VersionNeverReused
<1>1. ASSUME TableInv, [TopologyNext]_topologyVars
      PROVE  [ /\ version' >= version
               /\ (routes' # routes => version' > version)
               /\ (version' # version => version' > stored) ]_topologyVars
  <2>1. version \in Nat /\ version' \in Nat
    BY <1>1, TableStep, Zenon DEF TableInv, TopologyTypeOK
  <2>2. \/ version' > version /\ version' > stored
        \/ version' = version /\ routes' = routes
    BY <1>1, StepNeverReuses, Zenon
  <2> QED
    BY <2>1, <2>2
<1> QED
  BY <1>1, TableInvariant, PTL DEF TopologySpec, VersionNeverReused

-----------------------------------------------------------------------------
(* Appending the revision of a publication joins it to the current version. *)
LEMMA AppendJoins ==
    ASSUME TableInv, HistoryJoined, NEW new \in RouteTables,
           NEW longer, longer = Append(history, Revision(new))
    PROVE  /\ longer \in Seq(Revisions)
           /\ Len(longer) = Len(history) + 1
           /\ \A i \in 1..Len(longer) :
                /\ longer[i].previous < longer[i].version
                /\ longer[i].version =
                     IF i = Len(longer) THEN NextVersion ELSE longer[i + 1].previous
<1> DEFINE n == Len(history)
<1>1. Revision(new) \in Revisions
  BY RevisionTyped, Zenon DEF TableInv
<1>2. /\ Revision(new).previous = version
      /\ Revision(new).version = NextVersion
      /\ version < NextVersion
  BY DEF Revision, NextVersion, TableInv, TopologyTypeOK
<1>3. /\ longer \in Seq(Revisions) /\ Len(longer) = n + 1
      /\ longer[n + 1] = Revision(new)
      /\ \A i \in 1..n : longer[i] = history[i]
  BY <1>1 DEF TableInv, TopologyTypeOK
<1>4. n \in Nat
  BY DEF TableInv, TopologyTypeOK
<1> HIDE DEF n
<1>5. ASSUME NEW i \in 1..Len(longer)
      PROVE  /\ longer[i].previous < longer[i].version
             /\ longer[i].version =
                  IF i = Len(longer) THEN NextVersion ELSE longer[i + 1].previous
  <2>1. CASE i = n + 1
    BY <1>2, <1>3, <1>4, <2>1, Zenon
  <2>2. CASE i = n
    BY <1>2, <1>3, <1>4, <2>2 DEF HistoryJoined, n
  <2>3. CASE i < n
    BY <1>3, <1>4, <2>3 DEF HistoryJoined, n
  <2> QED
    BY <1>3, <1>4, <2>1, <2>2, <2>3
<1> QED
  BY <1>3, <1>5, Zenon DEF n

(* Dropping the oldest revision keeps the others joined. *)
LEMMA PublishJoins ==
    ASSUME TableInv, HistoryJoined, NEW new \in RouteTables, Publish(new)
    PROVE  HistoryJoined'
<1> DEFINE longer == Append(history, Revision(new))
<1>1. /\ longer \in Seq(Revisions)
      /\ Len(longer) = Len(history) + 1
      /\ \A i \in 1..Len(longer) :
           /\ longer[i].previous < longer[i].version
           /\ longer[i].version =
                IF i = Len(longer) THEN NextVersion ELSE longer[i + 1].previous
  BY AppendJoins, Zenon
<1>2. Len(history) \in Nat /\ Len(history) =< HistoryLimit /\ HistoryLimit \in Nat
  BY HistoryLimitAssumption DEF TableInv, TopologyTypeOK, HistoryJoined
<1>3. history' = Retained(longer) /\ version' = NextVersion
  BY Zenon DEF Publish
<1> HIDE DEF longer
<1>4. CASE Len(longer) =< HistoryLimit
  BY <1>1, <1>2, <1>3, <1>4 DEF Retained, HistoryJoined
<1>5. CASE Len(longer) > HistoryLimit
  <2>1. history' = Tail(longer)
    BY <1>3, <1>5, Zenon DEF Retained
  <2>2. /\ Len(history') = Len(longer) - 1
        /\ \A i \in 1..Len(history') : history'[i] = longer[i + 1]
    BY <1>1, <1>2, <2>1
  <2> QED
    BY <1>1, <1>2, <1>3, <2>2 DEF HistoryJoined
<1> QED
  BY <1>1, <1>2, <1>4, <1>5

(* topology_messages can always replay the kept revisions: they join end to end,
   end at the current version and stay within the limit, for every limit.
   (publish_routes, topology_messages) *)
THEOREM HistoryIsJoined == TopologySpec => []HistoryJoined
<1>1. TopologyInit => HistoryJoined
  BY HistoryLimitAssumption DEF TopologyInit, HistoryJoined
<1>2. ASSUME TableInv, HistoryJoined, [TopologyNext]_topologyVars
      PROVE  HistoryJoined'
  <2>1. ASSUME NEW new \in RouteTables, Publish(new) PROVE HistoryJoined'
    BY <1>2, <2>1, PublishJoins, Zenon
  <2>2. ASSUME NEW known \in BOOLEAN, Restore(known) PROVE HistoryJoined'
    BY <2>2, HistoryLimitAssumption DEF Restore, HistoryJoined
  <2>3. CASE AdvanceFails
    BY <1>2, <2>3, Zenon DEF AdvanceFails, HistoryJoined
  <2>4. CASE UNCHANGED topologyVars
    BY <1>2, <2>4, Zenon DEF topologyVars, HistoryJoined
  <2> QED
    BY <1>2, <2>1, <2>2, <2>3, <2>4, Zenon DEF TopologyNext
<1> QED
  BY <1>1, <1>2, TableInvariant, PTL DEF TopologySpec

-----------------------------------------------------------------------------
(* TopologyStream: what a Frontend installs is what the Controller published. *)

(* The sequence of a finite set runs through all of it. *)
LEMMA SequenceOfSet ==
    ASSUME NEW S, IsFiniteSet(S)
    PROVE  /\ Cardinality(S) \in Nat
           /\ SetToSeq(S) \in [1..Cardinality(S) -> S]
           /\ \A x \in S : \E j \in 1..Cardinality(S) : SetToSeq(S)[j] = x
<1> DEFINE n == Cardinality(S)
<1>1. n \in Nat /\ ExistsBijection(1..n, S)
  BY FS_CardinalityType, Zenon
<1>2. PICK g \in Bijection(1..n, S) : TRUE
  BY <1>1, Zenon DEF ExistsBijection
<1>3. g \in [1..n -> S] /\ IsInjective(g)
  BY <1>2, Zenon DEF Bijection, Injection, IsInjective
<1>4. SetToSeq(S) \in [1..n -> S] /\ IsInjective(SetToSeq(S))
  BY <1>3, Zenon DEF SetToSeq
<1>5. SetToSeq(S) \in Injection(1..n, S)
  BY <1>4, Zenon DEF Injection, IsInjective
<1>6. IsFiniteSet(1..n) /\ Cardinality(1..n) = n
  BY <1>1, FS_Interval
<1>7. SetToSeq(S) \in Surjection(1..n, S)
  BY <1>5, <1>6, FS_Injection, Zenon
<1> QED
  BY <1>1, <1>4, <1>7, Zenon DEF Surjection

(* Rounding up: every position of a list is in one of the parts counted. *)
LEMMA PartOfPosition ==
    ASSUME NEW L \in Nat, NEW j \in 1..L
    PROVE  (j - 1) \div PartSize + 1 \in 1..((L + PartSize - 1) \div PartSize)
<1> USE StreamAssumption
<1>1. (j - 1) \div PartSize \in Nat
  OBVIOUS
<1>2. (j - 1) \div PartSize =< (L - 1) \div PartSize
  OBVIOUS
<1>3. (L - 1 + PartSize) \div PartSize = (L - 1) \div PartSize + 1
  OBVIOUS
<1> QED
  BY <1>1, <1>2, <1>3

(* The parts of a message are numbered without gaps, agree on what message they
   belong to, carry nothing but its entries, and together carry all of them.
   (snapshot_messages, update_messages) *)
LEMMA PartsWhole ==
    ASSUME NEW kind, NEW u, NEW v, NEW entries, IsFiniteSet(DOMAIN entries),
           NEW m, m = Parts(kind, u, v, entries)
    PROVE  \E n \in Nat \ {0} :
             /\ m = [i \in 1..n |-> m[i]]
             /\ \A i \in 1..n :
                  /\ m[i] = [kind |-> kind, previous |-> u, version |-> v, index |-> i,
                             count |-> n, entries |-> m[i].entries]
                  /\ DOMAIN m[i].entries \subseteq DOMAIN entries
                  /\ m[i].entries = [k \in DOMAIN m[i].entries |-> entries[k]]
             /\ \A k \in DOMAIN entries : \E i \in 1..n : k \in DOMAIN m[i].entries
<1> DEFINE S == DOMAIN entries
           keys == SetToSeq(S)
           L == Cardinality(S)
           n == IF keys = <<>> THEN 1 ELSE (L + PartSize - 1) \div PartSize
           slice(i) == {keys[j] : j \in {p \in DOMAIN keys : (p - 1) \div PartSize = i - 1}}
<1>1. L \in Nat /\ keys \in [1..L -> S] /\ \A x \in S : \E j \in 1..L : keys[j] = x
  BY SequenceOfSet, Zenon
<1>2. Len(keys) = L /\ DOMAIN keys = 1..L
  BY <1>1
<1>3. m = [i \in 1..n |->
             [kind |-> kind, previous |-> u, version |-> v, index |-> i,
              count |-> n, entries |-> [k \in slice(i) |-> entries[k]]]]
  BY <1>2, Zenon DEF Parts
<1>4. n \in Nat \ {0}
  <2>1. CASE keys = <<>>
    BY <2>1
  <2>2. CASE keys # <<>>
    <3>1. L >= 1
      BY <1>1, <2>2
    <3>2. (1 - 1) \div PartSize + 1 \in 1..((L + PartSize - 1) \div PartSize)
      BY <1>1, <3>1, PartOfPosition
    <3>3. (L + PartSize - 1) \div PartSize \in Int
      BY <1>1, StreamAssumption
    <3> QED
      BY <2>2, <3>2, <3>3
  <2> QED
    BY <2>1, <2>2, Zenon
<1>5. \A i \in 1..n : slice(i) \subseteq S
  BY <1>1, <1>2, Zenon
<1>6. ASSUME NEW k \in S PROVE \E i \in 1..n : k \in slice(i)
  <2>1. PICK j \in 1..L : keys[j] = k
    BY <1>1, Zenon
  <2>2. keys # <<>>
    BY <1>1, <1>2, <2>1
  <2>3. (j - 1) \div PartSize + 1 \in 1..n
    BY <1>1, <2>2, PartOfPosition, Zenon
  <2>4. (j - 1) \div PartSize \in Int
    BY <1>1, StreamAssumption
  <2>5. k \in slice((j - 1) \div PartSize + 1)
    BY <1>2, <2>1, <2>4
  <2> QED
    BY <2>3, <2>5, Zenon
<1> HIDE DEF n, slice, keys, L
<1>7. ASSUME NEW i \in 1..n
      PROVE  /\ m[i] = [kind |-> kind, previous |-> u, version |-> v, index |-> i,
                        count |-> n, entries |-> m[i].entries]
             /\ m[i].entries = [k \in slice(i) |-> entries[k]]
  BY <1>3
<1>8. m = [i \in 1..n |-> m[i]]
  BY <1>3, Zenon
<1>9. ASSUME NEW i \in 1..n PROVE DOMAIN m[i].entries = slice(i)
  BY <1>7, Zenon
<1>10. ASSUME NEW i \in 1..n
       PROVE  /\ DOMAIN m[i].entries \subseteq DOMAIN entries
              /\ m[i].entries = [k \in DOMAIN m[i].entries |-> entries[k]]
  <2>1. DOMAIN m[i].entries = slice(i) /\ m[i].entries = [k \in slice(i) |-> entries[k]]
    BY <1>7, <1>9, Zenon
  <2> QED
    BY <1>5, <2>1, Zenon
<1>11. \A k \in DOMAIN entries : \E i \in 1..n : k \in DOMAIN m[i].entries
  BY <1>6, <1>9, Zenon
<1> WITNESS n \in Nat \ {0}
<1> QED
  BY <1>7, <1>8, <1>10, <1>11, Zenon

Kinds == {"snapshot", "update"}

(* What a message between two versions has to say, by the tables published under
   them. *)
Content(t, kind, u, v) ==
    [k \in {e \in Experts : t[v][e] # (IF kind = "snapshot" THEN {} ELSE t[u][e])} |-> t[v][k]]

MessageOf(t, kind, u, v) == Parts(kind, u, v, Content(t, kind, u, v))

(* The messages about versions up to n, and their parts. *)
MessagesUpTo(t, n) == {MessageOf(t, kind, u, v) : kind \in Kinds, u \in 0..n, v \in 0..n}

PartsUpTo(t, n) == UNION {{m[i] : i \in DOMAIN m} : m \in MessagesUpTo(t, n)}

Genuine == PartsUpTo(tables, version)

(* What the assembler holds is a selection of the parts of one message. *)
Selects(t, h, kind, u, v) ==
    LET m == MessageOf(t, kind, u, v)
    IN  /\ h.kind = kind /\ h.previous = u /\ h.version = v
        /\ DOMAIN m = 1..h.count /\ h.indexes \subseteq 1..h.count
        /\ DOMAIN h.entries = UNION {DOMAIN m[i].entries : i \in h.indexes}
        /\ h.entries = [k \in DOMAIN h.entries |-> t[v][k]]

Assembling(t, n, h) ==
    \E kind \in Kinds, u \in 0..n, v \in 0..n : Selects(t, h, kind, u, v)

Entries == UNION {[keys -> SUBSET Replicas] : keys \in SUBSET Experts}

HeldMessages ==
    [kind : Kinds, version : Nat, previous : Nat, count : Nat, indexes : SUBSET Nat,
     entries : Entries]

(* Every table handed out is on record, and the history tells their differences. *)
TablesKept ==
    /\ stored =< MaxVersion
    /\ tables \in [0..MaxVersion -> RouteTables]
    /\ tables[version] = routes
    /\ \A i \in DOMAIN history :
         /\ history[i].previous \in 0..version /\ history[i].version \in 0..version
         /\ history[i].changes =
              Content(tables, "update", history[i].previous, history[i].version)

TaskTyped ==
    task \in [pc : {"none", "read", "fetch", "send", "wait"}, installed : Nat, newest : Nat,
              initial : BOOLEAN, changed : BOOLEAN, outbox : Seq(Seq(Genuine) \ {<<>>})]

ClientTyped ==
    client \in [version : Nat, routes : RouteTables, pending : {NoPending} \cup HeldMessages,
                started : BOOLEAN, failed : BOOLEAN]

(* The inductive invariant: what is on its way to a Frontend are parts of messages about
   published tables, whether they wait in the task, on the wire or in the assembler. *)
StreamInv ==
    /\ TableInv /\ TablesKept
    /\ TaskTyped /\ wire \in Seq(Genuine)
    /\ ClientTyped
    /\ client.pending = NoPending \/ Assembling(tables, version, client.pending)
    /\ InstalledAsPublished

(* The n parts of the message m: numbered, of one message, and of nothing but its
   content, all of which they carry. *)
Shaped(t, kind, u, v, m, n) ==
    /\ m = [i \in 1..n |-> m[i]]
    /\ \A i \in 1..n :
         /\ m[i] = [kind |-> kind, previous |-> u, version |-> v, index |-> i,
                    count |-> n, entries |-> m[i].entries]
         /\ DOMAIN m[i].entries \subseteq DOMAIN Content(t, kind, u, v)
         /\ m[i].entries = [k \in DOMAIN m[i].entries |-> t[v][k]]
    /\ \A k \in DOMAIN Content(t, kind, u, v) : \E i \in 1..n : k \in DOMAIN m[i].entries

(* A message about published tables has that shape. *)
LEMMA MessageShape ==
    ASSUME NEW t, NEW kind \in Kinds, NEW u, NEW v, NEW m, m = MessageOf(t, kind, u, v)
    PROVE  \E n \in Nat \ {0} : Shaped(t, kind, u, v, m, n)
<1> DEFINE c == Content(t, kind, u, v)
<1>1. DOMAIN c \in SUBSET Experts /\ \A k \in DOMAIN c : c[k] = t[v][k]
  BY Zenon DEF Content
<1>2. IsFiniteSet(DOMAIN c)
  BY <1>1, StreamAssumption, FS_Subset, Zenon
<1>3. m = Parts(kind, u, v, c)
  BY Zenon DEF MessageOf
<1> HIDE DEF c
<1>4. PICK n \in Nat \ {0} :
             /\ m = [i \in 1..n |-> m[i]]
             /\ \A i \in 1..n :
                  /\ m[i] = [kind |-> kind, previous |-> u, version |-> v, index |-> i,
                             count |-> n, entries |-> m[i].entries]
                  /\ DOMAIN m[i].entries \subseteq DOMAIN c
                  /\ m[i].entries = [k \in DOMAIN m[i].entries |-> c[k]]
             /\ \A k \in DOMAIN c : \E i \in 1..n : k \in DOMAIN m[i].entries
  BY <1>2, <1>3, PartsWhole
<1>5. ASSUME NEW i \in 1..n
      PROVE  m[i].entries = [k \in DOMAIN m[i].entries |-> t[v][k]]
  <2> DEFINE e == m[i].entries
  <2>1. e = [k \in DOMAIN e |-> c[k]] /\ DOMAIN e \subseteq DOMAIN c
    BY <1>4, Zenon
  <2> HIDE DEF e
  <2>2. e = [k \in DOMAIN e |-> t[v][k]]
    BY <1>1, <2>1, Zenon
  <2> QED
    BY <2>2, Zenon DEF e
<1> QED
  BY <1>4, <1>5 DEF Shaped, c

(* Tables that agree on the versions up to n have the same messages about them. *)
LEMMA MessagesStay ==
    ASSUME NEW t, NEW s, NEW n \in Nat, NEW p \in Nat, n =< p,
           \A v \in 0..n : s[v] = t[v]
    PROVE  /\ \A kind \in Kinds, u \in 0..n, v \in 0..n :
                /\ Content(s, kind, u, v) = Content(t, kind, u, v)
                /\ MessageOf(s, kind, u, v) = MessageOf(t, kind, u, v)
           /\ PartsUpTo(t, n) \subseteq PartsUpTo(s, p)
           /\ \A h : Assembling(t, n, h) => Assembling(s, p, h)
<1>1. ASSUME NEW kind \in Kinds, NEW u \in 0..n, NEW v \in 0..n
      PROVE  /\ Content(s, kind, u, v) = Content(t, kind, u, v)
             /\ MessageOf(s, kind, u, v) = MessageOf(t, kind, u, v)
  <2>1. s[v] = t[v] /\ s[u] = t[u]
    BY Zenon
  <2>2. Content(s, kind, u, v) = Content(t, kind, u, v)
    BY <2>1, Zenon DEF Content
  <2> QED
    BY <2>2, Zenon DEF MessageOf
<1>2. 0..n \subseteq 0..p
  OBVIOUS
<1>3. MessagesUpTo(t, n) \subseteq MessagesUpTo(s, p)
  BY <1>1, <1>2 DEF MessagesUpTo
<1>4. PartsUpTo(t, n) \subseteq PartsUpTo(s, p)
  BY <1>3, Zenon DEF PartsUpTo
<1>5. ASSUME NEW h, Assembling(t, n, h) PROVE Assembling(s, p, h)
  <2>1. PICK kind \in Kinds, u \in 0..n, v \in 0..n : Selects(t, h, kind, u, v)
    BY <1>5, Zenon DEF Assembling
  <2>2. MessageOf(s, kind, u, v) = MessageOf(t, kind, u, v) /\ s[v] = t[v]
    BY <1>1, Zenon
  <2>3. Selects(s, h, kind, u, v)
    BY <2>1, <2>2 DEF Selects
  <2>4. u \in 0..p /\ v \in 0..p
    BY <1>2, Zenon
  <2> QED
    BY <2>3, <2>4, Zenon DEF Assembling
<1> QED
  BY <1>1, <1>4, <1>5, Zenon

(* A part of a published message, taken apart. *)
LEMMA GenuinePart ==
    ASSUME NEW part \in Genuine
    PROVE  \E kind \in Kinds, u \in 0..version, v \in 0..version :
             LET m == MessageOf(tables, kind, u, v)
             IN  /\ part.kind = kind /\ part.previous = u /\ part.version = v
                 /\ part.count \in Nat /\ DOMAIN m = 1..part.count
                 /\ part.index \in 1..part.count /\ part = m[part.index]
                 /\ part.entries = [k \in DOMAIN part.entries |-> tables[v][k]]
                 /\ DOMAIN part.entries \subseteq Experts
<1>1. PICK m \in MessagesUpTo(tables, version) : part \in {m[i] : i \in DOMAIN m}
  BY Zenon DEF Genuine, PartsUpTo
<1>2. PICK kind \in Kinds, u \in 0..version, v \in 0..version :
        m = MessageOf(tables, kind, u, v)
  BY <1>1 DEF MessagesUpTo
<1>3. PICK n \in Nat \ {0} : Shaped(tables, kind, u, v, m, n)
  BY <1>2, MessageShape, Zenon
<1> USE DEF Shaped
<1>4. DOMAIN m = 1..n
  BY <1>3, Zenon
<1>5. PICK i \in 1..n : part = m[i]
  BY <1>1, <1>4, Zenon
<1>6. /\ part.kind = kind /\ part.previous = u /\ part.version = v
      /\ part.index = i /\ part.count = n
  <2>1. part = [kind |-> kind, previous |-> u, version |-> v, index |-> i,
                count |-> n, entries |-> m[i].entries]
    BY <1>3, <1>5, Zenon
  <2> QED
    BY <2>1, Zenon
<1>7. DOMAIN part.entries \subseteq Experts
  BY <1>3, <1>5, Zenon DEF Content
<1>8. part.entries = [k \in DOMAIN part.entries |-> tables[v][k]]
  <2>1. m[i].entries = [k \in DOMAIN m[i].entries |-> tables[v][k]]
    BY <1>3, Zenon
  <2> QED
    BY <1>5, <2>1, Zenon
<1>9. part.count \in Nat /\ DOMAIN m = 1..part.count
      /\ part.index \in 1..part.count /\ part = m[part.index]
  BY <1>4, <1>5, <1>6, Zenon
<1> WITNESS kind \in Kinds, u \in 0..version, v \in 0..version
<1> QED
  BY <1>2, <1>6, <1>7, <1>8, <1>9, Zenon

(* What the assembler holds with one more part is still a selection of the parts of
   one message: a part of another message is refused. (_consume_part) *)
LEMMA HeldAssembles ==
    ASSUME StreamInv, NEW part \in Genuine, ~Interleaved(part)
    PROVE  Held(part) \in HeldMessages /\ Assembling(tables, version, Held(part))
<1>1. PICK kind \in Kinds, u \in 0..version, v \in 0..version :
         LET m == MessageOf(tables, kind, u, v)
         IN  /\ part.kind = kind /\ part.previous = u /\ part.version = v
             /\ part.count \in Nat /\ DOMAIN m = 1..part.count
             /\ part.index \in 1..part.count /\ part = m[part.index]
             /\ part.entries = [k \in DOMAIN part.entries |-> tables[v][k]]
             /\ DOMAIN part.entries \subseteq Experts
  BY GenuinePart, Zenon
<1> DEFINE m == MessageOf(tables, kind, u, v)
           h == Held(part)
<1>2. version \in Nat /\ v \in 0..MaxVersion /\ tables[v] \in RouteTables
  BY MaxVersionAssumption
  DEF StreamInv, TableInv, TopologyTypeOK, VersionDurable, TablesKept
<1>3. CASE client.pending = NoPending
  <2>1. h = [kind |-> part.kind, version |-> part.version, previous |-> part.previous,
             count |-> part.count, indexes |-> {part.index}, entries |-> part.entries]
    BY <1>3, Zenon DEF Held
  <2>2. part.entries \in Entries
    BY <1>1, <1>2 DEF Entries, RouteTables
  <2>3. h \in HeldMessages
    BY <1>1, <1>2, <2>1, <2>2 DEF HeldMessages
  <2>4. DOMAIN h.entries = UNION {DOMAIN m[i].entries : i \in h.indexes}
    BY <1>1, <2>1
  <2>5. /\ h.kind = kind /\ h.previous = u /\ h.version = v
        /\ DOMAIN m = 1..h.count /\ h.indexes \subseteq 1..h.count
        /\ h.entries = [k \in DOMAIN h.entries |-> tables[v][k]]
    BY <1>1, <2>1
  <2>6. Selects(tables, h, kind, u, v)
    BY <2>4, <2>5, Zenon DEF Selects
  <2>7. Assembling(tables, version, h)
    BY <2>6, Zenon DEF Assembling
  <2> QED
    BY <2>3, <2>7, Zenon
<1>4. CASE client.pending # NoPending
  <2> DEFINE p == client.pending
  <2>1. p \in HeldMessages /\ Assembling(tables, version, p)
    BY <1>4, Zenon DEF StreamInv, ClientTyped
  <2>2. /\ p.kind = kind /\ p.version = v /\ p.previous = u /\ p.count = part.count
    BY <1>1, <1>4, Zenon DEF Interleaved
  <2>3. /\ DOMAIN m = 1..p.count /\ p.indexes \subseteq 1..p.count
        /\ DOMAIN p.entries = UNION {DOMAIN m[i].entries : i \in p.indexes}
        /\ p.entries = [k \in DOMAIN p.entries |-> tables[v][k]]
    <3>1. PICK a \in Kinds, b \in 0..version, c \in 0..version : Selects(tables, p, a, b, c)
      BY <2>1, Zenon DEF Assembling
    <3>2. a = kind /\ b = u /\ c = v
      BY <2>2, <3>1, Zenon DEF Selects
    <3> QED
      BY <3>1, <3>2 DEF Selects
  <2>4. h = [p EXCEPT !.indexes = @ \union {part.index}, !.entries = Merged(@, part.entries)]
    BY <1>4, Zenon DEF Held
  <2> HIDE DEF p, h, m
  <2>5. /\ h.kind = kind /\ h.previous = u /\ h.version = v /\ h.count = part.count
        /\ h.indexes = p.indexes \cup {part.index}
        /\ h.entries = Merged(p.entries, part.entries)
    BY <2>1, <2>2, <2>4, Zenon DEF HeldMessages
  <2>6. /\ DOMAIN h.entries = DOMAIN part.entries \cup DOMAIN p.entries
        /\ h.entries = [k \in DOMAIN h.entries |-> tables[v][k]]
    <3> DEFINE a == part.entries
               b == p.entries
    <3>1. a = [k \in DOMAIN a |-> tables[v][k]] /\ b = [k \in DOMAIN b |-> tables[v][k]]
      BY <1>1, <2>3, Zenon
    <3>2. h.entries = [k \in DOMAIN b \cup DOMAIN a |-> IF k \in DOMAIN a THEN a[k] ELSE b[k]]
      BY <2>5, Zenon DEF Merged
    <3> HIDE DEF a, b
    <3>3. h.entries = [k \in DOMAIN b \cup DOMAIN a |-> tables[v][k]]
      BY <3>1, <3>2
    <3> QED
      BY <3>3, Zenon DEF a, b
  <2>7. DOMAIN h.entries = UNION {DOMAIN m[i].entries : i \in h.indexes}
    <3>1. DOMAIN part.entries = DOMAIN m[part.index].entries
      BY <1>1, Zenon DEF m
    <3> QED
      <4>1. UNION {DOMAIN m[i].entries : i \in p.indexes \cup {part.index}}
              = (UNION {DOMAIN m[i].entries : i \in p.indexes}) \cup DOMAIN m[part.index].entries
        BY Zenon
      <4> QED
        BY <2>3, <2>5, <2>6, <3>1, <4>1, Zenon
  <2>8. Assembling(tables, version, h)
    <3>1. /\ h.kind = kind /\ h.previous = u /\ h.version = v
          /\ DOMAIN m = 1..h.count /\ h.indexes \subseteq 1..h.count
      BY <1>1, <2>2, <2>3, <2>5, Zenon
    <3>2. Selects(tables, h, kind, u, v)
      BY <2>6, <2>7, <3>1, Zenon DEF Selects, m
    <3> QED
      BY <3>2, Zenon DEF Assembling
  <2>9. h.entries \in Entries
    BY <1>1, <1>2, <2>1, <2>6 DEF Entries, RouteTables, HeldMessages
  <2>10. h \in HeldMessages
    <3>1. h.indexes \in SUBSET Nat
      BY <1>1, <2>1, <2>5 DEF HeldMessages
    <3> QED
      BY <2>1, <2>4, <2>9, <3>1, Zenon DEF HeldMessages
  <2> QED
    BY <2>8, <2>10, Zenon DEF h
<1> QED
  BY <1>3, <1>4, Zenon

(* A complete message that joins makes the installed table the one published under its
   version: a snapshot is all of that table, an update all that differs.
   (_consume_part) *)
LEMMA CompleteIsPublished ==
    ASSUME StreamInv, NEW h, Assembling(tables, version, h), Complete(h), Joins(h)
    PROVE  h.version \in 0..version /\ TableAfter(h) = tables[h.version]
<1>0. PICK kind \in Kinds, u \in 0..version, v \in 0..version : Selects(tables, h, kind, u, v)
  BY Zenon DEF Assembling
<1> DEFINE m == MessageOf(tables, kind, u, v)
           c == Content(tables, kind, u, v)
<1>1. /\ h.kind = kind /\ h.previous = u /\ h.version = v
      /\ DOMAIN m = 1..h.count /\ h.indexes \subseteq 1..h.count
      /\ DOMAIN h.entries = UNION {DOMAIN m[i].entries : i \in h.indexes}
      /\ h.entries = [k \in DOMAIN h.entries |-> tables[v][k]]
  BY <1>0, Zenon DEF Selects
<1>2. PICK n \in Nat \ {0} : Shaped(tables, kind, u, v, m, n)
  BY MessageShape, Zenon
<1>3. h.indexes = DOMAIN m /\ DOMAIN m = 1..n
  BY <1>1, <1>2, Zenon DEF Complete, Shaped
<1>4. DOMAIN h.entries = DOMAIN c
  <2>1. DOMAIN h.entries = UNION {DOMAIN m[i].entries : i \in 1..n}
    BY <1>1, <1>3, Zenon
  <2>2. \A i \in 1..n : DOMAIN m[i].entries \subseteq DOMAIN c
    BY <1>2, Zenon DEF Shaped
  <2>3. \A k \in DOMAIN c : \E i \in 1..n : k \in DOMAIN m[i].entries
    BY <1>2, Zenon DEF Shaped
  <2> HIDE DEF m, c
  <2> QED
    BY <2>1, <2>2, <2>3, Zenon
<1>5. DOMAIN c = {e \in Experts : tables[v][e] # (IF kind = "snapshot" THEN {} ELSE tables[u][e])}
  BY Zenon DEF Content
<1>6. tables[v] \in RouteTables /\ tables[v] = [k \in Experts |-> tables[v][k]]
  BY MaxVersionAssumption
  DEF StreamInv, TableInv, TopologyTypeOK, VersionDurable, TablesKept, RouteTables
<1> HIDE DEF m, c
<1>7. CASE kind = "snapshot"
  <2>1. \A k \in Experts : (IF k \in DOMAIN h.entries THEN h.entries[k] ELSE {}) = tables[v][k]
    BY <1>1, <1>4, <1>5, <1>7, Zenon
  <2>2. TableAfter(h)
          = [k \in Experts |-> IF k \in DOMAIN h.entries THEN h.entries[k] ELSE {}]
    BY <1>1, <1>7, Zenon DEF TableAfter
  <2>3. TableAfter(h) = [k \in Experts |-> tables[v][k]]
    BY <2>1, <2>2, Zenon
  <2> QED
    BY <1>1, <1>6, <2>3, Zenon
<1>8. CASE kind = "update"
  <2>1. client.routes = tables[u]
    BY <1>1, <1>8, Zenon DEF Joins, StreamInv, InstalledAsPublished
  <2>2. \A k \in Experts :
           (IF k \in DOMAIN h.entries THEN h.entries[k] ELSE client.routes[k]) = tables[v][k]
    BY <1>1, <1>4, <1>5, <1>8, <2>1, Zenon
  <2>3. TableAfter(h)
          = [k \in Experts |-> IF k \in DOMAIN h.entries THEN h.entries[k] ELSE client.routes[k]]
    BY <1>1, <1>8, Zenon DEF TableAfter
  <2>4. TableAfter(h) = [k \in Experts |-> tables[v][k]]
    BY <2>2, <2>3, Zenon
  <2> QED
    BY <1>1, <1>6, <2>4, Zenon
<1> QED
  BY <1>7, <1>8, Zenon DEF Kinds

(* A message about published tables is a sequence of genuine parts, and not empty. *)
LEMMA MessageGenuine ==
    ASSUME NEW kind \in Kinds, NEW u \in 0..version, NEW v \in 0..version
    PROVE  MessageOf(tables, kind, u, v) \in Seq(Genuine) \ {<<>>}
<1> DEFINE m == MessageOf(tables, kind, u, v)
<1>0. PICK n \in Nat \ {0} : Shaped(tables, kind, u, v, m, n)
  BY MessageShape, Zenon
<1>1. m = [i \in 1..n |-> m[i]]
  BY <1>0, Zenon DEF Shaped
<1>2. m \in MessagesUpTo(tables, version)
  BY DEF MessagesUpTo
<1> HIDE DEF m
<1>3. DOMAIN m = 1..n /\ \A i \in 1..n : m[i] \in Genuine
  BY <1>1, <1>2 DEF Genuine, PartsUpTo
<1>4. m \in Seq(Genuine) /\ Len(m) = n
  BY <1>1, <1>3
<1> QED
  BY <1>4, Zenon DEF m

(* Whatever version it starts from, topology_messages makes messages about published
   tables. *)
LEMMA FetchedGenuine ==
    ASSUME StreamInv, NEW from
    PROVE  TopologyMessages(from) \in Seq(Seq(Genuine) \ {<<>>})
<1> DEFINE Messages == Seq(Genuine) \ {<<>>}
<1>1. version \in Nat /\ history \in Seq(Revisions) /\ tables[version] = routes
  BY Zenon DEF StreamInv, TableInv, TopologyTypeOK, TablesKept
<1>2. Snapshot \in Messages
  <2>1. Snapshot = MessageOf(tables, "snapshot", 0, version)
    BY <1>1, Zenon DEF Snapshot, MessageOf, Content
  <2> QED
    BY <1>1, <2>1, MessageGenuine DEF Kinds
<1>3. ASSUME NEW i \in DOMAIN history PROVE Update(history[i]) \in Messages
  <2>1. Update(history[i]) =
          MessageOf(tables, "update", history[i].previous, history[i].version)
    BY Zenon DEF Update, MessageOf, StreamInv, TablesKept
  <2>2. history[i].previous \in 0..version /\ history[i].version \in 0..version
    BY Zenon DEF StreamInv, TablesKept
  <2> QED
    BY <2>1, <2>2, MessageGenuine, Zenon DEF Kinds
<1>4. ASSUME Joining(from) # {}
      PROVE  [i \in DOMAIN Replay(from) |-> Update(Replay(from)[i])] \in Seq(Messages)
  <2> DEFINE f == CHOOSE i \in Joining(from) : TRUE
             s == Replay(from)
  <2>1. f \in DOMAIN history
    BY <1>4, Zenon DEF Joining
  <2>2. s = SubSeq(history, f, Len(history)) /\ f \in 1..Len(history) /\ Len(history) \in Nat
    BY <1>1, <2>1 DEF Replay
  <2> HIDE DEF f, s
  <2>3. DOMAIN s = 1..(Len(history) - f + 1)
    BY <1>1, <2>2
  <2>4. ASSUME NEW i \in DOMAIN s PROVE s[i] = history[f + i - 1] /\ f + i - 1 \in DOMAIN history
    BY <1>1, <2>2, <2>3
  <2>5. \A i \in DOMAIN s : Update(s[i]) \in Messages
    BY <1>3, <2>4, Zenon
  <2> HIDE DEF Messages
  <2>6. [i \in DOMAIN s |-> Update(s[i])] \in Seq(Messages)
    BY <2>2, <2>3, <2>5
  <2> QED
    BY <2>6, Zenon DEF s
<1> HIDE DEF Messages
<1>5. <<>> \in Seq(Messages) /\ <<Snapshot>> \in Seq(Messages)
  BY <1>2
<1> QED
  BY <1>4, <1>5, Zenon DEF TopologyMessages, Messages

(* Every step of the system is a step of the table or leaves it alone. *)
LEMMA StreamTable == [Next]_vars => [TopologyNext]_topologyVars
<1> QED
  BY Zenon DEF Next, Connect, ReadNewest, FetchMessages, SendPart, AllSent, AwaitChange, Consume,
         Drop, Republish, StoreFails, ControllerRestarts, TopologyNext, vars, topologyVars

(* The system starts in the invariant. *)
LEMMA StreamStart == Init => StreamInv
<1> SUFFICES ASSUME Init PROVE StreamInv
  BY Zenon
<1>1. TableInv
  BY TableStart, Zenon DEF Init
<1>2. NoRoutes \in RouteTables
  BY Zenon DEF NoRoutes, RouteTables
<1>3. TablesKept
  BY <1>2, MaxVersionAssumption DEF Init, TopologyInit, TablesKept
<1>4. TaskTyped
  BY DEF Init, NoTask, TaskTyped
<1>5. wire \in Seq(Genuine)
  BY DEF Init
<1>6. ClientTyped
  BY <1>2, Zenon DEF Init, ClientTyped
<1>7. client.pending = NoPending /\ InstalledAsPublished
  BY MaxVersionAssumption DEF Init, TopologyInit, InstalledAsPublished
<1> QED
  BY <1>1, <1>3, <1>4, <1>5, <1>6, <1>7, Zenon DEF StreamInv

(* The task takes, sends and waits; the table and the Frontend stay as they are. *)
TaskStep == Connect \/ ReadNewest \/ FetchMessages \/ SendPart \/ AllSent \/ AwaitChange

(* What the task sends it took from the messages about published tables. *)
LEMMA TaskKeeps == ASSUME StreamInv, TaskStep PROVE StreamInv'
<1> DEFINE Messages == Seq(Genuine) \ {<<>>}
<1>1. UNCHANGED <<topologyVars, client, tables>>
  BY Zenon DEF TaskStep, Connect, ReadNewest, FetchMessages, SendPart, AllSent, AwaitChange
<1>2. UNCHANGED <<version, routes, history, stored, client, tables>>
  BY <1>1, Zenon DEF topologyVars
<1>3. Genuine' = Genuine
  BY <1>2, Zenon DEF Genuine
<1>4. TableInv' /\ TablesKept' /\ ClientTyped' /\ InstalledAsPublished'
  BY <1>2, Zenon DEF StreamInv, TableInv, TopologyTypeOK, VersionDurable, TablesKept, ClientTyped,
              InstalledAsPublished
<1>5. (client.pending = NoPending \/ Assembling(tables, version, client.pending))'
  BY <1>2, Zenon DEF StreamInv
<1>6. task \in [pc : {"none", "read", "fetch", "send", "wait"}, installed : Nat, newest : Nat,
                initial : BOOLEAN, changed : BOOLEAN, outbox : Seq(Messages)]
  BY Zenon DEF StreamInv, TaskTyped
<1>7. wire \in Seq(Genuine) /\ version \in Nat /\ client.version \in Nat
  BY Zenon DEF StreamInv, TableInv, TopologyTypeOK, ClientTyped
<1>8. ASSUME FetchMessages PROVE TaskTyped' /\ wire' \in Seq(Genuine)
  <2>1. TopologyMessages(task.installed) \in Seq(Messages)
    BY FetchedGenuine, Zenon
  <2> HIDE DEF Messages
  <2> QED
    BY <1>3, <1>6, <1>7, <1>8, <2>1, Zenon DEF FetchMessages, TaskTyped, Messages
<1>9. ASSUME SendPart PROVE TaskTyped' /\ wire' \in Seq(Genuine)
  <2> DEFINE box == task.outbox
             message == Head(box)
             rest == IF Len(message) = 1 THEN Tail(box) ELSE [box EXCEPT ![1] = Tail(message)]
  <2>1. box \in Seq(Messages) /\ box # <<>>
    BY <1>6, <1>9, Zenon DEF SendPart
  <2>2. message \in Messages
    BY <2>1
  <2>3. message \in Seq(Genuine) /\ message # <<>> /\ Len(message) \in Nat \ {0}
    BY <2>2
  <2>4. Head(message) \in Genuine /\ Tail(message) \in Seq(Genuine)
    BY <2>3
  <2>5. Len(message) # 1 => Tail(message) \in Messages
    <3>1. Len(Tail(message)) = Len(message) - 1
      BY <2>3
    <3>2. Len(message) # 1 => Len(Tail(message)) # 0
      BY <2>3, <3>1
    <3> QED
      BY <2>4, <3>2, Zenon
  <2> HIDE DEF box, message, Messages
  <2>6. rest \in Seq(Messages)
    BY <2>1, <2>5
  <2>7. wire' = Append(wire, Head(message)) /\ task' = [task EXCEPT !.outbox = rest]
    BY <1>9, Zenon DEF SendPart, box, message
  <2>8. wire' \in Seq(Genuine)
    BY <1>7, <2>4, <2>7
  <2> HIDE DEF rest
  <2> QED
    BY <1>3, <1>6, <2>6, <2>7, <2>8, Zenon DEF TaskTyped, Messages
<1>10. ASSUME Connect \/ ReadNewest \/ AllSent \/ AwaitChange
       PROVE  TaskTyped' /\ wire' \in Seq(Genuine)
  <2> HIDE DEF Messages
  <2>1. wire' = wire
    BY <1>10, Zenon DEF Connect, ReadNewest, AllSent, AwaitChange
  <2>2. <<>> \in Seq(Messages)
    OBVIOUS
  <2>3. task' \in [pc : {"none", "read", "fetch", "send", "wait"}, installed : Nat, newest : Nat,
                   initial : BOOLEAN, changed : BOOLEAN, outbox : Seq(Messages)]
    <3>1. CASE Connect
      BY <1>6, <1>7, <2>2, <3>1, Zenon DEF Connect, NoTask
    <3>2. CASE ReadNewest
      BY <1>6, <1>7, <3>2, Zenon DEF ReadNewest
    <3>3. CASE AllSent
      BY <1>6, <3>3, Zenon DEF AllSent
    <3>4. CASE AwaitChange
      BY <1>6, <3>4, Zenon DEF AwaitChange
    <3> QED
      BY <1>10, <3>1, <3>2, <3>3, <3>4, Zenon
  <2> QED
    BY <1>3, <1>7, <2>1, <2>3, Zenon DEF TaskTyped, Messages
<1>11. TaskTyped' /\ (wire \in Seq(Genuine))'
  BY <1>3, <1>8, <1>9, <1>10, Zenon DEF TaskStep
<1> QED
  BY <1>4, <1>5, <1>11, Zenon DEF StreamInv

(* When the stream ends, nothing of it is left. *)
LEMMA CutStream ==
    ASSUME task' = NoTask, wire' = <<>>
    PROVE  TaskTyped' /\ (wire \in Seq(Genuine))'
<1>1. <<>> \in Seq(Seq(Genuine') \ {<<>>})
  OBVIOUS
<1> QED
  BY <1>1 DEF TaskTyped, NoTask

(* What a Frontend installs is the table published under the version it installs.
   (_consume, _install) *)
LEMMA ConsumeKeeps == ASSUME StreamInv, Consume PROVE StreamInv'
<1> DEFINE part == Head(wire)
           held == Held(part)
<1>1. UNCHANGED <<version, routes, history, stored, tables>>
  BY Zenon DEF Consume, topologyVars
<1>2. Genuine' = Genuine
  BY <1>1, Zenon DEF Genuine
<1>3. TableInv' /\ TablesKept'
  BY <1>1, Zenon DEF StreamInv, TableInv, TopologyTypeOK, VersionDurable, TablesKept
<1>4. wire \in Seq(Genuine) /\ wire # <<>>
  BY Zenon DEF StreamInv, Consume
<1>5. part \in Genuine /\ Tail(wire) \in Seq(Genuine)
  BY <1>4
<1>6. ~Interleaved(part) => held \in HeldMessages /\ Assembling(tables, version, held)
  BY <1>5, HeldAssembles, Zenon
<1>7. /\ client \in [version : Nat, routes : RouteTables,
                     pending : {NoPending} \cup HeldMessages,
                     started : BOOLEAN, failed : BOOLEAN]
      /\ client.version =< version /\ client.routes = tables[client.version]
      /\ version \in Nat
  BY Zenon DEF StreamInv, ClientTyped, InstalledAsPublished, TableInv, TopologyTypeOK
<1>8. \/ /\ ~Interleaved(part) /\ ~Complete(held)
         /\ client' = [client EXCEPT !.pending = held]
         /\ wire' = Tail(wire) /\ task' = task
      \/ /\ ~Interleaved(part) /\ Complete(held) /\ Joins(held)
         /\ client' = [client EXCEPT !.pending = NoPending, !.version = held.version,
                                     !.routes = TableAfter(held), !.started = TRUE]
         /\ wire' = Tail(wire) /\ task' = task
      \/ Fail
  BY Zenon DEF Consume
<1> HIDE DEF part, held
<1>9. ASSUME ~Interleaved(part), client' = [client EXCEPT !.pending = held],
             wire' = Tail(wire), task' = task
      PROVE  StreamInv'
  <2>1. TaskTyped' /\ (wire \in Seq(Genuine))'
    BY <1>2, <1>5, <1>9, Zenon DEF StreamInv, TaskTyped
  <2>2. ClientTyped'
    BY <1>6, <1>7, <1>9, Zenon DEF ClientTyped
  <2>3. client'.pending = held /\ client'.version = client.version
        /\ client'.routes = client.routes
    BY <1>7, <1>9, Zenon
  <2>4. Assembling(tables, version, client.pending)'
    BY <1>1, <1>6, <1>9, <2>3, Zenon
  <2>5. InstalledAsPublished'
    BY <1>1, <1>7, <2>3, Zenon DEF InstalledAsPublished
  <2> QED
    BY <1>3, <2>1, <2>2, <2>4, <2>5, Zenon DEF StreamInv
<1>10. ASSUME ~Interleaved(part), Complete(held), Joins(held),
              client' = [client EXCEPT !.pending = NoPending, !.version = held.version,
                                       !.routes = TableAfter(held), !.started = TRUE],
              wire' = Tail(wire), task' = task
       PROVE  StreamInv'
  <2>1. TaskTyped' /\ (wire \in Seq(Genuine))'
    BY <1>2, <1>5, <1>10, Zenon DEF StreamInv, TaskTyped
  <2>2. held.version \in 0..version /\ TableAfter(held) = tables[held.version]
    BY <1>6, <1>10, CompleteIsPublished, Zenon
  <2>3. tables[held.version] \in RouteTables
    BY <1>7, <2>2, MaxVersionAssumption
    DEF StreamInv, TableInv, TopologyTypeOK, VersionDurable, TablesKept
  <2>4. ClientTyped'
    <3>1. held.version \in Nat /\ TableAfter(held) \in RouteTables
      BY <1>7, <2>2, <2>3
    <3> QED
      BY <1>7, <1>10, <3>1, Zenon DEF ClientTyped
  <2>5. client'.pending = NoPending /\ client'.version = held.version
        /\ client'.routes = TableAfter(held)
    BY <1>7, <1>10, Zenon
  <2>6. InstalledAsPublished'
    BY <1>1, <1>7, <2>2, <2>5 DEF InstalledAsPublished
  <2> QED
    BY <1>3, <2>1, <2>4, <2>5, <2>6, Zenon DEF StreamInv
<1>11. ASSUME Fail PROVE StreamInv'
  <2>1. TaskTyped' /\ (wire \in Seq(Genuine))'
    BY <1>11, CutStream, Zenon DEF Fail
  <2>2. client' = [client EXCEPT !.failed = TRUE]
    BY <1>11, Zenon DEF Fail
  <2>3. ClientTyped'
    BY <1>7, <2>2, Zenon DEF ClientTyped
  <2>4. /\ client'.pending = client.pending /\ client'.version = client.version
        /\ client'.routes = client.routes
    BY <1>7, <2>2, Zenon
  <2>5. InstalledAsPublished'
    BY <1>1, <1>7, <2>4, Zenon DEF InstalledAsPublished
  <2>6. (client.pending = NoPending \/ Assembling(tables, version, client.pending))'
    BY <1>1, <2>4, Zenon DEF StreamInv
  <2> QED
    BY <1>3, <2>1, <2>3, <2>5, <2>6, Zenon DEF StreamInv
<1> QED
  BY <1>8, <1>9, <1>10, <1>11, Zenon

(* A step that records a table under the version it moves to leaves the tables of the
   versions before in place, or is the start of an empty Controller. *)
LEMMA TablesStay ==
    ASSUME StreamInv, [TopologyNext]_topologyVars,
           tables' = [tables EXCEPT ![version'] = routes'], version' =< MaxVersion
    PROVE  /\ tables' \in [0..MaxVersion -> RouteTables]
           /\ tables'[version'] = routes'
           /\ version \in Nat /\ version' \in Nat /\ version =< version'
           /\ \A v \in 0..version : tables'[v] = tables[v]
<1>1. TableInv /\ TableInv'
  BY TableStep, Zenon DEF StreamInv
<1>2. version \in Nat /\ version' \in Nat /\ routes' \in RouteTables /\ version =< MaxVersion
  BY <1>1, MaxVersionAssumption
  DEF StreamInv, TablesKept, TableInv, TopologyTypeOK, VersionDurable
<1>3. tables \in [0..MaxVersion -> RouteTables] /\ tables[version] = routes
  BY Zenon DEF StreamInv, TablesKept
<1>4. \/ version' > version /\ version' > stored
      \/ version' = version /\ routes' = routes
  BY <1>1, StepNeverReuses, Zenon
<1>5. version' \in 0..MaxVersion
  BY <1>2, MaxVersionAssumption
<1>6. \A v \in 0..version : tables'[v] = tables[v]
  BY <1>2, <1>3, <1>4, <1>5, MaxVersionAssumption
<1> QED
  BY <1>2, <1>3, <1>4, <1>5, <1>6

(* The Frontend's table stays the published one while others are published. *)
LEMMA InstalledStays ==
    ASSUME StreamInv, NEW n \in Nat, version =< n, version' = n,
           \A v \in 0..version : tables'[v] = tables[v],
           client'.version = client.version, client'.routes = client.routes
    PROVE  InstalledAsPublished'
<1>1. version \in Nat /\ client.version \in 0..version
      /\ client.routes = tables[client.version]
  BY DEF StreamInv, ClientTyped, InstalledAsPublished, TableInv, TopologyTypeOK
<1> QED
  BY <1>1 DEF InstalledAsPublished

(* A publication records its table and its difference to the one before. *)
LEMMA RepublishKeeps == ASSUME StreamInv, Republish PROVE StreamInv'
<1>1. PICK new \in RouteTables : Publish(new)
  BY Zenon DEF Republish
<1>2. TableInv'
  BY <1>1, TableStep, Zenon DEF StreamInv, TopologyNext
<1>3. /\ version' = NextVersion /\ stored' = NextVersion /\ routes' = new
      /\ NextVersion =< MaxVersion /\ version < NextVersion
      /\ tables' = [tables EXCEPT ![version'] = routes']
  BY <1>1 DEF Republish, Publish, NextVersion, StreamInv, TableInv, TopologyTypeOK
<1>4. /\ tables' \in [0..MaxVersion -> RouteTables]
      /\ tables'[version'] = routes'
      /\ version \in Nat /\ version' \in Nat /\ version =< version'
      /\ \A v \in 0..version : tables'[v] = tables[v]
  BY <1>1, <1>3, TablesStay, Zenon DEF TopologyNext
<1>5. /\ \A kind \in Kinds, u \in 0..version, v \in 0..version :
           Content(tables', kind, u, v) = Content(tables, kind, u, v)
      /\ Genuine \subseteq Genuine'
      /\ \A h : Assembling(tables, version, h) => Assembling(tables', version', h)
  <2>1. /\ \A kind \in Kinds, u \in 0..version, v \in 0..version :
             /\ Content(tables', kind, u, v) = Content(tables, kind, u, v)
             /\ MessageOf(tables', kind, u, v) = MessageOf(tables, kind, u, v)
        /\ PartsUpTo(tables, version) \subseteq PartsUpTo(tables', version')
        /\ \A h : Assembling(tables, version, h) => Assembling(tables', version', h)
    BY <1>4, MessagesStay, Zenon
  <2>2. Genuine = PartsUpTo(tables, version) /\ Genuine' = PartsUpTo(tables', version')
    BY Zenon DEF Genuine
  <2> QED
    BY <2>1, <2>2, Zenon
<1>6. /\ wire' = wire /\ client' = client
      /\ task' = [task EXCEPT !.changed = (task.pc # "none")]
  BY Zenon DEF Republish
<1>7. TablesKept'
  <2> DEFINE r == Revision(new)
             longer == Append(history, r)
  <2>1. history \in Seq(Revisions) /\ r \in Revisions
    BY RevisionTyped, Zenon DEF StreamInv, TableInv, TopologyTypeOK
  <2>2. r.previous = version /\ r.version = version'
        /\ r.changes = [k \in Changed(new) |-> new[k]]
    BY <1>3, Zenon DEF Revision
  <2>3. r.changes = Content(tables', "update", version, version')
    <3>1. tables'[version] = routes /\ tables'[version'] = new
      BY <1>3, <1>4 DEF StreamInv, TablesKept
    <3>2. Changed(new) = {e \in Experts : tables'[version'][e] # tables'[version][e]}
      BY <3>1, Zenon DEF Changed
    <3> QED
      BY <2>2, <3>1, <3>2, Zenon DEF Content
  <2> HIDE DEF r
  <2>4. ASSUME NEW i \in DOMAIN longer
        PROVE  /\ longer[i].previous \in 0..version' /\ longer[i].version \in 0..version'
               /\ longer[i].changes =
                    Content(tables', "update", longer[i].previous, longer[i].version)
    <3>1. CASE i = Len(history) + 1
      <4>1. longer[i] = r
        BY <2>1, <3>1
      <4> QED
        BY <1>4, <2>2, <2>3, <4>1
    <3>2. CASE i \in DOMAIN history
      <4>1. longer[i] = history[i]
        BY <2>1, <3>2
      <4>2. /\ history[i].previous \in 0..version /\ history[i].version \in 0..version
            /\ history[i].changes =
                 Content(tables, "update", history[i].previous, history[i].version)
        BY <3>2, Zenon DEF StreamInv, TablesKept
      <4>3. Content(tables', "update", history[i].previous, history[i].version)
              = Content(tables, "update", history[i].previous, history[i].version)
        BY <1>5, <4>2, Zenon DEF Kinds
      <4> QED
        BY <1>4, <4>1, <4>2, <4>3
    <3> QED
      BY <2>1, <3>1, <3>2
  <2>5. longer \in Seq(Revisions) /\ Len(longer) \in Nat \ {0}
    BY <2>1
  <2>6. history' = Retained(longer)
    BY <1>1, Zenon DEF Publish, r
  <2> HIDE DEF longer
  <2>7. ASSUME NEW i \in DOMAIN history'
        PROVE  \E j \in DOMAIN longer : history'[i] = longer[j]
    <3>1. CASE history' = longer
      BY <3>1, Zenon
    <3>2. CASE history' = Tail(longer)
      <4>1. i \in 1..(Len(longer) - 1) /\ history'[i] = longer[i + 1]
        BY <2>5, <3>2
      <4> QED
        BY <2>5, <4>1
    <3> QED
      BY <2>6, <3>1, <3>2, Zenon DEF Retained
  <2>8. ASSUME NEW i \in DOMAIN history'
        PROVE  /\ history'[i].previous \in 0..version' /\ history'[i].version \in 0..version'
               /\ history'[i].changes =
                    Content(tables', "update", history'[i].previous, history'[i].version)
    BY <2>4, <2>7, Zenon
  <2> QED
    BY <1>3, <1>4, <2>8, Zenon DEF TablesKept
<1>8. wire' \in Seq(Genuine') /\ TaskTyped'
  <2>1. /\ wire \in Seq(Genuine)
        /\ task \in [pc : {"none", "read", "fetch", "send", "wait"}, installed : Nat,
                     newest : Nat, initial : BOOLEAN, changed : BOOLEAN,
                     outbox : Seq(Seq(Genuine) \ {<<>>})]
    BY Zenon DEF StreamInv, TaskTyped
  <2>2. Seq(Genuine) \subseteq Seq(Genuine')
    BY <1>5
  <2>3. Seq(Seq(Genuine) \ {<<>>}) \subseteq Seq(Seq(Genuine') \ {<<>>})
    <3> DEFINE A == Seq(Genuine) \ {<<>>}
               B == Seq(Genuine') \ {<<>>}
    <3>1. A \subseteq B
      BY <2>2, Zenon
    <3> HIDE DEF A, B
    <3>2. Seq(A) \subseteq Seq(B)
      BY <3>1
    <3> QED
      BY <3>2, Zenon DEF A, B
  <2>4. task'.outbox = task.outbox /\ task.outbox \in Seq(Seq(Genuine') \ {<<>>})
    BY <1>6, <2>1, <2>3, Zenon
  <2>5. TaskTyped'
    BY <1>6, <2>1, <2>4, Zenon DEF TaskTyped
  <2> QED
    BY <1>6, <2>1, <2>2, <2>5, Zenon
<1>9. ClientTyped' /\ (client.pending = NoPending \/ Assembling(tables, version, client.pending))'
  BY <1>5, <1>6, Zenon DEF StreamInv, ClientTyped
<1>10. InstalledAsPublished'
  BY <1>4, <1>6, InstalledStays, Zenon
<1> QED
  BY <1>2, <1>7, <1>8, <1>9, <1>10, Zenon DEF StreamInv

(* A failed store call changes nothing but, perhaps, the counter. *)
LEMMA StoreFailsKeeps == ASSUME StreamInv, StoreFails PROVE StreamInv'
<1>1. UNCHANGED <<version, routes, history, tables, task, wire, client>>
  BY Zenon DEF StoreFails, AdvanceFails, streamVars
<1>2. Genuine' = Genuine
  BY <1>1, Zenon DEF Genuine
<1>3. TableInv'
  BY TableStep, Zenon DEF StreamInv, StoreFails, TopologyNext
<1>4. stored' =< MaxVersion
  BY Zenon DEF StoreFails, AdvanceFails, StreamInv, TablesKept
<1>5. TablesKept'
  BY <1>1, <1>4, Zenon DEF StreamInv, TablesKept
<1> QED
  BY <1>1, <1>2, <1>3, <1>5, Zenon DEF StreamInv, TaskTyped, ClientTyped, InstalledAsPublished

(* A lost stream leaves the installed table. *)
LEMMA DisconnectedKeeps ==
    ASSUME StreamInv, Disconnected
    PROVE  /\ TaskTyped' /\ (wire \in Seq(Genuine))' /\ ClientTyped'
           /\ client'.pending = NoPending
           /\ client'.version = client.version /\ client'.routes = client.routes
<1>1. TaskTyped' /\ (wire \in Seq(Genuine))'
  BY CutStream, Zenon DEF Disconnected
<1>2. client' = [client EXCEPT !.pending = NoPending]
  BY Zenon DEF Disconnected
<1>3. ClientTyped'
  BY <1>2, Zenon DEF StreamInv, ClientTyped
<1> QED
  BY <1>1, <1>2, <1>3, Zenon DEF StreamInv, ClientTyped

(* The stream breaks. *)
LEMMA DropKeeps == ASSUME StreamInv, Drop PROVE StreamInv'
<1>1. UNCHANGED <<version, routes, history, stored, tables>> /\ Disconnected
  BY Zenon DEF Drop, topologyVars
<1>2. TableInv' /\ TablesKept'
  BY <1>1, Zenon DEF StreamInv, TableInv, TopologyTypeOK, VersionDurable, TablesKept
<1>3. InstalledAsPublished'
  BY <1>1, DisconnectedKeeps, Zenon DEF StreamInv, InstalledAsPublished
<1> QED
  BY <1>1, <1>2, <1>3, DisconnectedKeeps, Zenon DEF StreamInv

(* A restarted Controller has an empty table, no history and no watchers. *)
LEMMA RestartKeeps == ASSUME StreamInv, ControllerRestarts PROVE StreamInv'
<1>1. PICK known \in BOOLEAN : (stored > 0 => known) /\ Restore(known)
  BY Zenon DEF ControllerRestarts
<1>2. [TopologyNext]_topologyVars
  BY <1>1, Zenon DEF TopologyNext
<1>3. TableInv'
  BY <1>2, TableStep, Zenon DEF StreamInv
<1>4. /\ tables' = [tables EXCEPT ![version'] = routes'] /\ history' = <<>>
      /\ stored' =< MaxVersion /\ version' =< MaxVersion
  BY <1>1, MaxVersionAssumption
  DEF ControllerRestarts, Restore, StreamInv, TablesKept
<1>5. /\ tables' \in [0..MaxVersion -> RouteTables]
      /\ tables'[version'] = routes'
      /\ version \in Nat /\ version' \in Nat /\ version =< version'
      /\ \A v \in 0..version : tables'[v] = tables[v]
  BY <1>2, <1>4, TablesStay, Zenon
<1>6. TablesKept'
  BY <1>4, <1>5 DEF TablesKept
<1>7. /\ TaskTyped' /\ (wire \in Seq(Genuine))' /\ ClientTyped'
      /\ client'.pending = NoPending
      /\ client'.version = client.version /\ client'.routes = client.routes
  BY DisconnectedKeeps, Zenon DEF ControllerRestarts
<1>8. InstalledAsPublished'
  BY <1>5, <1>7, InstalledStays, Zenon
<1> QED
  BY <1>3, <1>6, <1>7, <1>8, Zenon DEF StreamInv

(* Every step keeps the invariant. *)
LEMMA StreamStep == ASSUME StreamInv, [Next]_vars PROVE StreamInv'
<1>1. CASE UNCHANGED vars
  <2>1. UNCHANGED <<version, routes, history, stored, task, wire, client, tables>>
    BY <1>1, Zenon DEF vars, topologyVars, streamVars
  <2> QED
    BY <2>1, Zenon DEF StreamInv, TableInv, TopologyTypeOK, VersionDurable, TablesKept, TaskTyped,
                ClientTyped, InstalledAsPublished, Genuine
<1> QED
  BY <1>1, TaskKeeps, ConsumeKeeps, DropKeeps, RepublishKeeps, StoreFailsKeeps, RestartKeeps, Zenon
  DEF Next, TaskStep

(* Whatever is dropped, repeated or restarted, the table a Frontend routes by is the
   one published under the version it has installed, and it is never ahead of the
   Controller: for any experts, part size, history limit and number of lost streams.
   (topology_messages, watch_topology, TopologyMessageAssembler, restore) *)
THEOREM FrontendsInstallPublished == Spec => []InstalledAsPublished
<1>1. StreamInv => InstalledAsPublished
  BY Zenon DEF StreamInv
<1> QED
  BY <1>1, StreamStart, StreamStep, PTL DEF Spec

(* The Controller that Frontends watch is the abstract table: what is shown of the table,
   above all that no version names two tables, holds while Frontends come and go. *)
THEOREM StreamRefinesTopology == Spec => TopologySpec /\ VersionNeverReused
<1>1. Init => TopologyInit
  BY Zenon DEF Init
<1>2. Spec => TopologySpec
  BY <1>1, StreamTable, PTL DEF Spec, TopologySpec
<1> QED
  BY <1>2, VersionsAreNew, PTL
===============================================================================
