------------------------ MODULE ComputeBackendsProofs ------------------------
(***************************************************************************)
(* The weights that kernels read: which slot a position has, what a slot   *)
(* holds, and what the device maps, while copies, kernels, releases and    *)
(* failed conversions overlap on their streams.                            *)
(***************************************************************************)
EXTENDS ComputeBackends, TLAPS

Operations ==
    [op : {"copy", "fill"}, p : Positions, slot : 0 .. NumSlots, part : Parts \union {None}]

(* Two operations write the same memory: one part of one slot, or one table entry. *)
SameCell(a, b) ==
    /\ a.op = b.op
    /\ IF a.op = "copy" THEN a.slot = b.slot /\ a.part = b.part ELSE a.p = b.p

(* Once the stream cs has run, what x writes is in its place: it is there, or still to
   come, and after whatever else the stream writes there. *)
Prevails(cs, x, there) ==
    /\ there \/ \E j \in DOMAIN cs : cs[j] = x
    /\ \A i \in DOMAIN cs :
         SameCell(cs[i], x) /\ cs[i] # x => \E j \in DOMAIN cs : j > i /\ cs[j] = x

(* What the device's table has for p in the end. *)
Expected(p) ==
    IF kind = "fused" /\ conv[p] \in {"published", "ready", "withdrawn"} THEN where[p] ELSE 0

OperationsTyped ==
    /\ TypeOK
    /\ copies \in Seq(Operations)
    /\ kind # "fused" => \A i \in DOMAIN copies : copies[i].op = "copy"
    /\ \A p \in Positions :
         conv[p] \in {"published", "releasing", "abandoning"} => kind = "fused"

(* The storage and its owners agree, at every step of a conversion and of a release. *)
SlotsKept ==
    /\ \A p \in Positions : IF conv[p] = "none" THEN where[p] = 0
                            ELSE where[p] \in Slots /\ owner[where[p]] = p
    /\ \A s \in Slots : owner[s] # None => where[owner[s]] = s /\ conv[owner[s]] # "none"

(* Whatever earlier owners still have on the stream, a slot ends up with its owner's parts. *)
Written ==
    \A p \in Positions : conv[p] # "none" =>
        \A part \in Parts :
            Prevails(copies, Copy(p, where[p], part), holds[where[p]][part] = p)

(* The table ends up with the entry expected, and has p's own slot or none until then. *)
Mapped ==
    \A p \in Positions :
        /\ Prevails(copies, Fill(p, Expected(p)), mapping[p] = Expected(p))
        /\ mapping[p] \in {0, where[p]}
        /\ \A i \in DOMAIN copies :
             copies[i].op = "fill" /\ copies[i].p = p => copies[i].slot \in {0, where[p]}

(* Nothing is under way for a weight that is ready, nor for a fused one that is gone. *)
Settled ==
    \A p \in Positions :
        \/ conv[p] \in {"ready", "withdrawn"}
        \/ kind = "fused" /\ conv[p] = "none"
        => Synchronised(p)

Submissions ==
    [pc : {"idle", "computing", "submitted", "failing"}, experts : SUBSET Positions,
     at : UNION {[E -> 0 .. NumSlots] : E \in SUBSET Positions}, ops : Seq(Parts),
     waited : BOOLEAN]

(* A submission leases its weights, and they stay where it found them. *)
Leases(x) ==
    /\ x \in Submissions /\ DOMAIN x.at = x.experts
    /\ \A p \in x.experts : conv[p] \in {"ready", "withdrawn"} /\ x.at[p] = where[p]

BatchesLeased ==
    batch \in [Batches -> Submissions] /\ \A b \in Batches : Leases(batch[b])

BackendInv ==
    OperationsTyped /\ SlotsKept /\ Written /\ Mapped /\ Settled /\ BatchesLeased

-----------------------------------------------------------------------------
(* An operation on another cell, or x once more, leaves x prevailing. *)
LEMMA PrevailsAppend ==
    ASSUME NEW cs \in Seq(Operations), NEW x, NEW y \in Operations, NEW there \in BOOLEAN,
           Prevails(cs, x, there), ~SameCell(y, x)
    PROVE  Prevails(Append(cs, y), x, there)
<1> DEFINE new == Append(cs, y)
<1>1. /\ DOMAIN cs = 1..Len(cs) /\ DOMAIN new = 1..(Len(cs) + 1) /\ Len(cs) \in Nat
      /\ new[Len(cs) + 1] = y /\ \A i \in DOMAIN cs : new[i] = cs[i]
  OBVIOUS
<1> HIDE DEF new
<1>2. DOMAIN cs \subseteq DOMAIN new
      /\ \A i \in DOMAIN new : i \in DOMAIN cs \/ i = Len(cs) + 1
  BY <1>1
<1>3. there \/ \E j \in DOMAIN new : new[j] = x
  BY <1>1, <1>2, Zenon DEF Prevails
<1>4. ASSUME NEW i \in DOMAIN new, SameCell(new[i], x), new[i] # x
      PROVE  \E j \in DOMAIN new : j > i /\ new[j] = x
  <2>1. i \in DOMAIN cs /\ new[i] = cs[i]
    BY <1>1, <1>2, <1>4, Zenon
  <2>2. PICK j \in DOMAIN cs : j > i /\ cs[j] = x
    BY <1>4, <2>1, Zenon DEF Prevails
  <2> QED
    BY <1>1, <1>2, <2>2, Zenon
<1>5. Prevails(new, x, there)
  BY <1>3, <1>4, Zenon DEF Prevails
<1> QED
  BY <1>5, Zenon DEF new

(* What is enqueued last prevails. *)
LEMMA LastPrevails ==
    ASSUME NEW cs \in Seq(Operations), NEW x \in Operations, NEW there
    PROVE  Prevails(Append(cs, x), x, there)
<1> DEFINE new == Append(cs, x)
           n == Len(cs) + 1
<1>1. DOMAIN new = 1..n /\ n \in Nat \ {0} /\ new[n] = x
  OBVIOUS
<1> HIDE DEF new, n
<1>2. n \in DOMAIN new
  BY <1>1
<1>3. ASSUME NEW i \in DOMAIN new, new[i] # x PROVE n > i
  BY <1>1, <1>3
<1>4. Prevails(new, x, there)
  BY <1>1, <1>2, <1>3, Zenon DEF Prevails
<1> QED
  BY <1>4, Zenon DEF new

(* The device runs the first operation: x is done, or its cell is written by another one
   that x follows, or is left as it was. *)
LEMMA TailPrevails ==
    ASSUME NEW cs \in Seq(Operations), cs # <<>>, NEW x, NEW there, NEW then,
           Prevails(cs, x, there),
           Head(cs) = x => then,
           there /\ ~SameCell(Head(cs), x) => then
    PROVE  Prevails(Tail(cs), x, then)
<1> DEFINE new == Tail(cs)
<1>1. /\ Len(cs) \in Nat \ {0} /\ DOMAIN cs = 1..Len(cs) /\ DOMAIN new = 1..(Len(cs) - 1)
      /\ Head(cs) = cs[1] /\ \A i \in DOMAIN new : new[i] = cs[i + 1]
  OBVIOUS
<1> HIDE DEF new
<1>2. 1 \in DOMAIN cs /\ \A i \in DOMAIN new : i + 1 \in DOMAIN cs
  BY <1>1
<1>3. ASSUME NEW j \in DOMAIN cs, j # 1 PROVE j - 1 \in DOMAIN new /\ new[j - 1] = cs[j]
  <2>1. j - 1 \in DOMAIN new /\ (j - 1) + 1 = j
    BY <1>1, <1>3
  <2> QED
    BY <1>1, <2>1
<1>4. then \/ \E j \in DOMAIN new : new[j] = x
  <2>1. CASE \E j \in DOMAIN cs : j # 1 /\ cs[j] = x
    BY <2>1, <1>3, Zenon
  <2>2. CASE cs[1] = x
    BY <2>2, <1>1, Zenon
  <2>3. CASE cs[1] # x /\ SameCell(cs[1], x)
    <3>1. PICK j \in DOMAIN cs : j > 1 /\ cs[j] = x
      BY <1>2, <2>3, Zenon DEF Prevails
    <3>2. j # 1
      BY <1>1, <3>1
    <3> QED
      BY <1>3, <3>1, <3>2, Zenon
  <2> QED
    BY <1>1, <2>1, <2>2, <2>3, Zenon DEF Prevails
<1>5. ASSUME NEW i \in DOMAIN new, SameCell(new[i], x), new[i] # x
      PROVE  \E j \in DOMAIN new : j > i /\ new[j] = x
  <2>1. i + 1 \in DOMAIN cs /\ new[i] = cs[i + 1]
    BY <1>1, <1>2, Zenon
  <2>2. PICK j \in DOMAIN cs : j > i + 1 /\ cs[j] = x
    BY <1>5, <2>1, Zenon DEF Prevails
  <2>3. j # 1 /\ j - 1 > i
    BY <1>1, <2>2
  <2> QED
    BY <1>3, <2>2, <2>3, Zenon
<1>6. Prevails(new, x, then)
  BY <1>4, <1>5, Zenon DEF Prevails
<1> QED
  BY <1>6, Zenon DEF new

(* The operations of the conversion stream, and the memory they write. *)
LEMMA OperationTypes ==
    ASSUME BackendAssumption, NEW p \in Positions, NEW s \in 0 .. NumSlots, NEW part \in Parts
    PROVE  /\ Copy(p, s, part) \in Operations /\ Fill(p, s) \in Operations
           /\ Copy(p, s, part).op = "copy" /\ Copy(p, s, part).p = p
           /\ Copy(p, s, part).slot = s /\ Copy(p, s, part).part = part
           /\ Fill(p, s).op = "fill" /\ Fill(p, s).p = p /\ Fill(p, s).slot = s
BY Zenon DEF Copy, Fill, Operations

(* A copy writes no table entry. *)
LEMMA CopyApart ==
    ASSUME NEW p, NEW s, NEW a, NEW y, y.op = "fill"
    PROVE  ~SameCell(Copy(p, s, a), y) /\ ~SameCell(y, Copy(p, s, a))
BY Zenon DEF Copy, SameCell

(* Copies write the same memory when they are of one part of one slot. *)
LEMMA CopyCells ==
    ASSUME NEW p, NEW s, NEW a, NEW y, y.op = "copy"
    PROVE  SameCell(y, Copy(p, s, a)) <=> y.slot = s /\ y.part = a
BY Zenon DEF Copy, SameCell

(* Table entries are the same memory when they are of one position. *)
LEMMA FillCells ==
    ASSUME NEW p, NEW s, NEW y, y.op = "fill"
    PROVE  SameCell(y, Fill(p, s)) <=> y.p = p
BY Zenon DEF Fill, SameCell

(* A table entry is no part of a slot. *)
LEMMA FillApart ==
    ASSUME NEW p, NEW s, NEW y, y.op = "copy"
    PROVE  ~SameCell(y, Fill(p, s))
BY Zenon DEF Fill, SameCell

(* A step that leaves every leased weight ready, and where it is, leaves the submissions
   valid. *)
LEMMA LeasesKept ==
    ASSUME BatchesLeased, UNCHANGED batch,
           \A q \in Positions :
             Leased(q) /\ conv[q] \in {"ready", "withdrawn"}
               => conv'[q] \in {"ready", "withdrawn"} /\ where'[q] = where[q]
    PROVE  BatchesLeased'
<1>1. batch \in [Batches -> Submissions] /\ batch' = batch
  BY Zenon DEF BatchesLeased
<1>2. ASSUME NEW b \in Batches PROVE Leases(batch[b])'
  <2>1. batch[b] \in Submissions /\ DOMAIN batch[b].at = batch[b].experts
    BY Zenon DEF BatchesLeased, Leases
  <2>2. ASSUME NEW p \in batch[b].experts
        PROVE  conv'[p] \in {"ready", "withdrawn"} /\ batch[b].at[p] = where'[p]
    <3>1. p \in Positions /\ Leased(p)
      BY <2>1, Zenon DEF Submissions, Leased
    <3>2. conv[p] \in {"ready", "withdrawn"} /\ batch[b].at[p] = where[p]
      BY Zenon DEF BatchesLeased, Leases
    <3> QED
      BY <3>1, <3>2, Zenon
  <2> QED
    BY <1>1, <2>1, <2>2, Zenon DEF Leases
<1> QED
  BY <1>1, <1>2, Zenon DEF BatchesLeased

(* publish_mapping, release and abandon enqueue the table entry that p is to have in the
   end, and keep its slot. *)
LEMMA FillKeeps ==
    ASSUME BackendAssumption, BackendInv, NEW p \in Positions, kind = "fused",
           conv[p] # "none", ~Leased(p) \/ conv[p] \notin {"ready", "withdrawn"},
           NEW c \in {"published", "releasing", "abandoning"},
           NEW e \in {0, where[p]}, e = IF c = "published" THEN where[p] ELSE 0,
           conv' = [conv EXCEPT ![p] = c], copies' = Append(copies, Fill(p, e)),
           lock' \in Positions \union {None},
           UNCHANGED <<kind, where, owner, mapping, holds, batch>>
    PROVE  BackendInv'
<1> USE DEF BackendInv
<1>1. /\ conv \in [Positions -> {"none", "copying", "published", "ready", "withdrawn",
                                 "releasing", "abandoning"}]
      /\ where \in [Positions -> 0 .. NumSlots] /\ copies \in Seq(Operations)
  BY Zenon DEF OperationsTyped, TypeOK
<1>2. conv'[p] = c /\ \A q \in Positions : q # p => conv'[q] = conv[q]
  BY <1>1, Zenon
<1>3. e \in 0 .. NumSlots
  BY <1>1 DEF BackendAssumption
<1>4. Fill(p, e) \in Operations /\ Fill(p, e).p = p /\ Fill(p, e).slot = e
      /\ Fill(p, e).op = "fill"
  <2>1. "down" \in Parts
    BY Zenon DEF Parts
  <2> QED
    BY <1>3, <2>1, OperationTypes
<1> DEFINE y == Fill(p, e)
<1>5. /\ copies' \in Seq(Operations)
      /\ \A i \in DOMAIN copies' : (i \in DOMAIN copies /\ copies'[i] = copies[i]) \/ copies'[i] = y
  <2> HIDE DEF y
  <2>1. copies' = Append(copies, y) /\ y \in Operations
    BY <1>4, Zenon DEF y
  <2> QED
    BY <1>1, <2>1
<1>6. OperationsTyped'
  <2>1. TypeOK'
    BY Zenon DEF OperationsTyped, TypeOK
  <2> QED
    BY <1>2, <1>5, <2>1, Zenon DEF OperationsTyped
<1>7. SlotsKept'
  <2>1. \A s \in Slots : owner[s] # None => owner[s] \in Positions
    BY Zenon DEF OperationsTyped, TypeOK
  <2> QED
    BY <1>2, <2>1, Zenon DEF SlotsKept
<1>8. Written'
  <2>1. ASSUME NEW q \in Positions, conv[q] # "none", NEW part \in Parts
        PROVE  Prevails(copies', Copy(q, where[q], part), holds[where[q]][part] = q)
    <3> DEFINE x == Copy(q, where[q], part)
               there == holds[where[q]][part] = q
    <3>1. Prevails(copies, x, there) /\ there \in BOOLEAN
      BY <2>1, Zenon DEF Written
    <3>s. ~SameCell(y, x)
      BY <1>4, CopyApart, Zenon
    <3> HIDE DEF x, there, y
    <3>2. Prevails(Append(copies, y), x, there)
      BY <1>1, <1>4, <3>1, <3>s, PrevailsAppend, Zenon DEF y
    <3> QED
      BY <3>2, Zenon DEF x, there, y
  <2> QED
    BY <1>2, <2>1, Zenon DEF Written
<1>9. Mapped'
  <2>1. Expected(p)' = e /\ \A q \in Positions : q # p => Expected(q)' = Expected(q)
    BY <1>2, Zenon DEF Expected
  <2>2. Prevails(copies', Fill(p, e), mapping[p] = e)
    BY <1>1, <1>4, LastPrevails, Zenon
  <2>3. ASSUME NEW q \in Positions, q # p
        PROVE  Prevails(copies', Fill(q, Expected(q)), mapping[q] = Expected(q))
    <3> DEFINE x == Fill(q, Expected(q))
               there == mapping[q] = Expected(q)
    <3>1. Prevails(copies, x, there) /\ there \in BOOLEAN
      BY <2>3, Zenon DEF Mapped
    <3>s. ~SameCell(y, x)
      BY <1>4, <2>3, FillCells
    <3> HIDE DEF x, there, y
    <3>2. Prevails(Append(copies, y), x, there)
      BY <1>1, <1>4, <3>1, <3>s, PrevailsAppend, Zenon DEF y
    <3> QED
      BY <3>2, Zenon DEF x, there, y
  <2>4. \A q \in Positions : \A i \in DOMAIN copies' :
          copies'[i].op = "fill" /\ copies'[i].p = q => copies'[i].slot \in {0, where[q]}
    <3> HIDE DEF y
    <3>1. y.p = p /\ y.slot \in {0, where[p]}
      BY <1>4, Zenon DEF y
    <3>2. ASSUME NEW q \in Positions, NEW i \in DOMAIN copies', copies'[i].op = "fill",
                 copies'[i].p = q
          PROVE  copies'[i].slot \in {0, where[q]}
      <4>1. CASE copies'[i] = y
        BY <3>1, <3>2, <4>1, Zenon
      <4>2. CASE i \in DOMAIN copies /\ copies'[i] = copies[i]
        <5>1. copies[i].op = "fill" /\ copies[i].p = q
          BY <3>2, <4>2, Zenon
        <5>2. copies[i].slot \in {0, where[q]}
          BY <4>2, <5>1, Zenon DEF Mapped
        <5> QED
          BY <4>2, <5>2, Zenon
      <4> QED
        BY <1>5, <4>1, <4>2, Zenon
    <3> QED
      BY <3>2, Zenon
  <2>5. \A q \in Positions : Prevails(copies', Fill(q, Expected(q)'), mapping'[q] = Expected(q)')
    BY <2>1, <2>2, <2>3, Zenon
  <2> HIDE DEF y
  <2> QED
    BY <2>4, <2>5, Zenon DEF Mapped
<1>10. Settled'
  <2> HIDE DEF y
  <2>1. y.p = p
    BY <1>4, Zenon DEF y
  <2>2. ASSUME NEW q \in Positions, q # p, Synchronised(q) PROVE Synchronised(q)'
    BY <1>5, <2>1, <2>2, Zenon DEF Synchronised
  <2> QED
    BY <1>2, <2>2, Zenon DEF Settled
<1>11. BatchesLeased'
  BY <1>2, LeasesKept, Zenon
<1> QED
  BY <1>6, <1>7, <1>8, <1>9, <1>10, <1>11, Zenon

(* A weight becomes ready, once its stream was synchronised, or is withdrawn. *)
LEMMA RelabelKeeps ==
    ASSUME BackendAssumption, BackendInv, NEW p \in Positions, NEW c \in {"ready", "withdrawn"},
           conv[p] \in {"copying", "published", "ready"},
           kind = "fused" => conv[p] # "copying", Synchronised(p),
           conv' = [conv EXCEPT ![p] = c],
           UNCHANGED <<kind, where, owner, mapping, holds, copies, lock, batch>>
    PROVE  BackendInv'
<1> USE DEF BackendInv
<1>1. conv \in [Positions -> {"none", "copying", "published", "ready", "withdrawn",
                              "releasing", "abandoning"}]
  BY Zenon DEF OperationsTyped, TypeOK
<1>2. conv'[p] = c /\ \A q \in Positions : q # p => conv'[q] = conv[q]
  BY <1>1, Zenon
<1>3. OperationsTyped'
  <2>1. TypeOK'
    BY <1>1, Zenon DEF OperationsTyped, TypeOK
  <2> QED
    BY <1>2, <2>1, Zenon DEF OperationsTyped
<1>4. SlotsKept'
  <2>1. \A s \in Slots : owner[s] # None => owner[s] \in Positions
    BY Zenon DEF OperationsTyped, TypeOK
  <2>2. \A q \in Positions : conv'[q] = "none" <=> conv[q] = "none"
    BY <1>2, Zenon
  <2> QED
    BY <2>1, <2>2, Zenon DEF SlotsKept
<1>5. Written'
  BY <1>2, Zenon DEF Written
<1>6. Mapped'
  <2>1. \A q \in Positions : Expected(q)' = Expected(q)
    BY <1>2, Zenon DEF Expected
  <2> QED
    BY <2>1, Zenon DEF Mapped
<1>7. Settled'
  BY <1>2, Zenon DEF Settled, Synchronised
<1>8. BatchesLeased'
  BY <1>2, LeasesKept, Zenon
<1> QED
  BY <1>3, <1>4, <1>5, <1>6, <1>7, <1>8, Zenon

(* The slot of a weight that nothing leases is given up: at once by the allocators, after
   the table was cleared and the stream synchronised by FusedWeightStorage. *)
LEMMA FreeKeeps ==
    ASSUME BackendAssumption, BackendInv, NEW p \in Positions, conv[p] # "none",
           ~Leased(p) \/ conv[p] \notin {"ready", "withdrawn"},
           kind = "fused" => conv[p] \in {"releasing", "abandoning"} /\ Synchronised(p),
           conv' = [conv EXCEPT ![p] = "none"], owner' = [owner EXCEPT ![where[p]] = None],
           where' = [where EXCEPT ![p] = 0], lock' \in Positions \union {None},
           UNCHANGED <<kind, mapping, holds, copies, batch>>
    PROVE  BackendInv'
<1> USE DEF BackendInv
<1>1. /\ conv \in [Positions -> {"none", "copying", "published", "ready", "withdrawn",
                                 "releasing", "abandoning"}]
      /\ where \in [Positions -> 0 .. NumSlots]
      /\ owner \in [Slots -> Positions \union {None}]
  BY Zenon DEF OperationsTyped, TypeOK
<1>2. /\ conv'[p] = "none" /\ \A q \in Positions : q # p => conv'[q] = conv[q]
      /\ where'[p] = 0 /\ \A q \in Positions : q # p => where'[q] = where[q]
  BY <1>1, Zenon
<1>3. where[p] \in Slots /\ owner[where[p]] = p
  BY Zenon DEF SlotsKept
<1>4. owner'[where[p]] = None /\ \A s \in Slots : s # where[p] => owner'[s] = owner[s]
  BY <1>1, <1>3, Zenon
<1>5. OperationsTyped'
  <2>1. 0 \in 0 .. NumSlots
    BY DEF BackendAssumption
  <2>2. TypeOK'
    BY <1>1, <2>1, Zenon DEF OperationsTyped, TypeOK
  <2> QED
    BY <1>2, <2>2, Zenon DEF OperationsTyped
<1>6. SlotsKept'
  <2>1. ASSUME NEW q \in Positions, q # p, conv[q] # "none"
        PROVE  where[q] \in Slots /\ owner'[where[q]] = q
    <3>1. where[q] \in Slots /\ owner[where[q]] = q
      BY <2>1, Zenon DEF SlotsKept
    <3> QED
      BY <1>3, <1>4, <2>1, <3>1, Zenon
  <2>2. ASSUME NEW s \in Slots, owner'[s] # None
        PROVE  where'[owner'[s]] = s /\ conv'[owner'[s]] # "none"
    <3>1. s # where[p] /\ owner'[s] = owner[s] /\ owner[s] \in Positions
      BY <1>1, <1>4, <2>2, Zenon
    <3>2. where[owner[s]] = s /\ conv[owner[s]] # "none"
      BY <2>2, <3>1, Zenon DEF SlotsKept
    <3>3. owner[s] # p
      BY <3>1, <3>2, Zenon
    <3> QED
      BY <1>2, <3>1, <3>2, <3>3, Zenon
  <2>3. ASSUME NEW q \in Positions
        PROVE  IF conv'[q] = "none" THEN where'[q] = 0
               ELSE where'[q] \in Slots /\ owner'[where'[q]] = q
    <3>1. CASE q = p
      BY <1>2, <3>1, Zenon
    <3>2. CASE q # p /\ conv[q] = "none"
      BY <1>2, <3>2, Zenon DEF SlotsKept
    <3>3. CASE q # p /\ conv[q] # "none"
      BY <1>2, <2>1, <3>3, Zenon
    <3> QED
      BY <3>1, <3>2, <3>3, Zenon
  <2> QED
    BY <2>2, <2>3, Zenon DEF SlotsKept
<1>7. Written'
  BY <1>2, Zenon DEF Written
<1>8. Mapped'
  <2>1. \A q \in Positions : Expected(q)' = Expected(q)
    BY <1>2, Zenon DEF Expected, OperationsTyped
  <2>2. Expected(p) = 0
    BY Zenon DEF Expected
  <2>3. \A i \in DOMAIN copies : ~(copies[i].op = "fill" /\ copies[i].p = p)
    BY Zenon DEF OperationsTyped, Synchronised
  <2>4. mapping[p] = 0
    <3>1. ASSUME NEW j \in DOMAIN copies PROVE copies[j] # Fill(p, 0)
      <4>1. Fill(p, 0).op = "fill" /\ Fill(p, 0).p = p
        BY Zenon DEF Fill
      <4> QED
        BY <2>3, <4>1, Zenon
    <3> QED
      BY <2>2, <3>1, Zenon DEF Mapped, Prevails
  <2>5. \A q \in Positions : mapping[q] \in {0, where'[q]}
    BY <1>2, <2>4, Zenon DEF Mapped
  <2>6. ASSUME NEW q \in Positions, NEW i \in DOMAIN copies,
               copies[i].op = "fill", copies[i].p = q
        PROVE  copies[i].slot \in {0, where'[q]}
    BY <1>2, <2>3, <2>6, Zenon DEF Mapped
  <2> QED
    BY <2>1, <2>5, <2>6, Zenon DEF Mapped
<1>9. Settled'
  BY <1>2, Zenon DEF Settled, Synchronised
<1>10. BatchesLeased'
  BY <1>2, LeasesKept, Zenon
<1> QED
  BY <1>5, <1>6, <1>7, <1>8, <1>9, <1>10, Zenon

(* Two copies to a slot that was free are enqueued behind everything else. *)
LEMMA CopiesEnqueued ==
    ASSUME BackendAssumption, BackendInv, NEW p \in Positions, NEW s \in Slots,
           copies' = copies \o <<Copy(p, s, "gateUp"), Copy(p, s, "down")>>
    PROVE  /\ copies' \in Seq(Operations)
           /\ \A i \in DOMAIN copies' :
                \/ i \in DOMAIN copies /\ copies'[i] = copies[i]
                \/ copies'[i].op = "copy" /\ copies'[i].p = p
           /\ \A part \in Parts : \A there : Prevails(copies', Copy(p, s, part), there)
           /\ \A x : \A there \in BOOLEAN :
                /\ Prevails(copies, x, there)
                /\ \A part \in Parts : ~SameCell(Copy(p, s, part), x)
                => Prevails(copies', x, there)
<1> DEFINE a == Copy(p, s, "gateUp")
           b == Copy(p, s, "down")
           half == Append(copies, a)
<1>0. "gateUp" \in Parts /\ "down" \in Parts /\ \A part \in Parts : part \in {"gateUp", "down"}
  BY Zenon DEF Parts
<1>1. s \in 0 .. NumSlots /\ copies \in Seq(Operations)
  BY DEF Slots, BackendAssumption, BackendInv, OperationsTyped
<1>2. /\ a \in Operations /\ a.op = "copy" /\ a.p = p
      /\ b \in Operations /\ b.op = "copy" /\ b.p = p /\ b.part = "down"
  BY <1>0, <1>1, OperationTypes
<1>3. ~SameCell(b, a)
  BY <1>2, CopyCells
<1>4. copies' = copies \o <<a, b>>
  BY Zenon
<1> HIDE DEF a, b
<1>5. half \in Seq(Operations) /\ copies' = Append(half, b) /\ copies' \in Seq(Operations)
  BY <1>1, <1>2, <1>4
<1>6. \A i \in DOMAIN copies' :
        (i \in DOMAIN copies /\ copies'[i] = copies[i]) \/ copies'[i] = a \/ copies'[i] = b
  BY <1>1, <1>2, <1>4
<1>7. \A there : Prevails(half, a, there)
  BY <1>1, <1>2, LastPrevails, Zenon
<1> HIDE DEF half
<1>8. \A there : Prevails(copies', b, there)
  BY <1>2, <1>5, LastPrevails, Zenon
<1>9. ASSUME NEW there PROVE Prevails(copies', a, there)
  <2>1. \A z \in BOOLEAN : Prevails(copies', a, z)
    BY <1>2, <1>3, <1>5, <1>7, PrevailsAppend, Zenon
  <2>2. Prevails(copies', a, FALSE)
    BY <2>1, Zenon
  <2> QED
    BY <2>2, Zenon DEF Prevails
<1>10. ASSUME NEW part \in Parts, NEW there PROVE Prevails(copies', Copy(p, s, part), there)
  BY <1>0, <1>8, <1>9, Zenon DEF a, b
<1>11. ASSUME NEW x, NEW there \in BOOLEAN, Prevails(copies, x, there),
              \A part \in Parts : ~SameCell(Copy(p, s, part), x)
       PROVE  Prevails(copies', x, there)
  <2>1. ~SameCell(a, x) /\ ~SameCell(b, x)
    BY <1>0, <1>11, Zenon DEF a, b
  <2>2. Prevails(half, x, there)
    BY <1>1, <1>2, <1>11, <2>1, PrevailsAppend, Zenon DEF half
  <2> QED
    BY <1>2, <1>5, <2>1, <2>2, PrevailsAppend, Zenon
<1>12. \A i \in DOMAIN copies' :
         \/ i \in DOMAIN copies /\ copies'[i] = copies[i]
         \/ copies'[i].op = "copy" /\ copies'[i].p = p
  BY <1>2, <1>6, Zenon
<1> QED
  BY <1>5, <1>10, <1>11, <1>12, Zenon

(* A conversion begins: what it copies prevails in its slot over everything that earlier
   owners still have on the stream, and touches nobody else's. *)
LEMMA MakeReadyKeeps ==
    ASSUME BackendAssumption, BackendInv, NEW p \in Positions, MakeReady(p)
    PROVE  BackendInv'
<1> USE DEF BackendInv
<1>1. PICK s \in Free :
        /\ owner' = [owner EXCEPT ![s] = p]
        /\ where' = [where EXCEPT ![p] = s]
        /\ copies' = copies \o <<Copy(p, s, "gateUp"), Copy(p, s, "down")>>
  BY Zenon DEF MakeReady
<1>2. /\ conv[p] = "none" /\ conv' = [conv EXCEPT ![p] = "copying"]
      /\ UNCHANGED <<kind, mapping, holds, lock, batch>>
  BY Zenon DEF MakeReady
<1>3. s \in Slots /\ owner[s] = None
  BY Zenon DEF Free
<1>4. /\ conv \in [Positions -> {"none", "copying", "published", "ready", "withdrawn",
                                 "releasing", "abandoning"}]
      /\ where \in [Positions -> 0 .. NumSlots]
      /\ owner \in [Slots -> Positions \union {None}]
      /\ mapping \in [Positions -> 0 .. NumSlots]
  BY Zenon DEF OperationsTyped, TypeOK
<1>5. /\ conv'[p] = "copying" /\ \A q \in Positions : q # p => conv'[q] = conv[q]
      /\ where'[p] = s /\ \A q \in Positions : q # p => where'[q] = where[q]
      /\ owner'[s] = p /\ \A t \in Slots : t # s => owner'[t] = owner[t]
  BY <1>1, <1>2, <1>3, <1>4, Zenon
<1>6. /\ copies' \in Seq(Operations)
      /\ \A i \in DOMAIN copies' :
           \/ i \in DOMAIN copies /\ copies'[i] = copies[i]
           \/ copies'[i].op = "copy" /\ copies'[i].p = p
      /\ \A part \in Parts : \A there : Prevails(copies', Copy(p, s, part), there)
      /\ \A x : \A there \in BOOLEAN :
           /\ Prevails(copies, x, there)
           /\ \A part \in Parts : ~SameCell(Copy(p, s, part), x)
           => Prevails(copies', x, there)
  BY <1>1, <1>3, CopiesEnqueued, Zenon
<1>7. \A part \in Parts : /\ Copy(p, s, part).op = "copy"
                          /\ Copy(p, s, part).slot = s /\ Copy(p, s, part).part = part
  BY Zenon DEF Copy
<1>8. ASSUME NEW q \in Positions, conv[q] # "none"
      PROVE  q # p /\ where[q] \in Slots /\ where[q] # s /\ owner[where[q]] = q
  <2>1. where[q] \in Slots /\ owner[where[q]] = q
    BY <1>8, Zenon DEF SlotsKept
  <2> QED
    BY <1>2, <1>3, <1>8, <2>1, Zenon DEF BackendAssumption
<1>9. OperationsTyped'
  <2>1. s \in 0 .. NumSlots
    BY <1>3 DEF Slots, BackendAssumption
  <2>2. TypeOK'
    BY <1>1, <1>2, <1>3, <1>4, <2>1, Zenon DEF OperationsTyped, TypeOK
  <2>3. kind # "fused" => \A i \in DOMAIN copies' : copies'[i].op = "copy"
    BY <1>6, Zenon DEF OperationsTyped
  <2> QED
    BY <1>2, <1>5, <1>6, <2>2, <2>3, Zenon DEF OperationsTyped
<1>10. SlotsKept'
  <2>1. ASSUME NEW q \in Positions
        PROVE  IF conv'[q] = "none" THEN where'[q] = 0
               ELSE where'[q] \in Slots /\ owner'[where'[q]] = q
    <3>1. CASE q = p
      BY <1>3, <1>5, <3>1, Zenon
    <3>2. CASE q # p /\ conv[q] = "none"
      BY <1>5, <3>2, Zenon DEF SlotsKept
    <3>3. CASE q # p /\ conv[q] # "none"
      <4>1. where[q] \in Slots /\ where[q] # s /\ owner[where[q]] = q
        BY <1>8, <3>3, Zenon
      <4>2. owner'[where[q]] = q /\ where'[q] = where[q] /\ conv'[q] # "none"
        BY <1>5, <3>3, <4>1, Zenon
      <4> QED
        BY <4>1, <4>2, Zenon
    <3> QED
      BY <3>1, <3>2, <3>3, Zenon
  <2>2. ASSUME NEW t \in Slots, owner'[t] # None
        PROVE  where'[owner'[t]] = t /\ conv'[owner'[t]] # "none"
    <3>1. CASE t = s
      BY <1>5, <3>1, Zenon
    <3>2. CASE t # s
      <4>1. owner'[t] = owner[t] /\ owner[t] \in Positions /\ owner[t] # None
        BY <1>4, <1>5, <2>2, <3>2, Zenon
      <4>2. where[owner[t]] = t /\ conv[owner[t]] # "none"
        BY <4>1, Zenon DEF SlotsKept
      <4>3. owner[t] # p
        BY <1>2, <4>2, Zenon
      <4> QED
        BY <1>5, <4>1, <4>2, <4>3, Zenon
    <3> QED
      BY <3>1, <3>2, Zenon
  <2> QED
    BY <2>1, <2>2, Zenon DEF SlotsKept
<1>11. Written'
  <2>1. ASSUME NEW q \in Positions, conv[q] # "none", NEW part \in Parts
        PROVE  Prevails(copies', Copy(q, where[q], part), holds[where[q]][part] = q)
    <3>1. Prevails(copies, Copy(q, where[q], part), holds[where[q]][part] = q)
      BY <2>1, Zenon DEF Written
    <3>2. ASSUME NEW other \in Parts
          PROVE  ~SameCell(Copy(p, s, other), Copy(q, where[q], part))
      BY <1>7, <1>8, <2>1, CopyCells
    <3>3. (holds[where[q]][part] = q) \in BOOLEAN
      BY Zenon
    <3> QED
      BY <1>6, <3>1, <3>2, <3>3, Zenon
  <2>2. ASSUME NEW q \in Positions, conv'[q] # "none", NEW part \in Parts
        PROVE  Prevails(copies', Copy(q, where'[q], part), holds'[where'[q]][part] = q)
    <3>1. CASE q = p
      BY <1>5, <1>6, <3>1, Zenon
    <3>2. CASE q # p
      <4>1. where'[q] = where[q] /\ conv[q] # "none" /\ holds' = holds
        BY <1>2, <1>5, <2>2, <3>2, Zenon
      <4> QED
        BY <2>1, <4>1, Zenon
    <3> QED
      BY <3>1, <3>2, Zenon
  <2> QED
    BY <2>2, Zenon DEF Written
<1>12. Mapped'
  <2>1. \A q \in Positions : Expected(q)' = Expected(q)
    BY <1>2, <1>5, Zenon DEF Expected
  <2>2. where[p] = 0
    BY <1>2, Zenon DEF SlotsKept
  <2>3. ASSUME NEW q \in Positions
        PROVE  Prevails(copies', Fill(q, Expected(q)), mapping[q] = Expected(q))
    <3>1. Prevails(copies, Fill(q, Expected(q)), mapping[q] = Expected(q))
      BY Zenon DEF Mapped
    <3>2. \A part \in Parts : ~SameCell(Copy(p, s, part), Fill(q, Expected(q)))
      BY <1>7, FillApart
    <3>3. (mapping[q] = Expected(q)) \in BOOLEAN
      BY Zenon
    <3> QED
      BY <1>6, <3>1, <3>2, <3>3, Zenon
  <2>4. \A q \in Positions : mapping[q] \in {0, where'[q]}
    BY <1>5, <2>2, Zenon DEF Mapped
  <2>5. ASSUME NEW q \in Positions, NEW i \in DOMAIN copies', copies'[i].op = "fill",
               copies'[i].p = q
        PROVE  copies'[i].slot \in {0, where'[q]}
    <3>1. i \in DOMAIN copies /\ copies'[i] = copies[i]
      BY <1>6, <2>5, Zenon
    <3>2. copies[i].slot \in {0, where[q]}
      BY <2>5, <3>1, Zenon DEF Mapped
    <3> QED
      BY <1>5, <2>2, <3>1, <3>2, Zenon
  <2> QED
    BY <1>2, <2>1, <2>3, <2>4, <2>5, Zenon DEF Mapped
<1>13. Settled'
  <2>1. ASSUME NEW q \in Positions, q # p, Synchronised(q) PROVE Synchronised(q)'
    BY <1>6, <2>1, Zenon DEF Synchronised
  <2> QED
    BY <1>2, <1>5, <2>1, Zenon DEF Settled
<1>14. BatchesLeased'
  BY <1>2, <1>5, LeasesKept, Zenon
<1> QED
  BY <1>9, <1>10, <1>11, <1>12, <1>13, <1>14, Zenon

(* The device runs an operation of the conversion stream. *)
LEMMA RunCopyKeeps == ASSUME BackendAssumption, BackendInv, RunCopy PROVE BackendInv'
<1> USE DEF BackendInv
<1> DEFINE c == Head(copies)
<1>1. /\ copies # <<>> /\ copies' = Tail(copies)
      /\ UNCHANGED <<kind, conv, where, owner, lock, batch>>
      /\ c.op = "copy" => holds' = [holds EXCEPT ![c.slot][c.part] = c.p] /\ mapping' = mapping
      /\ c.op # "copy" => mapping' = [mapping EXCEPT ![c.p] = c.slot] /\ holds' = holds
  BY Zenon DEF RunCopy
<1>2. /\ holds \in [Slots -> [Parts -> Positions \union {None}]]
      /\ mapping \in [Positions -> 0 .. NumSlots] /\ where \in [Positions -> 0 .. NumSlots]
      /\ copies \in Seq(Operations)
  BY Zenon DEF OperationsTyped, TypeOK
<1>3. /\ copies' \in Seq(Operations) /\ c \in Operations /\ 1 \in DOMAIN copies
      /\ c = copies[1]
      /\ \A i \in DOMAIN copies' : i + 1 \in DOMAIN copies /\ copies'[i] = copies[i + 1]
  BY <1>1, <1>2
<1>4. /\ c.op \in {"copy", "fill"} /\ c.p \in Positions /\ c.slot \in 0 .. NumSlots
      /\ c.part \in Parts \union {None}
  BY <1>3, Zenon DEF Operations
<1> HIDE DEF c
<1>5. ASSUME NEW s \in Slots, NEW part \in Parts
      PROVE  holds'[s][part] = IF c.op = "copy" /\ c.slot = s /\ c.part = part
                                 THEN c.p ELSE holds[s][part]
  BY <1>1, <1>2, <1>5
<1>6. ASSUME NEW p \in Positions
      PROVE  mapping'[p] = IF c.op # "copy" /\ c.p = p THEN c.slot ELSE mapping[p]
  BY <1>1, <1>2, <1>6, Zenon
<1>7. OperationsTyped'
  <2>1. holds' \in [Slots -> [Parts -> Positions \union {None}]]
    <3> DEFINE row == [holds[c.slot] EXCEPT ![c.part] = c.p]
    <3>1. CASE c.op = "copy" /\ c.slot \in Slots
      <4>1. row \in [Parts -> Positions \union {None}]
        BY <1>2, <1>4, <3>1, Zenon
      <4>2. holds' = [holds EXCEPT ![c.slot] = row]
        BY <1>1, <3>1, Zenon
      <4> HIDE DEF row
      <4> QED
        BY <1>2, <4>1, <4>2, Zenon
    <3>2. CASE c.op = "copy" /\ c.slot \notin Slots
      <4>1. holds' = [holds EXCEPT ![c.slot] = row]
        BY <1>1, <3>2, Zenon
      <4> HIDE DEF row
      <4> QED
        BY <1>2, <3>2, <4>1
    <3>3. CASE c.op # "copy"
      BY <1>1, <1>2, <3>3, Zenon
    <3> QED
      BY <3>1, <3>2, <3>3, Zenon
  <2>2. mapping' \in [Positions -> 0 .. NumSlots]
    BY <1>1, <1>2, <1>4, Zenon
  <2>3. TypeOK'
    BY <1>1, <2>1, <2>2, Zenon DEF OperationsTyped, TypeOK
  <2>4. kind # "fused" => \A i \in DOMAIN copies' : copies'[i].op = "copy"
    BY <1>3, Zenon DEF OperationsTyped
  <2> QED
    BY <1>1, <1>3, <2>3, <2>4, Zenon DEF OperationsTyped
<1>8. SlotsKept'
  BY <1>1, Zenon DEF SlotsKept
<1>9. Written'
  <2>1. ASSUME NEW p \in Positions, conv[p] # "none", NEW part \in Parts
        PROVE  Prevails(copies', Copy(p, where[p], part), holds'[where[p]][part] = p)
    <3> DEFINE x == Copy(p, where[p], part)
               there == holds[where[p]][part] = p
               then == holds'[where[p]][part] = p
    <3>1. where[p] \in Slots
      BY <2>1, Zenon DEF SlotsKept
    <3>2. Prevails(copies, x, there)
      BY <2>1, Zenon DEF Written
    <3>3. x.op = "copy" /\ x.p = p /\ x.slot = where[p] /\ x.part = part
      BY Zenon DEF Copy
    <3>4. c = x => then
      BY <1>5, <3>1, <3>3
    <3>5. c.op = "copy" => (SameCell(c, x) <=> c.slot = where[p] /\ c.part = part)
      BY CopyCells
    <3>6. there /\ ~SameCell(c, x) => then
      BY <1>5, <3>1, <3>5
    <3> HIDE DEF x, there, then
    <3>7. Prevails(Tail(copies), x, then)
      BY <1>1, <1>2, <3>2, <3>4, <3>6, TailPrevails, Zenon DEF c
    <3> QED
      BY <1>1, <3>7, Zenon DEF x, then
  <2> QED
    BY <1>1, <2>1, Zenon DEF Written
<1>10. Mapped'
  <2>1. ASSUME NEW p \in Positions PROVE Expected(p)' = Expected(p)
    BY <1>1, Zenon DEF Expected
  <2>2. ASSUME NEW p \in Positions
        PROVE  Prevails(copies', Fill(p, Expected(p)), mapping'[p] = Expected(p))
    <3> DEFINE x == Fill(p, Expected(p))
               there == mapping[p] = Expected(p)
               then == mapping'[p] = Expected(p)
    <3>1. Prevails(copies, x, there)
      BY Zenon DEF Mapped
    <3>2. x.op = "fill" /\ x.p = p /\ x.slot = Expected(p)
      BY Zenon DEF Fill
    <3>3. c = x => then
      BY <1>6, <3>2
    <3>4. c.op = "fill" => (SameCell(c, x) <=> c.p = p)
      BY FillCells
    <3>5. there /\ ~SameCell(c, x) => then
      BY <1>4, <1>6, <3>4
    <3> HIDE DEF x, there, then
    <3>6. Prevails(Tail(copies), x, then)
      BY <1>1, <1>2, <3>1, <3>3, <3>5, TailPrevails, Zenon DEF c
    <3> QED
      BY <1>1, <3>6, Zenon DEF x, then
  <2>3. ASSUME NEW p \in Positions PROVE mapping'[p] \in {0, where[p]}
    BY <1>3, <1>4, <1>6, Zenon DEF Mapped
  <2>4. \A p \in Positions : \A i \in DOMAIN copies' :
          copies'[i].op = "fill" /\ copies'[i].p = p => copies'[i].slot \in {0, where[p]}
    <3>1. ASSUME NEW p \in Positions, NEW j \in DOMAIN copies, copies[j].op = "fill",
                 copies[j].p = p
          PROVE  copies[j].slot \in {0, where[p]}
      BY <3>1, Zenon DEF Mapped
    <3> QED
      BY <1>3, <3>1
  <2> QED
    BY <1>1, <2>1, <2>2, <2>3, <2>4, Zenon DEF Mapped
<1>11. Settled'
  <2>1. ASSUME NEW q \in Positions, Synchronised(q) PROVE Synchronised(q)'
    BY <1>3, <2>1 DEF Synchronised
  <2> QED
    BY <1>1, <2>1, Zenon DEF Settled
<1>12. BatchesLeased'
  BY <1>1, LeasesKept, Zenon
<1> QED
  BY <1>7, <1>8, <1>9, <1>10, <1>11, <1>12, Zenon

(* A step of a batch that leaves its submission valid. *)
LEMMA BatchKeeps ==
    ASSUME BackendInv, NEW b \in Batches, NEW x, Leases(x),
           batch' = [batch EXCEPT ![b] = x],
           UNCHANGED <<kind, conv, where, owner, mapping, holds, copies, lock>>
    PROVE  BackendInv'
<1> USE DEF BackendInv
<1>1. batch \in [Batches -> Submissions] /\ x \in Submissions
  BY Zenon DEF BatchesLeased, Leases
<1>2. batch' \in [Batches -> Submissions]
      /\ \A a \in Batches : batch'[a] = IF a = b THEN x ELSE batch[a]
  BY <1>1, Zenon
<1>3. BatchesLeased'
  <2>1. ASSUME NEW a \in Batches PROVE Leases(batch'[a])
    BY <1>2, Zenon DEF BatchesLeased
  <2>2. ASSUME NEW a \in Batches PROVE Leases(batch[a])'
    <3>1. conv' = conv /\ where' = where
      BY Zenon
    <3> QED
      BY <2>1, <3>1 DEF Leases
  <2> QED
    BY <1>2, <2>2, Zenon DEF BatchesLeased
<1>4. OperationsTyped'
  <2>1. \A a \in Batches : batch'[a].pc \in {"idle", "computing", "submitted", "failing"}
    BY <1>2, Zenon DEF Submissions
  <2> QED
    BY <2>1, Zenon DEF OperationsTyped, TypeOK
<1>5. SlotsKept' /\ Written' /\ Settled'
  BY Zenon DEF SlotsKept, Written, Settled, Synchronised
<1>6. Mapped'
  BY Zenon DEF Mapped, Expected
<1> QED
  BY <1>3, <1>4, <1>5, <1>6, Zenon

(* A submission of ready weights leases them where they are; an idle batch leases none. *)
LEMMA SubmissionLeases ==
    ASSUME BackendInv, NEW E \in SUBSET Positions, Acquired(E),
           NEW pc \in {"idle", "computing", "submitted", "failing"}
    PROVE  Leases(Submission(pc, E)) /\ Leases(Idle) /\ Submission(pc, E).ops = Kernels(E)
<1>1. where \in [Positions -> 0 .. NumSlots]
  BY Zenon DEF BackendInv, OperationsTyped, TypeOK
<1>2. [p \in E |-> where[p]] \in UNION {[F -> 0 .. NumSlots] : F \in SUBSET Positions}
  <2>1. [p \in E |-> where[p]] \in [E -> 0 .. NumSlots]
    BY <1>1, Zenon
  <2> QED
    BY <2>1, Zenon
<1>3. Kernels(E) \in Seq(Parts)
  <2>1. "gateUp" \in Parts /\ "down" \in Parts
    BY Zenon DEF Parts
  <2> QED
    BY <2>1 DEF Kernels
<1>4. [p \in {} |-> 0] \in UNION {[F -> 0 .. NumSlots] : F \in SUBSET Positions}
  <2>1. [p \in {} |-> 0] \in [{} -> 0 .. NumSlots]
    BY Zenon
  <2> QED
    BY <2>1, Zenon
<1>5. <<>> \in Seq(Parts)
  OBVIOUS
<1>6. Leases(Idle)
  <2>1. Idle \in Submissions /\ Idle.experts = {} /\ Idle.at = [p \in {} |-> 0]
    BY <1>4, <1>5, Zenon DEF Idle, Submissions
  <2> QED
    BY <2>1, Zenon DEF Leases
<1>7. /\ Submission(pc, E) \in Submissions /\ Submission(pc, E).experts = E
      /\ Submission(pc, E).at = [p \in E |-> where[p]] /\ Submission(pc, E).ops = Kernels(E)
  BY <1>2, <1>3, Zenon DEF Submission, Submissions
<1> QED
  BY <1>6, <1>7, Zenon DEF Leases, Acquired

(* Submissions, complete or failed half way. *)
LEMMA SubmitKeeps ==
    ASSUME BackendInv, NEW b \in Batches, NEW E \in SUBSET Positions,
           Submit(b, E) \/ SubmitRaises(b, E)
    PROVE  BackendInv'
<1>1. /\ Acquired(E)
      /\ UNCHANGED <<kind, conv, where, owner, mapping, holds, copies, lock>>
  BY Zenon DEF Submit, SubmitRaises
<1>2. CASE Submit(b, E)
  <2>1. PICK pc \in {"submitted", "computing"} : batch' = [batch EXCEPT ![b] = Submission(pc, E)]
    BY <1>2, Zenon DEF Submit, SubmitFused, SubmitTorch, SubmitGgml
  <2>2. Leases(Submission(pc, E))
    BY <1>1, SubmissionLeases, Zenon
  <2> QED
    BY <1>1, <2>1, <2>2, BatchKeeps, Zenon
<1>3. CASE SubmitRaises(b, E)
  <2> DEFINE sub == Submission("failing", E)
  <2>1. PICK n \in 0 .. Len(Kernels(E)) :
          batch' = [batch EXCEPT ![b] = [sub EXCEPT !.ops = SubSeq(@, 1, n)]]
    BY <1>3, Zenon DEF SubmitRaises
  <2>2. Leases(sub) /\ sub.ops = Kernels(E)
    BY <1>1, SubmissionLeases, Zenon
  <2> HIDE DEF sub
  <2> DEFINE some == SubSeq(sub.ops, 1, n)
             x == [sub EXCEPT !.ops = some]
  <2>3. sub.ops \in Seq(Parts) /\ sub \in Submissions
    BY <2>2, Zenon DEF Leases, Submissions
  <2>4. some \in Seq(Parts)
    BY <2>2, <2>3
  <2> HIDE DEF some
  <2>5. x \in Submissions /\ x.experts = sub.experts /\ x.at = sub.at
    BY <2>3, <2>4, Zenon DEF Submissions
  <2>6. batch' = [batch EXCEPT ![b] = x]
    BY <2>1, <2>3, Zenon DEF some, Submissions
  <2> HIDE DEF x
  <2>7. Leases(x)
    BY <2>2, <2>5, Zenon DEF Leases
  <2> QED
    BY <1>1, <2>6, <2>7, BatchKeeps, Zenon
<1> QED
  BY <1>2, <1>3, Zenon

(* Kernels run, and a lease ends together with the submission that had it. *)
LEMMA ExecuteKeeps ==
    ASSUME BackendInv, NEW b \in Batches, Execute(b)
    PROVE  BackendInv'
<1> DEFINE sub == batch[b]
<1>0. Leases(sub) /\ sub \in Submissions /\ sub.ops \in Seq(Parts)
  BY Zenon DEF BackendInv, BatchesLeased, Leases, Submissions
<1>1. Leases(Idle)
  <2>1. {} \in SUBSET Positions /\ Acquired({})
    BY Zenon DEF Acquired
  <2> QED
    BY <2>1, SubmissionLeases, Zenon
<1>2. UNCHANGED <<kind, conv, where, owner, mapping, holds, copies, lock>>
  BY Zenon DEF Execute, GgmlReturns, GgmlRaises, SubmissionFailed, RunKernel, WaitHost,
               CloseCompletion
<1>3. CASE GgmlRaises(b) \/ SubmissionFailed(b) \/ CloseCompletion(b)
  <2>1. batch' = [batch EXCEPT ![b] = Idle]
    BY <1>3, Zenon DEF GgmlRaises, SubmissionFailed, CloseCompletion
  <2> QED
    BY <1>1, <1>2, <2>1, BatchKeeps, Zenon
<1>4. CASE GgmlReturns(b) \/ WaitHost(b)
  <2> DEFINE x(pc) == [sub EXCEPT !.pc = pc, !.waited = TRUE]
  <2>1. PICK pc \in {"submitted", sub.pc} : batch' = [batch EXCEPT ![b] = x(pc)]
    <3>1. CASE GgmlReturns(b)
      <4>1. batch' = [batch EXCEPT ![b].pc = "submitted", ![b].waited = TRUE]
        BY <3>1, Zenon DEF GgmlReturns
      <4>2. batch' = [batch EXCEPT ![b] = x("submitted")]
        BY <1>0, <4>1 DEF BackendInv, BatchesLeased, Submissions
      <4> QED
        BY <4>2, Zenon
    <3>2. CASE WaitHost(b)
      <4>1. batch' = [batch EXCEPT ![b].waited = TRUE]
        BY <3>2, Zenon DEF WaitHost
      <4>2. batch' = [batch EXCEPT ![b] = x(sub.pc)]
        BY <1>0, <4>1 DEF BackendInv, BatchesLeased, Submissions
      <4> QED
        BY <4>2, Zenon
    <3> QED
      BY <1>4, <3>1, <3>2, Zenon
  <2>2. x(pc) \in Submissions /\ x(pc).experts = sub.experts /\ x(pc).at = sub.at
    BY <1>0, <2>1, Zenon DEF Submissions
  <2> HIDE DEF x
  <2>3. Leases(x(pc))
    BY <1>0, <2>2, Zenon DEF Leases
  <2> QED
    BY <1>2, <2>1, <2>3, BatchKeeps, Zenon
<1>5. CASE RunKernel(b)
  <2> DEFINE rest == Tail(sub.ops)
             x == [sub EXCEPT !.ops = rest]
  <2>1. rest \in Seq(Parts)
    <3>1. sub.ops # <<>>
      BY <1>5, Zenon DEF RunKernel
    <3> QED
      BY <1>0, <3>1
  <2>2. batch' = [batch EXCEPT ![b] = x]
    BY <1>5, Zenon DEF RunKernel
  <2> HIDE DEF rest
  <2>3. x \in Submissions /\ x.experts = sub.experts /\ x.at = sub.at
    BY <1>0, <2>1, Zenon DEF Submissions
  <2> HIDE DEF x
  <2>4. Leases(x)
    BY <1>0, <2>3, Zenon DEF Leases
  <2> QED
    BY <1>2, <2>2, <2>4, BatchKeeps, Zenon
<1> QED
  BY <1>3, <1>4, <1>5, Zenon DEF Execute

(* Conversions and releases. *)
LEMMA ConvertKeeps ==
    ASSUME BackendAssumption, BackendInv, NEW p \in Positions, Convert(p) \/ Retire(p)
    PROVE  BackendInv'
<1>0. /\ lock \in Positions \union {None} /\ None \in Positions \union {None}
      /\ conv[p] \in {"published", "releasing", "abandoning"} => kind = "fused"
  BY Zenon DEF BackendInv, OperationsTyped, TypeOK
<1>1. CASE MakeReady(p)
  BY <1>1, MakeReadyKeeps, Zenon
<1>2. CASE PublishMapping(p)
  <2>1. /\ kind = "fused" /\ conv[p] = "copying" /\ lock' \in Positions \union {None}
        /\ conv' = [conv EXCEPT ![p] = "published"]
        /\ copies' = Append(copies, Fill(p, where[p]))
        /\ UNCHANGED <<kind, where, owner, mapping, holds, batch>>
    BY <1>0, <1>2, Zenon DEF PublishMapping
  <2> QED
    BY <2>1, FillKeeps
<1>3. CASE Converted(p)
  BY <1>3, RelabelKeeps, Zenon DEF Converted
<1>4. CASE Withdraw(p)
  BY <1>4, RelabelKeeps, Zenon DEF Withdraw, BackendInv, Settled
<1>5. ASSUME NEW c \in {"releasing", "abandoning"}, Clear(p, c), kind = "fused",
             conv[p] \in {"copying", "published"} \/ (conv[p] = "withdrawn" /\ ~Leased(p)),
             UNCHANGED <<kind, mapping, holds, batch>>
      PROVE  BackendInv'
  <2>1. /\ lock' \in Positions \union {None} /\ conv' = [conv EXCEPT ![p] = c]
        /\ copies' = Append(copies, Fill(p, 0))
        /\ UNCHANGED <<kind, where, owner, mapping, holds, batch>>
    BY <1>0, <1>5, Zenon DEF Clear
  <2>2. conv[p] # "none" /\ (~Leased(p) \/ conv[p] \notin {"ready", "withdrawn"})
    BY <1>5, Zenon
  <2> QED
    BY <1>5, <2>1, <2>2, FillKeeps
<1>6. ASSUME Drop(p), kind # "fused",
             conv[p] \in {"copying", "published"} \/ (conv[p] = "withdrawn" /\ ~Leased(p)),
             UNCHANGED <<kind, mapping, holds, batch>>
      PROVE  BackendInv'
  <2>1. /\ lock' \in Positions \union {None} /\ conv' = [conv EXCEPT ![p] = "none"]
        /\ owner' = [owner EXCEPT ![where[p]] = None] /\ where' = [where EXCEPT ![p] = 0]
        /\ UNCHANGED <<kind, mapping, holds, copies, batch>>
    BY <1>0, <1>6, Zenon DEF Drop
  <2>2. conv[p] # "none" /\ (~Leased(p) \/ conv[p] \notin {"ready", "withdrawn"})
    BY <1>6, Zenon
  <2> QED
    BY <1>6, <2>1, <2>2, FreeKeeps
<1>7. CASE ConvertFails(p)
  BY <1>5, <1>6, <1>7, Zenon DEF ConvertFails
<1>8. CASE ReleaseReady(p)
  BY <1>5, <1>6, <1>8, Zenon DEF ReleaseReady
<1>9. CASE Cleared(p)
  <2>1. /\ conv[p] \in {"releasing", "abandoning"} /\ Synchronised(p)
        /\ lock' \in Positions \union {None} /\ conv' = [conv EXCEPT ![p] = "none"]
        /\ owner' = [owner EXCEPT ![where[p]] = None] /\ where' = [where EXCEPT ![p] = 0]
        /\ UNCHANGED <<kind, mapping, holds, copies, batch>>
    BY <1>0, <1>9, Zenon DEF Cleared
  <2> QED
    BY <2>1, FreeKeeps
<1> QED
  BY <1>1, <1>2, <1>3, <1>4, <1>7, <1>8, <1>9, Zenon DEF Convert, Retire

(* A Worker begins with empty slots, an empty table and no batch. *)
LEMMA BackendStart == ASSUME BackendAssumption PROVE Init => BackendInv
<1> SUFFICES ASSUME Init PROVE BackendInv
  OBVIOUS
<1>1. 0 \in 0 .. NumSlots /\ copies = <<>> /\ DOMAIN copies = {} /\ copies \in Seq(Operations)
  BY DEF Init, BackendAssumption
<1>2. /\ conv = [p \in Positions |-> "none"] /\ where = [p \in Positions |-> 0]
      /\ owner = [s \in Slots |-> None] /\ mapping = [p \in Positions |-> 0]
      /\ batch = [b \in Batches |-> Idle]
  BY Zenon DEF Init
<1>3. OperationsTyped
  <2>1. TypeOK
    BY <1>1, Zenon DEF Init, TypeOK, Idle
  <2> QED
    BY <1>1, <1>2, <2>1, Zenon DEF OperationsTyped
<1>4. SlotsKept
  BY <1>2, Zenon DEF SlotsKept
<1>5. Written /\ Settled
  BY <1>1, <1>2, Zenon DEF Written, Settled, Synchronised
<1>6. Mapped
  BY <1>1, <1>2, Zenon DEF Mapped, Prevails, Expected
<1>7. BatchesLeased
  <2>1. [p \in {} |-> 0] \in UNION {[F -> 0 .. NumSlots] : F \in SUBSET Positions}
    <3>1. [p \in {} |-> 0] \in [{} -> 0 .. NumSlots]
      BY Zenon
    <3> QED
      BY <3>1, Zenon
  <2>2. <<>> \in Seq(Parts)
    OBVIOUS
  <2>3. Idle \in Submissions /\ Idle.experts = {} /\ Idle.at = [p \in {} |-> 0]
    BY <2>1, <2>2, Zenon DEF Idle, Submissions
  <2>4. Leases(Idle)
    BY <2>3, Zenon DEF Leases
  <2> QED
    BY <1>2, <2>3, <2>4, Zenon DEF BatchesLeased
<1> QED
  BY <1>3, <1>4, <1>5, <1>6, <1>7, Zenon DEF BackendInv

(* Every step of the three backends keeps the invariant. *)
LEMMA BackendStep == ASSUME BackendAssumption, BackendInv, [Next]_vars PROVE BackendInv'
<1>1. CASE UNCHANGED vars
  <2>1. UNCHANGED <<kind, conv, where, owner, mapping, holds, copies, lock, batch>>
    BY <1>1, Zenon DEF vars
  <2>2. OperationsTyped' /\ SlotsKept' /\ Written'
    BY <2>1, Zenon DEF BackendInv, OperationsTyped, TypeOK, SlotsKept, Written
  <2>3. Mapped' /\ Settled'
    BY <2>1, Zenon DEF BackendInv, Mapped, Expected, Settled, Synchronised
  <2>4. BatchesLeased'
    BY <2>1, Zenon DEF BackendInv, BatchesLeased, Leases
  <2> QED
    BY <2>2, <2>3, <2>4, Zenon DEF BackendInv
<1> QED
  BY <1>1, RunCopyKeeps, ConvertKeeps, ExecuteKeeps, SubmitKeeps, Zenon DEF Next

(* For any number of positions, slots and batches, whichever backend is configured:
   every kernel that is still to run reads the weights it was launched for, complete and
   not overwritten, and the device maps no position to a slot of another. (submit and
   close of the backends, FusedWeightStorage, make_ready_weight, release_ready_weight) *)
THEOREM KernelsReadOwnWeights ==
    ASSUME BackendAssumption
    PROVE  Spec => [](TypeOK /\ KernelsReadTheirWeights /\ TablesAgree)
<1>1. ASSUME BackendInv PROVE KernelsReadTheirWeights
  <2> USE <1>1 DEF BackendInv
  <2> SUFFICES ASSUME NEW b \in Batches, NEW i \in DOMAIN batch[b].ops,
                      NEW p \in DOMAIN batch[b].at
               PROVE  SlotFor(b, p) # 0 /\ holds[SlotFor(b, p)][batch[b].ops[i]] = p
    BY Zenon DEF KernelsReadTheirWeights
  <2>1. /\ batch[b].ops \in Seq(Parts) /\ batch[b].experts \subseteq Positions
        /\ p \in batch[b].experts
    BY Zenon DEF BatchesLeased, Leases, Submissions
  <2>2. p \in Positions /\ batch[b].ops[i] \in Parts
    BY <2>1
  <2>3. conv[p] \in {"ready", "withdrawn"} /\ batch[b].at[p] = where[p]
    BY <2>1, Zenon DEF BatchesLeased, Leases
  <2>4. \A j \in DOMAIN copies : copies[j].p # p
    BY <2>2, <2>3, Zenon DEF Settled, Synchronised
  <2>5. holds[where[p]][batch[b].ops[i]] = p
    <3> DEFINE part == batch[b].ops[i]
    <3>1. Prevails(copies, Copy(p, where[p], part), holds[where[p]][part] = p)
      BY <2>2, <2>3, Zenon DEF Written
    <3>2. Copy(p, where[p], part).p = p
      BY Zenon DEF Copy
    <3> HIDE DEF part
    <3>3. holds[where[p]][part] = p
      BY <2>4, <3>1, <3>2, Zenon DEF Prevails
    <3> QED
      BY <3>3, Zenon DEF part
  <2>6. kind = "fused" => mapping[p] = where[p]
    <3>1. Prevails(copies, Fill(p, Expected(p)), mapping[p] = Expected(p))
      BY <2>2, Zenon DEF Mapped
    <3>2. Fill(p, Expected(p)).p = p
      BY Zenon DEF Fill
    <3>3. mapping[p] = Expected(p)
      BY <2>4, <3>1, <3>2, Zenon DEF Prevails
    <3> QED
      BY <2>3, <3>3, Zenon DEF Expected
  <2>7. where[p] # 0
    <3>1. where[p] \in Slots
      BY <2>2, <2>3, Zenon DEF SlotsKept
    <3> QED
      BY <3>1 DEF Slots
  <2> QED
    BY <2>3, <2>5, <2>6, <2>7, Zenon DEF SlotFor
<1>2. ASSUME BackendInv PROVE TablesAgree
  <2>1. ASSUME NEW p \in Positions, mapping[p] # 0 PROVE owner[mapping[p]] = p
    <3>1. mapping[p] = where[p]
      BY <1>2, <2>1, Zenon DEF BackendInv, Mapped
    <3> QED
      BY <1>2, <2>1, <3>1, Zenon DEF BackendInv, SlotsKept
  <2> QED
    BY <1>2, <2>1, Zenon DEF BackendInv, SlotsKept, TablesAgree
<1>3. BackendInv => TypeOK
  BY Zenon DEF BackendInv, OperationsTyped
<1> QED
  BY <1>1, <1>2, <1>3, BackendStart, BackendStep, PTL DEF Spec
=============================================================================
