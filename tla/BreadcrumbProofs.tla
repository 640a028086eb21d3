-------------------------- MODULE BreadcrumbProofs --------------------------
(***************************************************************************)
(* Proofs about Breadcrumb, for any capacity and any breadcrumbs: what the *)
(* methods do to a Snapshot is what module Trail says of a bounded trail.  *)
(* SdkProofs uses them for every ring of the package.                      *)
(*                                                                         *)
(* Two facts give what Add does to a Snapshot, entry by entry: the length  *)
(* of a Snapshot, and the slot its i-th entry comes from, which is i - 1   *)
(* slots after the oldest, modulo maxSize.                                 *)
(***************************************************************************)
EXTENDS Breadcrumb, SequenceTheorems, TLAPS

\* The rings that may hold the breadcrumbs C.
Rings(C) == [items: [0..(maxSize - 1) -> C \cup {NoCrumb}],
             position: 0..(maxSize - 1),
             full: BOOLEAN]

\* Newest of module Trail, for a trail of the ring's capacity.
NewestOf(s) == IF Len(s) > maxSize THEN Tail(s) ELSE s

\* The slot of the i-th entry of a Snapshot.
SlotOf(r, i) ==
  IF ~r.full THEN i - 1
  ELSE IF r.position + i - 1 < maxSize THEN r.position + i - 1
  ELSE r.position + i - 1 - maxSize

LEMMA CapacityIsPositive == maxSize \in Nat \ {0}
  BY BreadcrumbAssumption DEF BreadcrumbAssumption, maxSize

LEMMA SliceLength ==
  ASSUME NEW C, NEW r \in Rings(C), NEW from \in Int, NEW to \in Int,
         0 <= from, from <= to, to <= maxSize
  PROVE  /\ Slice(r, from, to) \in Seq(C \cup {NoCrumb})
         /\ Len(Slice(r, from, to)) = to - from
         /\ \A i \in 1..(to - from) : Slice(r, from, to)[i] = r.items[from + i - 1]
<1>1. to - from \in Nat
  BY CapacityIsPositive
<1>2. \A i \in 1..(to - from) : from + i - 1 \in 0..(maxSize - 1)
  BY CapacityIsPositive
<1>3. \A i \in 1..(to - from) : r.items[from + i - 1] \in C \cup {NoCrumb}
  BY <1>2 DEF Rings
<1> QED
  BY <1>1, <1>3 DEF Slice

\* A Snapshot, entry by entry: it is as long as Size says, and its i-th entry
\* comes from SlotOf.
THEOREM SnapshotEntries ==
  ASSUME NEW C, NEW r \in Rings(C)
  PROVE  /\ Snapshot(r) \in Seq(C \cup {NoCrumb})
         /\ Len(Snapshot(r)) = Size(r)
         /\ \A i \in 1..Size(r) : Snapshot(r)[i] = r.items[SlotOf(r, i)]
<1> USE CapacityIsPositive
<1>0. /\ r.position \in Int /\ 0 <= r.position /\ r.position < maxSize
      /\ maxSize \in Int
  BY DEF Rings
<1>1. CASE ~r.full
  <2>1. /\ Slice(r, 0, r.position) \in Seq(C \cup {NoCrumb})
        /\ Len(Slice(r, 0, r.position)) = r.position - 0
        /\ \A i \in 1..(r.position - 0) :
             Slice(r, 0, r.position)[i] = r.items[0 + i - 1]
    <3>1. 0 <= 0 /\ 0 \in Int /\ r.position <= maxSize
      BY <1>0
    <3> QED
      BY ONLY <1>0, <3>1, SliceLength, r \in Rings(C)
  <2> QED
    BY <1>0, <1>1, <2>1 DEF Snapshot, Size, SlotOf
<1>2. CASE r.full
  <2> DEFINE old == Slice(r, r.position, maxSize)
             new == Slice(r, 0, r.position)
  <2>1. /\ old \in Seq(C \cup {NoCrumb})
        /\ Len(old) = maxSize - r.position
        /\ \A i \in 1..(maxSize - r.position) : old[i] = r.items[r.position + i - 1]
    <3>1. maxSize <= maxSize /\ r.position <= maxSize
      BY <1>0
    <3> QED
      BY ONLY <1>0, <3>1, SliceLength, r \in Rings(C)
  <2>2. /\ new \in Seq(C \cup {NoCrumb})
        /\ Len(new) = r.position - 0
        /\ \A i \in 1..(r.position - 0) : new[i] = r.items[0 + i - 1]
    <3>1. 0 <= 0 /\ 0 \in Int /\ r.position <= maxSize
      BY <1>0
    <3> QED
      BY ONLY <1>0, <3>1, SliceLength, r \in Rings(C)
  <2>3. Snapshot(r) = old \o new
    BY <1>2 DEF Snapshot
  <2> HIDE DEF old, new
  <2>4. Snapshot(r) \in Seq(C \cup {NoCrumb}) /\ Len(Snapshot(r)) = maxSize
    <3>1. Snapshot(r) \in Seq(C \cup {NoCrumb})
      BY <2>1, <2>2, <2>3
    <3>2. Len(Snapshot(r)) = Len(old) + Len(new)
      BY ONLY <2>1, <2>2, <2>3, ConcatProperties
    <3> QED
      BY <1>0, <2>1, <2>2, <3>1, <3>2
  <2>5. ASSUME NEW i \in 1..maxSize PROVE Snapshot(r)[i] = r.items[SlotOf(r, i)]
    <3>1. CASE i <= maxSize - r.position
      <4>1. Snapshot(r)[i] = old[i]
        BY <1>0, <2>1, <2>2, <2>3, <3>1
      <4>2. i \in 1..(maxSize - r.position)
        BY <1>0, <3>1
      <4>3. old[i] = r.items[r.position + i - 1]
        BY <2>1, <4>2
      <4> QED
        BY <1>0, <1>2, <3>1, <4>1, <4>3 DEF SlotOf
    <3>2. CASE i > maxSize - r.position
      <4>1. Snapshot(r)[i] = new[i - (maxSize - r.position)]
        BY <1>0, <2>1, <2>2, <2>3, <3>2
      <4>2. i - (maxSize - r.position) \in 1..(r.position - 0)
        BY <1>0, <3>2
      <4>3. new[i - (maxSize - r.position)]
              = r.items[0 + (i - (maxSize - r.position)) - 1]
        BY <2>2, <4>2
      <4> QED
        BY <1>0, <1>2, <3>2, <4>1, <4>3 DEF SlotOf
    <3> QED
      BY <1>0, <3>1, <3>2
  <2> QED
    BY <1>2, <2>4, <2>5 DEF Size
<1> QED
  BY <1>1, <1>2 DEF Rings

-----------------------------------------------------------------------------
\* The position after an Add, without the modulo.
LEMMA NextPosition ==
  ASSUME NEW p \in 0..(maxSize - 1)
  PROVE  (p + 1) % maxSize = IF p + 1 = maxSize THEN 0 ELSE p + 1
<1> USE CapacityIsPositive
<1>1. CASE p + 1 = maxSize
  BY <1>1
<1>2. CASE p + 1 < maxSize
  BY <1>2
<1> QED
  BY <1>1, <1>2

LEMMA AddIsRing ==
  ASSUME NEW C, NEW r \in Rings(C), NEW b \in C
  PROVE  /\ Add(r, b) \in Rings(C)
         /\ Add(r, b).items = [r.items EXCEPT ![r.position] = b]
         /\ Add(r, b).position = IF r.position + 1 = maxSize THEN 0
                                 ELSE r.position + 1
         /\ Add(r, b).full <=> r.full \/ r.position + 1 = maxSize
<1>1. r.position \in 0..(maxSize - 1) /\ r.full \in BOOLEAN
  BY DEF Rings
<1>2. (r.position + 1) % maxSize
        = IF r.position + 1 = maxSize THEN 0 ELSE r.position + 1
  BY <1>1, NextPosition
<1>3. (r.position + 1) % maxSize \in 0..(maxSize - 1)
  BY <1>1, <1>2, CapacityIsPositive
<1>4. (r.position + 1) % maxSize = 0 <=> r.position + 1 = maxSize
  BY <1>1, <1>2, CapacityIsPositive
<1>5. [r.items EXCEPT ![r.position] = b] \in [0..(maxSize - 1) -> C \cup {NoCrumb}]
  BY <1>1 DEF Rings
<1> QED
  BY <1>1, <1>2, <1>3, <1>4, <1>5 DEF Add, Rings

\* After an Add the Snapshot is the old one with the breadcrumb at its end
\* and, if it was full, without its head, wherever the ring wraps around.
THEOREM AddRecords ==
  ASSUME NEW C, NEW r \in Rings(C), NEW b \in C
  PROVE  Snapshot(Add(r, b)) = NewestOf(Append(Snapshot(r), b))
<1> DEFINE s == Snapshot(r)
           a == Add(r, b)
           t == NewestOf(Append(s, b))
<1> SUFFICES Snapshot(a) = t
  OBVIOUS
<1> USE CapacityIsPositive
<1>0. r.position \in 0..(maxSize - 1) /\ r.full \in BOOLEAN
  BY DEF Rings
<1>1. /\ a \in Rings(C)
      /\ a.items = [r.items EXCEPT ![r.position] = b]
      /\ a.position = IF r.position + 1 = maxSize THEN 0 ELSE r.position + 1
      /\ a.full <=> r.full \/ r.position + 1 = maxSize
  BY AddIsRing
<1>2. /\ s \in Seq(C \cup {NoCrumb})
      /\ Len(s) = Size(r)
      /\ \A i \in 1..Size(r) : s[i] = r.items[SlotOf(r, i)]
  BY SnapshotEntries
<1>3. /\ Snapshot(a) \in Seq(C \cup {NoCrumb})
      /\ Len(Snapshot(a)) = Size(a)
      /\ \A i \in 1..Size(a) : Snapshot(a)[i] = a.items[SlotOf(a, i)]
  BY <1>1, SnapshotEntries
<1>4. \A j \in 0..(maxSize - 1) :
        a.items[j] = IF j = r.position THEN b ELSE r.items[j]
  BY <1>0, <1>1 DEF Rings
<1> HIDE DEF s, a
<1>5. CASE r.full
  <2>1. Size(r) = maxSize /\ Size(a) = maxSize /\ a.full
    BY <1>1, <1>5 DEF Size
  <2>2. t = Tail(Append(s, b))
    BY <1>2, <2>1 DEF NewestOf
  <2>3. t \in Seq(C \cup {NoCrumb}) /\ Len(t) = maxSize
    BY <1>2, <2>1, <2>2
  <2>4. \A i \in 1..maxSize : t[i] = IF i = maxSize THEN b ELSE s[i + 1]
    BY <1>2, <2>1, <2>2
  <2>5. ASSUME NEW i \in 1..maxSize PROVE Snapshot(a)[i] = t[i]
    <3>1. CASE i = maxSize
      <4>1. SlotOf(a, i) = r.position
        BY <1>0, <1>1, <2>1, <3>1 DEF SlotOf
      <4> QED
        BY <1>0, <1>3, <1>4, <2>1, <2>4, <3>1, <4>1
    <3>2. CASE i < maxSize
      <4>1. /\ SlotOf(a, i) = SlotOf(r, i + 1)
            /\ SlotOf(a, i) \in 0..(maxSize - 1)
            /\ SlotOf(a, i) # r.position
        BY <1>0, <1>1, <1>5, <2>1, <3>2 DEF SlotOf
      <4>2. Snapshot(a)[i] = r.items[SlotOf(r, i + 1)]
        BY <1>3, <1>4, <2>1, <4>1
      <4>3. s[i + 1] = r.items[SlotOf(r, i + 1)]
        BY <1>2, <2>1, <3>2
      <4> QED
        BY <2>4, <3>2, <4>2, <4>3
    <3> QED
      BY <3>1, <3>2
  <2> HIDE DEF t
  <2> QED
    BY <1>3, <2>1, <2>3, <2>5
<1>6. CASE ~r.full
  <2>1. Size(r) = r.position /\ Size(a) = r.position + 1
    BY <1>0, <1>1, <1>6 DEF Size
  <2>2. t = Append(s, b)
    BY <1>0, <1>2, <2>1 DEF NewestOf
  <2>3. t \in Seq(C \cup {NoCrumb}) /\ Len(t) = r.position + 1
    BY <1>2, <2>1, <2>2
  <2>4. \A i \in 1..(r.position + 1) :
          t[i] = IF i = r.position + 1 THEN b ELSE s[i]
    BY <1>0, <1>2, <2>1, <2>2
  <2>5. ASSUME NEW i \in 1..(r.position + 1) PROVE Snapshot(a)[i] = t[i]
    <3>1. SlotOf(a, i) = i - 1
      BY <1>0, <1>1, <1>6 DEF SlotOf
    <3>2. Snapshot(a)[i] = IF i - 1 = r.position THEN b ELSE r.items[i - 1]
      BY <1>0, <1>3, <1>4, <2>1, <3>1
    <3>3. i # r.position + 1 => s[i] = r.items[i - 1]
      BY <1>0, <1>2, <1>6, <2>1 DEF SlotOf
    <3> QED
      BY <1>0, <2>4, <3>2, <3>3
  <2> HIDE DEF t
  <2> QED
    BY <1>3, <2>1, <2>3, <2>5
<1> QED
  BY <1>0, <1>5, <1>6

\* After a Clear it is empty, although the slots keep their breadcrumbs.
THEOREM ClearForgets ==
  ASSUME NEW C, NEW r \in Rings(C)
  PROVE  Clear(r) \in Rings(C) /\ Snapshot(Clear(r)) = <<>>
<1>1. Clear(r) \in Rings(C) /\ Clear(r).position = 0 /\ Clear(r).full = FALSE
  BY CapacityIsPositive DEF Clear, Rings
<1>2. Len(Snapshot(Clear(r))) = 0 /\ Snapshot(Clear(r)) \in Seq(C \cup {NoCrumb})
  BY <1>1, SnapshotEntries DEF Size
<1> QED
  BY <1>1, <1>2

LEMMA NewRingIsEmpty ==
  ASSUME NEW C
  PROVE  NewBreadcrumbRing \in Rings(C) /\ Snapshot(NewBreadcrumbRing) = <<>>
<1>1. /\ NewBreadcrumbRing \in Rings(C)
      /\ NewBreadcrumbRing.position = 0
      /\ NewBreadcrumbRing.full = FALSE
  BY CapacityIsPositive DEF NewBreadcrumbRing, Rings
<1>2. /\ Len(Snapshot(NewBreadcrumbRing)) = 0
      /\ Snapshot(NewBreadcrumbRing) \in Seq(C \cup {NoCrumb})
  BY <1>1, SnapshotEntries DEF Size
<1> QED
  BY <1>1, <1>2
=============================================================================
