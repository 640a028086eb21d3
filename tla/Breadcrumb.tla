----------------------------- MODULE Breadcrumb -----------------------------
(***************************************************************************)
(* pkg/payload/breadcrumb.go: the ring buffer of breadcrumbs.  A ring is   *)
(* a record, so that a module may keep several; every method runs under    *)
(* the ring's mutex and is one step.                                       *)
(***************************************************************************)
EXTENDS Integers, Sequences

CONSTANTS
  NoCrumb,        \* the zero value in a slot never written
  RequestedSize   \* the argument of NewBreadcrumbRing

ASSUME BreadcrumbAssumption == RequestedSize \in Int

maxSize == IF RequestedSize <= 0 THEN 100 ELSE RequestedSize

NewBreadcrumbRing ==
  [items |-> [i \in 0..(maxSize - 1) |-> NoCrumb], position |-> 0, full |-> FALSE]

\* Mutant of Add: full is recomputed, not latched.
AddUnlatched(r, b) ==
  LET next == (r.position + 1) % maxSize
  IN  [items |-> [r.items EXCEPT ![r.position] = b],
       position |-> next,
       full |-> next = 0]

\* Mutant of Add: the position wraps around only when the next one is added.
AddWrappingLate(r, b) ==
  LET slot == r.position % maxSize
  IN  [items |-> [r.items EXCEPT ![slot] = b],
       position |-> slot + 1,
       full |-> r.full \/ slot + 1 = maxSize]

Add(r, b) ==
  LET next == (r.position + 1) % maxSize
  IN  [items |-> [r.items EXCEPT ![r.position] = b],
       position |-> next,
       full |-> r.full \/ next = 0]

\* The Go slice items[from:to].
Slice(r, from, to) == [i \in 1..(to - from) |-> r.items[from + i - 1]]

Snapshot(r) ==
  IF r.full
  THEN Slice(r, r.position, maxSize) \o Slice(r, 0, r.position)
  ELSE Slice(r, 0, r.position)

\* The slots keep their old breadcrumbs.
Clear(r) == [items |-> r.items, position |-> 0, full |-> FALSE]

Size(r) == IF r.full THEN maxSize ELSE r.position
=============================================================================
