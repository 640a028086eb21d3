------------------------------- MODULE Trail -------------------------------
(***************************************************************************)
(* What a breadcrumb trail promises, without saying how it is kept: the    *)
(* newest Capacity breadcrumbs added since the last Clear, oldest first.   *)
(***************************************************************************)
EXTENDS Integers, Sequences

CONSTANTS Crumbs, Capacity

VARIABLE trail

Newest(s) == IF Len(s) > Capacity THEN Tail(s) ELSE s

TrailInit == trail = <<>>

Record(b) == trail' = Newest(Append(trail, b))

Forget == trail' = <<>>

TrailNext == (\E b \in Crumbs : Record(b)) \/ Forget

TrailSpec == TrailInit /\ [][TrailNext]_trail
=============================================================================
