------------------------------ MODULE MCLoyalty ------------------------------
(* Two orders of one customer who has two points, and may use the coupon once. *)
EXTENDS Loyalty, TLC

CONSTANTS o1, o2, d1, d2, u1
MCUsers     == {u1}
MCCheckouts == {o1, o2}
MCOwnerOf   == [o \in MCCheckouts |-> u1]
MCEarns     == (o1 :> 1) @@ (o2 :> 2)
MCWanted    == (o1 :> 2) @@ (o2 :> 1)
MCCeiling   == (o1 :> 3) @@ (o2 :> 2)
MCOpening   == [u \in MCUsers |-> 2]
MCDrains    == {d1, d2}
Alike       == Permutations(MCDrains)
=============================================================================
