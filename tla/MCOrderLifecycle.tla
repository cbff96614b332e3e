-------------------------- MODULE MCOrderLifecycle --------------------------
(* Three checkouts: a transfer order, the same cart retried with its key and   *)
(* paid in cash, and a cash order on another cart.  Together the carts hold    *)
(* more than is on hand.                                                       *)
EXTENDS OrderLifecycle

MCRequests == {"o1", "o2", "o3"}
MCCarts    == {"c1", "c2"}
MCCartOf   == [r \in MCRequests |-> IF r = "o3" THEN "c2" ELSE "c1"]
MCKeyOf    == [r \in MCRequests |-> IF r = "o3" THEN "nokey" ELSE "k"]
MCMethodOf == [r \in MCRequests |-> IF r = "o1" THEN "bank_transfer" ELSE "cod"]
MCQtyOf    == [c \in MCCarts |-> IF c = "c1" THEN 2 ELSE 1]
=============================================================================
