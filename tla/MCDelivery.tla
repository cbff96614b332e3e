----------------------------- MODULE MCDelivery -----------------------------
(* One cash order that two drivers may pass to each other, each with a shift;   *)
(* and that order with a pickup-point order in one shift's van.                *)
EXTENDS Delivery, TLC

MCQty == [o \in Orders |-> 1]

\* The drivers are alike, in the code and in the bound below.
DriversAlike == Permutations(Drivers)

\* Bound: either the second order waits, and one of the two units stays at the hub;
\* or one of the drivers does, there is one shift, no dispatch row is lost, no
\* receipt is confirmed and no cash handed in.
Off(d) == (\A o \in Orders : driver[o] # d) /\ \A s \in Shifts : shift[s].driver # d
Second(o) == task[o] = "none" /\ order[o] = "confirmed" /\ o \in ready
InScope ==
  \/ Second("o2") /\ hub > 0
  \/ /\ opened < 2 /\ desk = {} /\ receiving = {}
     /\ \A o \in Orders : /\ task[o] = "none" => o \in ready
                          /\ order[o] # "confirmed_received" /\ custody[o] # "remitted"
     /\ \E d \in Drivers : Off(d)
=============================================================================
