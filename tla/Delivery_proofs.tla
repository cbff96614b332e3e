--------------------------- MODULE Delivery_proofs ---------------------------
(* The last mile, proved for any orders, drivers, vans, stock and shifts.  The  *)
(* invariant is about one order at a time: everything the properties say of an  *)
(* order follows from its own task, proof, hand-over and cash.                  *)
EXTENDS Delivery, Sums, TLAPS

\* What holds of each order: the first three lines are what is left of the guards
\* that a worker or a person evaluated earlier.
OrderOK(o) ==
  /\ o \in recall => order[o] \in Closed
  /\ o \in receiving => o \in pods
  /\ o \in desk => custody[o] # "none"
  /\ order[o] \in Closed \/
       /\ task[o] = "picked_up" => order[o] = "picked_up"
       /\ task[o] \in {"en_route", "arrived"} => order[o] = "en_route"
       /\ task[o] = "delivered" => order[o] = IF o \in Pickup THEN "en_route" ELSE "delivered"
  /\ task[o] = "delivered" => o \in pods
  /\ order[o] \in {"delivered", "confirmed_received"} => o \in pods
  /\ custody[o] # "none" => o \in pods /\ o \in Cod
  /\ handed[o] = Booked(o)
  /\ collected[o] = IF custody[o] = "none" THEN 0 ELSE 1
  /\ task[o] \in Underway /\ driver[o] = NoDriver => order[o] \in Closed
  /\ o \in announced => custody[o] = "remitted"

\* A shift that was started has a van.
ShiftOK(s) == shift[s].status # "none" => shift[s].van \in Vans

IInv == /\ TypeOK
        /\ \A o \in Orders : OrderOK(o)
        /\ \A s \in Shifts : ShiftOK(s)

-----------------------------------------------------------------------------
(* The helpers the actions are written with.                                  *)

\* What a step must leave alone for an order to stay as it should be.
LEMMA OrderKept ==
  ASSUME NEW o \in Orders, OrderOK(o),
         order'[o] = order[o], task'[o] = task[o], driver'[o] = driver[o],
         source'[o] = source[o], handed'[o] = handed[o],
         custody'[o] = custody[o], collected'[o] = collected[o],
         o \in recall' => o \in recall, o \in receiving' => o \in receiving,
         o \in desk' => o \in desk, o \in announced' => o \in announced,
         o \in pods' <=> o \in pods
  PROVE  OrderOK(o)'
BY DEF OrderOK, Booked

\* Assigning writes one order's driver and shift.
LEMMA AssignOne ==
  ASSUME TypeOK, NEW o \in Orders, NEW candidates \in SUBSET Drivers, Assign(o, candidates)
  PROVE  /\ driver' \in [Orders -> Drivers \union {NoDriver}]
         /\ shiftOf' \in [Orders -> {NoShift} \union Shifts]
         /\ \A q \in Orders : q # o => driver'[q] = driver[q]
BY DEF Assign, TypeOK, OpenShifts, NoDriver, NoShift

\* Mirroring moves one order, if any, to the stop that is mirrored, and only
\* when the order is not closed.
LEMMA MirrorOne ==
  ASSUME TypeOK, NEW o \in Orders, NEW stop \in TaskStatuses, order' = Mirrored(o, stop)
  PROVE  /\ order' \in [Orders -> OrderStatuses]
         /\ \A q \in Orders : q # o => order'[q] = order[q]
         /\ order[o] \in Closed => order'[o] = order[o]
         /\ order[o] \notin Closed =>
              order'[o] = IF Mirrorable(o, stop) THEN stop ELSE order[o]
BY DEF Mirrored, Mirrorable, MirrorFrom, TypeOK, OrderStatuses, Closed

\* A hand-over takes the order's units from the shift's van, or records nothing.
LEMMA HandOverOne ==
  ASSUME TypeOK, NEW o \in Orders, HandOver(o)
  PROVE  /\ source' \in [Orders -> Vans \union {NoVan}] /\ van' \in [Vans -> Nat]
         /\ handed' \in [Orders -> Nat]
         /\ \A q \in Orders : q # o => source'[q] = source[q] /\ handed'[q] = handed[q]
         /\ handed'[o] = handed[o] + IF source'[o] = NoVan THEN 0 ELSE Qty[o]
<1> USE DeliveryAssumption DEF DeliveryAssumption
<1> DEFINE v == HandOverVan(o)
<1>1. v \in Vans \union {NoVan}
  BY DEF HandOverVan, TypeOK, ShiftRows, NoShift
<1>2. source' = [source EXCEPT ![o] = v]
  BY DEF HandOver
<1>3. CASE v = NoVan
  <2>1. UNCHANGED <<van, handed>>
    BY <1>3 DEF HandOver
  <2> QED
    BY <1>1, <1>2, <1>3, <2>1 DEF TypeOK
<1>4. CASE v # NoVan
  <2>1. /\ van[v] >= Qty[o] /\ van' = [van EXCEPT ![v] = @ - Qty[o]]
        /\ handed' = [handed EXCEPT ![o] = @ + Qty[o]]
    BY <1>4 DEF HandOver
  <2>2. v \in Vans
    BY <1>1, <1>4
  <2> HIDE DEF v
  <2>3. van' \in [Vans -> Nat]
    <3>1. van[v] - Qty[o] \in Nat
      BY <2>1, <2>2 DEF TypeOK
    <3> QED
      BY <2>1, <2>2, <3>1 DEF TypeOK
  <2> QED
    BY <1>1, <1>2, <1>4, <2>1, <2>2, <2>3 DEF TypeOK
<1> QED
  BY <1>3, <1>4

-----------------------------------------------------------------------------
(* The order's side.                                                          *)

LEMMA CancelInv ==
  ASSUME IInv, NEW o \in Orders, Cancel(o)
  PROVE  IInv'
<1> USE DEF IInv, Cancel, taskVars, stockVars, podVars, cashVars
<1>1. TypeOK'
  BY DEF TypeOK, OrderStatuses
<1>2. ASSUME NEW q \in Orders PROVE OrderOK(q)'
  <2>1. CASE q = o
    BY <2>1 DEF OrderOK, Booked, Closed, TypeOK
  <2>2. CASE q # o
    BY <2>2, OrderKept DEF TypeOK
  <2> QED
    BY <2>1, <2>2
<1>3. ASSUME NEW s \in Shifts PROVE ShiftOK(s)'
  BY DEF ShiftOK
<1> QED
  BY <1>1, <1>2, <1>3

LEMMA BeginReceiptInv ==
  ASSUME IInv, NEW o \in Orders, BeginReceipt(o)
  PROVE  IInv'
<1> USE DEF IInv, BeginReceipt, taskVars, stockVars, podVars, cashVars
<1>1. TypeOK'
  BY DEF TypeOK
<1>2. ASSUME NEW q \in Orders PROVE OrderOK(q)'
  BY DEF OrderOK, Booked
<1>3. ASSUME NEW s \in Shifts PROVE ShiftOK(s)'
  BY DEF ShiftOK
<1> QED
  BY <1>1, <1>2, <1>3

LEMMA CommitReceiptInv ==
  ASSUME IInv, NEW o \in Orders, CommitReceipt(o)
  PROVE  IInv'
<1> USE DEF IInv, CommitReceipt, taskVars, stockVars, podVars, cashVars
<1>1. TypeOK'
  BY DEF TypeOK, OrderStatuses
<1>2. ASSUME NEW q \in Orders PROVE OrderOK(q)'
  <2>1. CASE q = o
    BY <2>1 DEF OrderOK, Booked, Closed, TypeOK
  <2>2. CASE q # o
    BY <2>2, OrderKept DEF TypeOK
  <2> QED
    BY <2>1, <2>2
<1>3. ASSUME NEW s \in Shifts PROVE ShiftOK(s)'
  BY DEF ShiftOK
<1> QED
  BY <1>1, <1>2, <1>3

LEMMA DispatchOrderInv ==
  ASSUME IInv, NEW o \in Orders, DispatchOrder(o)
  PROVE  IInv'
<1> USE DEF IInv
<1>u. /\ ready' = ready \ {o} /\ task' = [task EXCEPT ![o] = "assigned"]
      /\ UNCHANGED <<order, recall, receiving, shift, opened, hub, van, pods, source, handed,
                     custody, holder, collected, announced, desk>>
  BY DEF DispatchOrder, stockVars, podVars, cashVars
<1>a. Assign(o, Eligible(o)) /\ Eligible(o) \in SUBSET Drivers
  BY DEF DispatchOrder, Eligible
<1>d. /\ driver' \in [Orders -> Drivers \union {NoDriver}]
      /\ shiftOf' \in [Orders -> {NoShift} \union Shifts]
      /\ \A q \in Orders : q # o => driver'[q] = driver[q]
  BY <1>a, AssignOne
<1>1. TypeOK'
  BY <1>u, <1>d DEF TypeOK, TaskStatuses
<1>2. ASSUME NEW q \in Orders PROVE OrderOK(q)'
  <2>1. CASE q = o
    BY <2>1, <1>u DEF OrderOK, Booked, Underway, TypeOK
  <2>2. CASE q # o
    BY <2>2, <1>u, <1>d, OrderKept DEF TypeOK
  <2> QED
    BY <2>1, <2>2
<1>3. ASSUME NEW s \in Shifts PROVE ShiftOK(s)'
  BY <1>u DEF ShiftOK
<1> QED
  BY <1>1, <1>2, <1>3

\* A recall strips the driver from a task that is under way, and that is why its
\* order must be closed by then.
LEMMA RecallTaskInv ==
  ASSUME IInv, NEW o \in Orders, RecallTask(o)
  PROVE  IInv'
<1> USE DEF IInv, RecallTask, taskVars, stockVars, podVars, cashVars
<1>1. TypeOK'
  BY DEF TypeOK, NoShift, NoDriver
<1>2. ASSUME NEW q \in Orders PROVE OrderOK(q)'
  <2>1. CASE q = o
    BY <2>1 DEF OrderOK, Booked, TypeOK
  <2>2. CASE q # o
    BY <2>2, OrderKept DEF TypeOK
  <2> QED
    BY <2>1, <2>2
<1>3. ASSUME NEW s \in Shifts PROVE ShiftOK(s)'
  BY DEF ShiftOK
<1> QED
  BY <1>1, <1>2, <1>3

LEMMA LoseEventInv ==
  ASSUME IInv, NEW o \in Orders, LoseEvent(o)
  PROVE  IInv'
<1> USE DEF IInv, LoseEvent, taskVars, stockVars, podVars, cashVars
<1>1. TypeOK'
  BY DEF TypeOK
<1>2. ASSUME NEW q \in Orders PROVE OrderOK(q)'
  BY OrderKept
<1>3. ASSUME NEW s \in Shifts PROVE ShiftOK(s)'
  BY DEF ShiftOK
<1> QED
  BY <1>1, <1>2, <1>3

-----------------------------------------------------------------------------
(* The driver's calls.                                                        *)

LEMMA AcceptInv ==
  ASSUME IInv, NEW o \in Orders, Accept(o)
  PROVE  IInv'
<1> USE DEF IInv, Accept, orderVars, stockVars, podVars, cashVars
<1>1. TypeOK'
  BY DEF TypeOK, TaskStatuses, Underway
<1>2. ASSUME NEW q \in Orders PROVE OrderOK(q)'
  <2>1. CASE q = o
    BY <2>1 DEF OrderOK, Booked, TypeOK
  <2>2. CASE q # o
    BY <2>2, OrderKept DEF TypeOK
  <2> QED
    BY <2>1, <2>2
<1>3. ASSUME NEW s \in Shifts PROVE ShiftOK(s)'
  BY DEF ShiftOK
<1> QED
  BY <1>1, <1>2, <1>3

LEMMA DeclineInv ==
  ASSUME IInv, NEW o \in Orders, Decline(o)
  PROVE  IInv'
<1> USE DEF IInv
<1>u. /\ task[o] = "assigned"
      /\ UNCHANGED <<order, ready, recall, receiving, task, shift, opened, hub, van, pods, source,
                     handed, custody, holder, collected, announced, desk>>
  BY DEF Decline, orderVars, stockVars, podVars, cashVars
<1>a. Assign(o, Eligible(o) \ {driver[o]}) /\ Eligible(o) \ {driver[o]} \in SUBSET Drivers
  BY DEF Decline, Eligible
<1>d. /\ driver' \in [Orders -> Drivers \union {NoDriver}]
      /\ shiftOf' \in [Orders -> {NoShift} \union Shifts]
      /\ \A q \in Orders : q # o => driver'[q] = driver[q]
  BY <1>a, AssignOne
<1>1. TypeOK'
  BY <1>u, <1>d DEF TypeOK
<1>2. ASSUME NEW q \in Orders PROVE OrderOK(q)'
  <2>1. CASE q = o
    BY <2>1, <1>u DEF OrderOK, Booked, Underway, TypeOK
  <2>2. CASE q # o
    BY <2>2, <1>u, <1>d, OrderKept
  <2> QED
    BY <2>1, <2>2
<1>3. ASSUME NEW s \in Shifts PROVE ShiftOK(s)'
  BY <1>u DEF ShiftOK
<1> QED
  BY <1>1, <1>2, <1>3

\* The task moves one stop along an edge and its order follows it.
LEMMA TransitionInv ==
  ASSUME IInv, NEW o \in Orders, Transition(o)
  PROVE  IInv'
<1> USE DEF IInv
<1>u. /\ driver[o] # NoDriver
      /\ UNCHANGED <<ready, recall, receiving, driver, shiftOf, shift, opened, hub, van, pods,
                     source, handed, custody, holder, collected, announced, desk>>
  BY DEF Transition, stockVars, podVars, cashVars
<1>s. PICK stop \in TaskStatuses : /\ <<task[o], stop>> \in Edges
                                  /\ task' = [task EXCEPT ![o] = stop]
                                  /\ order' = Mirrored(o, stop)
  BY DEF Transition
<1>m. /\ order' \in [Orders -> OrderStatuses]
      /\ \A q \in Orders : q # o => order'[q] = order[q]
      /\ order[o] \in Closed => order'[o] = order[o]
      /\ order[o] \notin Closed => order'[o] = IF Mirrorable(o, stop) THEN stop ELSE order[o]
  BY <1>s, MirrorOne
<1>e. \/ task[o] = "accepted"  /\ stop = "at_pickup"
      \/ task[o] = "at_pickup" /\ stop = "picked_up"
      \/ task[o] = "picked_up" /\ stop = "en_route"
      \/ task[o] = "en_route"  /\ stop = "arrived"
  BY <1>s DEF Edges
<1>1. TypeOK'
  BY <1>u, <1>s, <1>m DEF TypeOK
<1>2. ASSUME NEW q \in Orders PROVE OrderOK(q)'
  <2>1. CASE q = o
    <3>1. task'[o] = stop
      BY <1>s DEF TypeOK
    <3>2. order[o] \in OrderStatuses
      BY DEF TypeOK
    <3> QED
      BY <2>1, <3>1, <3>2, <1>u, <1>m, <1>e
      DEF OrderOK, Booked, Mirrorable, Closed, OrderStatuses, Underway
  <2>2. CASE q # o
    <3>1. task'[q] = task[q]
      BY <2>2, <1>s DEF TypeOK
    <3> QED
      BY <2>2, <3>1, <1>u, <1>m, OrderKept
  <2> QED
    BY <2>1, <2>2
<1>3. ASSUME NEW s \in Shifts PROVE ShiftOK(s)'
  BY <1>u DEF ShiftOK
<1> QED
  BY <1>1, <1>2, <1>3

\* The proof is new, so nothing was handed over or collected before.
LEMMA CapturePodInv ==
  ASSUME IInv, NEW o \in Orders, CapturePod(o)
  PROVE  IInv'
<1> USE DEF IInv
<1>u. /\ task[o] = "arrived" /\ driver[o] # NoDriver /\ o \notin pods
      /\ pods' = pods \union {o} /\ task' = [task EXCEPT ![o] = "delivered"]
      /\ UNCHANGED <<ready, recall, receiving, driver, shiftOf, shift, opened, hub, announced,
                     desk>>
  BY DEF CapturePod
<1>m. /\ order' \in [Orders -> OrderStatuses]
      /\ \A q \in Orders : q # o => order'[q] = order[q]
      /\ order[o] \in Closed => order'[o] = order[o]
      /\ order[o] \notin Closed =>
           order'[o] = IF o \in Pickup THEN order[o] ELSE "delivered"
  BY MirrorOne DEF CapturePod, TaskStatuses, OnTheRoad, Mirrorable
<1>h. /\ source' \in [Orders -> Vans \union {NoVan}] /\ van' \in [Vans -> Nat]
      /\ handed' \in [Orders -> Nat]
      /\ \A q \in Orders : q # o => source'[q] = source[q] /\ handed'[q] = handed[q]
      /\ handed'[o] = handed[o] + IF source'[o] = NoVan THEN 0 ELSE Qty[o]
  BY HandOverOne DEF CapturePod
<1>c. \/ /\ o \in Cod /\ custody' = [custody EXCEPT ![o] = "held"]
         /\ holder' = [holder EXCEPT ![o] = driver[o]]
         /\ collected' = [collected EXCEPT ![o] = @ + 1]
      \/ UNCHANGED <<custody, holder, collected>>
  BY DEF CapturePod, Collect
<1>1. TypeOK'
  <2>1. /\ custody' \in [Orders -> {"none", "held", "remitted"}]
        /\ holder' \in [Orders -> Drivers \union {NoDriver}]
        /\ collected' \in [Orders -> Nat]
    BY <1>c DEF TypeOK
  <2>2. task' \in [Orders -> TaskStatuses] /\ pods' \subseteq Orders
    BY <1>u DEF TypeOK, TaskStatuses, OnTheRoad
  <2> QED
    BY <2>1, <2>2, <1>u, <1>m, <1>h DEF TypeOK
<1>2. ASSUME NEW q \in Orders PROVE OrderOK(q)'
  <2>1. CASE q = o
    <3>1. custody[o] = "none" /\ collected[o] = 0 /\ handed[o] = 0
      BY <1>u DEF OrderOK, Booked
    <3>2. /\ custody'[o] \in {"none", "held"} /\ (custody'[o] # "none" => o \in Cod)
          /\ collected'[o] = IF custody'[o] = "none" THEN 0 ELSE 1
      BY <1>c, <3>1 DEF TypeOK
    <3>3. handed'[o] = IF source'[o] = NoVan THEN 0 ELSE Qty[o]
      BY <1>h, <3>1, DeliveryAssumption DEF DeliveryAssumption
    <3>4. task'[o] = "delivered" /\ o \in pods' /\ o \notin desk' /\ o \notin announced'
      BY <1>u, <3>1 DEF OrderOK, TypeOK
    <3>5. order[o] \notin Closed => order[o] = "en_route"
      BY <1>u DEF OrderOK
    <3> QED
      BY <2>1, <3>2, <3>3, <3>4, <3>5, <1>u, <1>m DEF OrderOK, Booked, Underway
  <2>2. CASE q # o
    <3>1. task'[q] = task[q] /\ custody'[q] = custody[q] /\ collected'[q] = collected[q]
      BY <2>2, <1>u, <1>c DEF TypeOK
    <3> QED
      BY <2>2, <3>1, <1>u, <1>m, <1>h, OrderKept
  <2> QED
    BY <2>1, <2>2
<1>3. ASSUME NEW s \in Shifts PROVE ShiftOK(s)'
  BY <1>u DEF ShiftOK
<1> QED
  BY <1>1, <1>2, <1>3

LEMMA FailTaskInv ==
  ASSUME IInv, NEW o \in Orders, FailTask(o)
  PROVE  IInv'
<1> USE DEF IInv, FailTask, orderVars, stockVars, podVars, cashVars
<1>1. TypeOK'
  BY DEF TypeOK, TaskStatuses
<1>2. ASSUME NEW q \in Orders PROVE OrderOK(q)'
  <2>1. CASE q = o
    BY <2>1 DEF OrderOK, Booked, Underway, TypeOK
  <2>2. CASE q # o
    BY <2>2, OrderKept DEF TypeOK
  <2> QED
    BY <2>1, <2>2
<1>3. ASSUME NEW s \in Shifts PROVE ShiftOK(s)'
  BY DEF ShiftOK
<1> QED
  BY <1>1, <1>2, <1>3

LEMMA ReassignInv ==
  ASSUME IInv, NEW o \in Orders, NEW d \in Drivers, Reassign(o, d)
  PROVE  IInv'
<1> USE DEF IInv, Reassign, orderVars, stockVars, podVars, cashVars
<1>1. TypeOK'
  BY DEF TypeOK, TaskStatuses
<1>2. ASSUME NEW q \in Orders PROVE OrderOK(q)'
  <2>1. CASE q = o
    BY <2>1 DEF OrderOK, Booked, Underway, TypeOK
  <2>2. CASE q # o
    BY <2>2, OrderKept DEF TypeOK
  <2> QED
    BY <2>1, <2>2
<1>3. ASSUME NEW s \in Shifts PROVE ShiftOK(s)'
  BY DEF ShiftOK
<1> QED
  BY <1>1, <1>2, <1>3

-----------------------------------------------------------------------------
(* Shifts and cash.                                                           *)

LEMMA StartShiftInv ==
  ASSUME IInv, NEW d \in Drivers, NEW v \in Vans, StartShift(d, v)
  PROVE  IInv'
<1> USE DeliveryAssumption DEF DeliveryAssumption, IInv
<1>u. /\ opened < MaxShifts /\ opened' = opened + 1
      /\ shift' = [shift EXCEPT ![opened + 1] =
                     [status |-> "open", driver |-> d, van |-> v, variance |-> FALSE]]
      /\ UNCHANGED <<order, ready, recall, receiving, task, driver, shiftOf, pods, source, handed,
                     custody, holder, collected, announced, desk>>
  BY DEF StartShift, orderVars, taskVars, podVars, cashVars
<1>l. PICK load \in 0 .. hub : hub' = hub - load /\ van' = [van EXCEPT ![v] = @ + load]
  BY DEF StartShift
<1>1. TypeOK'
  <2>1. hub' \in Nat /\ van' \in [Vans -> Nat]
    BY <1>l DEF TypeOK
  <2>2. shift' \in [Shifts -> ShiftRows] /\ opened' \in 0 .. MaxShifts
    BY <1>u DEF TypeOK, ShiftRows, Shifts
  <2> QED
    BY <2>1, <2>2, <1>u DEF TypeOK
<1>2. ASSUME NEW q \in Orders PROVE OrderOK(q)'
  BY <1>u, OrderKept
<1>3. ASSUME NEW s \in Shifts PROVE ShiftOK(s)'
  BY <1>u DEF ShiftOK, TypeOK, Shifts
<1> QED
  BY <1>1, <1>2, <1>3

LEMMA ReconcileInv ==
  ASSUME IInv, NEW s \in Shifts, Reconcile(s)
  PROVE  IInv'
<1> USE DEF IInv
<1>u. /\ shift[s].status = "open"
      /\ UNCHANGED <<order, ready, recall, receiving, task, driver, shiftOf, opened, pods, source,
                     handed, custody, holder, collected, announced, desk>>
  BY DEF Reconcile, orderVars, taskVars, podVars, cashVars
<1>v. shift[s].van \in Vans
  BY <1>u DEF ShiftOK
<1>c. PICK counted \in 0 .. van[shift[s].van], listed \in BOOLEAN :
        /\ hub' = hub + counted
        /\ van' = [van EXCEPT ![shift[s].van] = @ - counted]
        /\ shift' = [shift EXCEPT ![s].status = "reconciling",
                                  ![s].variance = listed /\ counted # van[shift[s].van]]
  BY DEF Reconcile
<1>1. TypeOK'
  <2>1. van[shift[s].van] \in Nat
    BY <1>v DEF TypeOK
  <2>2. hub' \in Nat /\ van' \in [Vans -> Nat]
    <3>1. counted \in Nat /\ van[shift[s].van] - counted \in Nat
      BY <2>1
    <3> QED
      BY <1>c, <1>v, <3>1 DEF TypeOK
  <2>3. shift' \in [Shifts -> ShiftRows]
    <3>1. (listed /\ counted # van[shift[s].van]) \in BOOLEAN
      OBVIOUS
    <3>2. PICK b \in BOOLEAN : shift' = [shift EXCEPT ![s].status = "reconciling",
                                                    ![s].variance = b]
      BY <1>c, <3>1
    <3>3. shift \in [Shifts -> ShiftRows]
      BY DEF TypeOK
    <3>4. [shift[s] EXCEPT !.status = "reconciling", !.variance = b] \in ShiftRows
      BY ONLY <3>3 DEF ShiftRows
    <3>5. shift' = [shift EXCEPT ![s] = [shift[s] EXCEPT !.status = "reconciling", !.variance = b]]
      BY <3>2
    <3> QED
      BY ONLY <3>3, <3>4, <3>5
  <2> QED
    BY <2>2, <2>3, <1>u DEF TypeOK
<1>2. ASSUME NEW q \in Orders PROVE OrderOK(q)'
  BY <1>u, OrderKept
<1>3. ASSUME NEW t \in Shifts PROVE ShiftOK(t)'
  BY <1>c, <1>u DEF ShiftOK, TypeOK, ShiftRows
<1> QED
  BY <1>1, <1>2, <1>3

LEMMA CloseShiftInv ==
  ASSUME IInv, NEW s \in Shifts, CloseShift(s)
  PROVE  IInv'
<1> USE DEF IInv, CloseShift, orderVars, taskVars, podVars, cashVars
<1>1. TypeOK'
  <2>1. shift' \in [Shifts -> ShiftRows]
    <3>1. shift \in [Shifts -> ShiftRows]
      BY DEF TypeOK
    <3>2. [shift[s] EXCEPT !.status = "closed"] \in ShiftRows
      BY ONLY <3>1 DEF ShiftRows
    <3>3. shift' = [shift EXCEPT ![s] = [shift[s] EXCEPT !.status = "closed"]]
      OBVIOUS
    <3> QED
      BY ONLY <3>1, <3>2, <3>3
  <2> QED
    BY <2>1 DEF TypeOK
<1>2. ASSUME NEW q \in Orders PROVE OrderOK(q)'
  BY OrderKept
<1>3. ASSUME NEW t \in Shifts PROVE ShiftOK(t)'
  BY DEF ShiftOK, TypeOK, ShiftRows
<1> QED
  BY <1>1, <1>2, <1>3

LEMMA RemitInv ==
  ASSUME IInv, NEW d \in Drivers, Remit(d)
  PROVE  IInv'
<1> USE DEF IInv, Remit, orderVars, taskVars, stockVars, podVars
<1>1. TypeOK'
  BY DEF TypeOK
<1>2. ASSUME NEW q \in Orders PROVE OrderOK(q)'
  BY DEF OrderOK, Booked, TypeOK
<1>3. ASSUME NEW s \in Shifts PROVE ShiftOK(s)'
  BY DEF ShiftOK
<1> QED
  BY <1>1, <1>2, <1>3

LEMMA VerifyCashInv ==
  ASSUME IInv, NEW o \in Orders, BeginVerifyCash(o) \/ CommitVerifyCash(o)
  PROVE  IInv'
<1> USE DEF IInv, orderVars, taskVars, stockVars, podVars
<1>1. TypeOK'
  BY DEF BeginVerifyCash, CommitVerifyCash, TypeOK
<1>2. ASSUME NEW q \in Orders PROVE OrderOK(q)'
  <2>1. CASE BeginVerifyCash(o)
    BY <2>1 DEF BeginVerifyCash, OrderOK, Booked, TypeOK
  <2>2. CASE CommitVerifyCash(o)
    BY <2>2 DEF CommitVerifyCash, OrderOK, Booked, TypeOK
  <2> QED
    BY <2>1, <2>2
<1>3. ASSUME NEW s \in Shifts PROVE ShiftOK(s)'
  BY DEF BeginVerifyCash, CommitVerifyCash, ShiftOK
<1> QED
  BY <1>1, <1>2, <1>3

-----------------------------------------------------------------------------
(* The theorems.                                                              *)

\* Every order that waits for dispatch is as it should be.
THEOREM InitInv == Init => IInv
<1> SUFFICES ASSUME Init PROVE IInv
  OBVIOUS
<1> USE DeliveryAssumption DEF DeliveryAssumption, Init
<1>1. TypeOK
  BY DEF TypeOK, OrderStatuses, TaskStatuses, ShiftRows, Shifts, NoShift
<1>2. ASSUME NEW o \in Orders PROVE OrderOK(o)
  BY DEF OrderOK, Booked, Underway
<1>3. ASSUME NEW s \in Shifts PROVE ShiftOK(s)
  BY DEF ShiftOK
<1> QED
  BY <1>1, <1>2, <1>3 DEF IInv

\* The invariant holds in every state the code can reach, for any number of
\* orders, drivers, vans and shifts.
THEOREM Invariance == Spec => []IInv
<1>1. IInv /\ [Next]_vars => IInv'
  <2> SUFFICES ASSUME IInv, [Next]_vars PROVE IInv'
    OBVIOUS
  <2>1. CASE UNCHANGED vars
    <3>1. TypeOK'
      BY <2>1 DEF IInv, TypeOK, vars, orderVars, taskVars, stockVars, podVars, cashVars
    <3>2. ASSUME NEW o \in Orders PROVE OrderOK(o)'
      BY <2>1, OrderKept DEF IInv, vars, orderVars, taskVars, stockVars, podVars, cashVars
    <3>3. ASSUME NEW s \in Shifts PROVE ShiftOK(s)'
      BY <2>1 DEF IInv, ShiftOK, vars, stockVars
    <3> QED
      BY <3>1, <3>2, <3>3 DEF IInv
  <2>2. ASSUME NEW o \in Orders,
               Cancel(o) \/ BeginReceipt(o) \/ CommitReceipt(o) \/ DispatchOrder(o)
                 \/ RecallTask(o) \/ LoseEvent(o)
        PROVE  IInv'
    BY <2>2, CancelInv, BeginReceiptInv, CommitReceiptInv, DispatchOrderInv, RecallTaskInv,
       LoseEventInv
  <2>3. ASSUME NEW o \in Orders,
               Accept(o) \/ Decline(o) \/ Transition(o) \/ CapturePod(o) \/ FailTask(o)
        PROVE  IInv'
    BY <2>3, AcceptInv, DeclineInv, TransitionInv, CapturePodInv, FailTaskInv
  <2>4. ASSUME NEW o \in Orders, NEW d \in Drivers, Reassign(o, d) PROVE IInv'
    BY <2>4, ReassignInv
  <2>5. ASSUME NEW d \in Drivers, NEW v \in Vans, StartShift(d, v) PROVE IInv'
    BY <2>5, StartShiftInv
  <2>6. ASSUME NEW s \in Shifts, Reconcile(s) \/ CloseShift(s) PROVE IInv'
    BY <2>6, ReconcileInv, CloseShiftInv
  <2>7. ASSUME NEW d \in Drivers, Remit(d) PROVE IInv'
    BY <2>7, RemitInv
  <2>8. ASSUME NEW o \in Orders, BeginVerifyCash(o) \/ CommitVerifyCash(o) PROVE IInv'
    BY <2>8, VerifyCashInv
  <2> QED
    BY <2>1, <2>2, <2>3, <2>4, <2>5, <2>6, <2>7, <2>8 DEF Next
<1> QED
  BY <1>1, InitInv, PTL DEF Spec

\* Every variable of the last mile keeps its type, stock quantities their sign.
THEOREM TypeCorrect == Spec => []TypeOK
<1>1. IInv => TypeOK
  BY DEF IInv
<1> QED
  BY <1>1, Invariance, PTL

\* The customer's status is the driver's: mirror_delivery_status never falls
\* behind the task, through reassignments and recalls.
THEOREM MirrorIsExact == Spec => []MirrorKeepsUp
<1>1. IInv => MirrorKeepsUp
  BY DEF IInv, OrderOK, MirrorKeepsUp
<1> QED
  BY <1>1, Invariance, PTL

\* Nothing is delivered, received or paid for at the door without a row in
\* delivery.pods.
THEOREM NoDeliveryWithoutProof == Spec => []DeliveredHasProof
<1>1. IInv => DeliveredHasProof
  BY DEF IInv, OrderOK, DeliveredHasProof
<1> QED
  BY <1>1, Invariance, PTL

\* capture_pod takes the goods and the cash of an order at most once, and the
\* remittance it leads to is announced only for cash that was handed in.
THEOREM GoodsAndCashOnce == Spec => [](ProofSettlesOnce /\ AnnouncedIsRemitted)
<1>1. IInv => ProofSettlesOnce /\ AnnouncedIsRemitted
  BY DEF IInv, OrderOK, ProofSettlesOnce, AnnouncedIsRemitted, TypeOK
<1> QED
  BY <1>1, Invariance, PTL

\* Only recall_task leaves a task under way without a driver.
THEOREM DriverUntilRecalled == Spec => []UnderwayHasDriver
<1>1. IInv => UnderwayHasDriver
  BY DEF IInv, OrderOK, UnderwayHasDriver
<1> QED
  BY <1>1, Invariance, PTL

\* A delivered or failed task restarts from 'assigned' or not at all.
THEOREM FinishedRestartsOnly == Spec => FinishedStaysFinished
<1>1. IInv /\ [Next]_vars =>
        [\A o \in Orders :
           task[o] \in {"delivered", "failed"} /\ task'[o] # task[o] => task'[o] = "assigned"]_vars
  <2> SUFFICES ASSUME IInv, Next, NEW o \in Orders,
                      task[o] \in {"delivered", "failed"}, task'[o] # task[o]
               PROVE  task'[o] = "assigned"
    OBVIOUS
  <2> USE DEF IInv, TypeOK, orderVars, taskVars, stockVars, podVars, cashVars
  <2>1. ASSUME NEW q \in Orders,
               Cancel(q) \/ BeginReceipt(q) \/ CommitReceipt(q) \/ DispatchOrder(q)
                 \/ RecallTask(q) \/ LoseEvent(q)
        PROVE  task'[o] = "assigned"
    BY <2>1 DEF Cancel, BeginReceipt, CommitReceipt, DispatchOrder, RecallTask, LoseEvent
  <2>2. ASSUME NEW q \in Orders, Accept(q) \/ Decline(q) \/ CapturePod(q) \/ FailTask(q)
        PROVE  task'[o] = "assigned"
    BY <2>2 DEF Accept, Decline, CapturePod, FailTask, FailFrom
  <2>3. ASSUME NEW q \in Orders, Transition(q) PROVE task'[o] = "assigned"
    BY <2>3 DEF Transition, Edges
  <2>4. ASSUME NEW q \in Orders, NEW d \in Drivers, Reassign(q, d) PROVE task'[o] = "assigned"
    BY <2>4 DEF Reassign
  <2>5. ASSUME NEW d \in Drivers, NEW v \in Vans, StartShift(d, v) PROVE task'[o] = "assigned"
    BY <2>5 DEF StartShift
  <2>6. ASSUME NEW s \in Shifts, Reconcile(s) \/ CloseShift(s) PROVE task'[o] = "assigned"
    BY <2>6 DEF Reconcile, CloseShift
  <2>7. ASSUME NEW q \in Orders, BeginVerifyCash(q) \/ CommitVerifyCash(q)
        PROVE  task'[o] = "assigned"
    BY <2>7 DEF BeginVerifyCash, CommitVerifyCash
  <2>8. ASSUME NEW d \in Drivers, Remit(d) PROVE task'[o] = "assigned"
    BY <2>8 DEF Remit
  <2> QED
    BY <2>1, <2>2, <2>3, <2>4, <2>5, <2>6, <2>7, <2>8 DEF Next
<1> QED
  BY <1>1, Invariance, PTL DEF Spec, FinishedStaysFinished

-----------------------------------------------------------------------------
(* Conservation of units: the three steps that move some, each from one place  *)
(* to another.                                                                 *)

\* What the sums range over.
LEMMA StockTypes ==
  ASSUME TypeOK
  PROVE  /\ IsFiniteSet(Vans) /\ \A v \in Vans : van[v] \in Int
         /\ IsFiniteSet(Orders) /\ \A o \in Orders : handed[o] \in Int
         /\ hub \in Int /\ HubStock \in Int
         /\ SumFunctionOnSet(van, Vans) \in Int /\ SumFunctionOnSet(handed, Orders) \in Int
<1>1. /\ IsFiniteSet(Vans) /\ \A v \in Vans : van[v] \in Int
      /\ IsFiniteSet(Orders) /\ \A o \in Orders : handed[o] \in Int
      /\ hub \in Int /\ HubStock \in Int
  BY DeliveryAssumption DEF DeliveryAssumption, TypeOK
<1> QED
  BY <1>1, SumInt

\* The hand-over moves the order's units from a van to its recipient.
LEMMA CapturePodConserves ==
  ASSUME IInv, StockConserved, NEW o \in Orders, CapturePod(o)
  PROVE  StockConserved'
<1> DEFINE v == HandOverVan(o)
<1>1. TypeOK /\ HandOver(o) /\ hub' = hub
  BY DEF IInv, CapturePod
<1>2. v \in Vans \union {NoVan}
  BY <1>1 DEF HandOverVan, TypeOK, ShiftRows, NoShift
<1>3. CASE v = NoVan
  BY <1>1, <1>3 DEF HandOver, StockConserved
<1>4. CASE v # NoVan
  <2>1. /\ v \in Vans /\ van' = [van EXCEPT ![v] = @ - Qty[o]]
        /\ handed' = [handed EXCEPT ![o] = @ + Qty[o]] /\ Qty[o] \in Int
    BY <1>1, <1>2, <1>4, DeliveryAssumption DEF HandOver, DeliveryAssumption
  <2> HIDE DEF v
  <2>2. SumFunctionOnSet(van', Vans) = SumFunctionOnSet(van, Vans) - Qty[o]
    <3>1. DiffersAt(van, van', Vans, v, -Qty[o])
      BY <1>1, <2>1, StockTypes DEF TypeOK, DiffersAt
    <3>2. SumFunctionOnSet(van', Vans) = SumFunctionOnSet(van, Vans) + (-Qty[o])
      BY <1>1, <3>1, StockTypes, SumChange
    <3> QED
      BY <1>1, <2>1, <3>2, StockTypes
  <2>3. SumFunctionOnSet(handed', Orders) = SumFunctionOnSet(handed, Orders) + Qty[o]
    <3>1. DiffersAt(handed, handed', Orders, o, Qty[o])
      BY <1>1, <2>1, StockTypes DEF TypeOK, DiffersAt
    <3> QED
      BY <1>1, <3>1, StockTypes, SumChange
  <2> QED
    BY <1>1, <2>1, <2>2, <2>3, StockTypes DEF StockConserved
<1> QED
  BY <1>3, <1>4

\* The load moves from the hub to the van ...
LEMMA StartShiftConserves ==
  ASSUME IInv, StockConserved, NEW d \in Drivers, NEW v \in Vans, StartShift(d, v)
  PROVE  StockConserved'
<1>1. TypeOK /\ UNCHANGED handed
  BY DEF IInv, StartShift, podVars
<1>2. PICK load \in 0 .. hub : hub' = hub - load /\ van' = [van EXCEPT ![v] = @ + load]
  BY DEF StartShift
<1>3. DiffersAt(van, van', Vans, v, load)
  BY <1>1, <1>2, StockTypes DEF TypeOK, DiffersAt
<1>4. SumFunctionOnSet(van', Vans) = SumFunctionOnSet(van, Vans) + load
  BY <1>1, <1>3, StockTypes, SumChange
<1> QED
  BY <1>1, <1>2, <1>3, <1>4, StockTypes DEF StockConserved

\* ... and what is counted at the end of the shift back to the hub.
LEMMA ReconcileConserves ==
  ASSUME IInv, StockConserved, NEW s \in Shifts, Reconcile(s)
  PROVE  StockConserved'
<1> DEFINE v == shift[s].van
<1>1. TypeOK /\ UNCHANGED handed /\ v \in Vans
  BY DEF IInv, ShiftOK, Reconcile, podVars
<1>2. PICK counted \in 0 .. van[v] : hub' = hub + counted /\ van' = [van EXCEPT ![v] = @ - counted]
  BY DEF Reconcile
<1> HIDE DEF v
<1>3. counted \in Int /\ van[v] \in Nat
  BY <1>1, <1>2 DEF TypeOK
<1>4. DiffersAt(van, van', Vans, v, -counted)
  BY <1>1, <1>2, <1>3, StockTypes DEF TypeOK, DiffersAt
<1>5. SumFunctionOnSet(van', Vans) = SumFunctionOnSet(van, Vans) + (-counted)
  BY <1>1, <1>4, StockTypes, SumChange
<1> QED
  BY <1>1, <1>2, <1>3, <1>5, StockTypes DEF StockConserved

\* Units never appear or vanish: however often orders are reassigned and driven
\* again, what left the hub is in a van or with the recipients.
THEOREM UnitsConserved == Spec => []StockConserved
<1>1. Init => StockConserved
  <2> SUFFICES ASSUME Init PROVE StockConserved
    OBVIOUS
  <2>1. TypeOK
    BY InitInv DEF IInv
  <2>2. (\A v \in Vans : van[v] = 0) /\ (\A o \in Orders : handed[o] = 0) /\ hub = HubStock
    BY DEF Init
  <2>3. SumFunctionOnSet(van, Vans) = 0 /\ SumFunctionOnSet(handed, Orders) = 0
    BY <2>1, <2>2, StockTypes, SumZero
  <2> QED
    BY <2>1, <2>2, <2>3, StockTypes DEF StockConserved
<1>2. IInv /\ StockConserved /\ [Next]_vars => StockConserved'
  <2> SUFFICES ASSUME IInv, StockConserved, [Next]_vars PROVE StockConserved'
    OBVIOUS
  <2>1. ASSUME UNCHANGED <<hub, van, handed>> PROVE StockConserved'
    BY <2>1 DEF StockConserved
  <2>2. CASE UNCHANGED vars
    BY <2>1, <2>2 DEF vars, stockVars, podVars
  <2>3. ASSUME NEW o \in Orders,
               Cancel(o) \/ BeginReceipt(o) \/ CommitReceipt(o) \/ DispatchOrder(o)
                 \/ RecallTask(o) \/ LoseEvent(o) \/ Accept(o) \/ Decline(o) \/ Transition(o)
                 \/ FailTask(o) \/ BeginVerifyCash(o) \/ CommitVerifyCash(o)
                 \/ \E d \in Drivers : Reassign(o, d)
        PROVE  StockConserved'
    BY <2>1, <2>3 DEF Cancel, BeginReceipt, CommitReceipt, DispatchOrder, RecallTask, LoseEvent,
       Accept, Decline, Transition, FailTask, BeginVerifyCash, CommitVerifyCash, Reassign,
       stockVars, podVars
  <2>4. ASSUME NEW d \in Drivers, Remit(d) PROVE StockConserved'
    BY <2>1, <2>4 DEF Remit, stockVars, podVars
  <2>5. ASSUME NEW s \in Shifts, CloseShift(s) PROVE StockConserved'
    BY <2>1, <2>5 DEF CloseShift, podVars
  <2> QED
    BY <2>2, <2>3, <2>4, <2>5, CapturePodConserves, StartShiftConserves, ReconcileConserves
    DEF Next
<1> QED
  BY <1>1, <1>2, Invariance, PTL DEF Spec
=============================================================================
