------------------------------ MODULE Delivery ------------------------------
(* The last mile: tasks, driver shifts, van stock, proof of delivery and the   *)
(* cash a driver holds, with the order statuses the customer sees.             *)
(*                                                                             *)
(* A task function locks its task row ("for update") and is one step.  What    *)
(* the code reads without a lock and writes later is two: the receipt of a     *)
(* delivered order and the admin's check of a remittance.  A refused call, or  *)
(* the replay of one that succeeded, changes nothing and is not a step.        *)
EXTENDS Integers, FiniteSets, Functions

CONSTANTS
  Orders,      \* orders that have been picked and wait to be dispatched
  Cod,         \* those paid in cash at the door
  Pickup,      \* those whose fulfillment_type is pickup_point
  Qty,         \* units of the one pack modelled in each order
  Drivers, Vans,
  HubStock,    \* inventory.qty_on_hand at the start
  MaxShifts    \* bound: shifts started in a behaviour

NoDriver == "nodriver"
NoVan    == "novan"
Shifts   == 1 .. MaxShifts
NoShift  == 0

ASSUME DeliveryAssumption ==
  /\ Cod \subseteq Orders /\ Pickup \subseteq Orders
  /\ IsFiniteSet(Orders) /\ IsFiniteSet(Vans)
  /\ Qty \in [Orders -> Nat \ {0}] /\ HubStock \in Nat /\ MaxShifts \in Nat
  /\ NoDriver \notin Drivers /\ NoVan \notin Vans

OrderStatuses == {"confirmed", "picked_up", "en_route", "delivered", "confirmed_received",
                  "cancelled"}
OnTheRoad     == {"picked_up", "en_route", "arrived", "delivered"}
Underway      == {"accepted", "at_pickup", "picked_up", "en_route", "arrived"}
TaskStatuses  == {"none", "assigned", "failed"} \union Underway \union OnTheRoad
Closed        == {"cancelled", "confirmed_received"}

VARIABLES
  order,      \* orders.status
  ready,      \* orders whose ready_for_pickup row waits in core.outbox
  recall,     \* orders whose cancelled row waits in core.outbox
  receiving,  \* orders whose customer has read 'delivered' and not confirmed yet
  task,       \* delivery_tasks.status; "none" before the row exists
  driver,     \* delivery_tasks.driver_id
  shiftOf,    \* delivery_tasks.shift_id
  shift,      \* delivery.shifts
  opened,     \* how many shifts have been started
  hub,        \* inventory.qty_on_hand
  van,        \* van_stock.qty
  pods,       \* orders whose task has a row in delivery.pods
  source,     \* the van an order's hand-over was taken from
  handed,     \* units an order's recipients were booked as given
  custody,    \* driver_cash_custody.status of an order's cash
  holder,     \* and its driver_id
  collected,  \* orders.payments rows with method cod, each with its paid event
  announced,  \* orders whose custody.cash.remitted is in core.outbox
  desk        \* orders whose held cash an admin has read and not written yet

orderVars == <<order, ready, recall, receiving>>
taskVars  == <<task, driver, shiftOf>>
stockVars == <<shift, opened, hub, van>>
podVars   == <<pods, source, handed>>
cashVars  == <<custody, holder, collected, announced, desk>>
vars == <<orderVars, taskVars, stockVars, podVars, cashVars>>

ShiftRows == [status : {"none", "open", "reconciling", "closed"},
              driver : Drivers \union {NoDriver}, van : Vans \union {NoVan}, variance : BOOLEAN]

TypeOK ==
  /\ order \in [Orders -> OrderStatuses]
  /\ ready \subseteq Orders /\ recall \subseteq Orders /\ receiving \subseteq Orders
  /\ task \in [Orders -> TaskStatuses] /\ driver \in [Orders -> Drivers \union {NoDriver}]
  /\ shiftOf \in [Orders -> {NoShift} \union Shifts]
  /\ shift \in [Shifts -> ShiftRows] /\ opened \in 0 .. MaxShifts
  /\ hub \in Nat /\ van \in [Vans -> Nat]
  /\ pods \subseteq Orders /\ source \in [Orders -> Vans \union {NoVan}]
  /\ handed \in [Orders -> Nat]
  /\ custody \in [Orders -> {"none", "held", "remitted"}]
  /\ holder \in [Orders -> Drivers \union {NoDriver}]
  /\ collected \in [Orders -> Nat]
  /\ announced \subseteq Orders /\ desk \subseteq Orders

\* The pick-complete step has announced every order ready for pickup.
Init ==
  /\ order = [o \in Orders |-> "confirmed"]
  /\ ready = Orders /\ recall = {} /\ receiving = {}
  /\ task = [o \in Orders |-> "none"] /\ driver = [o \in Orders |-> NoDriver]
  /\ shiftOf = [o \in Orders |-> NoShift]
  /\ shift = [s \in Shifts |->
                [status |-> "none", driver |-> NoDriver, van |-> NoVan, variance |-> FALSE]]
  /\ opened = 0 /\ hub = HubStock /\ van = [v \in Vans |-> 0]
  /\ pods = {} /\ source = [o \in Orders |-> NoVan] /\ handed = [o \in Orders |-> 0]
  /\ custody = [o \in Orders |-> "none"] /\ holder = [o \in Orders |-> NoDriver]
  /\ collected = [o \in Orders |-> 0] /\ announced = {} /\ desk = {}

\* orders.mirror_delivery_status: what a task's stop makes of its order.  A
\* pickup-point order is not delivered when the pickup point gets it.
Mirrorable(o, stop) == /\ stop \in {"picked_up", "en_route", "delivered"}
                       /\ ~ (stop = "delivered" /\ o \in Pickup)

\* Mutant of MirrorFrom: the list before 'confirmed' was added to it.
MirrorFromReady == {"picked_up", "en_route", "delivered"}
MirrorFrom      == {"confirmed", "picked_up", "en_route", "delivered"}

Mirrored(o, stop) == IF Mirrorable(o, stop) /\ order[o] \in MirrorFrom
                     THEN [order EXCEPT ![o] = stop] ELSE order

\* The open shift of a driver: one_open_shift_per_driver makes it unique.
OpenShifts(d) == {s \in Shifts : shift[s].driver = d /\ shift[s].status = "open"}

\* delivery.find_eligible_driver: an open shift whose van covers the order.  The
\* ranking, and who is on a break, are left open: anyone eligible, or nobody.
Eligible(o) == {d \in Drivers : \E s \in OpenShifts(d) : van[shift[s].van] >= Qty[o]}

\* The row's driver and shift are set together, from the driver's open shift.
Assign(o, candidates) ==
  \/ /\ driver' = [driver EXCEPT ![o] = NoDriver]
     /\ shiftOf' = [shiftOf EXCEPT ![o] = NoShift]
  \/ \E d \in candidates : \E s \in OpenShifts(d) :
       /\ driver' = [driver EXCEPT ![o] = d]
       /\ shiftOf' = [shiftOf EXCEPT ![o] = s]

-----------------------------------------------------------------------------
(* The order's side: cancellations, the receipt, and the dispatch worker.     *)

\* The customer while it is confirmed, an admin until it is delivered.
Cancel(o) ==
  /\ order[o] \in {"confirmed", "picked_up", "en_route"}
  /\ order' = [order EXCEPT ![o] = "cancelled"]
  /\ recall' = recall \union {o}
  /\ UNCHANGED <<ready, receiving, taskVars, stockVars, podVars, cashVars>>

BeginReceipt(o) ==
  /\ order[o] = "delivered" /\ o \notin receiving
  /\ receiving' = receiving \union {o}
  /\ UNCHANGED <<order, ready, recall, taskVars, stockVars, podVars, cashVars>>

CommitReceipt(o) ==
  /\ o \in receiving
  /\ order' = [order EXCEPT ![o] = "confirmed_received"]
  /\ receiving' = receiving \ {o}
  /\ UNCHANGED <<ready, recall, taskVars, stockVars, podVars, cashVars>>

\* delivery.dispatch_order: it never looks at the order's status.
DispatchOrder(o) ==
  /\ o \in ready
  /\ ready' = ready \ {o}
  /\ task' = [task EXCEPT ![o] = "assigned"]
  /\ Assign(o, Eligible(o))
  /\ UNCHANGED <<order, recall, receiving, stockVars, podVars, cashVars>>

\* delivery.recall_task; there may be no task yet.
RecallTask(o) ==
  /\ o \in recall
  /\ recall' = recall \ {o}
  /\ IF task[o] \in {"none", "delivered", "failed"}
     THEN UNCHANGED taskVars
     ELSE /\ driver' = [driver EXCEPT ![o] = NoDriver]
          /\ shiftOf' = [shiftOf EXCEPT ![o] = NoShift]
          /\ UNCHANGED task
  /\ UNCHANGED <<order, ready, receiving, stockVars, podVars, cashVars>>

\* Another taker of the outbox stamps the row first, and it is gone.
LoseEvent(o) ==
  /\ \/ /\ o \in ready /\ ready' = ready \ {o} /\ UNCHANGED recall
     \/ /\ o \in recall /\ recall' = recall \ {o} /\ UNCHANGED ready
  /\ UNCHANGED <<order, receiving, taskVars, stockVars, podVars, cashVars>>

-----------------------------------------------------------------------------
(* The driver's calls on a task; each demands that it is the driver's.        *)

Accept(o) ==
  /\ task[o] = "assigned" /\ driver[o] # NoDriver
  /\ task' = [task EXCEPT ![o] = "accepted"]
  /\ UNCHANGED <<orderVars, driver, shiftOf, stockVars, podVars, cashVars>>

\* Mutant of Decline: an accepted task can still be declined.
DeclineAccepted(o) ==
  /\ task[o] \in {"assigned", "accepted"} /\ driver[o] # NoDriver
  /\ Assign(o, Eligible(o) \ {driver[o]})
  /\ UNCHANGED <<orderVars, task, stockVars, podVars, cashVars>>

Decline(o) ==
  /\ task[o] = "assigned" /\ driver[o] # NoDriver
  /\ Assign(o, Eligible(o) \ {driver[o]})
  /\ UNCHANGED <<orderVars, task, stockVars, podVars, cashVars>>

Edges == {<<"accepted", "at_pickup">>, <<"at_pickup", "picked_up">>,
          <<"picked_up", "en_route">>, <<"en_route", "arrived">>}

\* delivery.transition_task, the order mirrored in the same transaction.
Transition(o) ==
  /\ driver[o] # NoDriver
  /\ \E stop \in TaskStatuses :
       /\ <<task[o], stop>> \in Edges
       /\ task' = [task EXCEPT ![o] = stop]
       /\ order' = Mirrored(o, stop)
  /\ UNCHANGED <<ready, recall, receiving, driver, shiftOf, stockVars, podVars, cashVars>>

\* The van that capture_pod takes the goods from, by the task's shift.
HandOverVan(o) == IF shiftOf[o] = NoShift THEN NoVan ELSE shift[shiftOf[o]].van

\* The goods: no shift, no decrement; a van that is short undoes the call.
HandOver(o) ==
  /\ source' = [source EXCEPT ![o] = HandOverVan(o)]
  /\ IF HandOverVan(o) = NoVan
     THEN UNCHANGED <<van, handed>>
     ELSE /\ van[HandOverVan(o)] >= Qty[o]
          /\ van' = [van EXCEPT ![HandOverVan(o)] = @ - Qty[o]]
          /\ handed' = [handed EXCEPT ![o] = @ + Qty[o]]

\* The cash, when the driver reports an amount for an order that owes one.
Collect(o) ==
  /\ custody' = [custody EXCEPT ![o] = "held"]
  /\ holder' = [holder EXCEPT ![o] = driver[o]]
  /\ collected' = [collected EXCEPT ![o] = @ + 1]

\* Mutant of CapturePod: an earlier proof is not looked for.
CapturePodAgain(o) ==
  /\ task[o] = "arrived" /\ driver[o] # NoDriver
  /\ pods' = pods \union {o}
  /\ task' = [task EXCEPT ![o] = "delivered"]
  /\ HandOver(o)
  /\ order' = Mirrored(o, "delivered")
  /\ \/ o \in Cod /\ Collect(o)
     \/ UNCHANGED <<custody, holder, collected>>
  /\ UNCHANGED <<ready, recall, receiving, driver, shiftOf, shift, opened, hub, announced, desk>>

\* delivery.capture_pod: with a proof on file it answers 'delivered' and stops.
CapturePod(o) ==
  /\ task[o] = "arrived" /\ driver[o] # NoDriver /\ o \notin pods
  /\ pods' = pods \union {o}
  /\ task' = [task EXCEPT ![o] = "delivered"]
  /\ HandOver(o)
  /\ order' = Mirrored(o, "delivered")
  /\ \/ o \in Cod /\ Collect(o)
     \/ UNCHANGED <<custody, holder, collected>>
  /\ UNCHANGED <<ready, recall, receiving, driver, shiftOf, shift, opened, hub, announced, desk>>

FailFrom    == {"at_pickup", "en_route", "arrived"}

FailTask(o) ==
  /\ task[o] \in FailFrom /\ driver[o] # NoDriver
  /\ task' = [task EXCEPT ![o] = "failed"]
  /\ UNCHANGED <<orderVars, driver, shiftOf, stockVars, podVars, cashVars>>

\* delivery.admin_reassign_task: any task, to any driver, its shift left alone.
Reassign(o, d) ==
  /\ task[o] # "none"
  /\ task' = [task EXCEPT ![o] = "assigned"]
  /\ driver' = [driver EXCEPT ![o] = d]
  /\ UNCHANGED <<orderVars, shiftOf, stockVars, podVars, cashVars>>

-----------------------------------------------------------------------------
(* Shifts and van stock.                                                      *)

\* Mutant of StartShift: the load is added to the van and not taken from the hub.
StartShiftUnloaded(d, v) ==
  /\ \A s \in Shifts : shift[s].driver = d => shift[s].status = "closed"
  /\ opened < MaxShifts /\ opened' = opened + 1
  /\ \E load \in 0 .. hub : van' = [van EXCEPT ![v] = @ + load] /\ hub' = hub
  /\ shift' = [shift EXCEPT ![opened + 1] =
                 [status |-> "open", driver |-> d, van |-> v, variance |-> FALSE]]
  /\ UNCHANGED <<orderVars, taskVars, podVars, cashVars>>

\* delivery.start_shift: the load-out and the row, or nothing; two drivers may
\* name the same van.
StartShift(d, v) ==
  /\ \A s \in Shifts : shift[s].driver = d => shift[s].status = "closed"
  /\ opened < MaxShifts /\ opened' = opened + 1
  /\ \E load \in 0 .. hub :
       /\ hub' = hub - load
       /\ van' = [van EXCEPT ![v] = @ + load]
  /\ shift' = [shift EXCEPT ![opened + 1] =
                 [status |-> "open", driver |-> d, van |-> v, variance |-> FALSE]]
  /\ UNCHANGED <<orderVars, taskVars, podVars, cashVars>>

\* delivery.reconcile_shift: what is counted goes back to the hub; a pack the
\* driver does not list is neither returned nor a variance.
Reconcile(s) ==
  /\ shift[s].status = "open"
  /\ \E counted \in 0 .. van[shift[s].van], listed \in BOOLEAN :
       /\ listed \/ counted = 0
       /\ hub' = hub + counted
       /\ van' = [van EXCEPT ![shift[s].van] = @ - counted]
       /\ shift' = [shift EXCEPT ![s].status = "reconciling",
                                 ![s].variance = listed /\ counted # van[shift[s].van]]
  /\ UNCHANGED <<orderVars, taskVars, opened, podVars, cashVars>>

CloseShift(s) ==
  /\ shift[s].status = "reconciling" /\ ~ shift[s].variance
  /\ \A o \in Orders : ~ (custody[o] = "held" /\ holder[o] = shift[s].driver)
  /\ shift' = [shift EXCEPT ![s].status = "closed"]
  /\ UNCHANGED <<orderVars, taskVars, opened, hub, van, podVars, cashVars>>

-----------------------------------------------------------------------------
(* Cash.                                                                      *)

\* remit-custody: each held row of the driver through delivery.remit_cash_custody.
Remit(d) ==
  /\ {o \in Orders : custody[o] = "held" /\ holder[o] = d} # {}
  /\ custody' = [o \in Orders |-> IF custody[o] = "held" /\ holder[o] = d
                                  THEN "remitted" ELSE custody[o]]
  /\ announced' = announced \union {o \in Orders : custody[o] = "held" /\ holder[o] = d}
  /\ UNCHANGED <<orderVars, taskVars, stockVars, podVars, holder, collected, desk>>

\* admin_verify_driver_remittance reads the held row ...
BeginVerifyCash(o) ==
  /\ custody[o] = "held" /\ o \notin desk
  /\ desk' = desk \union {o}
  /\ UNCHANGED <<orderVars, taskVars, stockVars, podVars, custody, holder, collected, announced>>

\* ... and writes it by primary key, with an audit row and no event.
CommitVerifyCash(o) ==
  /\ o \in desk
  /\ custody' = [custody EXCEPT ![o] = "remitted"]
  /\ desk' = desk \ {o}
  /\ UNCHANGED <<orderVars, taskVars, stockVars, podVars, holder, collected, announced>>

-----------------------------------------------------------------------------
Next ==
  \/ \E o \in Orders :
       \/ Cancel(o) \/ BeginReceipt(o) \/ CommitReceipt(o)
       \/ DispatchOrder(o) \/ RecallTask(o) \/ LoseEvent(o)
       \/ Accept(o) \/ Decline(o) \/ Transition(o) \/ CapturePod(o) \/ FailTask(o)
       \/ BeginVerifyCash(o) \/ CommitVerifyCash(o)
       \/ \E d \in Drivers : Reassign(o, d)
  \/ \E d \in Drivers : Remit(d) \/ \E v \in Vans : StartShift(d, v)
  \/ \E s \in Shifts : Reconcile(s) \/ CloseShift(s)

Spec == Init /\ [][Next]_vars

-----------------------------------------------------------------------------
(* Properties.                                                                *)

Booked(o) == IF o \in pods /\ source[o] # NoVan THEN Qty[o] ELSE 0

\* What the customer sees is what the driver did: while a task is on the road its
\* order says exactly how far it is, reassignments included, unless the order was
\* closed behind the driver's back.  'delivered' of a pickup-point order stays
\* en_route until it is collected.
MirrorKeepsUp ==
  \A o \in Orders : order[o] \in Closed \/
    /\ task[o] = "picked_up" => order[o] = "picked_up"
    /\ task[o] \in {"en_route", "arrived"} => order[o] = "en_route"
    /\ task[o] = "delivered" => order[o] = IF o \in Pickup THEN "en_route" ELSE "delivered"

\* FR-DL05: nothing is delivered, received or paid for at the door without a proof
\* of delivery on file, whichever driver ends up with the task.
DeliveredHasProof ==
  \A o \in Orders :
    \/ task[o] = "delivered" \/ order[o] \in {"delivered", "confirmed_received"}
    \/ custody[o] # "none"
    => o \in pods

\* A proof settles its order once: however often the task is reassigned and
\* driven again, the goods leave a van once and the cash is collected once.
ProofSettlesOnce ==
  \A o \in Orders :
    /\ handed[o] = Booked(o)
    /\ collected[o] = IF custody[o] = "none" THEN 0 ELSE 1
    /\ custody[o] # "none" => o \in Cod

\* A task that has been accepted and is not over has a driver, unless its order
\* was closed: only a recall takes it away from its driver.
UnderwayHasDriver ==
  \A o \in Orders : task[o] \in Underway /\ driver[o] = NoDriver => order[o] \in Closed

\* Units never appear or vanish: what left the hub is in a van or was handed over.
StockConserved ==
  HubStock = hub + SumFunctionOnSet(van, Vans) + SumFunctionOnSet(handed, Orders)

\* The remittance event is announced for cash that was taken and handed in.
AnnouncedIsRemitted == \A o \in announced : custody[o] = "remitted" /\ o \in pods

\* A finished task starts again only from its beginning, by an admin's hand; it
\* never turns from delivered to failed or back.
FinishedStaysFinished ==
  [][\A o \in Orders :
       task[o] \in {"delivered", "failed"} /\ task'[o] # task[o] => task'[o] = "assigned"]_vars

\* "goods leave the van (already loaded at shift-start, DL-07) into the recipient's
\* hands at POD time - this is the actual decrement DL-UNI-1 means"
\* (0049_delivery_pod_functions.sql:8-12): every proof has taken the
\* goods from some van.
HandoverRecorded == \A o \in pods : source[o] # NoVan
=============================================================================
