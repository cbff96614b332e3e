--------------------------- MODULE OrderLifecycle ---------------------------
(* A retail order from POST /orders to its end, with the stock it reserves and *)
(* the actors that write its status: the customer, the finance desk, an admin, *)
(* the bank-transfer sweeper and the courier's mirror.                         *)
(*                                                                             *)
(* Each handler is split where the code reads a row without locking it and     *)
(* writes later in the same transaction: everyone else commits in between.     *)
(* An UPDATE with a status guard is one step: it locks and re-checks its row.  *)
(* Orders are delivered at home; Delivery has the courier's side of them.      *)
EXTENDS Integers, FiniteSets, Functions

CONSTANTS
  Requests,     \* POST /orders calls; an order carries the name of its call
  Carts, CartOf,        \* the cart each call checks out
  NoKey, KeyOf,         \* (user, Idempotency-Key) of each call; NoKey: no header
  MethodOf,             \* payment method of each call
  Discounted,           \* calls that carry a coupon or points discount
  QtyOf,                \* units in each cart, of the one pack modelled
  OverCeiling,          \* carts whose total exceeds cod_ceiling
  OnHand,               \* inventory.qty_on_hand of the pack
  Verifiers,            \* admins at the finance desk
  Sweeps,               \* bound: sweep transactions that may be open at once
  MaxCrashes            \* bound: crashes in a behaviour

Methods  == {"cod", "bank_transfer"}
Statuses == {"pending_payment", "confirmed", "picked_up", "en_route", "delivered",
             "confirmed_received", "cancelled"}
\* The names of the outbox rows an order writes; a cancellation has its by_role.
EventNames == {"placed", "confirmed", "paid", "verified", "proof_submitted",
               "cancelled_by_customer", "cancelled_by_admin", "cancelled_by_system"}
Cancellations == {"cancelled_by_customer", "cancelled_by_admin", "cancelled_by_system"}

NoOrder == "none"

ASSUME LifecycleAssumption ==
  /\ IsFiniteSet(Requests)
  /\ CartOf \in [Requests -> Carts] /\ MethodOf \in [Requests -> Methods]
  /\ QtyOf \in [Carts -> Nat \ {0}] /\ OverCeiling \subseteq Carts
  /\ Discounted \subseteq Requests
  /\ OnHand \in Nat /\ MaxCrashes \in Nat
  /\ NoOrder \notin Requests /\ "rejected" \notin Requests

VARIABLES
  status,    \* orders.status, NoOrder while the row does not exist
  timeline,  \* orders.status_history
  proof,     \* the bank-transfer row of orders.payments (bound: one per order)
  collected, \* orders with a collected cash row in orders.payments
  overdue,   \* orders placed more than bank_transfer_window_hours ago
  cart,      \* carts.status
  reserved,  \* inventory.reserved
  emitted,   \* committed core.outbox rows, counted by order and name
  debited,   \* orders whose discount is recorded in the loyalty ledger
  call,      \* where each POST /orders is
  answer,    \* the order it answered with
  acting,    \* where the customer's request on an order is
  desk,      \* the order each verifier has read and not written yet
  sweep,     \* the orders each sweep has selected and not handled yet
  swept,     \* the orders its open transaction has handled
  shared,    \* history: orders a sweep selected while another had them in hand
  crashes

orderVars == <<status, timeline, proof, emitted>>
sweepVars == <<sweep, swept, shared>>
vars == <<orderVars, collected, overdue, cart, reserved, debited, call, answer, acting, desk,
          sweepVars, crashes>>

Qty(o) == QtyOf[CartOf[o]]
Placed == {o \in Requests : status[o] # NoOrder}
Units(S) == SumFunctionOnSet([o \in Requests |-> Qty(o)], S)

TypeOK ==
  /\ status \in [Requests -> Statuses \union {NoOrder}]
  /\ timeline \in [Requests -> SUBSET (Statuses \union {"paid"})]
  /\ proof \in [Requests -> {"none", "pending", "verified"}]
  /\ collected \subseteq Placed /\ overdue \subseteq Placed
  /\ cart \in [Carts -> {"open", "converted"}]
  /\ reserved \in Nat
  /\ emitted \in [Requests -> [EventNames -> Nat]]
  /\ debited \subseteq Placed \intersect Discounted
  /\ call \in [Requests -> {"idle", "checked", "placed", "done"}]
  /\ answer \in [Requests -> Requests \union {NoOrder, "rejected"}]
  /\ acting \in [Requests -> {"idle", "proving", "receiving"}]
  /\ desk \in [Verifiers -> Requests \union {NoOrder}]
  /\ sweep \in [Sweeps -> SUBSET Requests] /\ swept \in [Sweeps -> SUBSET Requests]
  /\ shared \subseteq Requests
  /\ crashes \in 0 .. MaxCrashes

Init ==
  /\ status = [o \in Requests |-> NoOrder] /\ timeline = [o \in Requests |-> {}]
  /\ proof = [o \in Requests |-> "none"] /\ collected = {} /\ overdue = {}
  /\ cart = [c \in Carts |-> "open"] /\ reserved = 0
  /\ emitted = [o \in Requests |-> [n \in EventNames |-> 0]] /\ debited = {}
  /\ call = [o \in Requests |-> "idle"] /\ answer = [o \in Requests |-> NoOrder]
  /\ acting = [o \in Requests |-> "idle"] /\ desk = [v \in Verifiers |-> NoOrder]
  /\ sweep = [s \in Sweeps |-> {}] /\ swept = [s \in Sweeps |-> {}] /\ shared = {}
  /\ crashes = 0

\* INSERTs into core.outbox, in the transaction of the change they announce.
Emit(o, names) ==
  emitted' = [emitted EXCEPT ![o] = [n \in EventNames |-> IF n \in names THEN @[n] + 1 ELSE @[n]]]

SetStatus(o, s) == status' = [status EXCEPT ![o] = s]
Record(o, S)    == timeline' = [timeline EXCEPT ![o] = @ \union S]

\* The rows a sweep's open transaction has updated are locked: an UPDATE of such
\* an order, or of the pack's inventory, waits for it to end.
Unlocked(o)    == \A s \in Sweeps : o \notin swept[s]
StockUnlocked  == \A s \in Sweeps : swept[s] = {}

-----------------------------------------------------------------------------
(* POST /orders: orders.place_order, then the redemptions in a second         *)
(* transaction.                                                               *)

SameKey(r) == {q \in Placed : KeyOf[r] # NoKey /\ KeyOf[q] = KeyOf[r]}

\* The key is looked up, then the cart; neither row is locked.
BeginPlace(r) ==
  /\ call[r] = "idle"
  /\ IF SameKey(r) # {}
     THEN \* is_replay: the route answers with the order and skips the redemptions
          /\ \E q \in SameKey(r) : answer' = [answer EXCEPT ![r] = q]
          /\ call' = [call EXCEPT ![r] = "done"]
     ELSE IF cart[CartOf[r]] # "open"
     THEN /\ answer' = [answer EXCEPT ![r] = "rejected"]
          /\ call' = [call EXCEPT ![r] = "done"]
     ELSE /\ call' = [call EXCEPT ![r] = "checked"]
          /\ UNCHANGED answer
  /\ UNCHANGED <<orderVars, collected, overdue, cart, reserved, debited, acting, desk, sweepVars,
                 crashes>>

\* Mutants of CanCommit: a stock guard evaluated on an earlier read, and no
\* unique index on the key.
CanCommitUnguarded(r) ==
  /\ MethodOf[r] = "cod" => CartOf[r] \notin OverCeiling
  /\ SameKey(r) = {}

CanCommitAnyKey(r) ==
  /\ OnHand - reserved >= Qty(r)
  /\ MethodOf[r] = "cod" => CartOf[r] \notin OverCeiling

\* What the rest of place_order's transaction demands: the atomic stock guard,
\* the COD ceiling, and the unique index on (user_id, idempotency_key).
CanCommit(r) ==
  /\ OnHand - reserved >= Qty(r)
  /\ MethodOf[r] = "cod" => CartOf[r] \notin OverCeiling
  /\ SameKey(r) = {}

CommitPlace(r) ==
  /\ call[r] = "checked" /\ StockUnlocked /\ CanCommit(r)
  /\ reserved' = reserved + Qty(r)
  /\ SetStatus(r, IF MethodOf[r] = "cod" THEN "confirmed" ELSE "pending_payment")
  /\ cart' = [cart EXCEPT ![CartOf[r]] = "converted"]
  /\ Emit(r, IF MethodOf[r] = "cod" THEN {"placed", "confirmed"} ELSE {"placed"})
  /\ call' = [call EXCEPT ![r] = "placed"]
  /\ UNCHANGED <<timeline, proof, collected, overdue, debited, answer, acting, desk, sweepVars,
                 crashes>>

\* The exception rolls the reservation back, then becomes the caller's error.
RejectPlace(r) ==
  /\ call[r] = "checked" /\ StockUnlocked /\ ~ CanCommit(r)
  /\ answer' = [answer EXCEPT ![r] = "rejected"]
  /\ call' = [call EXCEPT ![r] = "done"]
  /\ UNCHANGED <<orderVars, collected, overdue, cart, reserved, debited, acting, desk, sweepVars,
                 crashes>>

\* apply_coupon_redemption and apply_redemption, then the 201.
Redeem(r) ==
  /\ call[r] = "placed"
  /\ debited' = debited \union ({r} \intersect Discounted)
  /\ answer' = [answer EXCEPT ![r] = r]
  /\ call' = [call EXCEPT ![r] = "done"]
  /\ UNCHANGED <<orderVars, collected, overdue, cart, reserved, acting, desk, sweepVars, crashes>>

\* The API process dies: an open transaction rolls back, a committed one stays.
CrashCall(r) ==
  /\ call[r] \in {"checked", "placed"} /\ crashes < MaxCrashes
  /\ crashes' = crashes + 1
  /\ call' = [call EXCEPT ![r] = "done"]
  /\ UNCHANGED <<orderVars, collected, overdue, cart, reserved, debited, answer, acting, desk,
                 sweepVars>>

-----------------------------------------------------------------------------
(* The customer's requests on an order.                                       *)

\* orders.cancel_order: one guarded UPDATE.
Cancel(o) ==
  /\ status[o] \in {"pending_payment", "confirmed"} /\ Unlocked(o)
  /\ SetStatus(o, "cancelled") /\ Record(o, {"cancelled"})
  /\ Emit(o, {"cancelled_by_customer"})
  /\ UNCHANGED <<proof, collected, overdue, cart, reserved, debited, call, answer, acting, desk,
                 sweepVars, crashes>>

\* bank-transfer-proof: status and window are read without a lock ...
BeginProof(o) ==
  /\ acting[o] = "idle" /\ status[o] = "pending_payment" /\ o \notin overdue
  /\ proof[o] = "none"
  /\ acting' = [acting EXCEPT ![o] = "proving"]
  /\ UNCHANGED <<orderVars, collected, overdue, cart, reserved, debited, call, answer, desk,
                 sweepVars, crashes>>

\* ... and the payment row is inserted whatever has become of the order.
CommitProof(o) ==
  /\ acting[o] = "proving"
  /\ proof' = [proof EXCEPT ![o] = "pending"]
  /\ Emit(o, {"proof_submitted"})
  /\ acting' = [acting EXCEPT ![o] = "idle"]
  /\ UNCHANGED <<status, timeline, collected, overdue, cart, reserved, debited, call, answer,
                 desk, sweepVars, crashes>>

\* orders.confirm_receipt: reads the status without a lock ...
BeginReceipt(o) ==
  /\ acting[o] = "idle" /\ status[o] = "delivered"
  /\ acting' = [acting EXCEPT ![o] = "receiving"]
  /\ UNCHANGED <<orderVars, collected, overdue, cart, reserved, debited, call, answer, desk,
                 sweepVars, crashes>>

\* ... and writes it without a guard.
CommitReceipt(o) ==
  /\ acting[o] = "receiving" /\ Unlocked(o)
  /\ SetStatus(o, "confirmed_received") /\ Record(o, {"confirmed_received"})
  /\ acting' = [acting EXCEPT ![o] = "idle"]
  /\ UNCHANGED <<proof, emitted, collected, overdue, cart, reserved, debited, call, answer, desk,
                 sweepVars, crashes>>

-----------------------------------------------------------------------------
(* Staff.                                                                     *)

\* orders.admin_force_cancel: one guarded UPDATE.
ForceCancel(o) ==
  /\ status[o] \notin {NoOrder, "delivered", "confirmed_received", "cancelled"}
  /\ Unlocked(o)
  /\ SetStatus(o, "cancelled") /\ Emit(o, {"cancelled_by_admin"})
  /\ UNCHANGED <<timeline, proof, collected, overdue, cart, reserved, debited, call, answer,
                 acting, desk, sweepVars, crashes>>

\* orders.verify_bank_transfer: the order and its pending payment are read ...
BeginVerify(v, o) ==
  /\ desk[v] = NoOrder
  /\ status[o] = "pending_payment" /\ proof[o] = "pending"
  /\ desk' = [desk EXCEPT ![v] = o]
  /\ UNCHANGED <<orderVars, collected, overdue, cart, reserved, debited, call, answer, acting,
                 sweepVars, crashes>>

\* ... and both are written by primary key alone.
CommitVerify(v) ==
  /\ \E o \in Requests :
       /\ desk[v] = o /\ Unlocked(o)
       /\ proof' = [proof EXCEPT ![o] = "verified"]
       /\ SetStatus(o, "confirmed") /\ Record(o, {"paid", "confirmed"})
       /\ Emit(o, {"verified", "paid", "confirmed"})
  /\ desk' = [desk EXCEPT ![v] = NoOrder]
  /\ UNCHANGED <<collected, overdue, cart, reserved, debited, call, answer, acting, sweepVars,
                 crashes>>

-----------------------------------------------------------------------------
(* The bank-transfer sweeper: a timer's sweeps may overlap.                   *)

\* The payment window of an unpaid order runs out.
Expire(o) ==
  /\ status[o] = "pending_payment" /\ o \notin overdue
  /\ overdue' = overdue \union {o}
  /\ UNCHANGED <<orderVars, collected, cart, reserved, debited, call, answer, acting, desk,
                 sweepVars, crashes>>

\* Mutants of Sweepable: cancelled orders are swept again; a pending proof
\* keeps an order from ever being swept.
SweepableAgain    == {o \in overdue : MethodOf[o] = "bank_transfer" /\ proof[o] # "verified"}
SweepableUnproven == {o \in overdue : /\ status[o] = "pending_payment"
                                      /\ MethodOf[o] = "bank_transfer" /\ proof[o] = "none"}

\* Expired orders without a verified payment; the SELECT locks none of them.
Sweepable == {o \in overdue : /\ status[o] = "pending_payment"
                              /\ MethodOf[o] = "bank_transfer" /\ proof[o] # "verified"}

\* What some sweep has selected and not committed yet.
InHand == {o \in Requests : \E s \in Sweeps : o \in sweep[s] \union swept[s]}

\* setInterval starts a sweep whether or not the last one has ended, and every
\* worker process has its own timer.
BeginSweep(s) ==
  /\ sweep[s] \union swept[s] = {} /\ Sweepable # {}
  /\ sweep' = [sweep EXCEPT ![s] = Sweepable]
  /\ shared' = shared \union (Sweepable \intersect InHand)
  /\ UNCHANGED <<orderVars, collected, overdue, cart, reserved, debited, call, answer, acting, desk,
                 swept, crashes>>

\* One turn of its loop: release_stock for the order's lines, which waits for the
\* pack's inventory row, the status by primary key, the event; nobody sees them
\* before the COMMIT.
ReleaseLines(s, o) ==
  /\ o \in sweep[s] /\ \A t \in Sweeps \ {s} : swept[t] = {}
  /\ sweep' = [sweep EXCEPT ![s] = @ \ {o}]
  /\ swept' = [swept EXCEPT ![s] = @ \union {o}]
  /\ UNCHANGED <<orderVars, collected, overdue, cart, reserved, debited, call, answer, acting, desk,
                 shared, crashes>>

\* greatest(reserved - qty, 0) for each line in turn.
Release(n) == IF reserved > n THEN reserved - n ELSE 0

CommitSweep(s) ==
  /\ sweep[s] = {} /\ swept[s] # {}
  /\ reserved' = Release(Units(swept[s]))
  /\ status' = [o \in Requests |-> IF o \in swept[s] THEN "cancelled" ELSE status[o]]
  /\ emitted' = [o \in Requests |->
                   IF o \in swept[s] THEN [emitted[o] EXCEPT !["cancelled_by_system"] = @ + 1]
                   ELSE emitted[o]]
  /\ swept' = [swept EXCEPT ![s] = {}]
  /\ UNCHANGED <<timeline, proof, collected, overdue, cart, debited, call, answer, acting, desk,
                 sweep, shared, crashes>>

CrashSweep(s) ==
  /\ sweep[s] \union swept[s] # {} /\ crashes < MaxCrashes
  /\ crashes' = crashes + 1
  /\ sweep' = [sweep EXCEPT ![s] = {}] /\ swept' = [swept EXCEPT ![s] = {}]
  /\ UNCHANGED <<orderVars, collected, overdue, cart, reserved, debited, call, answer, acting, desk,
                 shared>>

-----------------------------------------------------------------------------
(* The courier.                                                               *)

Stops == {"picked_up", "en_route", "delivered"}

\* Mutant of MirrorFrom: the closed statuses are not excluded.
MirrorFromClosed == {"confirmed", "picked_up", "en_route", "delivered", "cancelled"}

\* The statuses orders.mirror_delivery_status may overwrite: 'preparing',
\* 'ready_for_pickup' and 'assigned' are in its list too, but nothing sets them.
MirrorFrom == {"confirmed", "picked_up", "en_route", "delivered"}

\* A delivery transition mirrors itself onto the order in its own transaction.
\* The task is Delivery's affair and knows nothing of what the order became; an
\* admin may have sent it back to its start, so that it reports any stop.
Courier(o) ==
  /\ status[o] \in MirrorFrom /\ Unlocked(o)
  /\ \E stop \in Stops \ {status[o]} : SetStatus(o, stop)
  /\ UNCHANGED <<timeline, proof, emitted, collected, overdue, cart, reserved, debited, call,
                 answer, acting, desk, sweepVars, crashes>>

\* delivery.capture_pod with a reported cash amount: the proof of delivery mirrors
\* 'delivered' unless the order is closed, and records and announces the payment
\* whatever the order has become.  A task has one proof (pods.task_id is unique).
CapturePod(o) ==
  /\ MethodOf[o] = "cod" /\ o \notin collected /\ emitted[o]["confirmed"] > 0 /\ Unlocked(o)
  /\ status' = [status EXCEPT ![o] = IF @ \in MirrorFrom THEN "delivered" ELSE @]
  /\ collected' = collected \union {o}
  /\ Emit(o, {"paid"})
  /\ UNCHANGED <<timeline, proof, overdue, cart, reserved, debited, call, answer, acting, desk,
                 sweepVars, crashes>>

-----------------------------------------------------------------------------
Next ==
  \/ \E r \in Requests : BeginPlace(r) \/ CommitPlace(r) \/ RejectPlace(r) \/ Redeem(r) \/ CrashCall(r)
  \/ \E o \in Requests : \/ Cancel(o) \/ BeginProof(o) \/ CommitProof(o) \/ BeginReceipt(o)
                         \/ CommitReceipt(o) \/ ForceCancel(o) \/ Expire(o) \/ Courier(o)
                         \/ CapturePod(o)
  \/ \E v \in Verifiers : CommitVerify(v) \/ \E o \in Requests : BeginVerify(v, o)
  \/ \E s \in Sweeps : \/ BeginSweep(s) \/ CommitSweep(s) \/ CrashSweep(s)
                       \/ \E o \in Requests : ReleaseLines(s, o)

\* setInterval keeps running the sweeper, and a transaction ends; time passes.
Fairness == /\ WF_vars(\E s \in Sweeps : BeginSweep(s))
            /\ \A s \in Sweeps : /\ WF_vars(\E o \in Requests : ReleaseLines(s, o))
                               /\ WF_vars(CommitSweep(s))
            /\ \A o \in Requests : WF_vars(Expire(o))

Spec     == Init /\ [][Next]_vars
FairSpec == Spec /\ Fairness

-----------------------------------------------------------------------------
(* Properties.                                                                *)

Live      == {"confirmed", "picked_up", "en_route", "delivered", "confirmed_received"}
Cancelled(o) == \E n \in Cancellations : emitted[o][n] > 0

\* However many checkouts race for the pack, what is held never exceeds what is
\* on hand: reserve_stock's guard and its increment are one UPDATE.
NoOversell == reserved <= OnHand

\* The sweeper gives an order's units back at most once, unless a second sweep
\* selected the order while the first had it in hand: nothing else that races
\* with the sweeper makes it release twice.  No other path returns stock, a
\* customer's and an admin's cancellation included, so that what is reserved lies
\* between what the orders took less every release and the same less one release
\* an order; the two meet as long as no order was released twice.  (Between them
\* greatest(reserved - qty, 0) has hidden part of a second release.)
Returned  == {o \in Placed : emitted[o]["cancelled_by_system"] > 0}
GivenBack == SumFunctionOnSet([o \in Requests |-> Qty(o) * emitted[o]["cancelled_by_system"]],
                              Requests)
StockLedger ==
  /\ \A o \in Requests : emitted[o]["cancelled_by_system"] > 1 => o \in shared
  /\ Units(Placed) - GivenBack <= reserved
  /\ reserved <= Units(Placed) - Units(Returned)

\* FR-SF04-008: a key never buys twice, though its lookup locks nothing and two
\* calls with the key may both have passed it.
OneOrderPerKey ==
  \A o, q \in Placed : o # q /\ KeyOf[o] = KeyOf[q] => KeyOf[o] = NoKey

\* A call answers with the order it placed or with the one its key placed before;
\* the order exists by the time the answer does.
AnswersOwnKey ==
  \A r \in Requests : answer[r] \in Requests =>
    /\ answer[r] \in Placed
    /\ answer[r] # r => KeyOf[r] # NoKey /\ KeyOf[answer[r]] = KeyOf[r]

\* An order's status and its payments tell the bus's consumers what its events
\* tell: a cancelled order was announced cancelled and a live one confirmed, a
\* verification is announced exactly if the transfer's row was verified, and money
\* exactly as often as it was verified at a desk or collected at the door, which
\* never happen to one order.
StateIsAnnounced ==
  \A o \in Requests :
    /\ status[o] = "cancelled" => Cancelled(o)
    /\ status[o] \in Live => emitted[o]["confirmed"] > 0
    /\ emitted[o]["verified"] > 0 <=> proof[o] = "verified"
    /\ emitted[o]["paid"] = emitted[o]["verified"] + (IF o \in collected THEN 1 ELSE 0)
    /\ o \in collected => MethodOf[o] = "cod" /\ proof[o] = "none"

\* A cash-on-delivery order never waits for a transfer: it is not swept, not
\* verified, and its stock is never returned by the sweeper.
CodNeverAwaitsTransfer ==
  \A o \in Requests : MethodOf[o] = "cod" =>
    /\ status[o] # "pending_payment" /\ proof[o] = "none"
    /\ emitted[o]["cancelled_by_system"] = 0 /\ o \notin InHand

\* Only a handler that read the order before it closed can reopen it: a cancelled
\* order leaves that status only under a verification or a receipt already begun,
\* a received one only under a verification or a sweep already begun.
ClosedStaysClosed ==
  [][\A o \in Requests :
       /\ status[o] = "cancelled" /\ status'[o] # "cancelled"
            => (\E v \in Verifiers : desk[v] = o) \/ acting[o] = "receiving"
       /\ status[o] = "confirmed_received" /\ status'[o] # "confirmed_received"
            => (\E v \in Verifiers : desk[v] = o) \/ o \in InHand]_vars

\* A transfer order does not wait for ever: it is verified, cancelled or swept.
TransferResolved ==
  \A o \in {r \in Requests : MethodOf[r] = "bank_transfer"} :
    (status[o] = "pending_payment") ~> (status[o] # "pending_payment")

\* "no proof/verification within the payment window" (bankTransferSweeper.ts:4-7):
\* the sweeper never cancels an order whose transfer is verified.
SweepSparesVerified ==
  [][\A o \in Requests :
       emitted'[o]["cancelled_by_system"] > emitted[o]["cancelled_by_system"]
         => proof[o] # "verified"]_vars

\* "idempotent per order - safe to call again on a replay, but skipped anyway to
\* avoid an unnecessary write on the (already-recorded) common path"
\* (checkout.ts:180-182): once no call is under way, an order that some call has
\* answered with has its discount recorded.
DiscountRecorded ==
  (\A r \in Requests : call[r] # "placed") =>
    \A r \in Requests :
      answer[r] \in Requests /\ answer[r] \in Discounted => answer[r] \in debited

\* release_stock "releases a reservation (cancel, timeout sweep)"
\* (0028_orders_functions.sql:24): once every order is cancelled nothing is held.
CancelledFreesStock ==
  (\A o \in Requests : status[o] \in {NoOrder, "cancelled"}) => reserved = 0

\* The sweeper "cancels the order and releases any reserved stock"
\* (bankTransferSweeper.ts:4-6): it does so once.
SweptOnce == \A o \in Requests : emitted[o]["cancelled_by_system"] <= 1
=============================================================================
