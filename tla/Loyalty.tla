------------------------------- MODULE Loyalty -------------------------------
(* Points and a coupon: the checkout that spends them, the worker that grants *)
(* them and takes them back, the sweep that lets them expire.                 *)
(*                                                                            *)
(* Whether an order is paid or cancelled is OrderLifecycle's affair: here an  *)
(* order that is placed is announced in whatever order its events come, twice *)
(* too (two desks verify one transfer; a customer and the sweeper cancel one  *)
(* order).  Every call is made of READ COMMITTED transactions, split where    *)
(* one acts on what it, or an earlier one, has read unlocked.                 *)
EXTENDS Integers, FiniteSets, Functions

CONSTANTS
  Users, Checkouts, OwnerOf,   \* each checkout stands for the order it places
  Earns,        \* floor(subtotal * points_per_sar) of each order
  Wanted,       \* pointsToRedeem of each call
  Ceiling,      \* the points that redeem_cap_pct of each order is worth
  Coded,        \* the calls whose cart has the coupon
  UsageCap, PerUserLimit,   \* of the coupon
  Opening,      \* points each user earned more than points_expiry_months ago
  NoOrder,      \* the order_id of an entry that belongs to none
  Drains,       \* drains of the outbox that may overlap
  MaxEvents,    \* bound: events of all orders
  MaxSweeps,    \* bound: expiry sweeps
  MaxFaults     \* bound: transactions and calls that die

ASSUME LoyaltyAssumption ==
  /\ IsFiniteSet(Users) /\ IsFiniteSet(Checkouts)
  /\ OwnerOf \in [Checkouts -> Users] /\ Earns \in [Checkouts -> Nat]
  /\ Wanted \in [Checkouts -> Nat] /\ Ceiling \in [Checkouts -> Nat]
  /\ Coded \subseteq Checkouts /\ UsageCap \in Nat \ {0} /\ PerUserLimit \in Nat \ {0}
  /\ Opening \in [Users -> Nat] /\ NoOrder \notin Checkouts /\ "coupon" \notin Users
  /\ MaxEvents \in Nat /\ MaxSweeps \in Nat /\ MaxFaults \in Nat

VARIABLES
  ledger,      \* loyalty.points_ledger
  used,        \* coupons.used_count
  redemption,  \* coupon_redemptions.status of each order
  checkout,    \* how far each POST /orders is
  plan,        \* the discount it has been promised
  outbox,      \* the events of the orders
  drain,       \* drainLoyaltyOutbox, one transaction each
  expiry,      \* what the open sweep has decided to expire
  sweeps, faults,
  late,        \* orders that gained or spent points after they had been undone
  crossed      \* balances, or the coupon, spent from while another call had read them

bookVars == <<ledger, used, redemption>>
callVars == <<checkout, plan>>
loyaltyVars == <<bookVars, callVars, outbox, drain, expiry, sweeps, faults, late, crossed>>

EntryKinds == {"earn", "redeem", "reverse", "expire", "restore"}
Names   == {"paid", "cancelled"}
Events  == [order: Checkouts, name: Names, nth: 1 .. 2]
Sources == Events \union [order: Checkouts, name: {"order"}, nth: {1}]
                  \union [order: {NoOrder}, name: {"opening", "sweep"}, nth: 1 .. MaxSweeps + 1]
Entry   == [user: Users, kind: EntryKinds, points: Int, source: Sources]
Idle    == [at |-> "idle", rows |-> {}, done |-> {}, mine |-> {}, freed |-> {}]

LoyaltyTypeOK ==
  /\ ledger \subseteq Entry
  /\ used \in Nat /\ redemption \in [Checkouts -> {"none", "applied", "released"}]
  /\ checkout \in [Checkouts -> {"idle", "validated", "quoted", "refused", "placed", "done",
                                 "replayed"}]
  /\ plan \in [Checkouts -> [coupon: BOOLEAN, points: Nat]]
  /\ outbox \in [Events -> {"none", "queued", "handled", "elsewhere"}]
  /\ drain \in [Drains -> [at: {"idle", "paid", "cancelled"}, rows: SUBSET Events,
                           done: SUBSET Events, mine: SUBSET Entry, freed: SUBSET Checkouts]]
  /\ expiry \in [on: BOOLEAN, due: [Users -> Nat]]
  /\ sweeps \in 0 .. MaxSweeps /\ faults \in 0 .. MaxFaults
  /\ late \subseteq Checkouts /\ crossed \subseteq Users \union {"coupon"}

Earlier(u) == [user |-> u, kind |-> "earn", points |-> Opening[u],
               source |-> [order |-> NoOrder, name |-> "opening", nth |-> 1]]
NoneDue == [on |-> FALSE, due |-> [u \in Users |-> 0]]

LoyaltyInit ==
  /\ ledger = {Earlier(u) : u \in Users}
  /\ used = 0 /\ redemption = [o \in Checkouts |-> "none"]
  /\ checkout = [o \in Checkouts |-> "idle"]
  /\ plan = [o \in Checkouts |-> [coupon |-> FALSE, points |-> 0]]
  /\ outbox = [e \in Events |-> "none"] /\ drain = [d \in Drains |-> Idle]
  /\ expiry = NoneDue /\ sweeps = 0 /\ faults = 0 /\ late = {} /\ crossed = {}

-----------------------------------------------------------------------------
(* The ledger.                                                                *)

Points(E) == SumFunctionOnSet([e \in E |-> e.points], E)
Of(u, K)  == {e \in ledger : e.user = u /\ e.kind \in K}
PointsBalance(u) == Points(Of(u, EntryKinds))
About(L, o, K) == {e \in L : e.source.order = o /\ e.kind \in K}

\* loyalty.record_points: what it adds to the ledger L a transaction sees, one
\* entry for a kind and a source.
Recorded(L, o, kind, points, source) ==
  {e \in {[user |-> OwnerOf[o], kind |-> kind, points |-> points, source |-> source]} :
     ~ \E x \in L : x.kind = kind /\ x.source = source}

Larger(a, b)  == IF a > b THEN a ELSE b
Smaller(a, b) == IF a < b THEN a ELSE b

-----------------------------------------------------------------------------
(* POST /orders.                                                              *)

Uses(u) == {o \in Checkouts : redemption[o] = "applied" /\ OwnerOf[o] = u}

\* validate_coupon, in a transaction of its own that locks nothing.
Valid(o) == o \in Coded /\ used < UsageCap /\ Cardinality(Uses(OwnerOf[o])) < PerUserLimit

Validate(o) ==
  /\ checkout[o] = "idle"
  /\ checkout' = [checkout EXCEPT ![o] = "validated"]
  /\ plan' = [plan EXCEPT ![o].coupon = Valid(o)]
  /\ UNCHANGED <<bookVars, outbox, drain, expiry, sweeps, faults, late, crossed>>

\* Mutant of Allowed: the points are not held against the balance.
AllowedUncovered(o) == Larger(Smaller(Wanted[o], Ceiling[o]), 0)

\* quote_redemption, likewise.
Allowed(o) == Larger(Smaller(Wanted[o], Smaller(PointsBalance(OwnerOf[o]), Ceiling[o])), 0)

Quote(o) ==
  /\ checkout[o] = "validated"
  /\ checkout' = [checkout EXCEPT ![o] = "quoted"]
  /\ plan' = [plan EXCEPT ![o].points = Allowed(o)]
  /\ UNCHANGED <<bookVars, outbox, drain, expiry, sweeps, faults, late, crossed>>

\* orders.place_order commits the order with its discount, or refuses.
PlaceOrder(o) ==
  /\ checkout[o] = "quoted"
  /\ \E answer \in {"placed", "refused"} : checkout' = [checkout EXCEPT ![o] = answer]
  /\ UNCHANGED <<bookVars, plan, outbox, drain, expiry, sweeps, faults, late, crossed>>

Placed(o) == checkout[o] \in {"placed", "done", "replayed"}

\* A drain that has released a redemption keeps the coupon's row to its end.
CouponLocked == \E d \in Drains : drain[d].freed # {}

\* Undone already, by a drain that has committed or is about to.
Undone(o, D) ==
  \E e \in Events : /\ e.order = o /\ e.name = "cancelled"
                    /\ outbox[e] = "handled" \/ \E d \in D : e \in drain[d].done

\* Who else has been promised points of u, or the coupon, and not got them yet.
Promised(u) == {q \in Checkouts : /\ OwnerOf[q] = u /\ plan[q].points > 0
                                  /\ checkout[q] \in {"quoted", "placed"}}
Couponed    == {q \in Checkouts : /\ plan[q].coupon
                                  /\ checkout[q] \in {"validated", "quoted", "placed"}}

Crossing(o) ==
  crossed \union {u \in Users : /\ u = OwnerOf[o] /\ plan[o].points > 0
                                /\ Promised(u) \ {o} # {} \/ expiry.due[u] > 0}
          \union {c \in {"coupon"} : plan[o].coupon /\ Couponed \ {o} # {}}

\* apply_coupon_redemption, which counts whether or not it inserts, and
\* apply_redemption, in one transaction after the order's.
Redeem(o) ==
  /\ plan[o].coupon => ~CouponLocked
  /\ IF plan[o].coupon
     THEN /\ redemption' = [redemption EXCEPT ![o] = IF @ = "none" THEN "applied" ELSE @]
          /\ used' = used + 1
     ELSE UNCHANGED <<redemption, used>>
  /\ ledger' = IF plan[o].points > 0
               THEN ledger \union Recorded(ledger, o, "redeem", -plan[o].points,
                                           [order |-> o, name |-> "order", nth |-> 1])
               ELSE ledger
  /\ late' = IF Undone(o, Drains) THEN late \union {o} ELSE late
  /\ crossed' = Crossing(o)

Apply(o) ==
  /\ checkout[o] = "placed" /\ Redeem(o)
  /\ checkout' = [checkout EXCEPT ![o] = "done"]
  /\ UNCHANGED <<plan, outbox, drain, expiry, sweeps, faults>>

\* The process dies after the order has been committed.
Die(o) ==
  /\ checkout[o] = "placed" /\ faults < MaxFaults
  /\ checkout' = [checkout EXCEPT ![o] = "done"] /\ faults' = faults + 1
  /\ UNCHANGED <<bookVars, plan, outbox, drain, expiry, sweeps, late, crossed>>

\* Mutant of Replay: the redemptions are made again, as the comment beside them
\* says they safely could be.
ReplayApplied(o) ==
  /\ checkout[o] = "done" /\ Redeem(o)
  /\ checkout' = [checkout EXCEPT ![o] = "replayed"]
  /\ UNCHANGED <<plan, outbox, drain, expiry, sweeps, faults>>

\* The customer, who got no answer, sends the order again: is_replay.
Replay(o) ==
  /\ checkout[o] = "done"
  /\ checkout' = [checkout EXCEPT ![o] = "replayed"]
  /\ UNCHANGED <<bookVars, plan, outbox, drain, expiry, sweeps, faults, late, crossed>>

-----------------------------------------------------------------------------
(* The outbox.                                                                *)

EventsOf(o, names) == {e \in Events : e.order = o /\ e.name \in names /\ outbox[e] # "none"}
RowLocked(e) == \E d \in Drains : e \in drain[d].rows \union drain[d].done

Announce(o, name) ==
  /\ Placed(o) /\ Cardinality({e \in Events : outbox[e] # "none"}) < MaxEvents
  /\ Cardinality(EventsOf(o, {name})) < 2
  /\ outbox' = [outbox EXCEPT ![[order |-> o, name |-> name,
                                 nth |-> Cardinality(EventsOf(o, {name})) + 1]] = "queued"]
  /\ UNCHANGED <<bookVars, callVars, drain, expiry, sweeps, faults, late, crossed>>

\* The dispatcher, or the dispatch worker, stamps the row first.
TakenElsewhere(e) ==
  /\ outbox[e] = "queued" /\ ~RowLocked(e)
  /\ outbox' = [outbox EXCEPT ![e] = "elsewhere"]
  /\ UNCHANGED <<bookVars, callVars, drain, expiry, sweeps, faults, late, crossed>>

-----------------------------------------------------------------------------
(* drainLoyaltyOutbox.                                                        *)

Waiting(name) == {e \in Events : e.name = name /\ outbox[e] = "queued" /\ ~RowLocked(e)}

\* FOR UPDATE SKIP LOCKED over the paid events, and earn_on_paid for each.
DrainPaid(d) ==
  /\ drain[d].at = "idle" /\ \E name \in Names : Waiting(name) # {}
  /\ drain' = [drain EXCEPT ![d] =
       [Idle EXCEPT !.at = "paid", !.done = Waiting("paid"),
                    !.mine = UNION {Recorded(ledger, e.order, "earn", Earns[e.order], e)
                                      : e \in Waiting("paid")}]]
  /\ UNCHANGED <<bookVars, callVars, outbox, expiry, sweeps, faults, late, crossed>>

\* The same over the cancellations, which a second query selects.
DrainCancelled(d) ==
  /\ drain[d].at = "paid"
  /\ drain' = [drain EXCEPT ![d] =
       [drain[d] EXCEPT !.at = "cancelled", !.rows = Waiting("cancelled")]]
  /\ UNCHANGED <<bookVars, callVars, outbox, expiry, sweeps, faults, late, crossed>>

\* An entry that takes back one of the order's entries of a kind ("limit 1").
TakenBack(L, o, kind, back, e) ==
  LET found == {x \in About(L, o, {kind}) : x.points # 0}
  IN  IF found = {} THEN {{}}
      ELSE {Recorded(L, o, back, -x.points, e) : x \in found}

\* Mutant of Visible: only what has been committed is read.
VisibleCommitted(d) == ledger

\* A transaction reads what is committed and what it has written.
Visible(d) == ledger \union drain[d].mine

\* reverse_points, restore_redemption and release_coupon_redemption for one
\* cancellation.  Whatever commits between them makes the order late, as what
\* commits after them does, so they are one step.
Undo(d, e) ==
  LET o == e.order
      tx == drain[d]
      releases == redemption[o] = "applied" /\ o \notin tx.freed
  IN  /\ e \in tx.rows
      /\ releases => \A x \in Drains \ {d} : drain[x].freed = {}
      /\ \E reversed \in TakenBack(Visible(d), o, "earn", "reverse", e),
            restored \in TakenBack(Visible(d), o, "redeem", "restore", e) :
           drain' = [drain EXCEPT ![d] =
             [at |-> tx.at, rows |-> tx.rows \ {e}, done |-> tx.done \union {e},
              mine |-> tx.mine \union reversed \union restored,
              freed |-> IF releases THEN tx.freed \union {o} ELSE tx.freed]]
      /\ UNCHANGED <<bookVars, callVars, outbox, expiry, sweeps, faults, late, crossed>>

Commit(d) ==
  /\ drain[d].at = "cancelled" /\ drain[d].rows = {}
  /\ ledger' = ledger \union drain[d].mine
  /\ redemption' = [o \in Checkouts |-> IF o \in drain[d].freed THEN "released" ELSE redemption[o]]
  /\ used' = Larger(used - Cardinality(drain[d].freed), 0)
  /\ outbox' = [e \in Events |-> IF e \in drain[d].done THEN "handled" ELSE outbox[e]]
  /\ late' = late \union {o \in Checkouts : /\ Undone(o, Drains \ {d})
                                            /\ \E e \in drain[d].done : e.order = o /\ e.name = "paid"}
  /\ drain' = [drain EXCEPT ![d] = Idle]
  /\ UNCHANGED <<callVars, expiry, sweeps, faults, crossed>>

\* A statement fails, or the worker dies: the rows are free again.
RollBack(d) ==
  /\ drain[d].at # "idle" /\ faults < MaxFaults
  /\ drain' = [drain EXCEPT ![d] = Idle] /\ faults' = faults + 1
  /\ UNCHANGED <<bookVars, callVars, outbox, expiry, sweeps, late, crossed>>

-----------------------------------------------------------------------------
(* sweep_expiry.                                                              *)

\* What was earned within points_expiry_months, as all is that the calls of a
\* behaviour earn, is out of its reach.
Expirable(u) ==
  Larger(Points({Earlier(u)}) + Points(Of(u, {"expire"})), 0)

\* The loop's query sees the ledger as it is when the loop begins ...
BeginExpiry ==
  /\ ~expiry.on /\ sweeps < MaxSweeps
  /\ \E u \in Users : Expirable(u) > 0 /\ PointsBalance(u) > 0
  /\ expiry' = [on |-> TRUE,
                due |-> [u \in Users |-> Larger(Smaller(PointsBalance(u), Expirable(u)), 0)]]
  /\ sweeps' = sweeps + 1
  /\ UNCHANGED <<bookVars, callVars, outbox, drain, faults, late, crossed>>

Expired(u) == [user |-> u, kind |-> "expire", points |-> -expiry.due[u],
               source |-> [order |-> NoOrder, name |-> "sweep", nth |-> sweeps]]

\* ... and its entries are seen at the end of the transaction.
CommitExpiry ==
  /\ expiry.on
  /\ ledger' = ledger \union {Expired(u) : u \in {v \in Users : expiry.due[v] > 0}}
  /\ crossed' = crossed \union {u \in Users : expiry.due[u] > 0 /\ Promised(u) # {}}
  /\ expiry' = NoneDue
  /\ UNCHANGED <<used, redemption, callVars, outbox, drain, sweeps, faults, late>>

-----------------------------------------------------------------------------
LoyaltyNext ==
  \/ \E o \in Checkouts : \/ Validate(o) \/ Quote(o) \/ PlaceOrder(o)
                          \/ Apply(o) \/ Die(o) \/ Replay(o)
                          \/ \E name \in Names : Announce(o, name)
  \/ \E e \in Events : TakenElsewhere(e)
  \/ \E d \in Drains : \/ DrainPaid(d) \/ DrainCancelled(d) \/ Commit(d) \/ RollBack(d)
                       \/ \E e \in Events : Undo(d, e)
  \/ BeginExpiry \/ CommitExpiry

LoyaltySpec == LoyaltyInit /\ [][LoyaltyNext]_loyaltyVars

-----------------------------------------------------------------------------
(* Properties.                                                                *)

\* A cancelled order leaves its customer's points and the coupon as they were
\* before it: what it earned is reversed, what it spent restored, and its
\* redemption released, whichever drains handled the two events and however they
\* overlapped and failed.  Only what is granted or spent after the cancellation
\* was handled stays, and an order announced twice is undone per announcement.
UndoneInFull ==
  \A o \in Checkouts :
    /\ Cardinality(EventsOf(o, {"cancelled"})) = 1 /\ Cardinality(EventsOf(o, {"paid"})) < 2
    /\ o \notin late /\ \E e \in EventsOf(o, {"cancelled"}) : outbox[e] = "handled"
    => Points(About(ledger, o, EntryKinds)) = 0 /\ redemption[o] # "applied"

\* used_count is the number of redemptions in force, whatever is sent again,
\* released twice or rolled back; it passes the cap only where another checkout
\* had validated the coupon before this one used it.
CouponCounted ==
  /\ used = Cardinality({o \in Checkouts : redemption[o] = "applied"})
  /\ used > UsageCap => "coupon" \in crossed

\* Nobody spends or loses to expiry more points than came in, unless two of them
\* were decided on one balance.
SpentIsCovered ==
  \A u \in Users \ crossed : Points(Of(u, {"earn", "restore", "redeem", "expire"})) >= 0

\* "reverses exactly the points a specific earn entry granted for that order,
\* never more" (0070_loyalty_functions.sql:58-59).
ReversedExactly ==
  \A o \in Checkouts : Points(About(ledger, o, {"earn", "reverse"})) >= 0

\* "usage-cap enforcement" (0069_loyalty_schema.sql:57).
CapEnforced == used <= UsageCap

\* "never expires more than the user actually has"
\* (0071_loyalty_expiry_and_campaign_functions.sql:9-10).
ExpiresWhatIsThere ==
  [][ \A u \in Users : Of(u, {"expire"})' # Of(u, {"expire"})
                         => PointsBalance(u)' >= 0 ]_loyaltyVars
=============================================================================
