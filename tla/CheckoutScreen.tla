--------------------------- MODULE CheckoutScreen ---------------------------
(* The storefront's checkout page with the server's answers to it:             *)
(* apps/store/app/checkout/page.tsx, and of POST /checkout/quote,              *)
(* POST /loyalty/redemption/quote and POST /orders (routes/checkout.ts) what   *)
(* the page can tell apart.  OrderLifecycle models what an order becomes.      *)
(*                                                                             *)
(* The page walks through four steps, asks for a delivery quote when the       *)
(* address is confirmed, for the cap of the points it may redeem when it knows *)
(* balance and total, and for the points chosen when the slider rests; one     *)
(* busy flag serves the three handlers that await an answer.  An effect runs   *)
(* in the step that changed what it depends on, its cleanup first.  A question *)
(* that changes nothing is carried out when it is answered.                    *)
EXTENDS Integers, FiniteSets

CONSTANTS
  Addresses,   \* the customer's saved addresses
  New,         \* the addresses the form can save
  Preferred,   \* the default among Addresses
  Far,         \* the addresses out of the delivery radius
  Points,      \* the balance of loyalty points
  Half,        \* the points that pay for half of the order
  MaxCalls,    \* bound: requests out at a time
  MaxMoves,    \* bound: changes of the address or the slider
  MaxLost      \* bound: requests that fail, answers that are lost

ASSUME CheckoutAssumption ==
  /\ Preferred \in Addresses /\ Addresses \cap New = {}
  /\ {Points, Half, MaxCalls, MaxMoves, MaxLost} \subseteq Nat /\ MaxCalls >= 3

Anywhere == Addresses \union New
Nowhere == "nowhere"
Nothing == -1

VARIABLES
  step,        \* the step displayed; "left" once the page has gone to the order
  cart,        \* the cart displayed: not yet loaded, full, or empty
  listed,      \* the addresses displayed
  addressId,   \* the address selected
  adding,      \* the form for a new address is open
  quote,       \* the address the delivery quote was for
  blocked,     \* the page says the address is out of the radius
  balance,     \* the balance displayed
  requested,   \* where the slider is
  cap,         \* the cap: the balance it was asked for and the points allowed
  redemption,  \* the points quoted last: asked for and allowed
  timer,       \* the slider's debounce is running
  busy, error,
  calls,       \* the requests that are out
  saved,       \* the server: the addresses, the order of this cart
  orders,      \* the server: the orders made of this cart
  points,      \* the server: the loyalty points left
  moves, losses

form   == <<listed, addressId, adding, quote, blocked>>
wallet == <<balance, requested, cap, redemption, timer>>
server == <<saved, orders, points>>
checkoutVars == <<step, cart, form, wallet, busy, error, calls, server, moves, losses>>

NoCall  == [kind |-> "none", arg |-> Nowhere, points |-> Nothing, stage |-> "none", live |-> TRUE]
NoQuote == [asked |-> Nothing, allowed |-> 0]
Steps   == {"address", "slot", "payment", "review"}
Open    == step # "left"
Least(m, n) == IF m < n THEN m ELSE n
Total(c) == IF c = "full" THEN 2 * Half ELSE 0

CheckoutTypeOK ==
  /\ step \in Steps \union {"left"} /\ cart \in {"none", "full", "empty"}
  /\ listed \subseteq Anywhere /\ {addressId, quote} \subseteq Anywhere \union {Nowhere}
  /\ {adding, blocked, timer, busy, error} \subseteq BOOLEAN
  /\ {balance, requested, points} \subseteq 0 .. Points
  /\ \A q \in {cap, redemption} : q.asked \in -1 .. Points /\ q.allowed \in 0 .. Least(Points, Half)
  /\ calls \in [1 .. MaxCalls ->
       [kind : {"none", "cart", "addresses", "balance", "cap", "points", "save", "quote", "place"},
        arg : Anywhere \union {Nowhere}, points : -1 .. Points,
        stage : {"none", "asked", "served", "refused"}, live : BOOLEAN]]
  /\ saved \subseteq Anywhere
  /\ orders \subseteq [address : Anywhere, points : 0 .. Points, try : 1 .. MaxCalls]
  /\ moves \in 0 .. MaxMoves /\ losses \in 0 .. MaxLost

-----------------------------------------------------------------------------
(* Requests and effects.                                                      *)

Call(kind, arg, n) ==
  [NoCall EXCEPT !.kind = kind, !.arg = arg, !.points = n, !.stage = "asked"]
IdleCalls(cs) == {c \in DOMAIN cs : cs[c].stage = "none"}
Room(n) == Cardinality(IdleCalls(calls)) >= n
Send(cs, call) ==
  LET c == CHOOSE c \in IdleCalls(cs) : \A d \in IdleCalls(cs) : c <= d
  IN  [cs EXCEPT ![c] = call]
Drop(c) == [calls EXCEPT ![c] = NoCall]

LoadCalls(cs) ==
  Send(Send(Send(cs, Call("cart", Nowhere, Nothing)), Call("addresses", Nowhere, Nothing)),
       Call("balance", Nowhere, Nothing))

\* Mutant of CapEffect: the effect has no cleanup.
CapEffectWithoutCleanup(cs, b, total) ==
  IF b = balance /\ total = Total(cart) THEN cs
  ELSE IF b > 0 /\ total > 0 THEN Send(cs, Call("cap", Nowhere, b)) ELSE cs

\* useEffect on [balance, orderTotal]: the cap is asked for again, and the answer to
\* the question before it is not heeded any more.
CapEffect(cs, b, total) ==
  IF b = balance /\ total = Total(cart) THEN cs
  ELSE LET heard == [c \in DOMAIN cs |->
                      IF cs[c].kind = "cap" THEN [cs[c] EXCEPT !.live = FALSE] ELSE cs[c]]
       IN  IF b > 0 /\ total > 0 THEN Send(heard, Call("cap", Nowhere, b)) ELSE heard

\* useEffect on [requestedPoints, orderTotal]: the timer starts anew.  A quote that is
\* out stays out.
RedemptionEffect(r, total) ==
  IF r = requested /\ total = Total(cart) THEN UNCHANGED <<timer, redemption>>
  ELSE /\ timer' = (r > 0 /\ total > 0)
       /\ redemption' = IF r > 0 /\ total > 0 THEN redemption ELSE NoQuote

\* loyalty.quote_redemption: the balance and half of the order bound what is allowed.
Allowed(n) == Least(Least(n, points), Half)

CheckoutInit ==
  /\ step = "address" /\ cart = "none"
  /\ listed = {} /\ addressId = Nowhere /\ adding = FALSE /\ quote = Nowhere /\ blocked = FALSE
  /\ balance = 0 /\ requested = 0 /\ cap = NoQuote /\ redemption = NoQuote
  /\ timer = FALSE /\ busy = FALSE /\ error = FALSE
  /\ calls = LoadCalls([c \in 1 .. MaxCalls |-> NoCall])
  /\ saved = Addresses /\ orders = {} /\ points = Points
  /\ moves = 0 /\ losses = 0

\* The button of the error banner, on whatever step it is displayed.
RetryLoads ==
  /\ Open /\ error /\ Room(3)
  /\ error' = FALSE /\ calls' = LoadCalls(calls)
  /\ UNCHANGED <<step, cart, form, wallet, busy, server, moves, losses>>

\* GET /cart makes a new cart once this one has become an order.
CartAnswered(c) ==
  /\ calls[c].kind = "cart"
  /\ cart' = IF orders = {} THEN "full" ELSE "empty"
  /\ calls' = CapEffect(Drop(c), balance, Total(cart'))
  /\ RedemptionEffect(requested, Total(cart'))
  /\ UNCHANGED <<step, form, balance, requested, cap, busy, error, server, moves, losses>>

\* The preferred address is selected, whatever was.
AddressesAnswered(c) ==
  /\ calls[c].kind = "addresses" /\ calls' = Drop(c)
  /\ listed' = saved
  /\ addressId' = IF saved \cap New # {} THEN CHOOSE n \in saved \cap New : TRUE ELSE Preferred
  /\ UNCHANGED <<step, cart, adding, quote, blocked, wallet, busy, error, server, moves, losses>>

\* A balance that does not load counts as none.
BalanceIs(c, b) ==
  /\ balance' = b /\ calls' = CapEffect(Drop(c), b, Total(cart))
  /\ UNCHANGED <<step, cart, form, requested, cap, redemption, timer, busy, error, server, moves>>
BalanceAnswered(c) == calls[c].kind = "balance" /\ BalanceIs(c, points) /\ UNCHANGED losses
BalanceFails(c) ==
  calls[c].kind = "balance" /\ losses < MaxLost /\ losses' = losses + 1 /\ BalanceIs(c, 0)

CapIs(c, q) ==
  /\ calls' = Drop(c)
  /\ cap' = IF calls[c].live THEN q ELSE cap
  /\ UNCHANGED <<step, cart, form, balance, requested, redemption, timer, busy, error, server, moves>>
CapAnswered(c) ==
  /\ calls[c].kind = "cap" /\ CapIs(c, [asked |-> calls[c].points, allowed |-> Allowed(calls[c].points)])
  /\ UNCHANGED losses
CapFails(c) ==
  calls[c].kind = "cap" /\ losses < MaxLost /\ losses' = losses + 1 /\ CapIs(c, NoQuote)

TimerFires ==
  /\ Open /\ timer /\ Room(1) /\ timer' = FALSE
  /\ calls' = Send(calls, Call("points", Nowhere, requested))
  /\ UNCHANGED <<step, cart, form, balance, requested, cap, redemption, busy, error, server, moves, losses>>

PointsAre(c, q) ==
  /\ calls' = Drop(c) /\ redemption' = q
  /\ UNCHANGED <<step, cart, form, balance, requested, cap, timer, busy, error, server, moves>>
PointsAnswered(c) ==
  /\ calls[c].kind = "points" /\ PointsAre(c, [asked |-> calls[c].points, allowed |-> Allowed(calls[c].points)])
  /\ UNCHANGED losses
PointsFail(c) ==
  calls[c].kind = "points" /\ losses < MaxLost /\ losses' = losses + 1 /\ PointsAre(c, NoQuote)

PageLoadFails(c) ==
  /\ calls[c].kind \in {"cart", "addresses"} /\ losses < MaxLost /\ losses' = losses + 1
  /\ calls' = Drop(c) /\ error' = TRUE
  /\ UNCHANGED <<step, cart, form, wallet, busy, server, moves>>

-----------------------------------------------------------------------------
(* What the customer does without the server.                                 *)

Shown == Open /\ cart = "full"     \* the steps are rendered for a cart with lines
Move  == moves < MaxMoves /\ moves' = moves + 1

\* The radio buttons stay open while an answer is awaited.
SelectAddress(a) ==
  /\ Shown /\ step = "address" /\ a \in listed \ {addressId} /\ Move
  /\ addressId' = a /\ blocked' = FALSE
  /\ UNCHANGED <<step, cart, listed, adding, quote, wallet, busy, error, calls, server, losses>>

OpenForm ==
  /\ Shown /\ step = "address" /\ ~adding /\ Move /\ adding' = TRUE
  /\ UNCHANGED <<step, cart, listed, addressId, quote, blocked, wallet, busy, error, calls, server, losses>>
CloseForm ==
  /\ Shown /\ step = "address" /\ adding /\ adding' = FALSE
  /\ UNCHANGED <<step, cart, listed, addressId, quote, blocked, wallet, busy, error, calls, server, moves, losses>>

Slide(n) ==
  /\ Shown /\ step = "payment" /\ n \in 0 .. cap.allowed /\ n # requested /\ Move
  /\ requested' = n /\ RedemptionEffect(n, Total(cart))
  /\ UNCHANGED <<step, cart, form, balance, cap, busy, error, calls, server, losses>>

\* Continue, back, and the edit buttons of the review; only the address step has no
\* way on but its quote, which also selects a slot.
GoTo(s) ==
  /\ Shown
  /\ \/ step = "slot"    /\ quote # Nowhere /\ s \in {"address", "payment"}
     \/ step = "payment" /\ s \in {"slot", "review"}
     \/ step = "review"  /\ s \in {"address", "slot", "payment"}
  /\ step' = s
  /\ UNCHANGED <<cart, form, wallet, busy, error, calls, server, moves, losses>>

\* Points are spent on another device, or expire.
PointsLapse ==
  /\ Open /\ points = Points /\ Points > 0 /\ points' = points - 1
  /\ UNCHANGED <<step, cart, form, wallet, busy, error, calls, saved, orders, moves, losses>>

-----------------------------------------------------------------------------
(* The three handlers that await an answer: saveAddress, confirmAddress and     *)
(* placeOrder.                                                                *)

Await(call) ==
  /\ ~busy /\ Room(1)
  /\ busy' = TRUE /\ error' = FALSE
  /\ calls' = Send(calls, call)

SaveAddress(n) ==
  /\ Shown /\ step = "address" /\ adding /\ n \in New \ saved
  /\ Await(Call("save", n, Nothing))
  /\ UNCHANGED <<step, cart, form, wallet, server, moves, losses>>

ConfirmAddress ==
  /\ Shown /\ step = "address" /\ ~adding /\ addressId # Nowhere
  /\ Await(Call("quote", addressId, Nothing))
  /\ blocked' = FALSE
  /\ UNCHANGED <<step, cart, listed, addressId, adding, quote, wallet, server, moves, losses>>

PlaceOrder ==
  /\ Shown /\ step = "review"
  /\ Await(Call("place", addressId, redemption.allowed))
  /\ UNCHANGED <<step, cart, form, wallet, server, moves, losses>>

SaveServed(c) ==
  /\ calls[c].kind = "save" /\ calls[c].stage = "asked"
  /\ saved' = saved \union {calls[c].arg}
  /\ calls' = [calls EXCEPT ![c].stage = "served"]
  /\ UNCHANGED <<step, cart, form, wallet, busy, error, orders, points, moves, losses>>

Order(call, n) == [address |-> call.arg, points |-> Allowed(call.points), try |-> n]

Answers(c, stage, made) ==
  /\ calls' = [calls EXCEPT ![c].stage = stage]
  /\ orders' = orders \union made
  /\ points' = IF orders' = orders THEN points ELSE points - Allowed(calls[c].points)
  /\ UNCHANGED <<step, cart, form, wallet, busy, error, saved, moves, losses>>

\* Mutant of PlaceServed: every request has a key of its own.
PlaceServedEachTime(c) ==
  /\ calls[c].kind = "place" /\ calls[c].stage = "asked"
  /\ IF calls[c].arg \in Far THEN Answers(c, "refused", {})
     ELSE Answers(c, "served", {Order(calls[c], Cardinality(orders) + 1)})

\* POST /orders quotes the address itself, then answers the order its key has, or
\* makes one; the cart's own id is the key.  The points are spent with it.
PlaceServed(c) ==
  /\ calls[c].kind = "place" /\ calls[c].stage = "asked"
  /\ IF calls[c].arg \in Far THEN Answers(c, "refused", {})
     ELSE Answers(c, "served", IF orders # {} THEN {} ELSE {Order(calls[c], 1)})

\* Nobody listens any more.
Forget(c) ==
  /\ calls[c].kind \in {"save", "place"} /\ calls[c].stage \in {"served", "refused"} /\ ~calls[c].live
  /\ calls' = Drop(c)
  /\ UNCHANGED <<step, cart, form, wallet, busy, error, server, moves, losses>>

SaveAnswered(c) ==
  /\ calls[c].kind = "save" /\ calls[c].stage = "served" /\ calls[c].live /\ calls' = Drop(c)
  /\ listed' = listed \union {calls[c].arg} /\ addressId' = calls[c].arg
  /\ adding' = FALSE /\ blocked' = FALSE /\ busy' = FALSE
  /\ UNCHANGED <<step, cart, quote, wallet, error, server, moves, losses>>

QuoteAnswered(c) ==
  /\ calls[c].kind = "quote" /\ calls[c].arg \notin Far /\ calls' = Drop(c)
  /\ quote' = calls[c].arg
  /\ step' = "slot" /\ busy' = FALSE
  /\ UNCHANGED <<cart, listed, addressId, adding, blocked, wallet, error, server, moves, losses>>

QuoteBlocked(c) ==
  /\ calls[c].kind = "quote" /\ calls[c].arg \in Far /\ calls' = Drop(c)
  /\ blocked' = TRUE /\ busy' = FALSE
  /\ UNCHANGED <<step, cart, listed, addressId, adding, quote, wallet, error, server, moves, losses>>

\* The page goes to the order and leaves busy as it is.
PlaceAnswered(c) ==
  /\ calls[c].kind = "place" /\ calls[c].stage = "served" /\ calls[c].live /\ calls' = Drop(c)
  /\ step' = "left"
  /\ UNCHANGED <<cart, form, wallet, busy, error, server, moves, losses>>

\* The catch of each handler, and its finally.
Rejected == error' = TRUE /\ busy' = FALSE

PlaceRefused(c) ==
  /\ calls[c].kind = "place" /\ calls[c].stage = "refused" /\ calls[c].live /\ calls' = Drop(c)
  /\ Rejected
  /\ UNCHANGED <<step, cart, form, wallet, server, moves, losses>>

\* The fetch rejects.  What it asked for may be carried out yet.
Lost(c) ==
  /\ calls[c].kind \in {"save", "quote", "place"} /\ calls[c].live
  /\ losses < MaxLost /\ losses' = losses + 1
  /\ calls' = IF calls[c].kind = "quote" THEN Drop(c) ELSE [calls EXCEPT ![c].live = FALSE]
  /\ Rejected
  /\ UNCHANGED <<step, cart, form, wallet, server, moves>>

Reply(c) ==
  /\ Open
  /\ \/ CartAnswered(c) \/ AddressesAnswered(c) \/ BalanceAnswered(c) \/ CapAnswered(c) \/ PointsAnswered(c)
     \/ SaveServed(c) \/ PlaceServed(c) \/ Forget(c)
     \/ SaveAnswered(c) \/ QuoteAnswered(c) \/ QuoteBlocked(c) \/ PlaceAnswered(c) \/ PlaceRefused(c)
Fault(c) == Open /\ (BalanceFails(c) \/ CapFails(c) \/ PointsFail(c) \/ PageLoadFails(c) \/ Lost(c))

CheckoutNext ==
  \/ RetryLoads \/ TimerFires \/ OpenForm \/ CloseForm \/ ConfirmAddress \/ PlaceOrder
  \/ PointsLapse
  \/ \E c \in 1 .. MaxCalls : Reply(c) \/ Fault(c)
  \/ \E a \in Anywhere : SelectAddress(a) \/ SaveAddress(a)
  \/ \E s \in Steps : GoTo(s)
  \/ \E p \in 0 .. Points : Slide(p)

CheckoutSpec == CheckoutInit /\ [][CheckoutNext]_checkoutVars

-----------------------------------------------------------------------------
\* However the page, its retries and lost answers interleave, a cart becomes one order.
OneOrder == Cardinality(orders) <= 1

\* The cap displayed belongs to the balance displayed, once no question for it is out.
CapIsForTheBalance ==
  Open /\ balance > 0 /\ cart = "full" /\ (\A c \in 1 .. MaxCalls : calls[c].kind # "cap" \/ ~calls[c].live)
    => cap.asked \in {Nothing, balance}

\* page.tsx:90: "Out of radius is a block, not a warning: the address step will not hand
\* over until the server has quoted a deliverable address."
HandsOverQuoted == step \in {"slot", "payment", "review"} => quote = addressId
=============================================================================
