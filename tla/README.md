# TLA+ models and proofs of PetroSpecial Web

PetroSpecial Web is a web shop with wholesale customers, its own drivers and a
back office. A Fastify API (`src/services/api`) calls PostgreSQL functions
(`src/db/migrations`); worker processes (`src/workers`) and a realtime service
(`src/services/realtime`) react to the rows of a transactional outbox; Next.js
applications (`src/apps`) are the shop, the admin console, the supplier portal and
the driver's app. The logic that changes over time is in PL/pgSQL functions, in the route
handlers that call them, in the workers' polling loops, and in the pages, whose requests are
out while the user goes on clicking. These are what is modelled here. TLC checks the models on
small instances; TLAPS proves the main safety properties for every value of the constants.

## 1. Inventory

| Part | State | Operations | What is hard | What makes it correct |
|---|---|---|---|---|
| Outbox and event dispatch | `core.outbox`, `core.processed_events`, row locks of open transactions | `publishEvent`, dispatcher drain, four polling workers, rollback | overlapping drains, `for update skip locked`, crash between effect and stamp, one flag for many takers | a row is handed off once, effects and stamp commit together, every row is stamped in the end |
| Checkout and orders | `orders.orders`, `payments`, `status_history`, cart, `inventory.reserved` | place, cancel, transfer proof, verify, confirm receipt, force cancel, timeout sweep, cash at the door, redemptions | racing checkouts, retries with an idempotency key, unlocked read then write by id, sweeps that overlap, a second transaction after the first | no overselling, one order per key, status and events agree, closed orders stay closed, a transfer order is resolved |
| Delivery | tasks, shifts, van stock, proofs, cash custody, the mirrored order status | dispatch, recall, accept, decline, transition, proof, failure, reassign, shift start/reconcile/close, remit | reassignment of anything at any time, events lost to another taker, cash verified while it is remitted | goods and cash are booked once, stock is conserved, the order follows its task |
| Driver app queue | IndexedDB per driver, token in localStorage, flushes in progress | send or queue, flush, sign in and out, expiry, tab closed | no answer is not no effect; overlapping flushes; token changes mid-request | an action lands once; what a driver was told is queued is not lost |
| Wholesale credit | limits, approvals, wholesale orders, invoices, proofs, payments | check and reserve, place, issue, submit and verify a proof, write off, overdue sweep, change of limit | two placements in one room, a verification beside another or beside the sweep, a limit replaced under a lock | an order fits the limit it was placed under; paid is the sum of payments; a paid invoice stays paid; a due one is dunned |
| Authentication on the server | identity row, refresh-token families, one-use links, TOTP secret | register, verify, login, refresh, logout, reset, enrol, confirm, suspend, delete | every handler reads unlocked and writes by id, and throws after it has written | a revoked family stays dead, a family has one live token, a refusal is counted, a confirmed secret is proven |
| The shop's session in the browser | token pair in localStorage, one refresh in flight per tab | authed calls, shared refresh, logout | several 401s at once, lost answers, error answers, several tabs | one refresh serves a tab's calls; a live pair is thrown away on an error answer at most; every call returns |
| API routes | the rows a request is about, `core.outbox`, `audit.audit_log` | 172 routes of the four applications | an ApiError commits, any other error rolls back; unlocked checks; unique constraints nobody translates | a refused call leaves nothing; event and audit entry come exactly with the change; what is allowed once happens once |
| Pages | data, filter, errors, busy slots, loads and operations in flight | load, retry, poll, click, navigate | late answers, clicks while a request is out, failures after an optimistic change | controls are shut while they must be and open again; what they close is sent once; nothing is claimed that is not stored, but for switches that cross |
| Checkout page | step, address, quote, cap, redemption, busy | confirm, save an address, slide, place, retry | debounce and cleanup, lost answer of POST /orders, one busy flag for three handlers | one cart is one order, the cap is the one for the balance |
| Cart, returns, reviews, wishlist, addresses, settings, catalog, PDPL, supplier tracking | rows of one customer or admin | routes of one or two transactions | as for the API routes | as for the API routes |
| Loyalty | points ledger, tiers, coupons, campaigns | earn, redeem, restore, expire, grant | replays, expiry against redemption | balance equals ledger; a coupon is used once per order |
| Health watcher, audit chain, stock audits, OTP | incident rows, hash chain, audit lines | probe thresholds, append, count | concurrent appends | one open incident per target; an unbroken chain |
| WebSocket hub | connected clients | broadcast | best effort | nothing is sent before its commit |
| RLS, media storage, ZATCA simulator, UI packages, static site | - | static policy, I/O, formatting | - | - |

Interactions. The API writes business rows and outbox rows in one transaction. The
dispatcher and the workers take outbox rows; the dispatch worker creates and recalls
tasks, the loyalty, invoice and statement workers feed loyalty and credit. Task functions
write order statuses back through `orders.mirror_delivery_status`. The sweeper and the
customer write the same orders. The driver's app calls the task functions through its queue.
Every page calls the API with the token pair of its browser, and renews it when it meets a 401.

`PROJECT.json` lists every part with what is and is not modelled, and every hazard at its line.

## 2. Modules

| Module | Models | Extends | Proofs |
|---|---|---|---|
| `EventDelivery` | the abstract promise of the outbox: an announced event is handed off at most once, and only after it was announced | - | - |
| `OutboxBus` | dispatcher, workers, locks, crashes; implements `EventDelivery` | - | `OutboxBus_proofs` |
| `OrderLifecycle` | checkout, transfer payment, cancellation, sweeper | - | `OrderLifecycle_proofs` |
| `Delivery` | tasks, shifts, stock, proofs, cash | - | `Delivery_proofs` |
| `DriverQueue` | the queue of one device and the task functions it talks to | - | `Clients_proofs` |
| `Credit` | placement against a limit, invoices, payments, the overdue sweep | - | `Ledgers_proofs` |
| `Accounts` | the identity, its token families, links and TOTP secret on the server | - | `Sessions_proofs` |
| `Loyalty` | points and a coupon: checkouts, the drains of the loyalty worker, expiry | - | `Ledgers_proofs` |
| `ShopSession` | the token pair and the refreshes of several tabs | - | `Sessions_proofs` |
| `Endpoints` | a handler's statements carried out by concurrent requests | - | `Endpoints_proofs` |
| `EndpointRows`; `ShopEndpoints`, `SupplierEndpoints`, `DriverEndpoints`, `AdminEndpoints` | the forms of a row; one row per route | `EndpointRows` | - |
| `Screens` | a page whose loads and operations are in flight | - | `Clients_proofs` |
| `ScreenRows`; `StoreScreens`, `SupplierScreens`, `AdminScreens`, `DriverScreens` | the forms of a row; one row per page | `ScreenRows` | - |
| `CheckoutScreen` | the checkout page with the answers of its routes | - | `Clients_proofs` |
| `Sums` | the theory of sums over finite sets that the proofs about stock, money and points cite | - | itself |
| `MC...` | the instances TLC checks; `MCEndpoints` and `MCScreens` put the tables together | the module | - |

Conventions. A PL/pgSQL function that locks its row is one action. A function that
reads without a lock and then writes by primary key is two, `Begin...` and `Commit...`,
with what was read kept in between (READ COMMITTED allows everything to happen there).
A call that is refused, or a replay that returns early, changes nothing and is no step.
Modules that are proved together (`Credit` with `Loyalty`, `Accounts` with `ShopSession`, `DriverQueue` with the
pages) share no names, so `LoyaltyInit`, `ShopNext`, `ScreenSpec` and `CheckoutSpec` are Init, Next and Spec of theirs.
A definition commented "Mutant of X" is a plausible bug of X; it is used by no
specification, and the properties are known to be violated when it replaces X.

### OutboxBus
A session is one database transaction at a time of one taker. `StartDrain`, `TakeOldest`,
`RunConsumers`, `StampOne`, `Broadcast` and `EndDrain` are `dispatcher.ts` with
`consumers/framework.ts` inside its transaction; neither `setInterval` nor `NOTIFY` waits for the
drain before it, so the dispatcher owns several sessions. `Poll`, `HandleRow`, `NextQuery`,
`CommitBatch` are the workers' batch transactions; `Queries` is the sequence of their SELECTs by
event name, and BEGIN, which reads nothing, is one step with the first of them (`SelectRows`). `RowFails` is a database error inside a batch:
PostgreSQL aborts the transaction, so what follows is `EndAborted` and everything staged is lost.
`Abort` is a crash at any point. The welcome notification commits in its own transaction,
as `welcomeNotification.ts` does.

### OrderLifecycle
`Requests` are POST /orders calls and the orders they place; `KeyOf` gives their idempotency
keys. `BeginPlace`/`CommitPlace`/`RejectPlace` are `orders.place_order` (0031) with its
unlocked key lookup, its guarded reservation and its unique index; `Redeem` is the
second transaction of `checkout.ts`. `BeginSweep`, `ReleaseLines`, `CommitSweep`, `CrashSweep` are
`bankTransferSweeper.ts`: an unlocked SELECT, then a loop that locks what it
has updated (`Unlocked`, `StockUnlocked`), all in one transaction. `setInterval` does not wait for the sweep before, and every
worker process has a timer, so `Sweeps` may be open at once; `shared` remembers the orders that one selected
while another had them in hand. Such an order is released twice (section 5), and `StockLedger` promises that no other is,
and between which bounds `reserved` then lies. `Courier` is `mirror_delivery_status` seen from the order, `CapturePod` what
`capture_pod` does to a cash order: it mirrors `delivered`, records the `collected` payment and announces `orders.order.paid`.

### Delivery
`ready` and `recall` are the outbox rows that the dispatch worker reacts to;
`LoseEvent` is another taker stamping them (what `OutboxBus` shows to happen).
`HandOver` and `StartShift` move units between hub, vans and recipients with
`record_stock_movement`'s guards. `Reassign` takes a task in any status, as
`admin_reassign_task` does. `Transition` is the API for any client with fresh
`clientActionId`s; the app's ids are constant per stop, which `DriverQueue` models.

### DriverQueue
One task, one device. `Tap`, `ScreenAnswered` and `ScreenQueues` are `sendOrQueue`; `StartFlush`,
`FlushSend`, `FlushSignedOut`, `FlushAnswered`, `FlushFails` and `EndFlush` are
`flushQueue`. Every store call names its database after the token present at that moment
(`With(KeyAfter(v), ...)`), as `openDb` does. `Serve`, `Bounce`, `Lose` and `ServeLate` are the
network and the server: answered, answered with an error of a gateway or a wrong code, not
answered, and arriving after the client gave up. A 401 clears the token before the row is
put, in one turn of the event loop, so that is one step. Photo bytes are part
of the request; the online flag is covered by a flush that does not start.

### Credit
One supplier. `Reserve` takes the row lock of `check_and_reserve_exposure` and computes the exposure,
`CommitPlace` inserts the order and lets go, `BeginIssue` and `CommitIssue` are `issue_invoice` with its unlocked
lookup. `BeginLimit` and `CommitLimit` replace the current row, after `Request` and `Acknowledge` when dual control applies; a
placement that waited for the replaced row finds none. `BeginVerify`/`CommitVerify` are `apply_verified_payment`, which locks proof and invoice;
`SweepRead`, `SweepMark`, `SweepCommit` are `mark_overdue`, which locks only what it has updated. `regrown`
is how much exposure a reserving call has seen come back other than by a placement (a late
or second invoice, a revived one): the limit is promised up to that.

### Accounts
A handler is one READ COMMITTED transaction: `Begin...` keeps what it decided from its reads, `Finish...` writes
by id and commits. `FinishRefusal` commits although the handler throws, as `db.ts` does with an
ApiError. `crossed`, `linkCrossed` and `mfaCrossed` name the families, links and secrets for which a
transaction wrote on the ground of a read that no longer held; the properties promise
everything else. What a crossing does is in section 5.

### Loyalty
The two transactions before `place_order` are `Validate` and `Quote`, the one after it `Apply`; `plan` is what the route holds
in between. The order's life is left to `OrderLifecycle`; `Announce` publishes what it can (two desks or a stale desk announce
a payment, a customer and the sweeper a cancellation, in any order). A drain is one transaction: `DrainPaid` locks and
books the payments, `DrainCancelled` selects the cancellations as they are by then, `Undo` handles one, `Commit` shows it all.
`mine` and `freed` are its uncommitted rows. `late` names the orders that gained or spent points after they had been
undone, `crossed` the balances and the coupon on which two decisions stood at once; the properties promise the rest.

### ShopSession
`stored` is localStorage, shared by the tabs; `renewing` is `refreshInFlight`, one per tab. `Send`, `Unauthorized`,
`Renewed`, `Rejected` and `NetworkError` are `authedFetch`; the server's side of a refresh is two steps, as in `Accounts`.
`Unanswered` is a transport failure, `ServeLate` the request that arrives after the tab gave up. `ErrorAnswer` is any other
answer than tokens or a verdict, a 429, 500 or 502, or a 200 without tokens: `runRefresh` returns null for it too, and
the calls that waited clear the pair.

### Endpoints and its tables
A row of a table is the sequence of a handler's statements, the bodies of its SECURITY DEFINER functions included:
`Do(<<"claim", "tell", "note">>)` is a transaction that updates where the state allows it, writes an event and an
audit entry. `EndpointRows` says what each statement stands for; `Endpoints` carries the rows out for requests
about one row, statement by statement: row locks, re-evaluation of a guarded UPDATE after a wait, unique
constraints, the commit of an ApiError and the rollback of any other error, calls to other services, a process
that dies. Which endpoints do not keep a promise is part of the instance (`MCEndpoints`: `Leaves`, `Blind`,
`Loose`, `Unlocked`, `Colliding`), each for a reason given there; every other row is
held to it, and `DisciplineAssumption`, which TLC evaluates on the tables, says what in a row makes it so.

### Screens and its tables
Every page is `useState`, a `load` and handlers written one way; `Screens` is that machine, and a row says where a
page differs: what its load does with an older answer, which slot and mark a handler uses, whether it clears the
error, patches, reloads or leaves, and what is rendered. A run of code between two awaits is one
step. A property that only pages of a certain form promise says so by what can be read
off the row (`RenewsError`, `Exclusive`, and `LoadRow.drops`, the effect's cleanup). `PagesAssumption`, which TLC evaluates on the tables, says
what all pages have in common: a page without a load has nothing to blank or to drop, and one that could keep a
list under another filter empties it first.

What is displayed and what is stored is a set of operations carried out and of switches that are on. A switch moves at
the click and asks for the value it moved to; when the request fails it goes back to the opposite of that (`paints` is
"item": the account's and the wishlist's), or the whole list goes back to the copy the handler closed over ("list": the preferences).
`contested` names the switches that moved again while a request of theirs, or on a page that copies its list anybody's, was
out: `ClaimsOnlyStored` promises everything else, and section 5 says what becomes of them. `had` is all that the
server ever had. `SubmitsOnce` is about slots that close every control using them; a slot marked with a line is
overwritten by another line's click, and then opens while the first request is out.

### CheckoutScreen
The page's steps, its three handlers under one busy flag, the cap's effect with its cleanup, the
debounced redemption quote, and of the server what the page can tell apart: the quote, the one order per
cart key, the points spent with it. `Lost` is an answer that does not come back, `Forget` one nobody waits for.

## 3. Runs

| Run | Question | Result |
|---|---|---|
| `outbox_bus` | two drains, a dispatch and a loyalty poll over a cancellation, a registration and a pickup, one fault: once-only hand-off, refinement of `EventDelivery`, progress | holds (81,504 states) |
| `order_lifecycle` | transfer order, its retry, a cash order; two units on hand; one verifier, two overlapping sweeps, cash at the door, one crash | holds (533,247 states) |
| `order_sweep_verified` | does the sweeper spare a verified order? | violated: unlocked SELECT |
| `delivery` | a cash order, two drivers, one van, two shifts; or that order and a pickup-point order in one van: proof, driver, mirror, conservation of units | holds (897,000 states) |
| `driver_queue` | one action, two drivers on a device, two flushes, two losses, a reassignment: once-only effect, nothing dropped | holds (1,336,138 states) |
| `credit` | three calls (two with one key), limits of one and two orders, two desks, two invoices, one crash | holds (58,578 states) |
| `accounts` | two overlapping transactions on an admin's account, three tokens, three refusals, two secrets | holds (967,000 states) |
| `loyalty` | two checkouts of one customer, two events, two drains, a sweep, one fault: undone in full, counted, covered | holds (1,105,000 states) |
| `shop_session` | two tabs, three calls, five pairs, one lost answer, one error answer | holds (206,971 states) |
| `endpoints` | every route, called twice about one row, two faults | holds (72,656 states) |
| `screens` | every page, two clicks, two loads, one fault | holds (337,019 states) |
| `checkout_screen` | two addresses and a new one, four requests out, two moves, one fault | holds (1,684,000 states) |

Statements the code makes and TLC refutes. Each is a definition of its module, with the
comment or line it is taken from; put into the module's configuration in place of its properties, it is violated by a
short behaviour. Only the first is kept as a run; the rest are listed so that a fix of the code can be tried on
the model: `OrderLifecycle!SweepSparesVerified`, `OutboxBus!EverySubscriberServed`, `OutboxBus!FailingRowIsolated`,
`OrderLifecycle!DiscountRecorded`, `OrderLifecycle!CancelledFreesStock`, `OrderLifecycle!SweptOnce`, `Delivery!HandoverRecorded`,
`DriverQueue!QueuedIsKept`, `Accounts!ResetEndsSessions`, `ShopSession!NobodyIsLoggedOut`, `ShopSession!NullIsARejection`,
`Screens!CallsFailLoudly`, `Screens!NeverClaimsUnstored`, `CheckoutScreen!HandsOverQuoted`,
`Loyalty!ReversedExactly` (with `MaxEvents = 3`), `Loyalty!CapEnforced`, `Loyalty!ExpiresWhatIsThere`. `SweepSparesVerified`, `FailingRowIsolated`, `NobodyIsLoggedOut`, `NullIsARejection`, `CallsFailLoudly`
and `ExpiresWhatIsThere` are action properties (PROPERTY), the others invariants.

Bounds. The outbox needs three events for a drain budget of two to run out, a name that three
takers share, a registration and a name that only one takes; two dispatcher sessions are what
overlaps, one fault is what a recovery needs. Three checkouts are the least with both a
retry and a competitor; the carts ask for more than is on hand. One verifier races the
sweeper, the customer and the admin; two sweeps are what overlaps, and the second may be another worker's. In Delivery, two shifts let a second driver take over a
van; a second order is needed only for stock. `InScope` keeps the two apart: either the second order waits,
or one of the drivers does, and then one shift runs, no dispatch row is lost, no receipt is confirmed and no cash handed in. The driver's
queue needs two flushes to overlap, two losses to use up `MaxAttempts = 2`, one later sign-in
to hand the device over, and one reassignment to drive a task again. `MaxTaps = 1` leaves out a second
action queued behind the first; the proofs cover any number. Model values are permuted only for the drivers of `Delivery`, the flushes, the
transactions of `Accounts` and the drains of `Loyalty`, in runs without liveness.

Credit needs a retry that overlaps its first call beside a competitor, a limit on either side of the dual-control
threshold, and amounts that leave an invoice open, close it and overpay it. What places and what pays share no
row but the invoice, so `Scenarios` runs them in three sets that overlap where they do. The same holds of `Accounts`: a behaviour
calls the handlers of one of four sets. Three tokens are a family with a successor
and a second family. Two calls in one tab share a refresh and a third in another tab
races it. Two requests to an endpoint are a duplicate or a race, and proofs cover more; the table has
every route, one after the other. Two clicks are the least for a click while another is out, two loads for answers
out of order. In `Loyalty`, two checkouts are what competes for a balance and a
coupon, two events are a payment and a cancellation in two overlapping drains, or one of them twice; the opening points are
already older than `points_expiry_months`, what the behaviour earns never becomes so. In checkout, four requests are the mount's three and one of
the customer's; the balance is two points and half of the order one, so that each bounds the other once.

Fairness. `OutboxBus` assumes weak fairness of each session's `Work`: the timers of
`startDispatcher` and of the workers keep firing and the calls they make return. Nothing obliges the business
code to publish or a fault to happen, and faults are bounded, so progress is claimed once
they stop. `OrderLifecycle` assumes it of the sweeper's steps (its `setInterval`) and of
time passing (`Expire`); customers, verifiers and couriers may do nothing for ever. `Credit` assumes it of
the overdue sweep (the worker's `setInterval`) and of a verification that has begun, which otherwise holds its lock
for ever. `ShopSession` assumes that fetch settles, with an answer or an error: `CallStep`, `RenewStep`. `Endpoints` assumes that
a request goes on when it can (`Step`). `Delivery`, `DriverQueue`, `Accounts`, `Loyalty`, `Screens` and `CheckoutScreen` state no
liveness: a step there is a person's or the network's, or, in `Loyalty`, a drain that another taker may leave without a row.

`CHECK_DEADLOCK FALSE` stands where the system may really stop: all orders closed, all bounded
steps used, nobody wanting anything. `OutboxBus` never deadlocks: the timers go on, and TLC
checks that.

## 4. Proofs

Every theorem is of the form `Spec => []P` or `Spec => [][A]_vars`, for any values of the constants that satisfy
the module's assumptions (`BusAssumption`, `LifecycleAssumption`, `DeliveryAssumption`, `QueueAssumption`,
`CreditAssumption`, `LoyaltyAssumption`, `AccountsAssumption`, `ShopAssumption`, `EndpointsAssumption`,
`CheckoutAssumption`, `ScreensAssumption`: types, ranges, and finiteness of what is summed over; `DisciplineAssumption` and
`PagesAssumption` are about the tables of routes and pages, and TLC evaluates them there). In each proof module an
inductive invariant is proved initial and kept by each action, one lemma per action; a property that needs more than
that has a second invariant, proved on top of the first.

* `Sums`: `SumFunctionOnSet` changes with its function at one point, with its set by one element, is bounded by the sum of
  a larger function over a larger set, and is a number. The sum is a recursion on subsets, and the
  provers cannot use an induction theorem that has an operator for a parameter; the induction is drawn from
  well-foundedness, which speaks of a set (`LeastSubset`, `SetInduction`). So the theorems about stock, money and
  points hold for any number of orders, vans, payments and entries.
* `OutboxBus_proofs`: types, `LocksExclusive`, `HandledOnce`, `LedgerAgrees` (with `WelcomedWhenStamped` and
  `BroadcastAfterCommit`), and that every step is a step of `EventDelivery` or a stutter. `IInv` adds what each
  session holds at each place of its code (`SessionOK`) and that a row's committed log is empty or a single taker
  (`LogOK`): `HandledOnce` alone says nothing of an open transaction about to commit.
* `OrderLifecycle_proofs`: types, `NoOversell`, `OneOrderPerKey` (with `AnswersOwnKey`),
  `StateIsAnnounced`, `CodNeverAwaitsTransfer`, `ClosedStaysClosed`, `StockLedger`. `OrderOK`, `CallOK` and
  `DeskOK` say what each stale read still guarantees when its write comes. For `StockLedger`, `Ledger` follows an order
  along the sweeps: one that two sweeps have in hand, or that a sweep has in hand after another has returned it, is shared,
  so that an order returned twice is; and `reserved` stays between the sum with every return and the sum with one return
  an order, which holds through `greatest(reserved - qty, 0)` as well.
* `Delivery_proofs`: types (no stock below zero), `MirrorKeepsUp`, `DeliveredHasProof`,
  `ProofSettlesOnce` (with `AnnouncedIsRemitted`), `UnderwayHasDriver`, `FinishedStaysFinished`, `StockConserved`. `OrderOK`
  relates the parts of one order; `ShiftOK` says that a started shift has a van. Of all steps three move units, each from
  one place to another.
* `Ledgers_proofs`, of `Credit`: types, `ClosedInvoicesStayClosed`, `PaymentsAddUp`, `PlacedWithinLimit`, and two facts stated
  there: one placement at a time is past the lock of the limit (`LimitIsHeld`), and a verification adds to what the
  invoice holds when it commits (`VerificationsAddOn`). `DeskOK` says that an open verification has its invoice as it read
  it; `BillOK` that two desks never hold one invoice. `Accounts` ties an invoice's paid amount to the sum of the
  payments recorded for it; `Fits` says that a call past the check still fits the limit with its order, but
  for what grew back since.
* `Ledgers_proofs`, of `Loyalty`: types, `CouponCounted`, `SpentIsCovered`, `UndoneInFull`. `LoyaltyIInv` says that a drain holds rows
  that wait, and no two drains the same (`Locks`), that an entry of the ledger has an event that was handled, one entry of
  a kind for each (`Booked`), what the coupon's counter counts (`Counted`), what a balance covers unless two
  decisions crossed on it (`Covered`), and that a drain which has handled an order's one cancellation
  leaves nothing of its points and its coupon (`Undoing`).
* `Sessions_proofs`, of `Accounts`: types, `RevocationHolds`, `SingleHeir`, `RefusalsCounted`, `ConfirmedIsProven`, `LinkIsSpentOnce`, for
  any number of transactions, tokens and links. A transaction that nobody has crossed still has, when it
  writes, what it read when it began (`SessionTx`, `LinkTx`, `MfaTx`): whoever overtook it has put its family, link or
  secret among the crossed ones, and the properties leave those out.
* `Sessions_proofs`, of `ShopSession`: types, `TabPresentsOnce`, `ForgottenIsDead`, for any number of tabs and calls. `ShopIInv` counts a
  tab's presentations of a pair against its losses and against the refresh that is out, and says what a refresh
  that was refused knows about its row; what an error answer clears is left out of the promise by name.
* `Endpoints_proofs`: types, `OnceOnly`, `ChangesWhatItRead`, `FailsOnlyOnFaults`, `RefusedLeavesNothing`, `ToldWhenChanged`, for any
  number of requests and every table that keeps `DisciplineAssumption`: a new route is covered as soon as its row is in the
  table and TLC accepts the assumption. A step of a request has one of five shapes (it moves on, takes the lock,
  changes the row, commits, gives up), and the invariants are proved shape by shape: whoever has written the row holds its lock
  (`LockInv`), what closes a row finds it open (`OnceInv`), a read under the lock is still the latest when
  its request commits (`SeenInv`). The last two have a course of their own: before a statement
  that may refuse, a request has left nothing that a commit would keep (`CleanInv`); and at every statement a request
  has told of what it has changed, or the rest of its row will before the commit (`TellInv`).
* `Clients_proofs`, of `DriverQueue`: types, `AppliedOnce`, `KeptWhileSignedIn`. `CallOK` says what a request
  on its way carries and that an answer that came back is recorded; `LogAgrees` ties effects
  to the clientActionId log.
* `Clients_proofs`, of `CheckoutScreen`: types, `OneOrder`, `CapIsForTheBalance`. `CheckoutIInv` says of every request what it
  carries (`Well`), that a step after the first has an address (`Located`), and that a question for the cap which is
  still heeded asks about the balance displayed, and one is out where the cap is an older one's (`CapsOK`).
* `Clients_proofs`, of `Screens`: types, `ClaimsOnlyStored`, `SubmitsOnce`, `ShowsWhatWasAsked`, `NeverStuck`, for any number of clicks
  and loads and every table that keeps `PagesAssumption`. `ScreenIInv` says that an answer on its way knows only what
  the server had (`LoadsOK`, `ActsOK`, `HadOK`), that what is displayed the server had or is asked for, but for contested switches
  (`Claimed`), that an exclusive slot is marked while an operation of it is out, and by that one alone (`OnceOut`), that what is displayed for another filter than the chosen one has a load out
  (`Current`), that a slot which is not free has a handler that will free it (`SlotsHeld`), and that a page
  without data is loading or has said why not (`Reported`).

Properties that are proved are not all checked by a run as well: `TypeOK`, `LoyaltyTypeOK`, `ShopTypeOK`, `ScreenTypeOK`, `CheckoutTypeOK`,
`LocksExclusive`, `LedgerAgrees`, `WelcomedWhenStamped`, `BroadcastAfterCommit`, `AnswersOwnKey`, `StateIsAnnounced`,
`CodNeverAwaitsTransfer`, `DeliveredHasProof`, `AnnouncedIsRemitted`, `LinkIsSpentOnce` and `FinishedStaysFinished` are left to the theorems.

Only model-checked: the liveness properties (`EventuallyDispatched`, `TransferResolved`, `DunnedInTheEnd`, `CallsReturn`,
`EveryRequestEnds`: liveness under fairness is out of the prover's reach), and the violation. Every other property of a run
is a theorem.

## 5. What disagrees with the docs

`PROJECT.json` lists the findings with the lines. Seventeen statements have a definition TLC refutes (section 3). Others were met
while reading: `return_task_to_hub` always raises (an ambiguous column); a return can never be requested, for the
mirror writes no history row; the admin's cash check writes custody without the event of
"the only writer"; an address can change after a driver accepted; `admin_reassign_task` takes finished tasks, and the
app's constant `clientActionId`s make the second drive of a task an endless replay; a flush that is running
when the device changes hands sends with the new driver's token; a gateway error discards
a queued action; the last failed attempt does not stop a flush. In the modules of sessions, routes and credit: two tabs present one
refresh token and end the session; a logout with an expired access token revokes nothing; refusals are counted
over any span; a login that crosses a reset keeps its session; the overdue sweep reopens an invoice paid
meanwhile; two calls with one key can issue two invoices; an approval of a limit is never used up; the event of an
exceeded limit is rolled back by its own exception; an unknown setting is answered 404 and announced; a force
cancel records the status after it as the one before; the guard against a second refund has no constraint to work on.
Two sweeps that overlap release one order's units and announce its cancellation twice. A refresh answered with an error
throws away a pair the server would still take. Two switches of the preferences that move together and are both refused, or one switch of the
account or the wishlist moved to and fro, end up showing as on what was never stored. In loyalty: two cancellations of an order reverse what it earned twice; a coupon passes its usage cap, a balance goes below zero,
and the expiry takes what a checkout has spent meanwhile, each because two decisions stood on one unlocked read; a second
call of `apply_coupon_redemption` counts again, where its comment says it is safe, so that only the route's `is_replay` test keeps
the count right.
`MCEndpoints` names the endpoints that answer no and leave something, that do twice what is meant once, that change a row they read
unlocked, and that answer 500 when they meet themselves.

## 6. Not modelled, and the plan

Next, in this order:

1. The rest of loyalty: rewards and credit notes, campaigns and rules, tiers, partial returns.
2. A composition of `OrderLifecycle` and `Delivery` over one inventory row (reserved units against
   the load-out of the same units), and of `OutboxBus` with the workers' effects.
3. Health watcher thresholds, the audit hash chain, the counting of stock audits, the workers' calendar timers.
4. Returns after their request, statements and credit notes, pickup collection and OTP as state of their own.

Left out for good: row-level security and permissions (static), translations, layout and server components (no state over
time), the figures of reports, media storage and the ZATCA simulator (I/O and formatting), location
pings' purge, operations scripts.
