-------------------------------- MODULE Credit --------------------------------
(* One wholesale supplier's credit: placing an order against the limit,       *)
(* issuing its invoice, the payments and the write-off that close it, the     *)
(* daily overdue sweep, and the admin's changes of the limit.                 *)
(*                                                                            *)
(* Every call is one READ COMMITTED transaction.  One that reads and later    *)
(* writes on the ground of what it read is two actions with other commits in  *)
(* between; what it has locked in the meantime nobody else may change.  A     *)
(* call that is refused changes nothing and is a step only where it has to    *)
(* let go of a lock.                                                          *)
EXTENDS Integers, FiniteSets, Functions, Sequences

CONSTANTS
  Calls,        \* calls of POST /supplier/orders
  Orders,       \* the idempotency keys, each standing for the order it places
  KeyOf,        \* the key each call carries
  Total,        \* what an order costs
  Limits,       \* the limits an admin may set
  NeedsTwo,     \* those of them above the dual-control threshold
  Desks,        \* transactions on payments: submitting a proof, verifying one
  Scenarios,    \* bound: the calls and the kinds of step one behaviour has
  Amounts,      \* amounts a supplier claims to have paid
  MaxInvoices,  \* bound: invoices issued
  MaxProofs,    \* bound: payment proofs submitted
  MaxCrashes,   \* bound: calls that die with their connection
  Nobody        \* no holder of the lock on the limit

Kinds == {"cancel", "dispatch", "limit", "pay", "write off", "sweep"}

ASSUME CreditAssumption ==
  /\ Scenarios \subseteq SUBSET (Calls \union Kinds)
  /\ IsFiniteSet(Orders) /\ KeyOf \in [Calls -> Orders] /\ Total \in Nat \ {0}
  /\ Limits \subseteq Nat /\ NeedsTwo \subseteq Limits /\ Amounts \subseteq Nat \ {0}
  /\ MaxInvoices \in Nat /\ MaxProofs \in Nat /\ MaxCrashes \in Nat
  /\ Nobody \notin Calls /\ "admin" \notin Calls /\ Nobody # "admin"

VARIABLES
  limit,     \* limit_amount of the current row of credit.credit_limits
  holder,    \* who has that row locked: a call, "admin" or Nobody
  pending,   \* the limit an admin's open transaction is about to set
  approvals, \* audit.dual_control_approvals for the limits that need one
  order,     \* orders.orders.status by key; "moved" is any status past confirmed
  call,      \* how far each call is
  invoices,  \* credit.invoices, in the order of issue
  proofs,    \* credit.payment_proofs, in the order of submission
  payments,  \* credit.payments_received: the invoice and the amount
  desk,      \* what each open transaction on a payment has read
  sweep,     \* mark_overdue: the rows its query returned, the rows it has updated
  crashes,   \* calls that died so far
  called,    \* the scenario
  regrown    \* what each reserving call has seen exposure grow by other than placing

limitVars == <<limit, holder, pending, approvals>>
orderVars == <<order, call, regrown, called>>
billVars  == <<invoices, proofs, payments, desk>>
vars == <<limitVars, orderVars, billVars, sweep, crashes>>

OrderStatuses == {"none", "confirmed", "moved", "cancelled"}
OpenStatuses  == {"issued", "partially_paid", "overdue"}
Statuses      == OpenStatuses \union {"paid", "written_off"}
Stages        == {"idle", "reading", "reserved", "placed", "issuing", "answered"}

Invoice == [order: Orders, status: Statuses, paid: Nat, open: Nat, due: BOOLEAN]
Proof   == [invoice: Nat, amount: Nat, verified: BOOLEAN]
Work    == [op: {"idle", "submit", "verify"}, of: Nat, paid: Nat]

Invoices == DOMAIN invoices

TypeOK ==
  /\ limit \in Limits /\ pending \in Limits
  /\ holder \in Calls \union {"admin", Nobody}
  /\ approvals \in [NeedsTwo -> {"none", "pending", "approved"}]
  /\ order \in [Orders -> OrderStatuses] /\ call \in [Calls -> Stages]
  /\ DOMAIN regrown = Calls
  /\ invoices \in Seq(Invoice) /\ proofs \in Seq(Proof)
  /\ payments \in Seq([invoice: Nat, amount: Nat])
  /\ desk \in [Desks -> Work]
  /\ sweep \in [on: BOOLEAN, found: SUBSET Nat, marked: SUBSET Nat]
  /\ crashes \in Nat /\ called \in Scenarios

Resting == [op |-> "idle", of |-> 0, paid |-> 0]
NoSweep == [on |-> FALSE, found |-> {}, marked |-> {}]

Init ==
  /\ limit \in Limits \ NeedsTwo /\ pending = limit /\ holder = Nobody
  /\ approvals = [l \in NeedsTwo |-> "none"]
  /\ order = [o \in Orders |-> "none"] /\ call = [c \in Calls |-> "idle"]
  /\ regrown = [c \in Calls |-> 0]
  /\ invoices = <<>> /\ proofs = <<>> /\ payments = <<>>
  /\ desk = [d \in Desks |-> Resting]
  /\ sweep = NoSweep /\ crashes = 0 /\ called \in Scenarios

-----------------------------------------------------------------------------
(* Exposure.                                                                  *)

InvoicesOf(o) == {i \in Invoices : invoices[i].order = o}
Outstanding   == {i \in Invoices : invoices[i].status \in OpenStatuses}
Unbilled      == {o \in Orders : order[o] = "confirmed" /\ InvoicesOf(o) = {}}

\* credit.compute_exposure.  An order that has moved on without an invoice
\* counts for nothing.
Balance  == [i \in Invoices |-> invoices[i].open]
Exposure == SumFunctionOnSet(Balance, Outstanding) + Total * Cardinality(Unbilled)

\* Bookkeeping: exposure has just grown, to Exposure', by something that is not a
\* placement; the calls that had already been checked could not foresee it.
Surprise ==
  regrown' = [c \in Calls |-> IF call[c] = "reserved" /\ Exposure' > Exposure
                              THEN regrown[c] + Exposure' - Exposure ELSE regrown[c]]

-----------------------------------------------------------------------------
(* POST /supplier/orders.                                                     *)

\* place_wholesale_order up to the lock.  A key that has its order is answered
\* from it, and the handler goes on to the invoice all the same.
BeginPlace(c) ==
  /\ call[c] = "idle" /\ c \in called
  /\ call' = [call EXCEPT ![c] = IF order[KeyOf[c]] = "none" THEN "reading" ELSE "placed"]
  /\ UNCHANGED <<limitVars, order, regrown, called, billVars, sweep, crashes>>

Reserving(c) ==
  /\ call[c] = "reading" /\ Exposure + Total <= limit
  /\ call' = [call EXCEPT ![c] = "reserved"] /\ regrown' = [regrown EXCEPT ![c] = 0]
  /\ UNCHANGED <<limit, pending, approvals, order, called, billVars, sweep, crashes>>
\* Mutant of Reserve: the limit is read without "for update".
ReserveUnlocked(c) == Reserving(c) /\ UNCHANGED holder
\* check_and_reserve_exposure: the current limit's row is locked until the end.
Reserve(c) == Reserving(c) /\ holder = Nobody /\ holder' = c

Release(c) == holder' = IF holder = c THEN Nobody ELSE holder
\* Refused: over the limit, no limit row found because an admin was replacing
\* it, no stock left, or the key taken by a call that committed in between.
PlaceFails(c) ==
  /\ call[c] \in {"reading", "reserved"}
  /\ \/ call[c] = "reserved"
     \/ Exposure + Total > limit
     \/ holder = "admin"
  /\ call' = [call EXCEPT ![c] = "answered"] /\ Release(c)
  /\ UNCHANGED <<limit, pending, approvals, order, regrown, called, billVars, sweep, crashes>>

\* The order and its events are committed; (user_id, idempotency_key) is unique.
CommitPlace(c) ==
  /\ call[c] = "reserved" /\ order[KeyOf[c]] = "none"
  /\ order' = [order EXCEPT ![KeyOf[c]] = "confirmed"]
  /\ call' = [call EXCEPT ![c] = "placed"] /\ Release(c)
  /\ UNCHANGED <<limit, pending, approvals, regrown, called, billVars, sweep, crashes>>

\* issueInvoiceAndStamp, in a transaction of its own: one look for an invoice of
\* the order, with no lock and no unique key behind it.
BeginIssue(c) ==
  /\ call[c] = "placed"
  /\ call' = [call EXCEPT ![c] = IF InvoicesOf(KeyOf[c]) = {} THEN "issuing" ELSE "answered"]
  /\ UNCHANGED <<limitVars, order, regrown, called, billVars, sweep, crashes>>
CommitIssue(c) ==
  /\ call[c] = "issuing" /\ Len(invoices) < MaxInvoices
  /\ invoices' = Append(invoices, [order |-> KeyOf[c], status |-> "issued", paid |-> 0,
                                   open |-> Total, due |-> FALSE])
  /\ call' = [call EXCEPT ![c] = "answered"]
  /\ UNCHANGED <<limitVars, order, called, proofs, payments, desk, sweep, crashes>>
  /\ Surprise
\* The failure is logged and the call still answers 201; only another call with
\* the same key comes back to it.
IssueFails(c) ==
  /\ call[c] \in {"placed", "issuing"} /\ crashes < MaxCrashes
  /\ crashes' = crashes + 1 /\ call' = [call EXCEPT ![c] = "answered"]
  /\ UNCHANGED <<limitVars, order, regrown, called, billVars, sweep>>

\* orders.cancel_order, which asks nothing about an invoice.
Cancel(o) ==
  /\ "cancel" \in called
  /\ order[o] = "confirmed" /\ order' = [order EXCEPT ![o] = "cancelled"]
  /\ UNCHANGED <<limitVars, call, regrown, called, billVars, sweep, crashes>>
\* Delivery takes the order out of "confirmed".
Dispatch(o) ==
  /\ "dispatch" \in called
  /\ order[o] = "confirmed" /\ order' = [order EXCEPT ![o] = "moved"]
  /\ UNCHANGED <<limitVars, call, regrown, called, billVars, sweep, crashes>>

-----------------------------------------------------------------------------
(* The admin's limit.                                                         *)

\* Asking for a limit above the threshold, and another super_admin's answer.
Request(l) ==
  /\ "limit" \in called
  /\ approvals[l] = "none" /\ approvals' = [approvals EXCEPT ![l] = "pending"]
  /\ UNCHANGED <<limit, holder, pending, orderVars, billVars, sweep, crashes>>
Acknowledge(l) ==
  /\ approvals[l] = "pending" /\ approvals' = [approvals EXCEPT ![l] = "approved"]
  /\ UNCHANGED <<limit, holder, pending, orderVars, billVars, sweep, crashes>>

\* admin_set_credit_limit: the update waits for the row, the insert follows it.
\* An approval is never used up.
BeginLimit(l) ==
  /\ "limit" \in called /\ holder = Nobody /\ l # limit /\ (l \in NeedsTwo => approvals[l] = "approved")
  /\ holder' = "admin" /\ pending' = l
  /\ UNCHANGED <<limit, approvals, orderVars, billVars, sweep, crashes>>
CommitLimit ==
  /\ holder = "admin" /\ limit' = pending /\ holder' = Nobody
  /\ UNCHANGED <<pending, approvals, orderVars, billVars, sweep, crashes>>

-----------------------------------------------------------------------------
(* Payments and the write-off.                                                *)

Verifying(i) == {d \in Desks : desk[d].op = "verify" /\ proofs[desk[d].of].invoice = i}
\* The row of invoice i is locked by an open transaction.
Locked(i) == Verifying(i) # {} \/ i \in sweep.marked

\* submit_payment_proof looks for a pending proof of the invoice, and inserts
\* one later: nothing keeps a second submission out in between.
BeginProof(d, i) ==
  /\ "pay" \in called /\ desk[d] = Resting
  /\ \A p \in DOMAIN proofs : proofs[p].invoice = i => proofs[p].verified
  /\ desk' = [desk EXCEPT ![d] = [op |-> "submit", of |-> i, paid |-> 0]]
  /\ UNCHANGED <<limitVars, orderVars, invoices, proofs, payments, sweep, crashes>>
CommitProof(d, a) ==
  /\ desk[d].op = "submit" /\ Len(proofs) < MaxProofs
  /\ proofs' = Append(proofs, [invoice |-> desk[d].of, amount |-> a, verified |-> FALSE])
  /\ desk' = [desk EXCEPT ![d] = Resting]
  /\ UNCHANGED <<limitVars, orderVars, invoices, payments, sweep, crashes>>

Unverified(p) ==
  /\ ~proofs[p].verified /\ \A d \in Desks : desk[d].op = "verify" => desk[d].of # p
Settle(d, p) ==
  /\ desk[d] = Resting /\ Unverified(p)
  /\ desk' = [desk EXCEPT ![d] = [op |-> "verify", of |-> p,
                                  paid |-> invoices[proofs[p].invoice].paid]]
  /\ UNCHANGED <<limitVars, orderVars, invoices, proofs, payments, sweep, crashes>>
\* Mutant of BeginVerify: the invoice is read without "for update".
BeginVerifyUnlocked(d, p) == Settle(d, p) /\ invoices[proofs[p].invoice].status \in OpenStatuses
\* Mutant of BeginVerify: INVOICE_NOT_OPEN is not raised.
BeginVerifyClosed(d, p) == Settle(d, p) /\ ~Locked(proofs[p].invoice)
\* apply_verified_payment as far as its locks on the proof and the invoice.
BeginVerify(d, p) ==
  /\ Settle(d, p) /\ ~Locked(proofs[p].invoice)
  /\ invoices[proofs[p].invoice].status \in OpenStatuses
CommitVerify(d) ==
  /\ desk[d].op = "verify"
  /\ LET p == desk[d].of
         i == proofs[p].invoice
         paid == desk[d].paid + proofs[p].amount IN
       /\ proofs' = [proofs EXCEPT ![p].verified = TRUE]
       /\ payments' = Append(payments, [invoice |-> i, amount |-> proofs[p].amount])
       /\ invoices' = [invoices EXCEPT
            ![i].paid = paid, ![i].open = IF paid < Total THEN Total - paid ELSE 0,
            ![i].status = IF paid < Total THEN "partially_paid" ELSE "paid"]
  /\ desk' = [desk EXCEPT ![d] = Resting]
  /\ UNCHANGED <<limitVars, orderVars, sweep, crashes>>
CrashDesk(d) ==
  /\ desk[d].op # "idle" /\ crashes < MaxCrashes /\ crashes' = crashes + 1
  /\ desk' = [desk EXCEPT ![d] = Resting]
  /\ UNCHANGED <<limitVars, orderVars, invoices, proofs, payments, sweep>>

\* write_off_invoice; its credit note must be of more than nothing.
WriteOff(i) ==
  /\ "write off" \in called /\ i \in Outstanding /\ ~Locked(i) /\ invoices[i].open > 0
  /\ invoices' = [invoices EXCEPT ![i].status = "written_off"]
  /\ UNCHANGED <<limitVars, orderVars, proofs, payments, desk, sweep, crashes>>

-----------------------------------------------------------------------------
(* The overdue sweep of workers/src/invoiceWorker.ts.                         *)

FallDue(i) ==
  /\ "sweep" \in called /\ ~invoices[i].due /\ invoices' = [invoices EXCEPT ![i].due = TRUE]
  /\ UNCHANGED <<limitVars, orderVars, proofs, payments, desk, sweep, crashes>>

Overdue(statuses) == {i \in Invoices : invoices[i].due /\ invoices[i].status \in statuses}
Look(found) ==
  /\ ~sweep.on /\ found # {} /\ sweep' = [on |-> TRUE, found |-> found, marked |-> {}]
  /\ UNCHANGED <<limitVars, orderVars, billVars, crashes>>
\* Mutant of SweepRead: an invoice with a payment on it is never dunned.
SweepReadIssued == Look(Overdue({"issued"}))
\* The query of mark_overdue, all in one snapshot.
SweepRead == Look(Overdue({"issued", "partially_paid"}))
\* "update ... where id = v_row.id": it waits for the row, and takes it as it is.
SweepMark(i) ==
  /\ i \in sweep.found \ sweep.marked /\ ~Locked(i)
  /\ sweep' = [sweep EXCEPT !.marked = @ \union {i}]
  /\ UNCHANGED <<limitVars, orderVars, billVars, crashes>>
SweepCommit ==
  /\ sweep.on /\ sweep.marked = sweep.found /\ sweep' = NoSweep
  /\ invoices' = [i \in Invoices |-> IF i \in sweep.marked THEN [invoices[i] EXCEPT !.status = "overdue"]
                                     ELSE invoices[i]]
  /\ UNCHANGED <<limitVars, order, call, called, proofs, payments, desk, crashes>>
  /\ Surprise
SweepCrash ==
  /\ sweep.on /\ crashes < MaxCrashes /\ crashes' = crashes + 1 /\ sweep' = NoSweep
  /\ UNCHANGED <<limitVars, orderVars, billVars>>

-----------------------------------------------------------------------------
Place(c) == BeginPlace(c) \/ Reserve(c) \/ PlaceFails(c) \/ CommitPlace(c)
Bill(c)  == BeginIssue(c) \/ CommitIssue(c) \/ IssueFails(c)
Pay(d) ==
  \/ \E i \in Invoices : BeginProof(d, i)
  \/ \E a \in Amounts : CommitProof(d, a)
  \/ \E p \in DOMAIN proofs : BeginVerify(d, p)
  \/ CommitVerify(d) \/ CrashDesk(d)
SetLimit == \/ \E l \in NeedsTwo : Request(l) \/ Acknowledge(l)
            \/ \E l \in Limits : BeginLimit(l)
            \/ CommitLimit
Sweep == SweepRead \/ (\E i \in Invoices : SweepMark(i)) \/ SweepCommit \/ SweepCrash

Next ==
  \/ \E c \in Calls : Place(c) \/ Bill(c)
  \/ \E o \in Orders : Cancel(o) \/ Dispatch(o)
  \/ \E d \in Desks : Pay(d)
  \/ \E i \in Invoices : WriteOff(i) \/ FallDue(i)
  \/ SetLimit \/ Sweep

Spec == Init /\ [][Next]_vars

\* The worker's timer fires for ever, and a transaction that is open on an
\* invoice comes to its end.
Fairness ==
  /\ WF_vars(SweepRead) /\ WF_vars(SweepCommit)
  /\ \A i \in 1 .. MaxInvoices : WF_vars(i \in Invoices /\ SweepMark(i))
  /\ \A d \in Desks : WF_vars(CommitVerify(d))
FairSpec == Spec /\ Fairness

-----------------------------------------------------------------------------
(* Properties.                                                                *)

\* An order is placed only while it fits the limit in force at that moment,
\* whatever other placements and limit changes ran beside it; only what has come
\* back since the check through an invoice issued late or twice, or revived by
\* the sweep, can exceed it.  The lock of check_and_reserve_exposure.
PlacedWithinLimit ==
  [][\A c \in Calls : call[c] = "reserved" /\ call'[c] = "placed" =>
       Exposure' <= limit + regrown[c]]_vars

Amount == [n \in DOMAIN payments |-> payments[n].amount]
On(i)  == {n \in DOMAIN payments : payments[n].invoice = i}

\* An invoice's paid amount is the sum of the payments recorded on it, each from
\* one verified proof, and its open balance is what they leave of the total:
\* no verification is lost under another, nor counted twice.
PaymentsAddUp ==
  /\ \A i \in Invoices :
       /\ invoices[i].paid = SumFunctionOnSet(Amount, On(i))
       /\ invoices[i].open = IF invoices[i].paid < Total THEN Total - invoices[i].paid ELSE 0
  /\ Len(payments) = Cardinality({p \in DOMAIN proofs : proofs[p].verified})

\* A paid or written-off invoice is opened again by nothing but a sweep that had
\* read it while it was open: no payment and no other write-off touches it.
ClosedInvoicesStayClosed ==
  [][\A i \in Invoices : invoices[i].status \notin OpenStatuses =>
       \/ invoices'[i].status = invoices[i].status
       \/ i \in sweep.marked]_vars

\* An invoice that is due and not paid off does not stay unmarked: the daily
\* sweep reaches it, whatever payments and crashes come in between.
DunnedInTheEnd ==
  \A i \in 1 .. MaxInvoices :
    (i \in Invoices /\ i \in Overdue({"issued", "partially_paid"}))
      ~> (i \in Invoices /\ invoices[i].status \notin {"issued", "partially_paid"})
=============================================================================
