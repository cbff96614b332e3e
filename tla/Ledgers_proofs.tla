---------------------------- MODULE Ledgers_proofs ---------------------------
(* Proofs about modules Credit and Loyalty, the two ledgers of what a customer  *)
(* owes and is owed.                                                            *)
EXTENDS Credit, Loyalty, Sums, TLAPS, SequenceTheorems

-----------------------------------------------------------------------------
(* Credit, for any number of calls, desks and invoices.                         *)
(*                                                                              *)
(* A verification keeps the invoice locked from the read of what is paid to the *)
(* write that adds to it, and nothing else writes those columns of a locked row *)
(* or of one the sweep has updated: so what it read is still true when it adds. *)

Payment == [invoice: Nat, amount: Nat]

\* An invoice's paid amount changes by exactly the payment that is recorded with
\* it in the same step: apply_verified_payment never loses another's amount.
VerificationsAddOn ==
  [][\A i \in Invoices :
       \/ invoices'[i].paid = invoices[i].paid
       \/ \E n \in Nat : /\ payments' = Append(payments, [invoice |-> i, amount |-> n])
                         /\ invoices'[i].paid = invoices[i].paid + n]_vars

\* Only one call at a time is between the check of the limit and its end.
LimitIsHeld == \A c \in Calls : call[c] = "reserved" => holder = c

-----------------------------------------------------------------------------
(* The invariant.                                                               *)

FrontOK ==
  /\ limit \in Limits /\ pending \in Limits
  /\ holder \in Calls \union {"admin", Nobody}
  /\ approvals \in [NeedsTwo -> {"none", "pending", "approved"}]
  /\ order \in [Orders -> OrderStatuses] /\ call \in [Calls -> Stages]
  /\ DOMAIN regrown = Calls
  /\ crashes \in Nat /\ called \in Scenarios

BillOK ==
  /\ invoices \in Seq(Invoice) /\ proofs \in Seq(Proof) /\ payments \in Seq(Payment)
  /\ desk \in [Desks -> Work]
  /\ sweep \in [on: BOOLEAN, found: SUBSET Nat, marked: SUBSET Nat]

\* Every proof is of an invoice, and so is every row the sweep has read.
Known ==
  /\ \A p \in DOMAIN proofs : proofs[p].invoice \in Invoices
  /\ sweep.marked \subseteq sweep.found /\ sweep.found \subseteq Invoices

\* What desk d has read of proof p and its invoice is still so.
Fresh(d, p) ==
  LET i == proofs[p].invoice IN
    /\ p \in DOMAIN proofs /\ ~proofs[p].verified
    /\ invoices[i].status \in OpenStatuses /\ invoices[i].paid = desk[d].paid
    /\ i \notin sweep.marked
DeskOK(d) ==
  /\ desk[d].op = "submit" => desk[d].of \in Invoices
  /\ desk[d].op = "verify" => Fresh(d, desk[d].of)

\* No two verifications are of one invoice.
Apart == \A d, e \in Desks : d # e /\ desk[d].op = "verify" /\ desk[e].op = "verify"
                               => proofs[desk[d].of].invoice # proofs[desk[e].of].invoice

Bills == BillOK /\ Known /\ Apart /\ \A d \in Desks : DeskOK(d)
IInv  == FrontOK /\ LimitIsHeld /\ Bills

-----------------------------------------------------------------------------
(* The rows.                                                                    *)

LEMMA Sequences == ASSUME BillOK
  PROVE /\ DOMAIN invoices = 1 .. Len(invoices) /\ DOMAIN proofs = 1 .. Len(proofs)
        /\ Len(invoices) \in Nat /\ Len(proofs) \in Nat
        /\ \A i \in Invoices : invoices[i] \in Invoice
        /\ \A p \in DOMAIN proofs : proofs[p] \in Proof
  BY LenProperties, ElementOfSeq DEF BillOK, Invoices

\* Replacing one invoice leaves the others and their number.
LEMMA OneInvoice ==
  ASSUME BillOK, NEW i \in Invoices, NEW r \in Invoice, invoices' = [invoices EXCEPT ![i] = r]
  PROVE  /\ invoices' \in Seq(Invoice) /\ Invoices' = Invoices /\ invoices'[i] = r
         /\ \A j \in Invoices : j # i => invoices'[j] = invoices[j]
<1>1. i \in 1 .. Len(invoices)  BY Sequences DEF Invoices
<1>2. invoices' \in Seq(Invoice)  BY <1>1, ExceptSeq DEF BillOK
<1> QED  BY <1>2 DEF Invoices

\* Appending leaves the rows that were there.
LEMMA Appended ==
  ASSUME NEW S, NEW s \in Seq(S), NEW e \in S, NEW t, t = Append(s, e)
  PROVE  /\ t \in Seq(S) /\ DOMAIN t = DOMAIN s \union {Len(s) + 1}
         /\ t[Len(s) + 1] = e /\ \A n \in DOMAIN s : t[n] = s[n]
<1>1. Len(s) \in Nat /\ DOMAIN s = 1 .. Len(s)  BY LenProperties
<1>2. t \in Seq(S) /\ Len(t) = Len(s) + 1  OBVIOUS
<1>3. DOMAIN t = 1 .. Len(s) + 1  BY <1>2, LenProperties
<1> QED  BY <1>1, <1>2, <1>3

-----------------------------------------------------------------------------
(* The steps of Place, Bill, SetLimit, Cancel and Dispatch and the limit's lock. *)

LEMMA FrontSteps == ASSUME FrontOK, LimitIsHeld, [Next]_vars PROVE FrontOK' /\ LimitIsHeld'
<1> USE CreditAssumption DEF FrontOK, LimitIsHeld, Stages
<1> SUFFICES ASSUME Next PROVE FrontOK' /\ LimitIsHeld'
    BY DEF vars, limitVars, orderVars, billVars
<1>1. ASSUME NEW c \in Calls, BeginPlace(c) PROVE FrontOK' /\ LimitIsHeld'
    BY <1>1 DEF BeginPlace, limitVars
<1>2. ASSUME NEW c \in Calls, Reserve(c) PROVE FrontOK' /\ LimitIsHeld'
    BY <1>2 DEF Reserve, Reserving
<1>3. ASSUME NEW c \in Calls, PlaceFails(c) PROVE FrontOK' /\ LimitIsHeld'
    BY <1>3 DEF PlaceFails, Release
<1>4. ASSUME NEW c \in Calls, CommitPlace(c) PROVE FrontOK' /\ LimitIsHeld'
    BY <1>4 DEF CommitPlace, Release, OrderStatuses
<1>5. ASSUME NEW c \in Calls, BeginIssue(c) PROVE FrontOK' /\ LimitIsHeld'
    BY <1>5 DEF BeginIssue, limitVars
<1>6. ASSUME NEW c \in Calls, CommitIssue(c) PROVE FrontOK' /\ LimitIsHeld'
    BY <1>6 DEF CommitIssue, limitVars, Surprise
<1>7. ASSUME NEW c \in Calls, IssueFails(c) PROVE FrontOK' /\ LimitIsHeld'
    BY <1>7 DEF IssueFails, limitVars
<1>8. ASSUME NEW o \in Orders, Cancel(o) \/ Dispatch(o) PROVE FrontOK' /\ LimitIsHeld'
    BY <1>8 DEF Cancel, Dispatch, limitVars, OrderStatuses
<1>9. ASSUME NEW d \in Desks, Pay(d) PROVE FrontOK' /\ LimitIsHeld'
    <2>1. UNCHANGED <<limitVars, orderVars>> /\ crashes' \in {crashes, crashes + 1}
        BY <1>9 DEF Pay, BeginProof, CommitProof, BeginVerify, Settle, CommitVerify, CrashDesk
    <2> QED  BY <2>1 DEF limitVars, orderVars
<1>10. ASSUME NEW i \in Invoices, WriteOff(i) \/ FallDue(i) PROVE FrontOK' /\ LimitIsHeld'
    BY <1>10 DEF WriteOff, FallDue, limitVars, orderVars
<1>11. ASSUME SetLimit PROVE FrontOK' /\ LimitIsHeld'
    BY <1>11 DEF SetLimit, Request, Acknowledge, BeginLimit, CommitLimit, orderVars
<1>12. ASSUME Sweep PROVE FrontOK' /\ LimitIsHeld'
    BY <1>12 DEF Sweep, SweepRead, Look, SweepMark, SweepCommit, SweepCrash, Surprise,
                 limitVars, orderVars
<1> HIDE DEF FrontOK, LimitIsHeld
<1> QED  BY <1>1, <1>2, <1>3, <1>4, <1>5, <1>6, <1>7, <1>8, <1>9, <1>10, <1>11, <1>12
         DEF Next, Place, Bill

-----------------------------------------------------------------------------
(* Invoices, proofs, payments and the sweep.                                    *)

\* A step that leaves the bills and the sweep alone.
LEMMA QuietStep == ASSUME Bills, UNCHANGED <<billVars, sweep>> PROVE Bills'
  BY DEF Bills, BillOK, Known, Apart, DeskOK, Fresh, billVars, Invoices

\* Between steps that change one desk, one row of its own, or the sweep, the
\* other desks keep what they have read.
LEMMA IssueStep == ASSUME Bills, NEW c \in Calls, FrontOK, CommitIssue(c) PROVE Bills'
<1> DEFINE new == [order |-> KeyOf[c], status |-> "issued", paid |-> 0, open |-> Total, due |-> FALSE]
<1>1. invoices' = Append(invoices, new) /\ UNCHANGED <<proofs, payments, desk, sweep>>
    BY DEF CommitIssue
<1>2. new \in Invoice
    BY CreditAssumption DEF Invoice, Statuses, OpenStatuses
<1> HIDE DEF new
<1>3. /\ invoices' \in Seq(Invoice) /\ Invoices \subseteq Invoices'
      /\ \A i \in Invoices : invoices'[i] = invoices[i]
    BY <1>1, <1>2, Appended DEF Bills, BillOK, Invoices
<1>4. BillOK' /\ Known' /\ Apart'
    BY <1>1, <1>3 DEF Bills, BillOK, Known, Apart
<1>5. ASSUME NEW d \in Desks PROVE DeskOK(d)'
    BY <1>1, <1>3 DEF Bills, Known, DeskOK, Fresh
<1> QED  BY <1>4, <1>5 DEF Bills

LEMMA DeskSteps == ASSUME Bills, NEW d \in Desks, Pay(d) PROVE Bills'
<1> USE DEF Bills
<1>0. /\ DOMAIN invoices = 1 .. Len(invoices) /\ DOMAIN proofs = 1 .. Len(proofs)
      /\ Len(invoices) \in Nat /\ Len(proofs) \in Nat
      /\ \A i \in Invoices : invoices[i] \in Invoice
      /\ \A p \in DOMAIN proofs : proofs[p] \in Proof
    BY Sequences
<1>1. ASSUME NEW w \in Work, desk' = [desk EXCEPT ![d] = w], w.op # "verify",
             w.op = "submit" => w.of \in Invoices,
             UNCHANGED <<invoices, proofs, payments, sweep>>
      PROVE  Bills'
    <2>1. BillOK' /\ Known'  BY <1>1 DEF BillOK, Known, Invoices
    <2>2. Apart'  BY <1>1 DEF Apart, BillOK
    <2>3. ASSUME NEW e \in Desks PROVE DeskOK(e)'
        BY <1>1 DEF DeskOK, Fresh, BillOK, Invoices
    <2> QED  BY <2>1, <2>2, <2>3
<1>2. ASSUME NEW i \in Invoices, BeginProof(d, i) PROVE Bills'
    <2> DEFINE w == [op |-> "submit", of |-> i, paid |-> 0]
    <2>1. desk' = [desk EXCEPT ![d] = w] /\ UNCHANGED <<invoices, proofs, payments, sweep>>
        BY <1>2 DEF BeginProof
    <2>2. w \in Work /\ w.op # "verify" /\ w.of = i  BY <1>0 DEF Work, Invoices
    <2> HIDE DEF w
    <2> QED  BY <1>1, <2>1, <2>2
<1>3. ASSUME NEW a \in Amounts, CommitProof(d, a) PROVE Bills'
    <2> DEFINE new == [invoice |-> desk[d].of, amount |-> a, verified |-> FALSE]
    <2>1. /\ desk[d].op = "submit" /\ desk[d].of \in Invoices
          /\ proofs' = Append(proofs, new) /\ desk' = [desk EXCEPT ![d] = Resting]
          /\ UNCHANGED <<invoices, payments, sweep>>
        BY <1>3 DEF CommitProof, DeskOK
    <2>2. new \in Proof /\ new.invoice \in Invoices
        BY <2>1, <1>0, CreditAssumption DEF Proof, Invoices
    <2>3. Resting \in Work /\ Resting.op = "idle"  BY DEF Resting, Work
    <2> HIDE DEF new
    <2>4. /\ proofs' \in Seq(Proof) /\ DOMAIN proofs' = DOMAIN proofs \union {Len(proofs) + 1}
          /\ proofs'[Len(proofs) + 1] = new /\ \A p \in DOMAIN proofs : proofs'[p] = proofs[p]
        BY <2>1, <2>2, Appended DEF BillOK
    <2>5. BillOK' /\ Known'  BY <2>1, <2>2, <2>3, <2>4 DEF BillOK, Known, Invoices
    <2>6. ASSUME NEW e \in Desks, desk'[e].op # "idle" PROVE e # d /\ desk'[e] = desk[e]
        BY <2>1, <2>3, <2>6 DEF BillOK
    <2>7. ASSUME NEW e \in Desks PROVE DeskOK(e)'
        <3>1. CASE desk'[e].op = "idle"  BY <3>1 DEF DeskOK
        <3>2. CASE desk'[e].op # "idle"
            <4>1. desk'[e] = desk[e] /\ DeskOK(e)  BY <2>6, <3>2
            <4>2. Invoices' = Invoices  BY <2>1 DEF Invoices
            <4>3. Fresh(e, desk[e].of) => Fresh(e, desk[e].of)'  BY <2>1, <2>4, <4>1 DEF Fresh
            <4> QED  BY <4>1, <4>2, <4>3 DEF DeskOK
        <3> QED  BY <3>1, <3>2
    <2>8. Apart'  BY <2>4, <2>6 DEF Apart, DeskOK, Fresh
    <2> QED  BY <2>5, <2>7, <2>8
<1>4. ASSUME NEW p \in DOMAIN proofs, BeginVerify(d, p) PROVE Bills'
    <2> DEFINE i == proofs[p].invoice
               w == [op |-> "verify", of |-> p, paid |-> invoices[i].paid]
    <2>1. /\ ~proofs[p].verified /\ Verifying(i) = {} /\ i \notin sweep.marked
          /\ invoices[i].status \in OpenStatuses
          /\ desk' = [desk EXCEPT ![d] = w] /\ UNCHANGED <<invoices, proofs, payments, sweep>>
        BY <1>4 DEF BeginVerify, Settle, Unverified, Locked
    <2>2. w \in Work  BY <1>0 DEF Work, Invoice, Known
    <2>3. \A e \in Desks : desk[e].op = "verify" => proofs[desk[e].of].invoice # i
        BY <2>1 DEF Verifying
    <2>4. w.op = "verify" /\ w.of = p /\ w.paid = invoices[i].paid  OBVIOUS
    <2>5. desk'[d] = w /\ \A e \in Desks \ {d} : desk'[e] = desk[e]  BY <2>1 DEF BillOK
    <2>6. BillOK' /\ Known'  BY <2>1, <2>2 DEF BillOK, Known, Invoices
    <2>7. Apart'  BY <2>1, <2>3, <2>4, <2>5 DEF Apart
    <2>8. Fresh(d, p)'  BY <2>1, <2>4, <2>5 DEF Fresh
    <2>9. ASSUME NEW e \in Desks \ {d} PROVE DeskOK(e)'
        BY <2>1, <2>5 DEF DeskOK, Fresh, Invoices
    <2> QED  BY <2>4, <2>5, <2>6, <2>7, <2>8, <2>9 DEF DeskOK
<1>5. ASSUME CommitVerify(d) PROVE Bills'
    <2> DEFINE p == desk[d].of
               i == proofs[p].invoice
               paid == desk[d].paid + proofs[p].amount
               r == [invoices[i] EXCEPT !.paid = paid, !.open = IF paid < Total THEN Total - paid ELSE 0,
                                        !.status = IF paid < Total THEN "partially_paid" ELSE "paid"]
               q == [proofs[p] EXCEPT !.verified = TRUE]
    <2>1. desk[d].op = "verify" /\ p \in DOMAIN proofs /\ i \in Invoices /\ Fresh(d, p)
        BY <1>5 DEF CommitVerify, DeskOK, Fresh, Known
    <2>2. /\ proofs' = [proofs EXCEPT ![p] = q]
          /\ payments' = Append(payments, [invoice |-> i, amount |-> proofs[p].amount])
          /\ invoices' = [invoices EXCEPT ![i] = r]
          /\ desk' = [desk EXCEPT ![d] = Resting] /\ UNCHANGED sweep
        BY <1>5 DEF CommitVerify
    <2>3. invoices[i] \in Invoice /\ proofs[p] \in Proof /\ desk[d] \in Work  BY <1>0, <2>1 DEF BillOK
    <2>4. paid \in Nat /\ (IF paid < Total THEN Total - paid ELSE 0) \in Nat
        BY <2>3, CreditAssumption DEF Proof, Work
    <2>5. r \in Invoice  BY <2>3, <2>4 DEF Invoice, Statuses, OpenStatuses
    <2>6. q \in Proof /\ q.invoice = i  BY <2>3 DEF Proof
    <2>7. [invoice |-> i, amount |-> proofs[p].amount] \in Payment  BY <2>3 DEF Proof, Payment
    <2>8. Resting \in Work /\ Resting.op = "idle"  BY DEF Resting, Work
    <2> HIDE DEF r, q, paid, i, p
    <2>9. /\ invoices' \in Seq(Invoice) /\ Invoices' = Invoices
          /\ \A j \in Invoices : j # i => invoices'[j] = invoices[j]
        BY <2>1, <2>2, <2>5, OneInvoice
    <2>10. /\ proofs' \in Seq(Proof) /\ DOMAIN proofs' = DOMAIN proofs
           /\ proofs'[p] = q /\ \A n \in DOMAIN proofs : n # p => proofs'[n] = proofs[n]
        BY <2>1, <2>2, <2>6, <1>0, ExceptSeq DEF BillOK
    <2>11. payments' \in Seq(Payment)  BY <2>2, <2>7, Appended DEF BillOK
    <2>12. BillOK'  BY <2>2, <2>8, <2>9, <2>10, <2>11 DEF BillOK
    <2>13. \A n \in DOMAIN proofs : proofs'[n].invoice = proofs[n].invoice
        BY <2>6, <2>10 DEF i
    <2>14. Known'  BY <2>2, <2>9, <2>10, <2>13 DEF Known
    <2>15. desk'[d] = Resting /\ \A e \in Desks \ {d} : desk'[e] = desk[e]  BY <2>2 DEF BillOK
    <2>16. Apart'  BY <2>8, <2>13, <2>15 DEF Apart, DeskOK, Fresh
    <2>17. ASSUME NEW e \in Desks \ {d}, desk[e].op = "verify" PROVE Fresh(e, desk[e].of)'
        <3>1. Fresh(e, desk[e].of)  BY <2>17 DEF DeskOK
        <3>2. proofs[desk[e].of].invoice # i  BY <2>1, <2>17 DEF Apart, i, p
        <3>3. desk[e].of # p /\ desk[e].of \in DOMAIN proofs  BY <3>1, <3>2 DEF Fresh, i
        <3>4. proofs'[desk[e].of] = proofs[desk[e].of]  BY <3>3, <2>10
        <3>5. proofs[desk[e].of].invoice \in Invoices  BY <3>3 DEF Known
        <3> QED  BY <3>1, <3>2, <3>3, <3>4, <3>5, <2>2, <2>9, <2>10, <2>15 DEF Fresh
    <2>18. ASSUME NEW e \in Desks PROVE DeskOK(e)'
        BY <2>8, <2>9, <2>15, <2>17 DEF DeskOK
    <2> QED  BY <2>12, <2>14, <2>16, <2>18
<1>6. ASSUME CrashDesk(d) PROVE Bills'
    <2>1. desk' = [desk EXCEPT ![d] = Resting] /\ UNCHANGED <<invoices, proofs, payments, sweep>>
        BY <1>6 DEF CrashDesk
    <2>2. Resting \in Work /\ Resting.op = "idle"  BY DEF Resting, Work
    <2> QED  BY <1>1, <2>1, <2>2
<1> HIDE DEF Bills
<1> QED  BY <1>2, <1>3, <1>4, <1>5, <1>6 DEF Pay

\* Nothing a verification has read changes when another row's status or due date does.
LEMMA RowSteps == ASSUME Bills, NEW i \in Invoices, WriteOff(i) \/ FallDue(i) PROVE Bills'
<1> USE DEF Bills
<1>1. PICK r \in Invoice : /\ invoices' = [invoices EXCEPT ![i] = r] /\ r.paid = invoices[i].paid
                           /\ r.status = invoices[i].status \/ Verifying(i) = {}
    <2>1. invoices[i] \in Invoice  BY Sequences
    <2>2. CASE WriteOff(i)
        <3>1. [invoices[i] EXCEPT !.status = "written_off"] \in Invoice  BY <2>1 DEF Invoice, Statuses
        <3> QED  BY <2>1, <2>2, <3>1 DEF WriteOff, Locked, Invoice
    <2>3. CASE FallDue(i)
        <3>1. [invoices[i] EXCEPT !.due = TRUE] \in Invoice  BY <2>1 DEF Invoice
        <3> QED  BY <2>1, <2>3, <3>1 DEF FallDue, Invoice
    <2> QED  BY <2>2, <2>3
<1>2. UNCHANGED <<proofs, payments, desk, sweep>>  BY DEF WriteOff, FallDue
<1>3. /\ invoices' \in Seq(Invoice) /\ Invoices' = Invoices /\ invoices'[i] = r
      /\ \A j \in Invoices : j # i => invoices'[j] = invoices[j]
    BY <1>1, OneInvoice
<1>4. BillOK' /\ Known' /\ Apart'  BY <1>2, <1>3 DEF BillOK, Known, Apart
<1>5. ASSUME NEW d \in Desks, desk[d].op = "verify" PROVE Fresh(d, desk[d].of)'
    <2> DEFINE j == proofs[desk[d].of].invoice
    <2>1. Fresh(d, desk[d].of) /\ j \in Invoices  BY <1>5 DEF DeskOK, Fresh, Known
    <2>2. d \in Verifying(j)  BY <1>5 DEF Verifying
    <2>3. invoices'[j].status = invoices[j].status /\ invoices'[j].paid = invoices[j].paid
        BY <1>1, <1>3, <2>1, <2>2
    <2> QED  BY <1>2, <2>1, <2>3 DEF Fresh
<1>6. ASSUME NEW d \in Desks PROVE DeskOK(d)'  BY <1>2, <1>3, <1>5 DEF DeskOK
<1> QED  BY <1>4, <1>6

\* The sweep updates no row a verification has locked.
LEMMA SweepSteps == ASSUME Bills, Sweep PROVE Bills'
<1> USE DEF Bills
<1>0. /\ DOMAIN invoices = 1 .. Len(invoices) /\ Len(invoices) \in Nat
      /\ \A i \in Invoices : invoices[i] \in Invoice
    BY Sequences
<1>1. ASSUME NEW s \in [on: BOOLEAN, found: SUBSET Nat, marked: SUBSET Nat], sweep' = s,
             s.marked \subseteq s.found, s.found \subseteq Invoices,
             \A d \in Desks : desk[d].op = "verify" => proofs[desk[d].of].invoice \notin s.marked,
             UNCHANGED billVars
      PROVE  Bills'
    BY <1>1 DEF BillOK, Known, Apart, DeskOK, Fresh, billVars, Invoices
<1>2. CASE SweepRead
    <2> DEFINE f == Overdue({"issued", "partially_paid"})
               s == [on |-> TRUE, found |-> f, marked |-> {}]
    <2>1. f \subseteq Invoices /\ f \subseteq Nat  BY <1>0 DEF Overdue, Invoices
    <2>2. sweep' = s /\ UNCHANGED billVars  BY <1>2 DEF SweepRead, Look
    <2> HIDE DEF f
    <2>3. s \in [on: BOOLEAN, found: SUBSET Nat, marked: SUBSET Nat]  BY <2>1
    <2> QED  BY <1>1, <2>1, <2>2, <2>3
<1>3. ASSUME NEW i \in Invoices, SweepMark(i) PROVE Bills'
    <2> DEFINE s == [sweep EXCEPT !.marked = @ \union {i}]
    <2>1. sweep' = s /\ UNCHANGED billVars /\ i \in sweep.found /\ Verifying(i) = {}
        BY <1>3 DEF SweepMark, Locked
    <2>2. /\ s \in [on: BOOLEAN, found: SUBSET Nat, marked: SUBSET Nat]
          /\ s.found = sweep.found /\ s.marked = sweep.marked \union {i}
        <3>1. i \in Nat  BY <1>0 DEF Invoices
        <3>2. sweep \in [on: BOOLEAN, found: SUBSET Nat, marked: SUBSET Nat]  BY DEF BillOK
        <3>3. sweep.marked \union {i} \in SUBSET Nat  BY <3>1, <3>2
        <3> QED  BY <3>2, <3>3
    <2> HIDE DEF s
    <2>3. \A d \in Desks : desk[d].op = "verify" => proofs[desk[d].of].invoice \notin s.marked
        BY <2>1, <2>2 DEF Verifying, DeskOK, Fresh
    <2> QED  BY <1>1, <2>1, <2>2, <2>3 DEF Known
<1>4. NoSweep \in [on: BOOLEAN, found: SUBSET Nat, marked: SUBSET Nat]
      /\ NoSweep.marked = {} /\ NoSweep.found = {}
    BY DEF NoSweep
<1>5. CASE SweepCommit
    <2> DEFINE e(i) == IF i \in sweep.marked THEN [invoices[i] EXCEPT !.status = "overdue"] ELSE invoices[i]
    <2>1. invoices' = [i \in 1 .. Len(invoices) |-> e(i)] /\ UNCHANGED <<proofs, payments, desk>>
          /\ sweep' = NoSweep
        BY <1>0, <1>5 DEF SweepCommit, Invoices
    <2>2. \A i \in 1 .. Len(invoices) : e(i) \in Invoice /\ e(i).paid = invoices[i].paid
                                         /\ (i \notin sweep.marked => e(i) = invoices[i])
        BY <1>0 DEF Invoice, Statuses, OpenStatuses, Invoices
    <2> HIDE DEF e
    <2>3. invoices' \in Seq(Invoice)  BY <1>0, <2>1, <2>2, IsASeq
    <2>4. Invoices' = Invoices /\ \A i \in Invoices \ sweep.marked : invoices'[i] = invoices[i]
        BY <1>0, <2>1, <2>2 DEF Invoices
    <2>5. BillOK' /\ Known' /\ Apart'  BY <1>4, <2>1, <2>3, <2>4 DEF BillOK, Known, Apart
    <2>6. ASSUME NEW d \in Desks, desk[d].op = "verify" PROVE Fresh(d, desk[d].of)'
        <3>1. Fresh(d, desk[d].of)  BY <2>6 DEF DeskOK
        <3>2. proofs[desk[d].of].invoice \in Invoices \ sweep.marked  BY <3>1 DEF Fresh, Known
        <3> QED  BY <1>4, <2>1, <2>4, <3>1, <3>2 DEF Fresh
    <2>7. ASSUME NEW d \in Desks PROVE DeskOK(d)'
        BY <2>1, <2>4, <2>6 DEF DeskOK
    <2> QED  BY <2>5, <2>7
<1>6. CASE SweepCrash
    BY <1>1, <1>4, <1>6 DEF SweepCrash
<1> HIDE DEF Bills
<1> QED  BY <1>2, <1>3, <1>5, <1>6 DEF Sweep

LEMMA BillSteps == ASSUME FrontOK, Bills, [Next]_vars PROVE Bills'
<1>1. CASE UNCHANGED vars  BY <1>1, QuietStep DEF vars
<1>2. ASSUME NEW c \in Calls, Place(c) PROVE Bills'
    BY <1>2, QuietStep DEF Place, BeginPlace, Reserve, Reserving, PlaceFails, CommitPlace
<1>3. ASSUME NEW c \in Calls, Bill(c) PROVE Bills'
    BY <1>3, QuietStep, IssueStep DEF Bill, BeginIssue, IssueFails
<1>4. ASSUME NEW o \in Orders, Cancel(o) \/ Dispatch(o) PROVE Bills'
    BY <1>4, QuietStep DEF Cancel, Dispatch
<1>5. ASSUME SetLimit PROVE Bills'
    BY <1>5, QuietStep DEF SetLimit, Request, Acknowledge, BeginLimit, CommitLimit
<1> QED  BY <1>1, <1>2, <1>3, <1>4, <1>5, DeskSteps, RowSteps, SweepSteps DEF Next

-----------------------------------------------------------------------------
(* The theorems.                                                                *)

LEMMA Start == Init => IInv
<1> SUFFICES ASSUME Init PROVE IInv  OBVIOUS
<1>1. FrontOK /\ LimitIsHeld
    BY CreditAssumption DEF Init, FrontOK, LimitIsHeld, OrderStatuses, Stages
<1>2. BillOK  BY EmptySeq DEF Init, BillOK, Resting, NoSweep, Work
<1>3. Known /\ Apart /\ \A d \in Desks : DeskOK(d)
    BY DEF Init, Known, Apart, DeskOK, Resting, NoSweep, Invoices
<1> QED  BY <1>1, <1>2, <1>3 DEF IInv, Bills

\* The invariant holds in every state of every behaviour.
THEOREM Invariance == Spec => []IInv
<1>1. IInv /\ [Next]_vars => IInv'  BY FrontSteps, BillSteps DEF IInv
<1> QED  BY Start, <1>1, PTL DEF Spec

\* Every variable keeps its type.
THEOREM TypeCorrect == Spec => []TypeOK
<1>1. IInv => TypeOK  BY DEF IInv, Bills, FrontOK, BillOK, Payment, TypeOK
<1> QED  BY <1>1, Invariance, PTL

\* check_and_reserve_exposure lets one placement at a time past the limit's row.
THEOREM OnePlacementAtATime == Spec => []LimitIsHeld
<1>1. IInv => LimitIsHeld  BY DEF IInv
<1> QED  BY <1>1, Invariance, PTL

\* The steps that change no invoice that is already there.
LEMMA SameRows ==
  ASSUME Bills, [Next]_vars
  PROVE  \/ \A i \in Invoices : invoices'[i] = invoices[i]
         \/ \E d \in Desks : CommitVerify(d)
         \/ \E i \in Invoices : WriteOff(i) \/ FallDue(i)
         \/ SweepCommit
<1>1. ASSUME NEW c \in Calls, CommitIssue(c) PROVE \A i \in Invoices : invoices'[i] = invoices[i]
    BY <1>1, Sequences DEF CommitIssue, Bills, BillOK, Invoices
<1>2. ASSUME NEW c \in Calls, Place(c) PROVE UNCHANGED invoices
    BY <1>2 DEF Place, BeginPlace, Reserve, Reserving, PlaceFails, CommitPlace, billVars
<1>3. ASSUME NEW c \in Calls, BeginIssue(c) \/ IssueFails(c) PROVE UNCHANGED invoices
    BY <1>3 DEF BeginIssue, IssueFails, billVars
<1>4. ASSUME NEW o \in Orders, Cancel(o) \/ Dispatch(o) PROVE UNCHANGED invoices
    BY <1>4 DEF Cancel, Dispatch, billVars
<1>5. ASSUME NEW d \in Desks, Pay(d) PROVE CommitVerify(d) \/ UNCHANGED invoices
    BY <1>5 DEF Pay, BeginProof, CommitProof, BeginVerify, Settle, CrashDesk
<1>6. ASSUME SetLimit PROVE UNCHANGED invoices
    BY <1>6 DEF SetLimit, Request, Acknowledge, BeginLimit, CommitLimit, billVars
<1>7. ASSUME Sweep PROVE SweepCommit \/ UNCHANGED invoices
    BY <1>7 DEF Sweep, SweepRead, Look, SweepMark, SweepCrash, billVars
<1>8. CASE UNCHANGED vars  BY <1>8 DEF vars, billVars
<1> QED  BY <1>1, <1>2, <1>3, <1>4, <1>5, <1>6, <1>7, <1>8 DEF Next, Bill

\* A paid or written-off invoice is opened again only by a sweep that read it open.
THEOREM ClosedForGood == Spec => ClosedInvoicesStayClosed
<1>1. ASSUME IInv, [Next]_vars, NEW i \in Invoices, invoices[i].status \notin OpenStatuses
      PROVE  invoices'[i].status = invoices[i].status \/ i \in sweep.marked
    <2> USE DEF IInv, Bills
    <2>0. DOMAIN invoices = Invoices  BY DEF Invoices
    <2>1. ASSUME NEW d \in Desks, CommitVerify(d) PROVE invoices'[i] = invoices[i]
        <3>1. proofs[desk[d].of].invoice # i  BY <1>1, <2>1 DEF CommitVerify, DeskOK, Fresh
        <3> QED  BY <2>0, <2>1, <3>1 DEF CommitVerify
    <2>2. ASSUME NEW j \in Invoices, WriteOff(j) PROVE invoices'[i] = invoices[i]
        BY <1>1, <2>0, <2>2 DEF WriteOff, Outstanding
    <2>3. ASSUME NEW j \in Invoices, FallDue(j) PROVE invoices'[i].status = invoices[i].status
        <3>1. invoices[j] \in Invoice  BY <1>1, Sequences
        <3> QED  BY <2>0, <2>3, <3>1 DEF FallDue, Invoice
    <2>4. CASE SweepCommit  BY <2>0, <2>4 DEF SweepCommit
    <2> HIDE DEF Bills
    <2> QED  BY <1>1, <2>1, <2>2, <2>3, <2>4, SameRows
<1>2. IInv /\ [Next]_vars =>
        [\A i \in Invoices : invoices[i].status \notin OpenStatuses =>
           \/ invoices'[i].status = invoices[i].status
           \/ i \in sweep.marked]_vars
    BY <1>1
<1> QED  BY <1>2, Invariance, PTL DEF Spec, ClosedInvoicesStayClosed

\* No verification overwrites what another has added to an invoice.
THEOREM NoPaymentIsLost == Spec => VerificationsAddOn
<1> DEFINE AddsOn(i) == \/ invoices'[i].paid = invoices[i].paid
                        \/ \E n \in Nat : /\ payments' = Append(payments, [invoice |-> i, amount |-> n])
                                          /\ invoices'[i].paid = invoices[i].paid + n
<1>1. ASSUME IInv, [Next]_vars, NEW i \in Invoices PROVE AddsOn(i)
    <2> USE DEF IInv, Bills
    <2>0. DOMAIN invoices = Invoices /\ invoices[i] \in Invoice  BY <1>1, Sequences DEF Invoices
    <2>1. ASSUME NEW d \in Desks, CommitVerify(d) PROVE AddsOn(i)
        <3> DEFINE p == desk[d].of
        <3>1. p \in DOMAIN proofs /\ invoices[proofs[p].invoice].paid = desk[d].paid
            BY <1>1, <2>1 DEF CommitVerify, DeskOK, Fresh
        <3>2. proofs[p] \in Proof /\ proofs[p].amount \in Nat  BY <1>1, <3>1, Sequences DEF Proof
        <3>3. CASE proofs[p].invoice # i  BY <2>0, <2>1, <3>3 DEF CommitVerify
        <3>4. CASE proofs[p].invoice = i
            <4>1. invoices'[i].paid = desk[d].paid + proofs[p].amount
                BY <2>0, <2>1, <3>4 DEF CommitVerify, Invoice
            <4>2. payments' = Append(payments, [invoice |-> i, amount |-> proofs[p].amount])
                BY <2>1, <3>4 DEF CommitVerify
            <4> QED  BY <3>1, <3>2, <3>4, <4>1, <4>2
        <3> QED  BY <3>3, <3>4
    <2>2. ASSUME NEW j \in Invoices, WriteOff(j) \/ FallDue(j) PROVE invoices'[i].paid = invoices[i].paid
        <3>1. invoices[j] \in Invoice  BY <1>1, Sequences
        <3>2. [invoices[j] EXCEPT !.status = "written_off"].paid = invoices[j].paid  BY <3>1 DEF Invoice
        <3>3. [invoices[j] EXCEPT !.due = TRUE].paid = invoices[j].paid  BY <3>1 DEF Invoice
        <3>4. CASE WriteOff(j)  BY <2>0, <3>2, <3>4 DEF WriteOff
        <3>5. CASE FallDue(j)  BY <2>0, <3>3, <3>5 DEF FallDue
        <3> QED  BY <2>2, <3>4, <3>5
    <2>3. CASE SweepCommit  BY <2>0, <2>3 DEF SweepCommit, Invoice
    <2> HIDE DEF Bills
    <2> QED  BY <1>1, <2>1, <2>2, <2>3, SameRows
<1>2. IInv /\ [Next]_vars => [\A i \in Invoices : AddsOn(i)]_vars
    BY <1>1
<1> QED  BY <1>2, Invariance, PTL DEF Spec, VerificationsAddOn

-----------------------------------------------------------------------------
(* The accounts add up.                                                         *)

Got(i)   == SumFunctionOnSet(Amount, On(i))
Left(n)  == IF n < Total THEN Total - n ELSE 0
Verified == {p \in DOMAIN proofs : proofs[p].verified}

Accounts ==
  /\ \A n \in DOMAIN payments : payments[n].invoice \in Invoices
  /\ \A i \in Invoices : invoices[i].paid = Got(i) /\ invoices[i].open = Left(invoices[i].paid)
  /\ Len(payments) = Cardinality(Verified)

\* What is summed are amounts, over finitely many payments.
LEMMA PaymentRows ==
  ASSUME BillOK
  PROVE  /\ Len(payments) \in Nat /\ DOMAIN payments = 1 .. Len(payments)
         /\ \A n \in DOMAIN payments : payments[n] \in Payment /\ Amount[n] \in Nat
         /\ \A i : IsFiniteSet(On(i)) /\ On(i) \subseteq DOMAIN payments
         /\ IsFiniteSet(Verified)
<1>1. payments \in Seq(Payment)  BY DEF BillOK
<1>2. Len(payments) \in Nat /\ DOMAIN payments = 1 .. Len(payments)  BY <1>1, LenProperties
<1>3. \A n \in DOMAIN payments : payments[n] \in Payment /\ Amount[n] \in Nat
    <2>1. \A n \in 1 .. Len(payments) : payments[n] \in Payment  BY <1>1, ElementOfSeq
    <2> QED  BY <1>2, <2>1 DEF Payment, Amount
<1>4. ASSUME NEW i PROVE IsFiniteSet(On(i)) /\ On(i) \subseteq DOMAIN payments
    <2>1. IsFiniteSet(1 .. Len(payments))  BY <1>2, FS_Interval
    <2> QED  BY <1>2, <2>1, FS_Subset DEF On
<1>5. IsFiniteSet(Verified)
    <2>1. IsFiniteSet(DOMAIN proofs)  BY Sequences, FS_Interval
    <2> QED  BY <2>1, FS_Subset DEF Verified
<1> QED  BY <1>2, <1>3, <1>4, <1>5

\* Steps that record no payment and leave the paid and the open amount of every invoice.
LEMMA AccountsKept ==
  ASSUME Accounts, UNCHANGED payments, Invoices' = Invoices, Verified' = Verified,
         \A i \in Invoices : invoices'[i].paid = invoices[i].paid /\ invoices'[i].open = invoices[i].open
  PROVE  Accounts'
<1>1. ASSUME NEW i PROVE Got(i)' = Got(i)
    <2>1. Amount' = Amount /\ On(i)' = On(i)  BY DEF Amount, On
    <2> QED  BY <2>1, Zenon DEF Got
<1>2. Cardinality(Verified') = Cardinality(Verified)  BY Zenon
<1> QED  BY <1>1, <1>2 DEF Accounts, Left

\* A payment recorded is a payment of its invoice and of no other.
LEMMA GotMore ==
  ASSUME BillOK, NEW r \in Payment, payments' = Append(payments, r), NEW i
  PROVE  Got(i)' = Got(i) + (IF r.invoice = i THEN r.amount ELSE 0)
<1> DEFINE n == Len(payments) + 1
<1>1. /\ DOMAIN payments' = DOMAIN payments \union {n}
      /\ payments'[n] = r /\ \A m \in DOMAIN payments : payments'[m] = payments[m]
    BY Appended DEF BillOK
<1>2. n \notin DOMAIN payments /\ IsFiniteSet(On(i)) /\ On(i) \subseteq DOMAIN payments
    BY PaymentRows
<1>3. r.amount \in Nat  BY DEF Payment
<1> HIDE DEF n
<1>4. Amount'[n] = r.amount /\ \A m \in DOMAIN payments : Amount'[m] = Amount[m]
    BY <1>1, <1>2 DEF Amount
<1>5. On(i)' = IF r.invoice = i THEN On(i) \union {n} ELSE On(i)
    BY <1>1, <1>2 DEF On
<1>6. SumFunctionOnSet(Amount', On(i)) = SumFunctionOnSet(Amount, On(i))
    BY <1>2, <1>4, SumSame
<1>7. SumFunctionOnSet(Amount, On(i)) \in Nat  BY <1>2, PaymentRows, SumNat
<1>8. CASE r.invoice # i
    <2>1. On(i)' = On(i)  BY <1>5, <1>8
    <2>2. Got(i)' = SumFunctionOnSet(Amount', On(i))  BY <2>1, Zenon DEF Got
    <2> QED  BY <1>6, <1>7, <1>8, <2>2 DEF Got
<1>9. CASE r.invoice = i
    <2>1. On(i)' = On(i) \union {n}  BY <1>5, <1>9
    <2>2. Got(i)' = SumFunctionOnSet(Amount', On(i) \union {n})  BY <2>1, Zenon DEF Got
    <2>3. n \notin On(i) /\ \A m \in On(i) \union {n} : Amount'[m] \in Int
        BY <1>2, <1>3, <1>4, PaymentRows
    <2>4. SumFunctionOnSet(Amount', On(i) \union {n}) = SumFunctionOnSet(Amount', On(i)) + Amount'[n]
        BY <1>2, <2>3, SumAdd
    <2> QED  BY <1>4, <1>6, <1>9, <2>2, <2>4 DEF Got
<1> QED  BY <1>8, <1>9

\* The payment that a verification records is the one it adds to the invoice.
LEMMA VerifyAccounts ==
  ASSUME Bills, Accounts, NEW d \in Desks, CommitVerify(d)
  PROVE  Accounts'
<1> USE DEF Bills
<1> DEFINE p == desk[d].of
           i == proofs[p].invoice
           paid == desk[d].paid + proofs[p].amount
           r == [invoice |-> i, amount |-> proofs[p].amount]
<1>1. /\ p \in DOMAIN proofs /\ ~proofs[p].verified /\ i \in Invoices /\ invoices[i].paid = desk[d].paid
    BY DEF CommitVerify, DeskOK, Fresh, Known
<1>2. invoices[i] \in Invoice /\ proofs[p] \in Proof  BY <1>1, Sequences
<1>3. r \in Payment /\ proofs[p].amount \in Nat  BY <1>2 DEF Proof, Payment
<1>4. /\ Invoices' = Invoices
      /\ invoices'[i].paid = paid /\ invoices'[i].open = Left(paid)
      /\ \A j \in Invoices \ {i} : invoices'[j] = invoices[j]
    BY <1>1, <1>2 DEF CommitVerify, Invoice, Invoices, Left
<1>5. payments' = Append(payments, r)  BY DEF CommitVerify
<1>6. Verified' = Verified \union {p} /\ p \notin Verified
    BY <1>1, <1>2 DEF CommitVerify, Verified, Proof
<1>7. Cardinality(Verified') = Cardinality(Verified) + 1
    <2>1. Cardinality(Verified \union {p}) = Cardinality(Verified) + 1
        BY <1>6, PaymentRows, FS_AddElement
    <2> QED  BY <1>6, <2>1, Zenon
<1>8. r.invoice = i /\ r.amount = proofs[p].amount  OBVIOUS
<1> HIDE DEF r, i, p
<1>9. Len(payments') = Len(payments) + 1 /\ \A n \in DOMAIN payments' : payments'[n].invoice \in Invoices'
    <2>1. /\ DOMAIN payments' = DOMAIN payments \union {Len(payments) + 1}
          /\ payments'[Len(payments) + 1] = r /\ \A n \in DOMAIN payments : payments'[n] = payments[n]
        BY <1>3, <1>5, Appended DEF BillOK
    <2>2. Len(payments') = Len(payments) + 1  BY <1>3, <1>5, AppendProperties DEF BillOK
    <2> QED  BY <1>1, <1>4, <1>8, <2>1, <2>2 DEF Accounts
<1>10. ASSUME NEW j \in Invoices
       PROVE  invoices'[j].paid = Got(j)' /\ invoices'[j].open = Left(invoices'[j].paid)
    <2>1. Got(j)' = Got(j) + (IF r.invoice = j THEN r.amount ELSE 0)  BY <1>3, <1>5, GotMore
    <2>2. Got(j) = invoices[j].paid /\ invoices[j] \in Invoice  BY Sequences DEF Accounts
    <2>3. CASE j = i  BY <1>1, <1>4, <1>8, <2>1, <2>2, <2>3
    <2>4. CASE j # i
        <3>1. Got(j)' = Got(j)  BY <1>8, <2>1, <2>2, <2>4 DEF Invoice
        <3> QED  BY <1>4, <2>2, <2>4, <3>1 DEF Accounts
    <2> QED  BY <2>3, <2>4
<1> HIDE DEF Bills
<1> QED  BY <1>4, <1>7, <1>9, <1>10 DEF Accounts, Left

\* A new invoice has no payment yet.
LEMMA IssueAccounts ==
  ASSUME Bills, Accounts, NEW c \in Calls, CommitIssue(c)
  PROVE  Accounts'
<1> USE DEF Bills
<1> DEFINE n == Len(invoices) + 1
           new == [order |-> KeyOf[c], status |-> "issued", paid |-> 0, open |-> Total, due |-> FALSE]
<1>1. invoices' = Append(invoices, new) /\ UNCHANGED <<proofs, payments>>  BY DEF CommitIssue
<1>2. new \in Invoice  BY CreditAssumption DEF Invoice, Statuses, OpenStatuses
<1>3. new.paid = 0 /\ new.open = Left(0)  BY CreditAssumption DEF Left
<1> HIDE DEF new
<1>4. /\ Invoices' = Invoices \union {n} /\ n \notin Invoices /\ invoices'[n] = new
      /\ \A i \in Invoices : invoices'[i] = invoices[i]
    BY <1>1, <1>2, Appended, Sequences DEF BillOK, Invoices
<1>5. ASSUME NEW i PROVE Got(i)' = Got(i)
    <2>1. Amount' = Amount /\ On(i)' = On(i)  BY <1>1 DEF Amount, On
    <2> QED  BY <2>1, Zenon DEF Got
<1>6. Got(n) = 0
    <2>1. On(n) = {}  BY <1>4 DEF On, Accounts
    <2>2. Got(n) = SumFunctionOnSet(Amount, {})  BY <2>1, Zenon DEF Got
    <2> QED  BY <2>2, SumEmpty
<1>7. Verified' = Verified  BY <1>1 DEF Verified
<1>8. Cardinality(Verified') = Cardinality(Verified)  BY <1>7, Zenon
<1> HIDE DEF n, Bills
<1> QED  BY <1>1, <1>3, <1>4, <1>5, <1>6, <1>8 DEF Accounts, Left

\* A proof is submitted unverified.
LEMMA ProofAccounts ==
  ASSUME Bills, Accounts, NEW d \in Desks, NEW a \in Amounts, CommitProof(d, a)
  PROVE  Accounts'
<1> USE DEF Bills
<1> DEFINE new == [invoice |-> desk[d].of, amount |-> a, verified |-> FALSE]
<1>1. proofs' = Append(proofs, new) /\ UNCHANGED <<invoices, payments>>  BY DEF CommitProof
<1>2. new \in Proof
    BY CreditAssumption, Sequences DEF CommitProof, DeskOK, Proof, Invoices
<1>3. ~new.verified  OBVIOUS
<1> HIDE DEF new
<1>4. /\ DOMAIN proofs' = DOMAIN proofs \union {Len(proofs) + 1}
      /\ proofs'[Len(proofs) + 1] = new /\ \A q \in DOMAIN proofs : proofs'[q] = proofs[q]
    BY <1>1, <1>2, Appended DEF BillOK
<1>5. Verified' = Verified  BY <1>3, <1>4, Sequences DEF Verified
<1>6. Invoices' = Invoices  BY <1>1 DEF Invoices
<1> QED  BY <1>1, <1>5, <1>6, AccountsKept

\* Every other step leaves the accounts alone.
LEMMA AccountsStep == ASSUME FrontOK, Bills, Accounts, [Next]_vars PROVE Accounts'
<1> USE DEF Bills
<1>1. ASSUME UNCHANGED <<invoices, proofs, payments>> PROVE Accounts'
    BY <1>1, AccountsKept DEF Invoices, Verified
<1>2. ASSUME NEW i \in Invoices, WriteOff(i) \/ FallDue(i) PROVE Accounts'
    <2>1. invoices[i] \in Invoice /\ DOMAIN invoices = Invoices  BY Sequences DEF Invoices
    <2>2. /\ Invoices' = Invoices /\ UNCHANGED <<proofs, payments>>
          /\ \A j \in Invoices : /\ invoices'[j].paid = invoices[j].paid
                                 /\ invoices'[j].open = invoices[j].open
        <3>1. CASE WriteOff(i)  BY <2>1, <3>1 DEF WriteOff, Invoices, Invoice
        <3>2. CASE FallDue(i)  BY <2>1, <3>2 DEF FallDue, Invoices, Invoice
        <3> QED  BY <1>2, <3>1, <3>2
    <2> QED  BY <2>2, AccountsKept DEF Verified
<1>3. CASE SweepCommit
    <2>1. /\ Invoices' = Invoices /\ UNCHANGED <<proofs, payments>>
          /\ \A j \in Invoices : /\ invoices'[j].paid = invoices[j].paid
                                 /\ invoices'[j].open = invoices[j].open
        BY <1>3, Sequences DEF SweepCommit, Invoices, Invoice
    <2> QED  BY <2>1, AccountsKept DEF Verified
<1>4. ASSUME NEW c \in Calls, Place(c) PROVE Accounts'
    BY <1>1, <1>4 DEF Place, BeginPlace, Reserve, Reserving, PlaceFails, CommitPlace, billVars
<1>5. ASSUME NEW c \in Calls, BeginIssue(c) \/ IssueFails(c) PROVE Accounts'
    BY <1>1, <1>5 DEF BeginIssue, IssueFails, billVars
<1>6. ASSUME NEW o \in Orders, Cancel(o) \/ Dispatch(o) PROVE Accounts'
    BY <1>1, <1>6 DEF Cancel, Dispatch, billVars
<1>7. ASSUME SetLimit PROVE Accounts'
    BY <1>1, <1>7 DEF SetLimit, Request, Acknowledge, BeginLimit, CommitLimit, billVars
<1>8. ASSUME Sweep PROVE Accounts'
    BY <1>1, <1>3, <1>8 DEF Sweep, SweepRead, Look, SweepMark, SweepCrash, billVars
<1>9. ASSUME NEW d \in Desks, Pay(d) PROVE Accounts'
    <2>1. CASE UNCHANGED <<invoices, proofs, payments>>  BY <1>1, <2>1
    <2> QED
        BY <1>9, <2>1, VerifyAccounts, ProofAccounts DEF Pay, BeginProof, BeginVerify, Settle, CrashDesk
<1>10. CASE UNCHANGED vars  BY <1>1, <1>10 DEF vars, billVars
<1> HIDE DEF Bills
<1> QED  BY <1>2, <1>4, <1>5, <1>6, <1>7, <1>8, <1>9, <1>10, IssueAccounts DEF Next, Bill

\* Nothing is paid, and nothing to be paid, at the start.
LEMMA AccountsStart == Init => Accounts
<1> SUFFICES ASSUME Init PROVE Accounts  OBVIOUS
<1>1. DOMAIN payments = {} /\ Invoices = {} /\ Verified = {} /\ Len(payments) = 0
    BY DEF Init, Invoices, Verified
<1>2. Cardinality(Verified) = 0  BY <1>1, FS_EmptySet
<1> QED  BY <1>1, <1>2 DEF Accounts

\* For any number of invoices, proofs and desks: what an invoice has been paid is
\* the sum of the payments recorded on it, one for each proof that was verified.
THEOREM AccountsAddUp == Spec => []PaymentsAddUp
<1>1. Init => Accounts  BY AccountsStart
<1>2. IInv /\ Accounts /\ [Next]_vars => Accounts'  BY AccountsStep DEF IInv
<1>3. Accounts => PaymentsAddUp  BY DEF Accounts, PaymentsAddUp, Got, Left, Verified
<1> QED  BY <1>1, <1>2, <1>3, Invariance, PTL DEF Spec

-----------------------------------------------------------------------------
(* The limit.  A call that has been checked still fits when it places its order, *)
(* but for what came back since: its lock keeps the limit and the placements out. *)

Regrown == regrown \in [Calls -> Int]

\* A call past the check fits the limit with its order, but for what has grown back.
Fits == \A c \in Calls : call[c] = "reserved" => Exposure + Total <= limit + regrown[c]

\* Of a set with one element added, every part has at most one element more.
LEMMA OneMore ==
  ASSUME NEW S, IsFiniteSet(S), NEW k, NEW T \in SUBSET (S \union {k})
  PROVE  Cardinality(T) <= Cardinality(S) + 1
<1>1. Cardinality(S) \in Nat  BY FS_CardinalityType
<1>2. /\ IsFiniteSet(S \union {k})
      /\ Cardinality(S \union {k}) = IF k \in S THEN Cardinality(S) ELSE Cardinality(S) + 1
    BY FS_AddElement
<1>3. Cardinality(T) <= Cardinality(S \union {k}) /\ Cardinality(T) \in Nat
    BY <1>2, FS_Subset, FS_CardinalityType
<1> QED  BY <1>1, <1>2, <1>3

\* More orders cost more.
LEMMA CostGrows ==
  ASSUME NEW a \in Nat, NEW m \in Nat, NEW n \in Nat, m <= n
  PROVE  a * m <= a * n /\ a * m \in Nat /\ a * n \in Nat /\ a * (m + 1) = a * m + a
  OBVIOUS

\* What exposure is made of.
ExposureOK ==
  /\ IsFiniteSet(Outstanding) /\ IsFiniteSet(Invoices) /\ Outstanding \subseteq Invoices
  /\ \A i \in Invoices : Balance[i] = invoices[i].open /\ invoices[i].open \in Nat
  /\ IsFiniteSet(Unbilled) /\ Cardinality(Unbilled) \in Nat
  /\ SumFunctionOnSet(Balance, Outstanding) \in Nat
  /\ Total * Cardinality(Unbilled) \in Nat /\ Exposure \in Nat

\* Exposure is the sum of natural numbers over finite sets.
LEMMA ExposureIs == BillOK => ExposureOK
<1> SUFFICES ASSUME BillOK PROVE ExposureOK  OBVIOUS
<1>1. /\ IsFiniteSet(Invoices) /\ Outstanding \subseteq Invoices
      /\ \A i \in Invoices : Balance[i] = invoices[i].open /\ invoices[i].open \in Nat
    <2>1. IsFiniteSet(1 .. Len(invoices))  BY Sequences, FS_Interval
    <2>2. Invoices = 1 .. Len(invoices)  BY Sequences DEF Invoices
    <2>3. \A i \in Invoices : invoices[i] \in Invoice  BY Sequences
    <2> QED  BY <2>1, <2>2, <2>3 DEF Outstanding, Balance, Invoice
<1>2. IsFiniteSet(Outstanding)  BY <1>1, FS_Subset
<1>3. IsFiniteSet(Unbilled) /\ Cardinality(Unbilled) \in Nat
    BY CreditAssumption, FS_Subset, FS_CardinalityType DEF Unbilled
<1>4. SumFunctionOnSet(Balance, Outstanding) \in Nat  BY <1>1, <1>2, SumNat
<1>5. Total \in Nat  BY CreditAssumption
<1>6. Total * Cardinality(Unbilled) \in Nat  BY <1>3, <1>5, CostGrows
<1> QED  BY <1>1, <1>2, <1>3, <1>4, <1>6 DEF Exposure, ExposureOK

\* Exposure does not grow where no balance does, no invoice opens, and no order
\* becomes an unbilled one.
LEMMA ExposureShrinks ==
  ASSUME BillOK, BillOK', Invoices' = Invoices, Outstanding' \subseteq Outstanding,
         Unbilled' \subseteq Unbilled,
         \A i \in Invoices : invoices'[i].open <= invoices[i].open
  PROVE  Exposure' <= Exposure
<1>1. ExposureOK  BY ExposureIs
<1>2. ExposureOK'  BY ExposureIs, PTL
<1>3. SumFunctionOnSet(Balance', Outstanding') <= SumFunctionOnSet(Balance, Outstanding)
    <2>1. Below(Balance', Outstanding', Balance, Outstanding)  BY <1>1, <1>2 DEF Below, ExposureOK
    <2> QED  BY <1>1, <2>1, SumBelow DEF ExposureOK
<1>4. Cardinality(Unbilled') <= Cardinality(Unbilled)
    <2>1. Unbilled' \in SUBSET Unbilled  OBVIOUS
    <2> QED  BY <1>1, <2>1, FS_Subset DEF ExposureOK
<1>5. Total * Cardinality(Unbilled') <= Total * Cardinality(Unbilled)
    BY <1>1, <1>2, <1>4, CreditAssumption, CostGrows DEF ExposureOK
<1> QED  BY <1>1, <1>2, <1>3, <1>5 DEF Exposure, ExposureOK

\* Rows whose order and number stay bill the same orders.
LEMMA UnbilledKept ==
  ASSUME Invoices' = Invoices, order' = order,
         \A i \in Invoices : invoices'[i].order = invoices[i].order
  PROVE  Unbilled' = Unbilled
<1>1. ASSUME NEW o PROVE InvoicesOf(o)' = InvoicesOf(o)  BY DEF InvoicesOf
<1> QED  BY <1>1 DEF Unbilled

\* A verified payment leaves less to pay.
LEMMA VerifyShrinks ==
  ASSUME Bills, BillOK', Accounts, NEW d \in Desks, CommitVerify(d)
  PROVE  Exposure' <= Exposure
<1> USE DEF Bills
<1> DEFINE p == desk[d].of
           i == proofs[p].invoice
           paid == desk[d].paid + proofs[p].amount
<1>1. /\ p \in DOMAIN proofs /\ i \in Invoices /\ invoices[i].paid = desk[d].paid
      /\ invoices[i].status \in OpenStatuses
    BY DEF CommitVerify, DeskOK, Fresh, Known
<1>2. invoices[i] \in Invoice /\ proofs[p] \in Proof  BY <1>1, Sequences
<1>3. paid \in Nat /\ invoices[i].paid \in Nat /\ invoices[i].paid <= paid
    BY <1>1, <1>2 DEF Proof, Invoice
<1>4. /\ Invoices' = Invoices /\ order' = order
      /\ invoices'[i].open = Left(paid) /\ invoices'[i].order = invoices[i].order
      /\ \A j \in Invoices \ {i} : invoices'[j] = invoices[j]
    BY <1>1, <1>2 DEF CommitVerify, Invoice, Invoices, Left, orderVars
<1>5. invoices[i].open = Left(invoices[i].paid)  BY <1>1 DEF Accounts
<1> HIDE DEF i, p, paid
<1>6. Left(paid) <= Left(invoices[i].paid)  BY <1>3, CreditAssumption DEF Left
<1>7. \A j \in Invoices : invoices'[j].open <= invoices[j].open /\ invoices'[j].order = invoices[j].order
    BY <1>4, <1>5, <1>6, ExposureIs DEF ExposureOK
<1>8. Outstanding' \subseteq Outstanding  BY <1>1, <1>4 DEF Outstanding
<1>9. Unbilled' = Unbilled  BY <1>4, <1>7, UnbilledKept
<1> HIDE DEF Bills
<1> QED  BY <1>4, <1>7, <1>8, <1>9, ExposureShrinks DEF Bills

\* A write-off closes an invoice, and a due date changes no balance.
LEMMA RowShrinks ==
  ASSUME Bills, BillOK', NEW i \in Invoices, WriteOff(i) \/ FallDue(i)
  PROVE  Exposure' <= Exposure
<1>1. BillOK /\ invoices[i] \in Invoice /\ DOMAIN invoices = Invoices
    BY Sequences DEF Bills, Invoices
<1>2. /\ Invoices' = Invoices /\ order' = order
      /\ invoices'[i].open = invoices[i].open /\ invoices'[i].order = invoices[i].order
      /\ invoices'[i].status \in {invoices[i].status, "written_off"}
      /\ \A j \in Invoices \ {i} : invoices'[j] = invoices[j]
    <2>1. CASE WriteOff(i)  BY <1>1, <2>1 DEF WriteOff, Invoices, Invoice, orderVars
    <2>2. CASE FallDue(i)  BY <1>1, <2>2 DEF FallDue, Invoices, Invoice, orderVars
    <2> QED  BY <2>1, <2>2
<1>3. \A j \in Invoices : invoices'[j].open <= invoices[j].open /\ invoices'[j].order = invoices[j].order
    BY <1>1, <1>2, ExposureIs DEF ExposureOK
<1>4. Outstanding' \subseteq Outstanding  BY <1>2 DEF Outstanding, OpenStatuses
<1>5. Unbilled' = Unbilled  BY <1>2, <1>3, UnbilledKept
<1> QED  BY <1>1, <1>2, <1>3, <1>4, <1>5, ExposureShrinks

\* An order that leaves "confirmed" bills nothing any more.
LEMMA LeavingShrinks ==
  ASSUME Bills, BillOK', FrontOK, NEW o \in Orders, Cancel(o) \/ Dispatch(o)
  PROVE  Exposure' <= Exposure
<1>1. UNCHANGED invoices /\ \A q \in Orders : order'[q] = "confirmed" => order[q] = "confirmed"
    BY DEF Cancel, Dispatch, billVars, FrontOK
<1>2. BillOK /\ Invoices' = Invoices /\ Outstanding' = Outstanding
    BY <1>1 DEF Bills, Invoices, Outstanding
<1>3. ASSUME NEW q PROVE InvoicesOf(q)' = InvoicesOf(q)  BY <1>1 DEF InvoicesOf, Invoices
<1>4. Unbilled' \subseteq Unbilled  BY <1>1, <1>3 DEF Unbilled
<1>5. \A i \in Invoices : invoices'[i].open <= invoices[i].open
    BY <1>1, <1>2, ExposureIs DEF ExposureOK
<1> QED  BY <1>2, <1>4, <1>5, ExposureShrinks

\* Steps that touch neither invoices nor orders.
LEMMA ExposureKept ==
  ASSUME BillOK, UNCHANGED <<invoices, order>>
  PROVE  Exposure' = Exposure
<1>1. Invoices' = Invoices /\ Outstanding' = Outstanding /\ Balance' = Balance
    BY DEF Invoices, Outstanding, Balance
<1>2. Unbilled' = Unbilled  BY <1>1, UnbilledKept
<1>3. /\ SumFunctionOnSet(Balance', Outstanding') = SumFunctionOnSet(Balance, Outstanding)
      /\ Cardinality(Unbilled') = Cardinality(Unbilled)
    BY <1>1, <1>2, Zenon
<1> QED  BY <1>3 DEF Exposure

\* A placement adds the order's total, and no more.
LEMMA PlacementCost ==
  ASSUME Bills, BillOK', FrontOK, NEW c \in Calls, CommitPlace(c)
  PROVE  Exposure' <= Exposure + Total
<1> DEFINE k == KeyOf[c]
<1>1. UNCHANGED invoices /\ \A q \in Orders : q # k => order'[q] = order[q]
    BY DEF CommitPlace, billVars, FrontOK
<1>2. Invoices' = Invoices /\ Outstanding' = Outstanding /\ Balance' = Balance /\ BillOK
    BY <1>1 DEF Bills, Invoices, Outstanding, Balance
<1>3. ASSUME NEW q PROVE InvoicesOf(q)' = InvoicesOf(q)  BY <1>1 DEF InvoicesOf, Invoices
<1>4. Unbilled' \in SUBSET (Unbilled \union {k})  BY <1>1, <1>3 DEF Unbilled
<1>5. SumFunctionOnSet(Balance', Outstanding') = SumFunctionOnSet(Balance, Outstanding)
    BY <1>2, Zenon
<1>6. ExposureOK /\ ExposureOK'
    <2>1. ExposureOK  BY <1>2, ExposureIs
    <2>2. ExposureOK'  BY ExposureIs, PTL
    <2> QED  BY <2>1, <2>2
<1> HIDE DEF k
<1>7. Cardinality(Unbilled') <= Cardinality(Unbilled) + 1
    <2>1. IsFiniteSet(Unbilled)  BY <1>6 DEF ExposureOK
    <2> QED  BY <1>4, <2>1, OneMore
<1>8. /\ Total * Cardinality(Unbilled') <= Total * (Cardinality(Unbilled) + 1)
      /\ Total * (Cardinality(Unbilled) + 1) = Total * Cardinality(Unbilled) + Total
    <2>1. Cardinality(Unbilled) \in Nat /\ Cardinality(Unbilled') \in Nat  BY <1>6 DEF ExposureOK
    <2>2. Total \in Nat /\ Cardinality(Unbilled) + 1 \in Nat  BY <2>1, CreditAssumption
    <2>3. \A m, n \in Nat : m <= n => Total * m <= Total * n  BY <2>2, CostGrows
    <2>4. \A n \in Nat : Total * (n + 1) = Total * n + Total  BY <2>2, CostGrows
    <2> QED  BY <1>7, <2>1, <2>2, <2>3, <2>4
<1> QED  BY <1>5, <1>6, <1>8, CreditAssumption DEF Exposure, ExposureOK

\* Steps that move neither the limit nor the calls past the check, and under which
\* exposure does not grow.
LEMMA FitsKept ==
  ASSUME Regrown, Fits, ExposureOK, ExposureOK', FrontOK,
         UNCHANGED <<limit, regrown>>, Exposure' <= Exposure,
         \A c \in Calls : call'[c] = "reserved" => call[c] = "reserved"
  PROVE  Regrown' /\ Fits'
<1>1. Exposure \in Nat /\ Exposure' \in Nat /\ limit \in Nat /\ Total \in Nat
    BY CreditAssumption DEF ExposureOK, FrontOK
<1> QED  BY <1>1 DEF Regrown, Fits

\* Steps whose growth every call past the check takes note of.
LEMMA FitsRegrown ==
  ASSUME Regrown, Fits, ExposureOK, ExposureOK', FrontOK, UNCHANGED limit, Surprise,
         \A c \in Calls : call'[c] = "reserved" => call[c] = "reserved"
  PROVE  Regrown' /\ Fits'
<1>1. Exposure \in Nat /\ Exposure' \in Nat /\ limit \in Nat /\ Total \in Nat
    BY CreditAssumption DEF ExposureOK, FrontOK
<1>2. \A c \in Calls : regrown[c] \in Int  BY DEF Regrown
<1>3. \A c \in Calls : regrown'[c] = IF call[c] = "reserved" /\ Exposure' > Exposure
                                    THEN regrown[c] + Exposure' - Exposure ELSE regrown[c]
    BY DEF Surprise
<1>4. Regrown'
    <2>1. \A c \in Calls : regrown'[c] \in Int  BY <1>1, <1>2, <1>3
    <2>2. regrown' = [c \in Calls |-> regrown'[c]]  BY DEF Surprise
    <2> QED  BY <2>1, <2>2 DEF Regrown
<1>5. ASSUME NEW c \in Calls, call'[c] = "reserved" PROVE Exposure' + Total <= limit' + regrown'[c]
    <2>1. Exposure + Total <= limit + regrown[c] /\ call[c] = "reserved"  BY <1>5 DEF Fits
    <2> QED  BY <1>1, <1>2, <1>3, <2>1
<1> QED  BY <1>4, <1>5 DEF Fits

\* A call passes the check, and has seen nothing grow yet.
LEMMA ReserveFits ==
  ASSUME Regrown, Fits, ExposureOK, BillOK, FrontOK, NEW c \in Calls, Reserve(c)
  PROVE  Regrown' /\ Fits'
<1>1. /\ Exposure + Total <= limit /\ limit' = limit
      /\ call' = [call EXCEPT ![c] = "reserved"] /\ regrown' = [regrown EXCEPT ![c] = 0]
      /\ UNCHANGED <<invoices, order>>
    BY DEF Reserve, Reserving, billVars
<1>2. Exposure' = Exposure  BY <1>1, ExposureKept
<1>3. Exposure \in Nat /\ limit \in Nat /\ Total \in Nat  BY CreditAssumption DEF ExposureOK, FrontOK
<1> QED  BY <1>1, <1>2, <1>3 DEF Regrown, Fits, FrontOK

\* Every step keeps the calls past the check within the limit.
LEMMA FitsStep ==
  ASSUME IInv, IInv', Accounts, Regrown, Fits, [Next]_vars
  PROVE  Regrown' /\ Fits'
<1>1. FrontOK /\ FrontOK' /\ LimitIsHeld /\ Bills /\ BillOK /\ BillOK'  BY DEF IInv, Bills
<1>2. ExposureOK /\ ExposureOK'
    <2>1. BillOK /\ BillOK'  BY <1>1
    <2> QED  BY <2>1, ExposureIs, PTL
<1>3. Exposure \in Nat /\ Exposure' \in Nat  BY <1>2 DEF ExposureOK
<1> DEFINE Checked == \A c \in Calls : call'[c] = "reserved" => call[c] = "reserved"
<1>4. ASSUME UNCHANGED <<invoices, order, limit, regrown>>, Checked PROVE Regrown' /\ Fits'
    BY <1>1, <1>2, <1>3, <1>4, ExposureKept, FitsKept
<1>5. CASE UNCHANGED vars
    BY <1>4, <1>5 DEF vars, limitVars, orderVars, billVars
<1>6. ASSUME NEW c \in Calls, BeginPlace(c) \/ PlaceFails(c) \/ BeginIssue(c) \/ IssueFails(c)
      PROVE  Regrown' /\ Fits'
    <2>1. UNCHANGED <<invoices, order, limit, regrown>>
        BY <1>6 DEF BeginPlace, PlaceFails, BeginIssue, IssueFails, limitVars, billVars
    <2>2. Checked
        BY <1>1, <1>6 DEF BeginPlace, PlaceFails, BeginIssue, IssueFails, FrontOK
    <2> HIDE DEF Checked
    <2> QED  BY <1>4, <2>1, <2>2
<1>7. ASSUME NEW c \in Calls, CommitPlace(c) PROVE Regrown' /\ Fits'
    <2>1. \A e \in Calls : call'[e] # "reserved"  BY <1>1, <1>7 DEF CommitPlace, FrontOK, LimitIsHeld
    <2>2. regrown' = regrown  BY <1>7 DEF CommitPlace
    <2> QED  BY <2>1, <2>2 DEF Regrown, Fits
<1>8. ASSUME NEW c \in Calls, CommitIssue(c) PROVE Regrown' /\ Fits'
    <2>1. UNCHANGED limit /\ Surprise  BY <1>8 DEF CommitIssue, limitVars
    <2>2. Checked  BY <1>1, <1>8 DEF CommitIssue, FrontOK
    <2> QED  BY <1>1, <1>2, <2>1, <2>2, FitsRegrown
<1>9. ASSUME NEW o \in Orders, Cancel(o) \/ Dispatch(o) PROVE Regrown' /\ Fits'
    <2>1. UNCHANGED <<limit, regrown, call>>  BY <1>9 DEF Cancel, Dispatch, limitVars
    <2> QED  BY <1>1, <1>2, <1>9, <2>1, LeavingShrinks, FitsKept
<1>10. ASSUME NEW d \in Desks, Pay(d) PROVE Regrown' /\ Fits'
    <2>1. UNCHANGED <<limit, regrown, call, order>>
        BY <1>10 DEF Pay, BeginProof, CommitProof, BeginVerify, Settle, CommitVerify, CrashDesk,
                     limitVars, orderVars
    <2>2. CASE CommitVerify(d)  BY <1>1, <1>2, <2>1, <2>2, VerifyShrinks, FitsKept
    <2>3. CASE UNCHANGED invoices  BY <1>4, <2>1, <2>3
    <2> QED  BY <1>10, <2>2, <2>3 DEF Pay, BeginProof, CommitProof, BeginVerify, Settle, CrashDesk
<1>11. ASSUME NEW i \in Invoices, WriteOff(i) \/ FallDue(i) PROVE Regrown' /\ Fits'
    <2>1. UNCHANGED <<limit, regrown, call>>  BY <1>11 DEF WriteOff, FallDue, limitVars, orderVars
    <2> QED  BY <1>1, <1>2, <1>11, <2>1, RowShrinks, FitsKept
<1>12. ASSUME SetLimit PROVE Regrown' /\ Fits'
    <2>1. UNCHANGED <<invoices, order, regrown, call>>
        BY <1>12 DEF SetLimit, Request, Acknowledge, BeginLimit, CommitLimit, orderVars, billVars
    <2>2. CASE UNCHANGED limit  BY <1>4, <2>1, <2>2
    <2>3. CASE CommitLimit
        <3>1. \A c \in Calls : call[c] # "reserved"
            BY <1>1, <2>3, CreditAssumption DEF CommitLimit, LimitIsHeld
        <3> QED  BY <2>1, <3>1 DEF Regrown, Fits
    <2> QED  BY <1>12, <2>2, <2>3 DEF SetLimit, Request, Acknowledge, BeginLimit
<1>13. ASSUME Sweep PROVE Regrown' /\ Fits'
    <2>1. UNCHANGED <<limit, call, order>>
        BY <1>13 DEF Sweep, SweepRead, Look, SweepMark, SweepCommit, SweepCrash, limitVars, orderVars
    <2>2. CASE SweepCommit
        <3>1. Surprise  BY <2>2 DEF SweepCommit
        <3> QED  BY <1>1, <1>2, <2>1, <3>1, FitsRegrown
    <2>3. CASE UNCHANGED <<invoices, regrown>>  BY <1>4, <2>1, <2>3
    <2> QED  BY <1>13, <2>2, <2>3 DEF Sweep, SweepRead, Look, SweepMark, SweepCrash, orderVars, billVars
<1>14. ASSUME NEW c \in Calls, Reserve(c) PROVE Regrown' /\ Fits'
    BY <1>1, <1>2, <1>14, ReserveFits
<1> HIDE DEF Checked
<1> QED  BY <1>5, <1>6, <1>7, <1>8, <1>9, <1>10, <1>11, <1>12, <1>13, <1>14 DEF Next, Place, Bill

\* For any number of calls, orders, invoices and limits: an order is placed only
\* while it fits the limit in force, but for what has grown back since its check.
THEOREM PlacementsFit == Spec => PlacedWithinLimit
<1>1. Init => Accounts /\ Regrown /\ Fits
    BY AccountsStart DEF Init, Regrown, Fits
<1>2. IInv /\ IInv' /\ Accounts /\ Regrown /\ Fits /\ [Next]_vars => Accounts' /\ Regrown' /\ Fits'
    BY AccountsStep, FitsStep DEF IInv
<1>3. IInv /\ IInv' /\ Fits /\ Regrown /\ [Next]_vars =>
        [\A c \in Calls : call[c] = "reserved" /\ call'[c] = "placed" =>
           Exposure' <= limit + regrown[c]]_vars
    <2> SUFFICES ASSUME IInv, IInv', Fits, Regrown, Next,
                        NEW c \in Calls, call[c] = "reserved", call'[c] = "placed"
                 PROVE  Exposure' <= limit + regrown[c]
        OBVIOUS
    <2>1. FrontOK /\ Bills /\ BillOK /\ BillOK'  BY DEF IInv, Bills
    <2>2. CommitPlace(c)
        <3> USE <2>1 DEF FrontOK, orderVars
        <3>1. ASSUME NEW e \in Calls, Place(e) \/ Bill(e) PROVE CommitPlace(c)
            BY <3>1 DEF Place, Bill, BeginPlace, Reserve, Reserving, PlaceFails, CommitPlace, BeginIssue,
                        CommitIssue, IssueFails
        <3>2. ASSUME NEW o \in Orders, Cancel(o) \/ Dispatch(o) PROVE call' = call
            BY <3>2 DEF Cancel, Dispatch
        <3>3. ASSUME NEW d \in Desks, Pay(d) PROVE call' = call
            BY <3>3 DEF Pay, BeginProof, CommitProof, BeginVerify, Settle, CommitVerify, CrashDesk
        <3>4. ASSUME NEW i \in Invoices, WriteOff(i) \/ FallDue(i) PROVE call' = call
            BY <3>4 DEF WriteOff, FallDue
        <3>5. ASSUME SetLimit \/ Sweep PROVE call' = call
            BY <3>5 DEF SetLimit, Request, Acknowledge, BeginLimit, CommitLimit,
                        Sweep, SweepRead, Look, SweepMark, SweepCommit, SweepCrash
        <3> QED  BY <3>1, <3>2, <3>3, <3>4, <3>5 DEF Next
    <2>3. ExposureOK /\ ExposureOK'  BY <2>1, ExposureIs, PTL
    <2>4. /\ Exposure \in Nat /\ Exposure' \in Nat /\ limit \in Nat /\ Total \in Nat
          /\ regrown[c] \in Int
        BY <2>1, <2>3, CreditAssumption DEF ExposureOK, FrontOK, Regrown
    <2>5. Exposure' <= Exposure + Total  BY <2>1, <2>2, PlacementCost
    <2> QED  BY <2>4, <2>5 DEF Fits
<1> QED  BY <1>1, <1>2, <1>3, Invariance, PTL DEF Spec, PlacedWithinLimit

-----------------------------------------------------------------------------
(* Loyalty, for any number of users, checkouts and drains.                      *)
(*                                                                              *)
(* Entries are never changed, and one kind and source is recorded once: so what *)
(* a drain takes back is what it sees, and nobody else writes about the order   *)
(* but the call that pays with points and the drain that grants them, which     *)
(* make it late.  Points decided on one balance are covered by it as long as    *)
(* nobody else has decided on that balance too.                                 *)

-----------------------------------------------------------------------------
(* Sums of entries.                                                             *)

Value == [x \in Entry |-> x.points]

LEMMA PointsAre ==
  ASSUME NEW E \in SUBSET Entry, IsFiniteSet(E)
  PROVE  /\ Points(E) = SumFunctionOnSet(Value, E)
         /\ \A x \in E : Value[x] = x.points /\ x.points \in Int
         /\ Points(E) \in Int
<1>1. \A x \in E : Value[x] = x.points /\ x.points \in Int  BY DEF Value, Entry
<1> DEFINE f == [x \in E |-> x.points]
<1>2. \A x \in E : f[x] = Value[x]  BY <1>1
<1>3. Points(E) = SumFunctionOnSet(f, E)  BY DEF Points
<1> HIDE DEF f
<1>4. SumFunctionOnSet(f, E) = SumFunctionOnSet(Value, E)  BY <1>2, SumSame
<1>5. SumFunctionOnSet(Value, E) \in Int  BY <1>1, SumInt
<1> QED  BY <1>1, <1>3, <1>4, <1>5

\* No entries, one entry, and two sets of entries that have none in common.
LEMMA PointsEmpty == Points({}) = 0
<1>1. SumFunctionOnSet(Value, {}) = 0  BY SumEmpty
<1>2. IsFiniteSet({}) /\ {} \in SUBSET Entry  BY FS_EmptySet
<1> QED  BY <1>1, <1>2, PointsAre

LEMMA PointsUnion ==
  ASSUME NEW E \in SUBSET Entry, IsFiniteSet(E), NEW F \in SUBSET Entry, IsFiniteSet(F),
         E \cap F = {}
  PROVE  Points(E \union F) = Points(E) + Points(F)
<1>1. IsFiniteSet(E \union F) /\ E \union F \in SUBSET Entry  BY FS_Union
<1>2. \A x \in E \union F : Value[x] \in Int  BY PointsAre
<1>3. SumFunctionOnSet(Value, E \union F) = SumFunctionOnSet(Value, E) + SumFunctionOnSet(Value, F)
  BY <1>2, SumUnion
<1>4. Points(E) = SumFunctionOnSet(Value, E)  BY PointsAre
<1>5. Points(F) = SumFunctionOnSet(Value, F)  BY PointsAre
<1>6. Points(E \union F) = SumFunctionOnSet(Value, E \union F)  BY <1>1, PointsAre
<1> QED  BY <1>3, <1>4, <1>5, <1>6

LEMMA PointsOfOne ==
  ASSUME NEW x \in Entry
  PROVE  Points({x}) = x.points /\ x.points \in Int /\ IsFiniteSet({x})
<1>1. IsFiniteSet({x}) /\ IsFiniteSet({}) /\ {x} \in SUBSET Entry  BY FS_Singleton, FS_EmptySet
<1>2. Value[x] = x.points /\ x.points \in Int  BY DEF Value, Entry
<1>3. SumFunctionOnSet(Value, {} \union {x}) = SumFunctionOnSet(Value, {}) + Value[x]
  BY <1>1, <1>2, SumAdd
<1>4. {} \union {x} = {x}  OBVIOUS
<1>5. SumFunctionOnSet(Value, {x}) = SumFunctionOnSet(Value, {} \union {x})  BY <1>4, Zenon
<1>6. Points({x}) = SumFunctionOnSet(Value, {x})  BY <1>1, PointsAre
<1> QED  BY <1>1, <1>2, <1>3, <1>5, <1>6, SumEmpty

\* The sum of entries of one sign has that sign.
LEMMA PointsUp ==
  ASSUME NEW E \in SUBSET Entry, IsFiniteSet(E), \A x \in E : x.points >= 0
  PROVE  Points(E) >= 0
<1>1. \A x \in E : Value[x] \in Nat  BY PointsAre
<1>2. SumFunctionOnSet(Value, E) \in Nat  BY <1>1, SumNat
<1> QED  BY <1>2, PointsAre

LEMMA PointsDown ==
  ASSUME NEW E \in SUBSET Entry, IsFiniteSet(E), \A x \in E : x.points <= 0
  PROVE  Points(E) <= 0
<1>1. \A x \in E : Value[x] \in Int /\ Value[x] <= 0  BY PointsAre
<1>2. SumFunctionOnSet(Value, E) <= 0  BY <1>1, SumNegative
<1> QED  BY <1>2, PointsAre

\* Fewer entries, the rest of which have one sign.
LEMMA PointsGrow ==
  ASSUME NEW F \in SUBSET Entry, IsFiniteSet(F), NEW E \in SUBSET F,
         \A x \in F \ E : x.points >= 0
  PROVE  Points(F) >= Points(E)
<1> DEFINE D == F \ E
<1>1. IsFiniteSet(E) /\ IsFiniteSet(D) /\ E \in SUBSET Entry /\ D \in SUBSET Entry
  BY FS_Subset
<1>2. E \cap D = {} /\ E \union D = F /\ \A x \in D : x.points >= 0  OBVIOUS
<1> HIDE DEF D
<1>3. Points(E \union D) = Points(E) + Points(D)  BY <1>1, <1>2, PointsUnion
<1>4. Points(D) >= 0  BY <1>1, <1>2, PointsUp
<1>5. Points(E) \in Int /\ Points(D) \in Int  BY <1>1, PointsAre
<1>6. Points(E \union D) = Points(F)  BY <1>2, Zenon
<1> QED  BY <1>3, <1>4, <1>5, <1>6

LEMMA PointsShrink ==
  ASSUME NEW F \in SUBSET Entry, IsFiniteSet(F), NEW E \in SUBSET F,
         \A x \in F \ E : x.points <= 0
  PROVE  Points(F) <= Points(E)
<1> DEFINE D == F \ E
<1>1. IsFiniteSet(E) /\ IsFiniteSet(D) /\ E \in SUBSET Entry /\ D \in SUBSET Entry
  BY FS_Subset
<1>2. E \cap D = {} /\ E \union D = F /\ \A x \in D : x.points <= 0  OBVIOUS
<1> HIDE DEF D
<1>3. Points(E \union D) = Points(E) + Points(D)  BY <1>1, <1>2, PointsUnion
<1>4. Points(D) <= 0  BY <1>1, <1>2, PointsDown
<1>5. Points(E) \in Int /\ Points(D) \in Int  BY <1>1, PointsAre
<1>6. Points(E \union D) = Points(F)  BY <1>2, Zenon
<1> QED  BY <1>3, <1>4, <1>5, <1>6

\* One entry that takes points away, or is there already.
LEMMA PointsLess ==
  ASSUME NEW E \in SUBSET Entry, IsFiniteSet(E), NEW x \in Entry, x.points <= 0
  PROVE  Points(E \union {x}) >= Points(E) + x.points
<1>1. Points(E) \in Int /\ Points({x}) = x.points /\ x.points \in Int /\ IsFiniteSet({x})
  BY PointsAre, PointsOfOne
<1>2. CASE x \in E
  <2>1. E \union {x} = E  BY <1>2
  <2>2. Points(E \union {x}) = Points(E)  BY <2>1, Zenon
  <2> QED  BY <1>1, <2>2
<1>3. CASE x \notin E
  <2>1. E \cap {x} = {} /\ {x} \in SUBSET Entry  BY <1>3
  <2>2. Points(E \union {x}) = Points(E) + Points({x})  BY <1>1, <2>1, PointsUnion
  <2> QED  BY <1>1, <2>2
<1> QED  BY <1>2, <1>3

-----------------------------------------------------------------------------
(* The rows, and finitely many entries.                                         *)

Began == expiry.on => sweeps > 0
BooksOK == /\ LoyaltyTypeOK /\ Began
           /\ IsFiniteSet(ledger) /\ \A d \in Drains : IsFiniteSet(drain[d].mine)

LEMMA EventsAreFinite == IsFiniteSet(Events)
<1> DEFINE Pairs == Checkouts \X (Names \X {1, 2})
           f == [t \in Pairs |-> [order |-> t[1], name |-> t[2][1], nth |-> t[2][2]]]
<1>1. ASSUME NEW a, NEW b PROVE IsFiniteSet({a, b})
  <2>1. IsFiniteSet({} \union {a})  BY FS_EmptySet, FS_AddElement
  <2>2. IsFiniteSet(({} \union {a}) \union {b})  BY <2>1, FS_AddElement
  <2>3. ({} \union {a}) \union {b} = {a, b}  OBVIOUS
  <2> QED  BY <2>2, <2>3
<1>2. IsFiniteSet(Names) /\ IsFiniteSet({1, 2})  BY <1>1 DEF Names
<1>3. IsFiniteSet(Names \X {1, 2})  BY <1>2, FS_Product
<1>4. IsFiniteSet(Pairs)  BY <1>3, FS_Product, LoyaltyAssumption
<1>5. f \in Surjection(Pairs, Events)
  <2>1. f \in [Pairs -> Events]  BY DEF Events
  <2>2. ASSUME NEW e \in Events PROVE \E t \in Pairs : f[t] = e
    <3>1. <<e.order, <<e.name, e.nth>>>> \in Pairs  BY DEF Events
    <3>2. f[<<e.order, <<e.name, e.nth>>>>] = e  BY <3>1 DEF Events
    <3> QED  BY <3>1, <3>2
  <2> QED  BY <2>1, <2>2 DEF Surjection
<1> HIDE DEF Pairs, f
<1> QED  BY <1>4, <1>5, FS_Surjection

\* What record_points adds is one entry, of a kind and a source there is none of.
LEMMA RecordedIs ==
  ASSUME NEW L, NEW o \in Checkouts, NEW kind \in EntryKinds, NEW points \in Int, NEW s \in Sources
  PROVE  /\ Recorded(L, o, kind, points, s) \in SUBSET Entry
         /\ IsFiniteSet(Recorded(L, o, kind, points, s))
         /\ \A x \in Recorded(L, o, kind, points, s) :
              /\ x.kind = kind /\ x.source = s /\ x.points = points
              /\ ~ \E y \in L : y.kind = kind /\ y.source = s
         /\ \A x, y \in Recorded(L, o, kind, points, s) : x = y
         /\ Recorded(L, o, kind, points, s) = {} => \E y \in L : y.kind = kind /\ y.source = s
<1> DEFINE r == [user |-> OwnerOf[o], kind |-> kind, points |-> points, source |-> s]
           R == Recorded(L, o, kind, points, s)
<1>1. r \in Entry  BY LoyaltyAssumption DEF Entry
<1>2. R = {x \in {r} : ~ \E y \in L : y.kind = kind /\ y.source = s}  BY DEF Recorded
<1>3. IsFiniteSet({r})  BY FS_Singleton
<1>4. R \in SUBSET {r}  BY <1>2
<1>5. IsFiniteSet(R)  BY <1>3, <1>4, FS_Subset
<1>6. r.kind = kind /\ r.source = s /\ r.points = points  OBVIOUS
<1> HIDE DEF r, R
<1> QED  BY <1>1, <1>2, <1>4, <1>5, <1>6 DEF R

\* The sources of what the calls, the drains and the sweep record.
LEMMA SourcesAre ==
  ASSUME NEW o \in Checkouts
  PROVE  /\ [order |-> o, name |-> "order", nth |-> 1] \in Sources
         /\ Events \subseteq Sources
         /\ \A e \in Events : e.order \in Checkouts
BY DEF Sources, Events

\* What drain d takes back for the cancellation e: nothing, or the entry it records.
TakesBack(d, e, kind, back, R) ==
  /\ R \in SUBSET Entry /\ IsFiniteSet(R)
  /\ \A x \in R : /\ x.kind = back /\ x.source = e
                  /\ \E y \in About(Visible(d), e.order, {kind}) : x.points = -y.points
  /\ \A x, y \in R : x = y
  /\ R # {} => ~ \E y \in Visible(d) : y.kind = back /\ y.source = e
  /\ R = {} => \/ \A y \in About(Visible(d), e.order, {kind}) : y.points = 0
               \/ \E y \in Visible(d) : y.kind = back /\ y.source = e

LEMMA TakenBackIs ==
  ASSUME LoyaltyTypeOK, NEW d \in Drains, NEW e \in Events, NEW kind \in EntryKinds,
         NEW back \in EntryKinds, NEW R \in TakenBack(Visible(d), e.order, kind, back, e)
  PROVE  TakesBack(d, e, kind, back, R)
<1> DEFINE L == Visible(d)
<1>0. L \in SUBSET Entry  BY DEF Visible, LoyaltyTypeOK
<1> HIDE DEF L
<1>a. R \in TakenBack(L, e.order, kind, back, e)  BY DEF L
<1> SUFFICES /\ R \in SUBSET Entry /\ IsFiniteSet(R)
             /\ \A x \in R : /\ x.kind = back /\ x.source = e
                             /\ \E y \in About(L, e.order, {kind}) : x.points = -y.points
             /\ \A x, y \in R : x = y
             /\ R # {} => ~ \E y \in L : y.kind = back /\ y.source = e
             /\ R = {} => \/ \A y \in About(L, e.order, {kind}) : y.points = 0
                          \/ \E y \in L : y.kind = back /\ y.source = e
  BY DEF TakesBack, L
<1> DEFINE found == {x \in About(L, e.order, {kind}) : x.points # 0}
<1>1. CASE found = {}
  <2>1. R = {}  BY <1>1, <1>a DEF TakenBack
  <2>2. IsFiniteSet(R)  BY <2>1, FS_EmptySet
  <2> QED  BY <1>1, <2>1, <2>2
<1>2. CASE found # {}
  <2>1. PICK y \in found : R = Recorded(L, e.order, back, -y.points, e)  BY <1>2, <1>a DEF TakenBack
  <2>2. y \in About(L, e.order, {kind}) /\ y.points \in Int /\ -y.points \in Int
    BY <1>0 DEF About, Entry
  <2>3. e \in Sources /\ e.order \in Checkouts  BY DEF Sources, Events
  <2> HIDE DEF found
  <2> DEFINE P == Recorded(L, e.order, back, -y.points, e)
  <2>4. /\ P \in SUBSET Entry
        /\ IsFiniteSet(P)
        /\ \A x \in P : /\ x.kind = back /\ x.source = e /\ x.points = -y.points
                        /\ ~ \E z \in L : z.kind = back /\ z.source = e
        /\ \A x, z \in P : x = z
        /\ P = {} => \E z \in L : z.kind = back /\ z.source = e
    BY <2>2, <2>3, RecordedIs
  <2>5. R = P  BY <2>1
  <2> HIDE DEF P
  <2> QED  BY <2>2, <2>4, <2>5
<1> QED  BY <1>1, <1>2

\* Entries of a user are finitely many, and add up to an integer.
LEMMA EntriesOf ==
  ASSUME BooksOK, NEW u, NEW K
  PROVE  Of(u, K) \in SUBSET Entry /\ IsFiniteSet(Of(u, K)) /\ Points(Of(u, K)) \in Int
<1>1. Of(u, K) \in SUBSET ledger /\ ledger \in SUBSET Entry  BY DEF Of, BooksOK, LoyaltyTypeOK
<1>2. IsFiniteSet(Of(u, K))  BY <1>1, FS_Subset DEF BooksOK
<1>3. Of(u, K) \in SUBSET Entry  BY <1>1
<1> QED  BY <1>2, <1>3, PointsAre

\* The event an announcement adds is one there was not, the second of its name
\* only after the first.
InTurn == \A e \in Events : e.nth = 2 /\ outbox[e] # "none"
                              => outbox[[order |-> e.order, name |-> e.name, nth |-> 1]] # "none"

LEMMA EventsOfAre ==
  ASSUME NEW o, NEW names
  PROVE  IsFiniteSet(EventsOf(o, names)) /\ Cardinality(EventsOf(o, names)) \in Nat
<1>1. EventsOf(o, names) \in SUBSET Events  BY DEF EventsOf
<1>2. IsFiniteSet(EventsOf(o, names))  BY <1>1, EventsAreFinite, FS_Subset
<1> QED  BY <1>2, FS_CardinalityType

LEMMA AnnouncedIsNew ==
  ASSUME LoyaltyTypeOK, InTurn, NEW o \in Checkouts, NEW name \in Names, Announce(o, name)
  PROVE  \E e \in Events :
           /\ e.order = o /\ e.name = name /\ outbox[e] = "none"
           /\ outbox' = [outbox EXCEPT ![e] = "queued"]
           /\ e.nth = 2 => outbox[[order |-> o, name |-> name, nth |-> 1]] # "none"
<1> DEFINE S == EventsOf(o, {name})
           n == Cardinality(S)
           e == [order |-> o, name |-> name, nth |-> n + 1]
           first == [order |-> o, name |-> name, nth |-> 1]
           second == [order |-> o, name |-> name, nth |-> 2]
<1>1. IsFiniteSet(S) /\ n \in Nat /\ n < 2  BY EventsOfAre DEF Announce
<1>2. e \in Events /\ first \in Events /\ second \in Events  BY <1>1 DEF Events
<1>3. outbox' = [outbox EXCEPT ![e] = "queued"]  BY DEF Announce
<1>4. first \in S <=> outbox[first] # "none"  BY <1>2 DEF EventsOf
<1>5. second \in S <=> outbox[second] # "none"  BY <1>2 DEF EventsOf
<1>6. second \in S => first \in S  BY <1>2, <1>4, <1>5 DEF InTurn
<1>7. CASE n = 0
  <2>1. S = {}  BY <1>1, <1>7, FS_EmptySet
  <2>2. e = first  BY <1>7
  <2>3. outbox[e] = "none"  BY <1>4, <2>1, <2>2
  <2>4. e.order = o /\ e.name = name /\ e.nth # 2  BY <2>2
  <2> HIDE DEF e
  <2> QED  BY <1>2, <1>3, <2>3, <2>4
<1>8. CASE n = 1
  <2>1. PICK x : S = {x}  BY <1>1, <1>8, FS_Singleton
  <2>2. e = second  BY <1>8
  <2>3. first \in S
    <3>1. x \in S /\ x \in Events /\ x.order = o /\ x.name = name  BY <2>1 DEF EventsOf
    <3>2. x = first \/ x = second  BY <3>1 DEF Events
    <3> QED  BY <1>6, <3>1, <3>2
  <2>4. second \notin S  BY <2>1, <2>3
  <2>5. outbox[e] = "none" /\ outbox[first] # "none"  BY <1>4, <1>5, <2>2, <2>3, <2>4
  <2> QED  BY <1>2, <1>3, <2>5
<1> QED  BY <1>1, <1>7, <1>8

\* A drain's transaction, and what selecting the cancellations makes of it.
Tx == [at: {"idle", "paid", "cancelled"}, rows: SUBSET Events, done: SUBSET Events,
       mine: SUBSET Entry, freed: SUBSET Checkouts]

LEMMA TxSelecting ==
  ASSUME NEW t \in Tx, NEW a, NEW R
  PROVE  [t EXCEPT !.at = a, !.rows = R]
           = [at |-> a, rows |-> R, done |-> t.done, mine |-> t.mine, freed |-> t.freed]
<1> DEFINE r1 == [at |-> a, rows |-> t.rows, done |-> t.done, mine |-> t.mine, freed |-> t.freed]
           r2 == [at |-> a, rows |-> R, done |-> t.done, mine |-> t.mine, freed |-> t.freed]
<1>1. [t EXCEPT !.at = a] = r1  BY DEF Tx
<1>2. [r1 EXCEPT !.rows = R] = r2  OBVIOUS
<1> HIDE DEF r1
<1> QED  BY <1>1, <1>2, Zenon

\* What a step that undoes one cancellation leaves the drain with.
Released(d, e) ==
  IF redemption[e.order] = "applied" /\ e.order \notin drain[d].freed
  THEN drain[d].freed \union {e.order} ELSE drain[d].freed

UndoneBy(d, e, reversed, restored) ==
  /\ e \in drain[d].rows
  /\ drain' = [drain EXCEPT ![d] = drain'[d]]
  /\ drain'[d] = [at |-> drain[d].at, rows |-> drain[d].rows \ {e},
                  done |-> drain[d].done \union {e},
                  mine |-> drain[d].mine \union reversed \union restored,
                  freed |-> Released(d, e)]
  /\ drain'[d].freed # drain[d].freed => \A x \in Drains \ {d} : drain[x].freed = {}

LEMMA UndoIs ==
  ASSUME LoyaltyTypeOK, NEW d \in Drains, NEW e \in Events, Undo(d, e)
  PROVE  \E reversed \in TakenBack(Visible(d), e.order, "earn", "reverse", e),
            restored \in TakenBack(Visible(d), e.order, "redeem", "restore", e) :
              /\ UndoneBy(d, e, reversed, restored)
              /\ TakesBack(d, e, "earn", "reverse", reversed)
              /\ TakesBack(d, e, "redeem", "restore", restored)
<1> DEFINE new(reversed, restored) ==
             [at |-> drain[d].at, rows |-> drain[d].rows \ {e}, done |-> drain[d].done \union {e},
              mine |-> drain[d].mine \union reversed \union restored, freed |-> Released(d, e)]
<1>1. PICK reversed \in TakenBack(Visible(d), e.order, "earn", "reverse", e),
           restored \in TakenBack(Visible(d), e.order, "redeem", "restore", e) :
        drain' = [drain EXCEPT ![d] = new(reversed, restored)]
  BY DEF Undo, Released
<1>2. /\ e \in drain[d].rows
      /\ Released(d, e) # drain[d].freed => \A x \in Drains \ {d} : drain[x].freed = {}
  BY DEF Undo, Released
<1>3. DOMAIN drain = Drains  BY DEF LoyaltyTypeOK
<1>4. drain'[d] = new(reversed, restored)
  <2> HIDE DEF new
  <2> QED  BY <1>1, <1>3
<1>5. drain' = [drain EXCEPT ![d] = drain'[d]]
  <2> HIDE DEF new
  <2> QED  BY <1>1, <1>4
<1>6. drain'[d].freed = Released(d, e)  BY <1>4
<1>7. UndoneBy(d, e, reversed, restored)  BY <1>2, <1>4, <1>5, <1>6 DEF UndoneBy
<1>8. /\ "earn" \in EntryKinds /\ "reverse" \in EntryKinds
      /\ "redeem" \in EntryKinds /\ "restore" \in EntryKinds
  BY DEF EntryKinds
<1>9. TakesBack(d, e, "earn", "reverse", reversed)  BY <1>8, TakenBackIs
<1>10. TakesBack(d, e, "redeem", "restore", restored)  BY <1>8, TakenBackIs
<1> QED  BY <1>7, <1>9, <1>10

\* What the drains have locked: rows that wait, each one drain's.
Held(d) == drain[d].rows \union drain[d].done
Locks ==
  /\ \A d, c \in Drains : d # c => Held(d) \cap Held(c) = {}
  /\ \A d \in Drains : /\ drain[d].rows \cap drain[d].done = {}
                       /\ \A e \in Held(d) : outbox[e] = "queued"
                       /\ \A e \in drain[d].rows : e.name = "cancelled"

LEMMA LocksStep ==
  ASSUME LoyaltyTypeOK, InTurn, Locks, [LoyaltyNext]_loyaltyVars
  PROVE  Locks'
<1> USE DEF Locks, Held
<1>1. ASSUME UNCHANGED <<drain, outbox>> PROVE Locks'  BY <1>1
<1>2. ASSUME NEW o \in Checkouts, NEW name \in Names, Announce(o, name) PROVE Locks'
  <2>1. PICK e \in Events : outbox[e] = "none" /\ outbox' = [outbox EXCEPT ![e] = "queued"]
    BY <1>2, AnnouncedIsNew
  <2>2. UNCHANGED drain  BY <1>2 DEF Announce
  <2> QED  BY <2>1, <2>2 DEF LoyaltyTypeOK
<1>3. ASSUME NEW e \in Events, TakenElsewhere(e) PROVE Locks'
  BY <1>3 DEF TakenElsewhere, RowLocked, LoyaltyTypeOK
<1>4. ASSUME NEW d \in Drains, DrainPaid(d) \/ DrainCancelled(d) PROVE Locks'
  <2>1. \A c \in Drains : c # d => drain'[c] = drain[c]
    BY <1>4 DEF DrainPaid, DrainCancelled, LoyaltyTypeOK
  <2>2. UNCHANGED outbox  BY <1>4 DEF DrainPaid, DrainCancelled
  <2>3. \/ drain'[d].rows = {} /\ drain'[d].done = Waiting("paid")
        \/ drain'[d].rows = Waiting("cancelled") /\ drain'[d].done = drain[d].done
    <3>1. CASE DrainPaid(d)  BY <3>1 DEF DrainPaid, LoyaltyTypeOK, Idle
    <3>2. CASE DrainCancelled(d)  BY <3>2 DEF DrainCancelled, LoyaltyTypeOK
    <3> QED  BY <1>4, <3>1, <3>2
  <2>5. \A name : \A e \in Waiting(name) : /\ e.name = name /\ outbox[e] = "queued"
                                           /\ \A c \in Drains : e \notin Held(c)
    BY DEF Waiting, RowLocked
  <2> QED  BY <2>1, <2>2, <2>3, <2>5
<1>5. ASSUME NEW d \in Drains, NEW e \in Events, Undo(d, e) PROVE Locks'
  <2>1. \A c \in Drains : c # d => drain'[c] = drain[c]  BY <1>5 DEF Undo, LoyaltyTypeOK
  <2>2. UNCHANGED outbox /\ e \in drain[d].rows  BY <1>5 DEF Undo
  <2>3. drain'[d].rows = drain[d].rows \ {e} /\ drain'[d].done = drain[d].done \union {e}
    BY <1>5 DEF Undo, LoyaltyTypeOK
  <2> QED  BY <2>1, <2>2, <2>3
<1>6. ASSUME NEW d \in Drains, Commit(d) \/ RollBack(d) PROVE Locks'
  <2>1. \A c \in Drains : c # d => drain'[c] = drain[c]
    BY <1>6 DEF Commit, RollBack, LoyaltyTypeOK
  <2>2. drain'[d].rows = {} /\ drain'[d].done = {}
    BY <1>6 DEF Commit, RollBack, LoyaltyTypeOK, Idle
  <2>3. \A e \in Events : outbox'[e] = outbox[e] \/ e \in drain[d].done
    BY <1>6 DEF Commit, RollBack
  <2>4. \A c \in Drains : \A e \in Held(c) : e \in Events  BY DEF LoyaltyTypeOK
  <2> QED  BY <2>1, <2>2, <2>3, <2>4
<1>7. ASSUME NEW o \in Checkouts, \/ Validate(o) \/ Quote(o) \/ PlaceOrder(o)
                                   \/ Apply(o) \/ Die(o) \/ Replay(o)
      PROVE  UNCHANGED <<drain, outbox>>
  BY <1>7 DEF Validate, Quote, PlaceOrder, Apply, Die, Replay
<1>8. ASSUME BeginExpiry \/ CommitExpiry PROVE UNCHANGED <<drain, outbox>>
  BY <1>8 DEF BeginExpiry, CommitExpiry
<1>9. ASSUME UNCHANGED loyaltyVars PROVE UNCHANGED <<drain, outbox>>  BY <1>9 DEF loyaltyVars
<1> HIDE DEF Locks, Held
<1> QED  BY <1>1, <1>2, <1>3, <1>4, <1>5, <1>6, <1>7, <1>8, <1>9 DEF LoyaltyNext

LEMMA InTurnStep ==
  ASSUME LoyaltyTypeOK, InTurn, Locks, [LoyaltyNext]_loyaltyVars
  PROVE  InTurn'
<1>1. \A e \in Events : [order |-> e.order, name |-> e.name, nth |-> 1] \in Events  BY DEF Events
<1>2. ASSUME \A e \in Events : outbox[e] = "none" <=> outbox'[e] = "none" PROVE InTurn'
  BY <1>1, <1>2 DEF InTurn
<1>3. ASSUME NEW o \in Checkouts, NEW name \in Names, Announce(o, name) PROVE InTurn'
  <2>1. PICK e \in Events :
           /\ e.order = o /\ e.name = name /\ outbox[e] = "none"
           /\ outbox' = [outbox EXCEPT ![e] = "queued"]
           /\ e.nth = 2 => outbox[[order |-> o, name |-> name, nth |-> 1]] # "none"
    BY <1>3, AnnouncedIsNew
  <2>2. \A x \in Events : outbox'[x] = IF x = e THEN "queued" ELSE outbox[x]
    BY <2>1 DEF LoyaltyTypeOK
  <2> QED  BY <1>1, <2>1, <2>2 DEF InTurn
<1>4. ASSUME NEW e \in Events, TakenElsewhere(e) PROVE InTurn'
  BY <1>2, <1>4 DEF TakenElsewhere, LoyaltyTypeOK
<1>5. ASSUME NEW d \in Drains, Commit(d) PROVE InTurn'
  <2>1. \A e \in drain[d].done : outbox[e] = "queued"  BY DEF Locks, Held
  <2> QED  BY <1>2, <1>5, <2>1 DEF Commit
<1>6. ASSUME UNCHANGED outbox PROVE InTurn'  BY <1>2, <1>6
<1>7. ASSUME NEW o \in Checkouts, \/ Validate(o) \/ Quote(o) \/ PlaceOrder(o)
                                   \/ Apply(o) \/ Die(o) \/ Replay(o)
      PROVE  UNCHANGED outbox
  BY <1>7 DEF Validate, Quote, PlaceOrder, Apply, Die, Replay
<1>8. ASSUME BeginExpiry \/ CommitExpiry PROVE UNCHANGED outbox
  BY <1>8 DEF BeginExpiry, CommitExpiry
<1>9. ASSUME NEW d \in Drains, \/ DrainPaid(d) \/ DrainCancelled(d) \/ RollBack(d)
                               \/ \E e \in Events : Undo(d, e)
      PROVE  UNCHANGED outbox
  BY <1>9 DEF DrainPaid, DrainCancelled, RollBack, Undo
<1>10. ASSUME UNCHANGED loyaltyVars PROVE UNCHANGED outbox  BY <1>10 DEF loyaltyVars
<1> QED  BY <1>3, <1>4, <1>5, <1>6, <1>7, <1>8, <1>9, <1>10 DEF LoyaltyNext

\* What is read of the ledger is a number, what is granted on it a natural one.
LEMMA AmountsAre ==
  ASSUME BooksOK
  PROVE  /\ \A u : PointsBalance(u) \in Int
         /\ \A u \in Users : Expirable(u) \in Nat
         /\ \A o \in Checkouts : Allowed(o) \in Nat
<1>1. ASSUME NEW u PROVE PointsBalance(u) \in Int  BY EntriesOf DEF PointsBalance
<1>2. ASSUME NEW u \in Users PROVE Expirable(u) \in Nat
  <2>1. Earlier(u) \in Entry  BY LoyaltyAssumption DEF Earlier, Entry, Sources, EntryKinds
  <2>2. Points({Earlier(u)}) \in Int  BY <2>1, PointsOfOne
  <2>3. Points(Of(u, {"expire"})) \in Int  BY EntriesOf
  <2> QED  BY <2>2, <2>3 DEF Expirable, Larger
<1>3. ASSUME NEW o \in Checkouts PROVE Allowed(o) \in Nat
  <2>1. Wanted[o] \in Nat /\ Ceiling[o] \in Nat /\ PointsBalance(OwnerOf[o]) \in Int
    BY <1>1, LoyaltyAssumption
  <2> QED  BY <2>1 DEF Allowed, Larger, Smaller
<1> QED  BY <1>1, <1>2, <1>3

\* Every variable keeps its type, and the entries stay finitely many.
LEMMA BooksStep ==
  ASSUME BooksOK, InTurn, Locks, [LoyaltyNext]_loyaltyVars
  PROVE  BooksOK'
<1> USE DEF BooksOK, LoyaltyTypeOK, Began
<1>1. ASSUME UNCHANGED loyaltyVars PROVE BooksOK'
  BY <1>1 DEF loyaltyVars, bookVars, callVars
<1>2. ASSUME NEW o \in Checkouts, Validate(o) PROVE BooksOK'
  <2>1. Valid(o) \in BOOLEAN  BY DEF Valid
  <2>2. plan' \in [Checkouts -> [coupon: BOOLEAN, points: Nat]]  BY <1>2, <2>1 DEF Validate
  <2> QED  BY <1>2, <2>2 DEF Validate, bookVars
<1>3. ASSUME NEW o \in Checkouts, Quote(o) PROVE BooksOK'
  <2>1. Allowed(o) \in Nat  BY AmountsAre
  <2> QED  BY <1>3, <2>1 DEF Quote, bookVars
<1>4. ASSUME NEW o \in Checkouts, PlaceOrder(o) \/ Replay(o) \/ Die(o) PROVE BooksOK'
  BY <1>4, LoyaltyAssumption DEF PlaceOrder, Replay, Die, bookVars
<1>5. ASSUME NEW o \in Checkouts, Apply(o) PROVE BooksOK'
  <2> DEFINE s == [order |-> o, name |-> "order", nth |-> 1]
             R == Recorded(ledger, o, "redeem", -plan[o].points, s)
  <2>1. s \in Sources /\ -plan[o].points \in Int /\ "redeem" \in EntryKinds
    BY SourcesAre DEF EntryKinds
  <2>2. R \in SUBSET Entry /\ IsFiniteSet(R)  BY <2>1, RecordedIs
  <2>3. ledger' = ledger \union R \/ ledger' = ledger  BY <1>5 DEF Apply, Redeem
  <2> HIDE DEF R
  <2>4. IsFiniteSet(ledger \union R)  BY <2>2, FS_Union
  <2>5. IsFiniteSet(ledger') /\ ledger' \subseteq Entry  BY <2>2, <2>3, <2>4
  <2>6. used' \in Nat /\ redemption' \in [Checkouts -> {"none", "applied", "released"}]
    <3>1. CASE plan[o].coupon  BY <1>5, <3>1 DEF Apply, Redeem
    <3>2. CASE ~plan[o].coupon  BY <1>5, <3>2 DEF Apply, Redeem
    <3> QED  BY <3>1, <3>2
  <2>7. late' \subseteq Checkouts /\ crossed' \subseteq Users \union {"coupon"}
    BY <1>5 DEF Apply, Redeem, Crossing
  <2> QED  BY <1>5, <2>5, <2>6, <2>7 DEF Apply
<1>6. ASSUME NEW o \in Checkouts, NEW name \in Names, Announce(o, name) PROVE BooksOK'
  <2>1. PICK e \in Events : outbox' = [outbox EXCEPT ![e] = "queued"]
    BY <1>6, AnnouncedIsNew
  <2> QED  BY <1>6, <2>1 DEF Announce, bookVars, callVars
<1>7. ASSUME NEW e \in Events, TakenElsewhere(e) PROVE BooksOK'
  BY <1>7 DEF TakenElsewhere, bookVars, callVars
<1>8. ASSUME NEW d \in Drains, DrainPaid(d) PROVE BooksOK'
  <2> DEFINE R(e) == Recorded(ledger, e.order, "earn", Earns[e.order], e)
             All == {R(e) : e \in Waiting("paid")}
  <2>1. ASSUME NEW e \in Events PROVE R(e) \in SUBSET Entry /\ IsFiniteSet(R(e))
    <3>1. e \in Sources /\ e.order \in Checkouts  BY SourcesAre DEF Events
    <3>2. Earns[e.order] \in Int /\ "earn" \in EntryKinds  BY <3>1, LoyaltyAssumption DEF EntryKinds
    <3> QED  BY <3>1, <3>2, RecordedIs
  <2>2. Waiting("paid") \in SUBSET Events  BY DEF Waiting
  <2>3. IsFiniteSet(Waiting("paid"))  BY <2>2, EventsAreFinite, FS_Subset
  <2>4. IsFiniteSet(All)
    <3> DEFINE f == [e \in Waiting("paid") |-> R(e)]
    <3>1. f \in Surjection(Waiting("paid"), All)  BY DEF Surjection
    <3> HIDE DEF f, All
    <3> QED  BY <2>3, <3>1, FS_Surjection
  <2>5. \A T \in All : IsFiniteSet(T) /\ T \in SUBSET Entry  BY <2>1, <2>2
  <2> HIDE DEF R, All
  <2>6. IsFiniteSet(UNION All) /\ UNION All \in SUBSET Entry  BY <2>4, <2>5, FS_UNION
  <2>7. drain' = [drain EXCEPT ![d] = [Idle EXCEPT !.at = "paid", !.done = Waiting("paid"),
                                                   !.mine = UNION All]]
    BY <1>8 DEF DrainPaid, R, All
  <2>8. UNCHANGED <<bookVars, callVars, outbox, expiry, sweeps, faults, late, crossed>>
    BY <1>8 DEF DrainPaid
  <2> QED  BY <2>2, <2>6, <2>7, <2>8 DEF bookVars, callVars, Idle
<1>9. ASSUME NEW d \in Drains, DrainCancelled(d) PROVE BooksOK'
  <2>1. Waiting("cancelled") \in SUBSET Events  BY DEF Waiting
  <2>2. drain' = [drain EXCEPT ![d] =
          [at |-> "cancelled", rows |-> Waiting("cancelled"), done |-> drain[d].done,
           mine |-> drain[d].mine, freed |-> drain[d].freed]]
    <3>1. drain[d] \in Tx  BY DEF Tx
    <3>2. drain' = [drain EXCEPT ![d] = [drain[d] EXCEPT !.at = "cancelled",
                                                         !.rows = Waiting("cancelled")]]
      BY <1>9 DEF DrainCancelled
    <3> HIDE DEF BooksOK, LoyaltyTypeOK
    <3> QED  BY <3>1, <3>2, TxSelecting
  <2>4. drain' \in [Drains -> [at: {"idle", "paid", "cancelled"}, rows: SUBSET Events,
                              done: SUBSET Events, mine: SUBSET Entry, freed: SUBSET Checkouts]]
    BY <2>1, <2>2
  <2>5. \A c \in Drains : IsFiniteSet(drain'[c].mine)  BY <2>2
  <2>6. UNCHANGED <<bookVars, callVars, outbox, expiry, sweeps, faults, late, crossed>>
    BY <1>9 DEF DrainCancelled
  <2> QED  BY <2>4, <2>5, <2>6 DEF bookVars, callVars
<1>10. ASSUME NEW d \in Drains, NEW e \in Events, Undo(d, e) PROVE BooksOK'
  <2>1. PICK reversed \in TakenBack(Visible(d), e.order, "earn", "reverse", e),
             restored \in TakenBack(Visible(d), e.order, "redeem", "restore", e) :
               /\ UndoneBy(d, e, reversed, restored)
               /\ TakesBack(d, e, "earn", "reverse", reversed)
               /\ TakesBack(d, e, "redeem", "restore", restored)
    <3> HIDE DEF BooksOK, LoyaltyTypeOK
    <3> QED  BY <1>10, UndoIs DEF BooksOK
  <2>2. UndoneBy(d, e, reversed, restored)  BY <2>1
  <2>4. reversed \in SUBSET Entry /\ IsFiniteSet(reversed)  BY <2>1 DEF TakesBack
  <2>5. restored \in SUBSET Entry /\ IsFiniteSet(restored)  BY <2>1 DEF TakesBack
  <2>6. IsFiniteSet(drain[d].mine \union reversed \union restored)  BY <2>4, <2>5, FS_Union
  <2>7. UNCHANGED <<bookVars, callVars, outbox, expiry, sweeps, faults, late, crossed>>
    BY <1>10 DEF Undo
  <2>8. e.order \in Checkouts  BY DEF Events
  <2>9. drain' \in [Drains -> [at: {"idle", "paid", "cancelled"}, rows: SUBSET Events,
                              done: SUBSET Events, mine: SUBSET Entry, freed: SUBSET Checkouts]]
    BY <2>2, <2>4, <2>5, <2>8 DEF UndoneBy, Released
  <2>10. \A c \in Drains : IsFiniteSet(drain'[c].mine)
    <3>1. drain'[d].mine = drain[d].mine \union reversed \union restored  BY <2>2 DEF UndoneBy
    <3>2. \A c \in Drains \ {d} : drain'[c] = drain[c]  BY <2>2 DEF UndoneBy
    <3>3. IsFiniteSet(drain'[d].mine)  BY <2>6, <3>1
    <3> QED  BY <3>2, <3>3
  <2> QED  BY <2>7, <2>9, <2>10 DEF bookVars, callVars
<1>11. ASSUME NEW d \in Drains, Commit(d) PROVE BooksOK'
  <2>1. drain[d].mine \in SUBSET Entry /\ drain[d].freed \in SUBSET Checkouts  OBVIOUS
  <2>2. IsFiniteSet(ledger \union drain[d].mine)  BY FS_Union
  <2>3. IsFiniteSet(drain[d].freed)  BY <2>1, FS_Subset, LoyaltyAssumption
  <2>4. Cardinality(drain[d].freed) \in Nat  BY <2>3, FS_CardinalityType
  <2>5. used' \in Nat  BY <1>11, <2>4 DEF Commit, Larger
  <2>6. ledger' = ledger \union drain[d].mine  BY <1>11 DEF Commit
  <2>7. redemption' \in [Checkouts -> {"none", "applied", "released"}]
        /\ outbox' \in [Events -> {"none", "queued", "handled", "elsewhere"}]
        /\ late' \subseteq Checkouts
    BY <1>11 DEF Commit
  <2>8. IsFiniteSet({})  BY FS_EmptySet
  <2> QED  BY <1>11, <2>1, <2>2, <2>5, <2>6, <2>7, <2>8 DEF Commit, callVars, Idle
<1>12. ASSUME NEW d \in Drains, RollBack(d) PROVE BooksOK'
  <2>8. IsFiniteSet({})  BY FS_EmptySet
  <2> QED  BY <1>12, <2>8, LoyaltyAssumption DEF RollBack, bookVars, callVars, Idle
<1>13. ASSUME BeginExpiry PROVE BooksOK'
  <2>1. \A u \in Users : Larger(Smaller(PointsBalance(u), Expirable(u)), 0) \in Nat
    BY AmountsAre DEF Larger, Smaller
  <2> QED  BY <1>13, <2>1, LoyaltyAssumption DEF BeginExpiry, bookVars, callVars
<1>14. ASSUME CommitExpiry PROVE BooksOK'
  <2> DEFINE Due == {u \in Users : expiry.due[u] > 0}
             New == {Expired(u) : u \in Due}
  <2>1. New \in SUBSET Entry
    <3>1. [order |-> NoOrder, name |-> "sweep", nth |-> sweeps] \in Sources
      BY <1>14, LoyaltyAssumption DEF CommitExpiry, Sources
    <3> QED  BY <3>1 DEF Expired, Entry, EntryKinds
  <2>2. IsFiniteSet(New)
    <3> DEFINE f == [u \in Due |-> Expired(u)]
    <3>1. IsFiniteSet(Due)
      <4>1. Due \in SUBSET Users  OBVIOUS
      <4> QED  BY <4>1, LoyaltyAssumption, FS_Subset
    <3>2. f \in Surjection(Due, New)  BY DEF Surjection
    <3> HIDE DEF f, New, Due
    <3> QED  BY <3>1, <3>2, FS_Surjection
  <2>3. ledger' = ledger \union New  BY <1>14 DEF CommitExpiry
  <2> HIDE DEF New
  <2>4. IsFiniteSet(ledger \union New)  BY <2>2, FS_Union
  <2> QED  BY <1>14, <2>1, <2>3, <2>4 DEF CommitExpiry, callVars, NoneDue
<1> HIDE DEF BooksOK, LoyaltyTypeOK, Began
<1> QED  BY <1>1, <1>2, <1>3, <1>4, <1>5, <1>6, <1>7, <1>8, <1>9, <1>10, <1>11, <1>12, <1>13, <1>14
         DEF LoyaltyNext

-----------------------------------------------------------------------------
(* What the entries say.                                                        *)

Ups   == {"earn", "restore"}
Flows == {"earn", "restore", "redeem", "expire"}

\* An entry adds points or takes them, as its kind says, and comes from the
\* paid or the cancelled event, the order's call, or neither.
Signed(x) == IF x.kind \in Ups THEN x.points >= 0 ELSE x.points <= 0
Sourced(x) ==
  /\ x.kind = "earn" => \/ x.source.order = NoOrder
                        \/ x.source \in Events /\ x.source.name = "paid"
  /\ x.kind = "redeem" => x.source.name = "order" /\ x.source.nth = 1
  /\ x.kind \in {"reverse", "restore"} => x.source \in Events /\ x.source.name = "cancelled"
  /\ x.kind = "expire" => x.source.order = NoOrder

\* One entry of an order for a kind and a source.
OneEach(L) == \A x, y \in L : (x.kind = y.kind /\ x.source = y.source
                                 /\ x.source.order # NoOrder) => x = y

InLedger(x) == Signed(x) /\ Sourced(x) /\ (x.source \in Events => outbox[x.source] = "handled")
InDrain(x, d) == Signed(x) /\ Sourced(x) /\ x.source \in drain[d].done
Booked ==
  /\ \A x \in ledger : InLedger(x)
  /\ \A d \in Drains : \A x \in drain[d].mine : InDrain(x, d)
  /\ \A d \in Drains : OneEach(Visible(d))

\* Steps that leave the entries where they are.
LEMMA BookedKept ==
  ASSUME LoyaltyTypeOK, Booked, UNCHANGED ledger,
         \A e \in Events : outbox[e] = "handled" => outbox'[e] = "handled",
         \A d \in Drains : drain'[d].mine = drain[d].mine /\ drain[d].done \subseteq drain'[d].done
  PROVE  Booked'
<1>1. \A x \in ledger : InLedger(x)'  BY DEF Booked, InLedger, Signed, Sourced
<1>2. \A d \in Drains : \A x \in drain[d].mine : InDrain(x, d)'
  BY DEF Booked, InDrain, Signed, Sourced
<1>3. \A d \in Drains : Visible(d)' = Visible(d)  BY DEF Visible
<1>4. \A d \in Drains : OneEach(Visible(d))'
  <2> SUFFICES ASSUME NEW d \in Drains PROVE OneEach(Visible(d)')  OBVIOUS
  <2>1. OneEach(Visible(d))  BY DEF Booked
  <2> QED  BY <1>3, <2>1, Zenon
<1> QED  BY <1>1, <1>2, <1>4 DEF Booked

LEMMA BookedApply ==
  ASSUME BooksOK, Booked, NEW o \in Checkouts, Apply(o)
  PROVE  Booked'
<1> DEFINE s == [order |-> o, name |-> "order", nth |-> 1]
           R == Recorded(ledger, o, "redeem", -plan[o].points, s)
<1>1. plan[o].points \in Nat /\ -plan[o].points \in Int  BY DEF BooksOK, LoyaltyTypeOK
<1>2. s \in Sources /\ "redeem" \in EntryKinds  BY SourcesAre DEF EntryKinds
<1>3. /\ \A x \in R : /\ x.kind = "redeem" /\ x.source = s /\ x.points = -plan[o].points
                      /\ ~ \E y \in ledger : y.kind = "redeem" /\ y.source = s
      /\ \A x, y \in R : x = y
  BY <1>1, <1>2, RecordedIs
<1>4. s \notin Events /\ s.name = "order" /\ s.nth = 1  BY DEF Events, Names
<1> HIDE DEF s
<1>5. \A x \in R : InLedger(x)'  BY <1>1, <1>3, <1>4 DEF InLedger, Signed, Sourced, Ups
<1>6. UNCHANGED <<outbox, drain>> /\ (ledger' = ledger \/ ledger' = ledger \union R)
  BY <1>2 DEF Apply, Redeem, s
<1> HIDE DEF R
<1>7. CASE ledger' = ledger  BY <1>6, <1>7, BookedKept DEF BooksOK
<1>8. CASE ledger' = ledger \union R
  <2>1. \A x \in ledger' : InLedger(x)'
    BY <1>5, <1>6, <1>8 DEF Booked, InLedger, Signed, Sourced
  <2>2. \A d \in Drains : \A x \in drain'[d].mine : InDrain(x, d)'
    BY <1>6 DEF Booked, InDrain, Signed, Sourced
  <2>3. ASSUME NEW d \in Drains PROVE OneEach(Visible(d))'
    <3>1. Visible(d)' = Visible(d) \union R  BY <1>6, <1>8 DEF Visible
    <3>2. \A x \in drain[d].mine : x.source \in Events
      BY DEF Booked, InDrain, BooksOK, LoyaltyTypeOK
    <3>3. \A x \in R : ~ \E y \in Visible(d) : y.kind = x.kind /\ y.source = x.source
      BY <1>3, <1>4, <3>2 DEF Visible
    <3>4. OneEach(Visible(d))  BY DEF Booked
    <3>5. OneEach(Visible(d) \union R)  BY <1>3, <3>3, <3>4 DEF OneEach
    <3> QED  BY <3>1, <3>5, Zenon
  <2> QED  BY <2>1, <2>2, <2>3 DEF Booked
<1> QED  BY <1>6, <1>7, <1>8

LEMMA BookedPaid ==
  ASSUME BooksOK, Booked, NEW d \in Drains, DrainPaid(d)
  PROVE  Booked'
<1> DEFINE R(e) == Recorded(ledger, e.order, "earn", Earns[e.order], e)
           All == {R(e) : e \in Waiting("paid")}
<1>1. ASSUME NEW e \in Waiting("paid")
      PROVE  /\ e \in Events /\ e.name = "paid"
             /\ \A x \in R(e) : /\ x.kind = "earn" /\ x.source = e /\ x.points >= 0
                                /\ ~ \E y \in ledger : y.kind = "earn" /\ y.source = e
             /\ \A x, y \in R(e) : x = y
  <2>1. e \in Events /\ e.name = "paid"  BY DEF Waiting
  <2>2. e \in Sources /\ e.order \in Checkouts  BY <2>1 DEF Sources, Events
  <2>3. Earns[e.order] \in Nat /\ Earns[e.order] \in Int /\ "earn" \in EntryKinds
    BY <2>2, LoyaltyAssumption DEF EntryKinds
  <2>4. /\ \A x \in R(e) : /\ x.kind = "earn" /\ x.source = e /\ x.points = Earns[e.order]
                           /\ ~ \E y \in ledger : y.kind = "earn" /\ y.source = e
        /\ \A x, y \in R(e) : x = y
    BY <2>2, <2>3, RecordedIs
  <2> QED  BY <2>1, <2>3, <2>4
<1>2. \A x \in UNION All : \E e \in Waiting("paid") : x \in R(e)  OBVIOUS
<1>3. drain' = [drain EXCEPT ![d] = [Idle EXCEPT !.at = "paid", !.done = Waiting("paid"),
                                                 !.mine = UNION All]]
  BY DEF DrainPaid
<1> HIDE DEF R, All
<1>4. /\ drain'[d].mine = UNION All /\ drain'[d].done = Waiting("paid")
      /\ \A c \in Drains \ {d} : drain'[c] = drain[c]
  BY <1>3 DEF Idle, BooksOK, LoyaltyTypeOK
<1>5. UNCHANGED <<ledger, outbox>>  BY DEF DrainPaid, bookVars
<1>6. \A x \in ledger : InLedger(x)'  BY <1>5 DEF Booked, InLedger, Signed, Sourced
<1>7. ASSUME NEW x \in UNION All PROVE InDrain(x, d)'
  <2>1. PICK e \in Waiting("paid") : x \in R(e)  BY <1>2
  <2> QED  BY <1>1, <1>4, <2>1 DEF InDrain, Signed, Sourced, Ups
<1>8. \A c \in Drains : \A x \in drain'[c].mine : InDrain(x, c)'
  BY <1>4, <1>7 DEF Booked, InDrain, Signed, Sourced
<1>9. \A c \in Drains : OneEach(Visible(c))
  BY DEF Booked
<1>10. OneEach(Visible(d)')
  <2>1. Visible(d)' = ledger \union UNION All  BY <1>4, <1>5 DEF Visible
  <2>2. \A x, y \in ledger : x.kind = y.kind /\ x.source = y.source /\ x.source.order # NoOrder
                               => x = y
    BY <1>9 DEF OneEach, Visible
  <2>3. \A x \in UNION All : ~ \E y \in ledger : y.kind = x.kind /\ y.source = x.source
    BY <1>1, <1>2
  <2>4. \A x, y \in UNION All : x.source = y.source => x = y  BY <1>1, <1>2
  <2>5. OneEach(ledger \union UNION All)  BY <2>2, <2>3, <2>4 DEF OneEach
  <2> QED  BY <2>1, <2>5, Zenon
<1>11. ASSUME NEW c \in Drains \ {d} PROVE OneEach(Visible(c)')
  <2>1. Visible(c)' = Visible(c)  BY <1>4, <1>5 DEF Visible
  <2> QED  BY <1>9, <2>1, Zenon
<1>12. \A c \in Drains : OneEach(Visible(c))'  BY <1>10, <1>11
<1> QED  BY <1>5, <1>6, <1>8, <1>12 DEF Booked

LEMMA BookedUndo ==
  ASSUME BooksOK, Locks, Booked, NEW d \in Drains, NEW e \in Events, Undo(d, e)
  PROVE  Booked'
<1>1. PICK reversed \in TakenBack(Visible(d), e.order, "earn", "reverse", e),
           restored \in TakenBack(Visible(d), e.order, "redeem", "restore", e) :
             /\ UndoneBy(d, e, reversed, restored)
             /\ TakesBack(d, e, "earn", "reverse", reversed)
             /\ TakesBack(d, e, "redeem", "restore", restored)
  BY UndoIs DEF BooksOK
<1>2. UNCHANGED <<ledger, outbox>>  BY DEF Undo, bookVars
<1>3. e \in drain[d].rows /\ e.name = "cancelled"  BY <1>1 DEF UndoneBy, Locks
<1>4. /\ drain'[d].mine = drain[d].mine \union reversed \union restored
      /\ drain'[d].done = drain[d].done \union {e}
      /\ \A c \in Drains \ {d} : drain'[c] = drain[c]
  BY <1>1 DEF UndoneBy, BooksOK, LoyaltyTypeOK
<1>5. \A y \in Visible(d) : Signed(y) /\ y.points \in Int
  BY DEF Booked, InLedger, InDrain, Visible, BooksOK, LoyaltyTypeOK, Entry
<1>6. ASSUME NEW x \in reversed PROVE InDrain(x, d)'
  <2>1. PICK y \in About(Visible(d), e.order, {"earn"}) : x.points = -y.points
    BY <1>1 DEF TakesBack
  <2>2. y \in Visible(d) /\ y.kind = "earn"  BY DEF About
  <2>3. y.points \in Int /\ y.points >= 0  BY <1>5, <2>2 DEF Signed, Ups
  <2>4. x.kind = "reverse" /\ x.source = e  BY <1>1 DEF TakesBack
  <2> QED  BY <1>3, <1>4, <2>1, <2>3, <2>4 DEF InDrain, Signed, Sourced, Ups
<1>7. ASSUME NEW x \in restored PROVE InDrain(x, d)'
  <2>1. PICK y \in About(Visible(d), e.order, {"redeem"}) : x.points = -y.points
    BY <1>1 DEF TakesBack
  <2>2. y \in Visible(d) /\ y.kind = "redeem"  BY DEF About
  <2>3. y.points \in Int /\ y.points <= 0  BY <1>5, <2>2 DEF Signed, Ups
  <2>4. x.kind = "restore" /\ x.source = e  BY <1>1 DEF TakesBack
  <2> QED  BY <1>3, <1>4, <2>1, <2>3, <2>4 DEF InDrain, Signed, Sourced, Ups
<1>8. \A x \in ledger : InLedger(x)'  BY <1>2 DEF Booked, InLedger, Signed, Sourced
<1>9. \A c \in Drains : \A x \in drain'[c].mine : InDrain(x, c)'
  <2>1. \A x \in drain[d].mine : InDrain(x, d)'  BY <1>4 DEF Booked, InDrain, Signed, Sourced
  <2>2. \A c \in Drains \ {d} : \A x \in drain'[c].mine : InDrain(x, c)'
    BY <1>4 DEF Booked, InDrain, Signed, Sourced
  <2> QED  BY <1>4, <1>6, <1>7, <2>1, <2>2
<1>10. OneEach(Visible(d)')
  <2>1. Visible(d)' = (Visible(d) \union reversed) \union restored
    BY <1>2, <1>4 DEF Visible
  <2>2. OneEach(Visible(d))  BY DEF Booked
  <2>3. /\ \A x \in reversed : x.kind = "reverse" /\ x.source = e
        /\ \A x, y \in reversed : x = y
        /\ \A x \in reversed : ~ \E y \in Visible(d) : y.kind = "reverse" /\ y.source = e
    BY <1>1 DEF TakesBack
  <2>4. /\ \A x \in restored : x.kind = "restore" /\ x.source = e
        /\ \A x, y \in restored : x = y
        /\ \A x \in restored : ~ \E y \in Visible(d) : y.kind = "restore" /\ y.source = e
    BY <1>1 DEF TakesBack
  <2>5. OneEach((Visible(d) \union reversed) \union restored)
    BY <2>2, <2>3, <2>4 DEF OneEach
  <2> QED  BY <2>1, <2>5, Zenon
<1>11. ASSUME NEW c \in Drains \ {d} PROVE OneEach(Visible(c)')
  <2>1. Visible(c)' = Visible(c)  BY <1>2, <1>4 DEF Visible
  <2>2. OneEach(Visible(c))  BY DEF Booked
  <2> QED  BY <2>1, <2>2, Zenon
<1>12. \A c \in Drains : OneEach(Visible(c))'  BY <1>10, <1>11
<1> QED  BY <1>2, <1>8, <1>9, <1>12 DEF Booked

LEMMA BookedCommit ==
  ASSUME BooksOK, Locks, Booked, NEW d \in Drains, Commit(d)
  PROVE  Booked'
<1>1. /\ ledger' = ledger \union drain[d].mine
      /\ \A e \in Events : outbox'[e] = IF e \in drain[d].done THEN "handled" ELSE outbox[e]
      /\ drain'[d].mine = {} /\ \A c \in Drains \ {d} : drain'[c] = drain[c]
  BY DEF Commit, Idle, BooksOK, LoyaltyTypeOK
<1>2. \A x \in ledger' : InLedger(x)'
  BY <1>1 DEF Booked, InLedger, InDrain, Signed, Sourced
<1>3. \A c \in Drains : \A x \in drain'[c].mine : InDrain(x, c)'
  BY <1>1 DEF Booked, InDrain, Signed, Sourced
<1>4. OneEach(Visible(d)')
  <2>1. Visible(d)' = Visible(d)  BY <1>1 DEF Visible
  <2>2. OneEach(Visible(d))  BY DEF Booked
  <2> QED  BY <2>1, <2>2, Zenon
<1>5. ASSUME NEW c \in Drains \ {d} PROVE OneEach(Visible(c)')
  <2>1. Visible(c)' = (ledger \union drain[d].mine) \union drain[c].mine  BY <1>1 DEF Visible
  <2>2. /\ \A x \in drain[d].mine : x.source \in drain[d].done
        /\ \A x \in drain[c].mine : x.source \in drain[c].done
    BY DEF Booked, InDrain
  <2>3. drain[d].done \cap drain[c].done = {}  BY DEF Locks, Held
  <2>4. OneEach(ledger \union drain[d].mine) /\ OneEach(ledger \union drain[c].mine)
    BY DEF Booked, Visible
  <2>5. OneEach((ledger \union drain[d].mine) \union drain[c].mine)
    BY <2>2, <2>3, <2>4 DEF OneEach
  <2> QED  BY <2>1, <2>5, Zenon
<1>6. \A c \in Drains : OneEach(Visible(c))'  BY <1>4, <1>5
<1> QED  BY <1>2, <1>3, <1>6 DEF Booked

LEMMA BookedRollBack ==
  ASSUME BooksOK, Booked, NEW d \in Drains, RollBack(d)
  PROVE  Booked'
<1>1. /\ UNCHANGED <<ledger, outbox>>
      /\ drain'[d].mine = {} /\ \A c \in Drains \ {d} : drain'[c] = drain[c]
  BY DEF RollBack, bookVars, Idle, BooksOK, LoyaltyTypeOK
<1>2. \A x \in ledger' : InLedger(x)'  BY <1>1 DEF Booked, InLedger, Signed, Sourced
<1>3. \A c \in Drains : \A x \in drain'[c].mine : InDrain(x, c)'
  BY <1>1 DEF Booked, InDrain, Signed, Sourced
<1>4. \A c \in Drains : Visible(c)' \subseteq Visible(c)  BY <1>1 DEF Visible
<1>5. \A c \in Drains : OneEach(Visible(c))'
  <2> SUFFICES ASSUME NEW c \in Drains PROVE OneEach(Visible(c)')  OBVIOUS
  <2>1. OneEach(Visible(c)) /\ Visible(c)' \subseteq Visible(c)  BY <1>4 DEF Booked
  <2> QED  BY <2>1 DEF OneEach
<1> QED  BY <1>2, <1>3, <1>5 DEF Booked

LEMMA BookedExpiry ==
  ASSUME BooksOK, Booked, CommitExpiry
  PROVE  Booked'
<1> DEFINE New == {Expired(u) : u \in {v \in Users : expiry.due[v] > 0}}
<1>1. UNCHANGED <<outbox, drain>> /\ ledger' = ledger \union New  BY DEF CommitExpiry
<1>2. ASSUME NEW x \in New
      PROVE  x.kind = "expire" /\ x.points <= 0 /\ x.source.order = NoOrder /\ x.source \notin Events
  <2>1. PICK u \in Users : x = Expired(u)  OBVIOUS
  <2>2. expiry.due[u] \in Nat  BY DEF BooksOK, LoyaltyTypeOK
  <2>3. x.kind = "expire" /\ x.points <= 0 /\ x.source.order = NoOrder  BY <2>1, <2>2 DEF Expired
  <2> QED  BY <2>3, LoyaltyAssumption DEF Events
<1> HIDE DEF New
<1>3. \A x \in ledger' : InLedger(x)'
  BY <1>1, <1>2 DEF Booked, InLedger, Signed, Sourced, Ups
<1>4. \A c \in Drains : \A x \in drain'[c].mine : InDrain(x, c)'
  BY <1>1 DEF Booked, InDrain, Signed, Sourced
<1>5. ASSUME NEW c \in Drains PROVE OneEach(Visible(c)')
  <2>1. Visible(c)' = Visible(c) \union New  BY <1>1 DEF Visible
  <2>2. OneEach(Visible(c))  BY DEF Booked
  <2>3. OneEach(Visible(c) \union New)  BY <1>2, <2>2 DEF OneEach
  <2> QED  BY <2>1, <2>3, Zenon
<1>6. \A c \in Drains : OneEach(Visible(c))'  BY <1>5
<1> QED  BY <1>3, <1>4, <1>6 DEF Booked

LEMMA BookedStep ==
  ASSUME BooksOK, InTurn, Locks, Booked, [LoyaltyNext]_loyaltyVars
  PROVE  Booked'
<1>0. LoyaltyTypeOK  BY DEF BooksOK
<1>1. ASSUME NEW o \in Checkouts, Validate(o) \/ Quote(o) \/ PlaceOrder(o) \/ Die(o) \/ Replay(o)
      PROVE  Booked'
  <2>1. UNCHANGED <<ledger, drain, outbox>>
    BY <1>1 DEF Validate, Quote, PlaceOrder, Die, Replay, bookVars
  <2> QED  BY <1>0, <2>1, BookedKept
<1>2. ASSUME NEW o \in Checkouts, NEW name \in Names, Announce(o, name) PROVE Booked'
  <2>1. PICK e \in Events : outbox[e] = "none" /\ outbox' = [outbox EXCEPT ![e] = "queued"]
    BY <1>0, <1>2, AnnouncedIsNew
  <2>2. UNCHANGED <<ledger, drain>>  BY <1>2 DEF Announce, bookVars
  <2>3. \A x \in Events : outbox[x] = "handled" => outbox'[x] = "handled"
    BY <1>0, <2>1 DEF LoyaltyTypeOK
  <2> QED  BY <1>0, <2>2, <2>3, BookedKept
<1>3. ASSUME NEW e \in Events, TakenElsewhere(e) PROVE Booked'
  <2>1. UNCHANGED <<ledger, drain>>  BY <1>3 DEF TakenElsewhere, bookVars
  <2>2. \A x \in Events : outbox[x] = "handled" => outbox'[x] = "handled"
    BY <1>0, <1>3 DEF TakenElsewhere, LoyaltyTypeOK
  <2> QED  BY <1>0, <2>1, <2>2, BookedKept
<1>4. ASSUME NEW d \in Drains, DrainCancelled(d) PROVE Booked'
  <2>1. UNCHANGED <<ledger, outbox>>  BY <1>4 DEF DrainCancelled, bookVars
  <2>2. \A c \in Drains : drain'[c].mine = drain[c].mine /\ drain'[c].done = drain[c].done
    BY <1>0, <1>4 DEF DrainCancelled, LoyaltyTypeOK
  <2> QED  BY <1>0, <2>1, <2>2, BookedKept
<1>5. ASSUME BeginExpiry PROVE Booked'
  <2>1. UNCHANGED <<ledger, drain, outbox>>  BY <1>5 DEF BeginExpiry, bookVars
  <2> QED  BY <1>0, <2>1, BookedKept
<1>6. ASSUME UNCHANGED loyaltyVars PROVE Booked'
  <2>1. UNCHANGED <<ledger, drain, outbox>>  BY <1>6 DEF loyaltyVars, bookVars
  <2> QED  BY <1>0, <2>1, BookedKept
<1> QED
  BY <1>1, <1>2, <1>3, <1>4, <1>5, <1>6, BookedApply, BookedPaid, BookedUndo, BookedCommit,
     BookedRollBack, BookedExpiry DEF LoyaltyNext

-----------------------------------------------------------------------------
(* The coupon.                                                                  *)

Applied == {o \in Checkouts : redemption[o] = "applied"}
Before  == {"idle", "validated", "quoted", "refused", "placed"}

\* A call redeems once, at its end; only one drain at a time releases; and
\* whoever is promised the coupon finds it below its cap, or has been crossed.
Counted ==
  /\ \A o \in Checkouts : checkout[o] \in Before => redemption[o] = "none"
  /\ \A d \in Drains : drain[d].freed \subseteq Applied
  /\ \A d, c \in Drains : d # c => drain[d].freed = {} \/ drain[c].freed = {}
  /\ used = Cardinality(Applied)
  /\ "coupon" \notin crossed => /\ used <= UsageCap
                                /\ \A o \in Couponed : used < UsageCap

LEMMA CountedKept ==
  ASSUME LoyaltyTypeOK, Counted, UNCHANGED <<used, redemption>>, crossed \subseteq crossed',
         \A d \in Drains : drain'[d].freed \in {drain[d].freed, {}},
         \A o \in Checkouts : checkout'[o] \in Before => checkout[o] \in Before,
         Couponed' \subseteq Couponed
  PROVE  Counted'
<1>1. Applied' = Applied  BY DEF Applied
<1>2. used' = Cardinality(Applied')  BY <1>1, Zenon DEF Counted
<1>3. \A d \in Drains : drain'[d].freed \subseteq Applied'  BY <1>1 DEF Counted
<1>4. \A d, c \in Drains : d # c => drain'[d].freed = {} \/ drain'[c].freed = {}  BY DEF Counted
<1>5. \A o \in Checkouts : checkout'[o] \in Before => redemption'[o] = "none"  BY DEF Counted
<1>6. "coupon" \notin crossed' => /\ used' <= UsageCap
                                  /\ \A o \in Couponed' : used' < UsageCap
  BY DEF Counted
<1> QED  BY <1>2, <1>3, <1>4, <1>5, <1>6 DEF Counted

LEMMA CountedValidate ==
  ASSUME LoyaltyTypeOK, Counted, NEW o \in Checkouts, Validate(o)
  PROVE  Counted'
<1>1. UNCHANGED <<used, redemption, drain, crossed>>  BY DEF Validate, bookVars
<1>2. Applied' = Applied  BY <1>1 DEF Applied
<1>3. used' = Cardinality(Applied')  BY <1>1, <1>2, Zenon DEF Counted
<1>4. \A q \in Checkouts : checkout'[q] \in Before => checkout[q] \in Before
  BY DEF Validate, Before, LoyaltyTypeOK
<1>5. \A q \in Checkouts : q # o => checkout'[q] = checkout[q] /\ plan'[q] = plan[q]
  BY DEF Validate, LoyaltyTypeOK
<1>6. plan'[o].coupon => used < UsageCap  BY DEF Validate, Valid, LoyaltyTypeOK
<1>7. \A q \in Couponed' : q \in Couponed \/ (q = o /\ plan'[o].coupon)  BY <1>5 DEF Couponed
<1>8. "coupon" \notin crossed => /\ used <= UsageCap
                                 /\ \A q \in Couponed' : used < UsageCap
  BY <1>6, <1>7 DEF Counted
<1> QED  BY <1>1, <1>2, <1>3, <1>4, <1>8 DEF Counted

LEMMA CountedApply ==
  ASSUME LoyaltyTypeOK, Counted, NEW o \in Checkouts, Apply(o)
  PROVE  Counted'
<1>1. UNCHANGED <<drain, plan>> /\ crossed \subseteq crossed' /\ checkout[o] = "placed"
      /\ checkout' = [checkout EXCEPT ![o] = "done"]
  BY DEF Apply, Redeem, Crossing
<1>2. \A q \in Checkouts : checkout'[q] \in Before => q # o /\ checkout[q] \in Before
  BY <1>1 DEF Before, LoyaltyTypeOK
<1>3. Couponed' \subseteq Couponed \ {o}  BY <1>1 DEF Couponed, LoyaltyTypeOK
<1>4. CASE ~plan[o].coupon
  <2>1. UNCHANGED <<used, redemption>>  BY <1>4 DEF Apply, Redeem
  <2>2. \A d \in Drains : drain'[d].freed \in {drain[d].freed, {}}  BY <1>1
  <2> QED  BY <1>1, <1>2, <1>3, <2>1, <2>2, CountedKept
<1>5. CASE plan[o].coupon
  <2>1. redemption[o] = "none"  BY <1>1 DEF Counted, Before
  <2>2. used' = used + 1 /\ redemption' = [redemption EXCEPT ![o] = "applied"] /\ ~CouponLocked
    BY <1>5, <2>1 DEF Apply, Redeem
  <2>3. o \notin Applied /\ Applied' = Applied \union {o}
    BY <2>1, <2>2 DEF Applied, LoyaltyTypeOK
  <2>4. Applied \in SUBSET Checkouts  BY DEF Applied
  <2>5. IsFiniteSet(Applied)  BY <2>4, FS_Subset, LoyaltyAssumption
  <2>6. Cardinality(Applied \union {o}) = Cardinality(Applied) + 1  BY <2>3, <2>5, FS_AddElement
  <2>7. Cardinality(Applied') = Cardinality(Applied \union {o})  BY <2>3, Zenon
  <2>8. used' = Cardinality(Applied')  BY <2>2, <2>6, <2>7 DEF Counted
  <2>9. \A d \in Drains : drain'[d].freed = {}  BY <1>1, <2>2 DEF CouponLocked
  <2>10. \A q \in Checkouts : checkout'[q] \in Before => redemption'[q] = "none"
    BY <1>2, <2>2 DEF Counted, LoyaltyTypeOK
  <2>11. o \in Couponed  BY <1>1, <1>5 DEF Couponed
  <2>12. ASSUME "coupon" \notin crossed' PROVE used' <= UsageCap /\ Couponed' = {}
    <3>1. "coupon" \notin crossed  BY <1>1, <2>12
    <3>2. used < UsageCap /\ used \in Nat /\ UsageCap \in Nat
      BY <2>11, <3>1, LoyaltyAssumption DEF Counted, LoyaltyTypeOK
    <3>3. Couponed \ {o} = {}  BY <1>5, <2>12 DEF Apply, Redeem, Crossing
    <3> QED  BY <1>3, <2>2, <3>2, <3>3
  <2> QED  BY <2>8, <2>9, <2>10, <2>12 DEF Counted
<1> QED  BY <1>4, <1>5

LEMMA CountedUndo ==
  ASSUME BooksOK, Counted, NEW d \in Drains, NEW e \in Events, Undo(d, e)
  PROVE  Counted'
<1>1. PICK reversed \in TakenBack(Visible(d), e.order, "earn", "reverse", e),
           restored \in TakenBack(Visible(d), e.order, "redeem", "restore", e) :
             UndoneBy(d, e, reversed, restored)
  BY UndoIs DEF BooksOK
<1>2. UNCHANGED <<used, redemption, checkout, plan, crossed>>  BY DEF Undo, bookVars, callVars
<1>3. /\ drain'[d].freed = Released(d, e)
      /\ drain'[d].freed # drain[d].freed => \A x \in Drains \ {d} : drain[x].freed = {}
      /\ \A c \in Drains \ {d} : drain'[c] = drain[c]
  BY <1>1 DEF UndoneBy, BooksOK, LoyaltyTypeOK
<1>4. Applied' = Applied /\ Couponed' = Couponed  BY <1>2 DEF Applied, Couponed
<1>5. e.order \in Checkouts  BY DEF Events
<1>6. \A c \in Drains : drain'[c].freed \subseteq Applied'
  BY <1>3, <1>4, <1>5 DEF Counted, Released, Applied
<1>7. \A b, c \in Drains : b # c => drain'[b].freed = {} \/ drain'[c].freed = {}
  BY <1>3 DEF Counted
<1>8. used' = Cardinality(Applied')  BY <1>2, <1>4, Zenon DEF Counted
<1> QED  BY <1>2, <1>4, <1>6, <1>7, <1>8 DEF Counted

LEMMA CountedCommit ==
  ASSUME LoyaltyTypeOK, Counted, NEW d \in Drains, Commit(d)
  PROVE  Counted'
<1> DEFINE F == drain[d].freed
<1>1. /\ \A o \in Checkouts : redemption'[o] = IF o \in F THEN "released" ELSE redemption[o]
      /\ used' = Larger(used - Cardinality(F), 0)
      /\ UNCHANGED <<checkout, plan, crossed>>
      /\ drain'[d].freed = {} /\ \A c \in Drains \ {d} : drain'[c] = drain[c]
  BY DEF Commit, callVars, Idle, LoyaltyTypeOK
<1>2. F \in SUBSET Applied /\ Applied \in SUBSET Checkouts  BY DEF Counted, Applied
<1>3. IsFiniteSet(Applied) /\ IsFiniteSet(F)
  <2>1. IsFiniteSet(Applied)  BY <1>2, FS_Subset, LoyaltyAssumption
  <2> QED  BY <1>2, <2>1, FS_Subset
<1>4. Applied' = Applied \ F  BY <1>1 DEF Applied
<1> HIDE DEF F
<1>5. /\ Cardinality(Applied \ F) = Cardinality(Applied) - Cardinality(Applied \cap F)
      /\ Cardinality(F) <= Cardinality(Applied)
      /\ Cardinality(Applied) \in Nat /\ Cardinality(F) \in Nat
  BY <1>2, <1>3, FS_Difference, FS_Subset, FS_CardinalityType
<1>6. Applied \cap F = F  BY <1>2
<1>7. Cardinality(Applied \cap F) = Cardinality(F) /\ Cardinality(Applied') = Cardinality(Applied \ F)
  BY <1>4, <1>6, Zenon
<1>8. used = Cardinality(Applied)  BY DEF Counted
<1>9. used' = Cardinality(Applied') /\ used' <= used /\ used \in Nat /\ used' \in Nat
  BY <1>1, <1>5, <1>7, <1>8 DEF Larger
<1>10. \A c \in Drains \ {d} : drain[c].freed = {} \/ F = {}  BY DEF Counted, F
<1>11. \A c \in Drains : drain'[c].freed \subseteq Applied'
  BY <1>1, <1>4, <1>10 DEF Counted
<1>12. \A b, c \in Drains : b # c => drain'[b].freed = {} \/ drain'[c].freed = {}
  BY <1>1 DEF Counted
<1>13. Couponed' = Couponed  BY <1>1 DEF Couponed
<1>14. \A o \in Checkouts : checkout'[o] \in Before => redemption'[o] = "none"
  BY <1>1, <1>2 DEF Counted, Applied
<1>15. "coupon" \notin crossed' => /\ used' <= UsageCap
                                   /\ \A o \in Couponed' : used' < UsageCap
  BY <1>1, <1>9, <1>13, LoyaltyAssumption DEF Counted
<1> QED  BY <1>9, <1>11, <1>12, <1>14, <1>15 DEF Counted

LEMMA CountedStep ==
  ASSUME BooksOK, Counted, [LoyaltyNext]_loyaltyVars
  PROVE  Counted'
<1>0. LoyaltyTypeOK  BY DEF BooksOK
<1>1. ASSUME NEW o \in Checkouts, Quote(o) \/ PlaceOrder(o) \/ Die(o) \/ Replay(o)
      PROVE  Counted'
  <2>1. UNCHANGED <<used, redemption, drain, crossed>>
    BY <1>1 DEF Quote, PlaceOrder, Die, Replay, bookVars
  <2>2. \A q \in Checkouts : checkout'[q] \in Before => checkout[q] \in Before
    BY <1>0, <1>1 DEF Quote, PlaceOrder, Die, Replay, Before, LoyaltyTypeOK
  <2>3. \A q \in Checkouts : plan'[q].coupon = plan[q].coupon
    BY <1>0, <1>1 DEF Quote, PlaceOrder, Die, Replay, LoyaltyTypeOK
  <2>4. \A q \in Checkouts : checkout'[q] \in {"validated", "quoted", "placed"}
                               => checkout[q] \in {"validated", "quoted", "placed"}
    BY <1>0, <1>1 DEF Quote, PlaceOrder, Die, Replay, LoyaltyTypeOK
  <2>5. Couponed' \subseteq Couponed  BY <2>3, <2>4 DEF Couponed
  <2>6. \A d \in Drains : drain'[d].freed \in {drain[d].freed, {}}  BY <2>1
  <2> QED  BY <1>0, <2>1, <2>2, <2>5, <2>6, CountedKept
<1>2. ASSUME UNCHANGED <<used, redemption, checkout, plan>>, crossed \subseteq crossed',
             \A d \in Drains : drain'[d].freed \in {drain[d].freed, {}}
      PROVE  Counted'
  <2>1. Couponed' \subseteq Couponed  BY <1>2 DEF Couponed
  <2>2. \A q \in Checkouts : checkout'[q] \in Before => checkout[q] \in Before  BY <1>2
  <2> QED  BY <1>0, <1>2, <2>1, <2>2, CountedKept
<1>3. ASSUME NEW o \in Checkouts, NEW name \in Names, Announce(o, name) PROVE Counted'
  BY <1>2, <1>3 DEF Announce, bookVars, callVars
<1>4. ASSUME NEW e \in Events, TakenElsewhere(e) PROVE Counted'
  BY <1>2, <1>4 DEF TakenElsewhere, bookVars, callVars
<1>5. ASSUME NEW d \in Drains, DrainPaid(d) \/ DrainCancelled(d) \/ RollBack(d) PROVE Counted'
  <2>1. UNCHANGED <<used, redemption, checkout, plan, crossed>>
    BY <1>5 DEF DrainPaid, DrainCancelled, RollBack, bookVars, callVars
  <2>2. \A c \in Drains : drain'[c].freed \in {drain[c].freed, {}}
    <3>1. CASE DrainPaid(d)  BY <1>0, <3>1 DEF DrainPaid, Idle, LoyaltyTypeOK
    <3>2. CASE DrainCancelled(d)  BY <1>0, <3>2 DEF DrainCancelled, LoyaltyTypeOK
    <3>3. CASE RollBack(d)  BY <1>0, <3>3 DEF RollBack, Idle, LoyaltyTypeOK
    <3> QED  BY <1>5, <3>1, <3>2, <3>3
  <2> QED  BY <1>2, <2>1, <2>2
<1>6. ASSUME BeginExpiry \/ CommitExpiry PROVE Counted'
  BY <1>2, <1>6 DEF BeginExpiry, CommitExpiry, bookVars, callVars
<1>7. ASSUME UNCHANGED loyaltyVars PROVE Counted'
  BY <1>2, <1>7 DEF loyaltyVars, bookVars, callVars
<1> QED
  BY <1>0, <1>1, <1>3, <1>4, <1>5, <1>6, <1>7, CountedValidate, CountedApply, CountedUndo,
     CountedCommit DEF LoyaltyNext

-----------------------------------------------------------------------------
(* The points that can be spent.                                                *)

Came(u) == Points(Of(u, Flows))

\* Whoever has not been crossed has what the sweep is about to take, and what
\* each of the customer's calls has been promised.
Covered ==
  \A u \in Users : u \notin crossed => /\ Came(u) >= expiry.due[u]
                                       /\ \A o \in Promised(u) : Came(u) >= plan[o].points

LEMMA CameIsInt == ASSUME BooksOK, NEW u PROVE Came(u) \in Int
  BY EntriesOf DEF Came

\* Reversals only take away: the balance is never above what came in and stayed.
LEMMA BalanceIsBelow ==
  ASSUME BooksOK, Booked, NEW u
  PROVE  PointsBalance(u) <= Came(u)
<1>1. Of(u, EntryKinds) \in SUBSET Entry /\ IsFiniteSet(Of(u, EntryKinds))  BY EntriesOf
<1>2. Of(u, Flows) \in SUBSET Of(u, EntryKinds)  BY DEF Of, Flows, EntryKinds
<1>3. \A x \in Of(u, EntryKinds) \ Of(u, Flows) : x.points <= 0
  BY DEF Of, Flows, EntryKinds, Booked, InLedger, Signed, Ups
<1>4. Points(Of(u, EntryKinds)) <= Points(Of(u, Flows))  BY <1>1, <1>2, <1>3, PointsShrink
<1> QED  BY <1>4 DEF PointsBalance, Came

LEMMA CoveredKept ==
  ASSUME BooksOK, Covered, UNCHANGED <<ledger, expiry>>, crossed \subseteq crossed',
         \A u \in Users : \A o \in Promised(u)' : o \in Promised(u) /\ plan'[o].points = plan[o].points
  PROVE  Covered'
<1>1. \A u : Came(u)' = Came(u)  BY DEF Came, Of
<1> QED  BY <1>1 DEF Covered

LEMMA CoveredQuote ==
  ASSUME BooksOK, Booked, Covered, NEW o \in Checkouts, Quote(o)
  PROVE  Covered'
<1>1. /\ UNCHANGED <<ledger, expiry, crossed>>
      /\ plan'[o].points = Allowed(o)
      /\ \A q \in Checkouts : q # o => plan'[q] = plan[q] /\ checkout'[q] = checkout[q]
  BY DEF Quote, bookVars, BooksOK, LoyaltyTypeOK
<1>2. ASSUME NEW u \in Users, u \notin crossed'
      PROVE  /\ Came(u)' >= expiry'.due[u]
             /\ \A q \in Promised(u)' : Came(u)' >= plan'[q].points
  <2>1. Came(u)' = Came(u)  BY <1>1 DEF Came, Of
  <2>2. Came(u) >= expiry.due[u] /\ expiry.due[u] \in Nat /\ Came(u) \in Int
    BY <1>1, <1>2, CameIsInt DEF Covered, BooksOK, LoyaltyTypeOK
  <2>3. ASSUME NEW q \in Promised(u)' PROVE Came(u) >= plan'[q].points
    <3>1. CASE q = o
      <4>1. OwnerOf[o] = u  BY <3>1 DEF Promised
      <4>2. PointsBalance(u) <= Came(u) /\ PointsBalance(u) \in Int
        BY BalanceIsBelow, AmountsAre
      <4>3. Wanted[o] \in Nat /\ Ceiling[o] \in Nat  BY LoyaltyAssumption
      <4>4. Allowed(o) <= Larger(PointsBalance(u), 0)
        BY <4>1, <4>2, <4>3 DEF Allowed, Larger, Smaller
      <4>5. Allowed(o) \in Nat  BY AmountsAre
      <4> QED  BY <1>1, <2>2, <3>1, <4>2, <4>4, <4>5 DEF Larger
    <3>2. CASE q # o
      <4>1. q \in Promised(u) /\ plan'[q] = plan[q]  BY <1>1, <3>2 DEF Promised
      <4> QED  BY <1>1, <1>2, <4>1 DEF Covered
    <3> QED  BY <3>1, <3>2
  <2> QED  BY <1>1, <2>1, <2>2, <2>3
<1> QED  BY <1>2 DEF Covered

LEMMA CoveredApply ==
  ASSUME BooksOK, Covered, NEW o \in Checkouts, Apply(o)
  PROVE  Covered'
<1> DEFINE s == [order |-> o, name |-> "order", nth |-> 1]
           R == Recorded(ledger, o, "redeem", -plan[o].points, s)
<1>1. /\ UNCHANGED <<plan, expiry>> /\ crossed \subseteq crossed' /\ checkout[o] = "placed"
      /\ checkout' = [checkout EXCEPT ![o] = "done"]
  BY DEF Apply, Redeem, Crossing
<1>2. \A u : Promised(u)' \subseteq Promised(u) \ {o}
  BY <1>1 DEF Promised, BooksOK, LoyaltyTypeOK
<1>3. CASE ~(plan[o].points > 0)
  <2>1. ledger' = ledger  BY <1>3 DEF Apply, Redeem
  <2> QED  BY <1>1, <1>2, <2>1, CoveredKept
<1>4. CASE plan[o].points > 0
  <2>1. ledger' = ledger \union R  BY <1>4 DEF Apply, Redeem
  <2>2. plan[o].points \in Nat /\ -plan[o].points \in Int  BY DEF BooksOK, LoyaltyTypeOK
  <2>3. s \in Sources /\ "redeem" \in EntryKinds  BY SourcesAre DEF EntryKinds
  <2> DEFINE r == [user |-> OwnerOf[o], kind |-> "redeem", points |-> -plan[o].points, source |-> s]
  <2>4. R \in SUBSET {r}  BY DEF Recorded
  <2>5. r \in Entry /\ r.points = -plan[o].points /\ r.user = OwnerOf[o]
    BY <2>2, <2>3, LoyaltyAssumption DEF Entry
  <2> HIDE DEF r, R
  <2>6. ASSUME NEW u \in Users, u \notin crossed'
        PROVE  /\ Came(u)' >= expiry.due[u]
               /\ \A q \in Promised(u)' : Came(u)' >= plan[q].points
    <3>1. /\ Came(u) >= expiry.due[u] /\ Came(u) \in Int /\ expiry.due[u] \in Nat
          /\ \A q \in Promised(u) : Came(u) >= plan[q].points
      BY <1>1, <2>6, CameIsInt DEF Covered, BooksOK, LoyaltyTypeOK
    <3>2. CASE Of(u, Flows)' = Of(u, Flows)
      <4>1. Came(u)' = Came(u)  BY <3>2, Zenon DEF Came
      <4> QED  BY <1>2, <3>1, <4>1
    <3>3. CASE Of(u, Flows)' # Of(u, Flows)
      <4>1. Of(u, Flows)' = Of(u, Flows) \union {r} /\ u = OwnerOf[o]
        BY <2>1, <2>4, <2>5, <3>3 DEF Of
      <4>2. Of(u, Flows) \in SUBSET Entry /\ IsFiniteSet(Of(u, Flows))  BY EntriesOf
      <4>3. Points(Of(u, Flows) \union {r}) >= Points(Of(u, Flows)) + r.points
        BY <2>2, <2>5, <4>2, PointsLess
      <4>4. Points(Of(u, Flows)') = Points(Of(u, Flows) \union {r})  BY <4>1, Zenon
      <4>5. Came(u)' >= Came(u) - plan[o].points
        BY <2>2, <2>5, <3>1, <4>3, <4>4 DEF Came
      <4>6. o \in Promised(u)  BY <1>1, <1>4, <4>1 DEF Promised
      <4>7. Came(u)' \in Int
        <5>1. IsFiniteSet(Of(u, Flows) \union {r}) /\ Of(u, Flows) \union {r} \in SUBSET Entry
          BY <2>5, <4>2, FS_AddElement
        <5>2. Points(Of(u, Flows) \union {r}) \in Int  BY <5>1, PointsAre
        <5> QED  BY <4>4, <5>2 DEF Came
      <4>8. ~(Promised(u) \ {o} # {} \/ expiry.due[u] > 0)
        BY <1>4, <2>6, <4>1 DEF Apply, Redeem, Crossing
      <4> QED  BY <1>2, <2>2, <3>1, <4>5, <4>6, <4>7, <4>8
    <3> QED  BY <3>2, <3>3
  <2> QED  BY <1>1, <2>6 DEF Covered
<1> QED  BY <1>3, <1>4

LEMMA CoveredCommit ==
  ASSUME BooksOK, Booked, Covered, NEW d \in Drains, Commit(d)
  PROVE  Covered'
<1>1. /\ UNCHANGED <<checkout, plan, expiry, crossed>>
      /\ ledger' = ledger \union drain[d].mine
  BY DEF Commit, callVars
<1>2. IsFiniteSet(ledger') /\ ledger' \in SUBSET Entry
  <2>1. IsFiniteSet(ledger \union drain[d].mine)  BY FS_Union DEF BooksOK
  <2> QED  BY <1>1, <2>1 DEF BooksOK, LoyaltyTypeOK
<1>3. ASSUME NEW u PROVE Came(u)' >= Came(u) /\ Came(u)' \in Int
  <2>1. Of(u, Flows)' \in SUBSET ledger'  BY DEF Of
  <2>2. IsFiniteSet(Of(u, Flows)') /\ Of(u, Flows)' \in SUBSET Entry  BY <1>2, <2>1, FS_Subset
  <2>3. Of(u, Flows) \in SUBSET Of(u, Flows)'  BY <1>1 DEF Of
  <2>4. ASSUME NEW x \in Of(u, Flows)' \ Of(u, Flows) PROVE x.points >= 0
    <3>1. x \in drain[d].mine /\ x.kind \in Flows  BY <1>1 DEF Of
    <3>2. /\ Signed(x) /\ x.source \in Events /\ Sourced(x)
          /\ x.source.order # NoOrder /\ x.source.name # "order"
      BY <3>1, LoyaltyAssumption DEF Booked, InDrain, BooksOK, LoyaltyTypeOK, Events, Names
    <3> QED  BY <3>1, <3>2 DEF Signed, Sourced, Flows, Ups
  <2>5. Points(Of(u, Flows)') >= Points(Of(u, Flows))  BY <2>2, <2>3, <2>4, PointsGrow
  <2>6. Points(Of(u, Flows)') \in Int  BY <2>2, PointsAre
  <2> QED  BY <2>5, <2>6 DEF Came
<1>4. \A u : Promised(u)' = Promised(u)  BY <1>1 DEF Promised
<1>5. ASSUME NEW u \in Users, u \notin crossed'
      PROVE  /\ Came(u)' >= expiry.due[u]
             /\ \A q \in Promised(u) : Came(u)' >= plan[q].points
  <2>1. /\ Came(u) >= expiry.due[u] /\ Came(u) \in Int /\ expiry.due[u] \in Nat
        /\ \A q \in Promised(u) : Came(u) >= plan[q].points /\ plan[q].points \in Nat
    BY <1>1, <1>5, CameIsInt DEF Covered, BooksOK, LoyaltyTypeOK, Promised
  <2>2. Came(u)' >= Came(u) /\ Came(u)' \in Int  BY <1>3
  <2> QED  BY <2>1, <2>2
<1> QED  BY <1>1, <1>4, <1>5 DEF Covered

LEMMA CoveredBegin ==
  ASSUME BooksOK, Booked, Covered, BeginExpiry
  PROVE  Covered'
<1>1. /\ UNCHANGED <<ledger, checkout, plan, crossed>>
      /\ \A u \in Users : expiry'.due[u] = Larger(Smaller(PointsBalance(u), Expirable(u)), 0)
  BY DEF BeginExpiry, bookVars, callVars
<1>2. ASSUME NEW u \in Users, u \notin crossed PROVE Came(u) >= expiry'.due[u]
  <2>1. Came(u) >= expiry.due[u] /\ expiry.due[u] \in Nat /\ Came(u) \in Int
    BY <1>2, CameIsInt DEF Covered, BooksOK, LoyaltyTypeOK
  <2>2. PointsBalance(u) <= Came(u) /\ PointsBalance(u) \in Int /\ Expirable(u) \in Nat
    BY BalanceIsBelow, AmountsAre
  <2> QED  BY <1>1, <2>1, <2>2 DEF Larger, Smaller
<1>3. \A u : Came(u)' = Came(u) /\ Promised(u)' = Promised(u)  BY <1>1 DEF Came, Of, Promised
<1> QED  BY <1>1, <1>2, <1>3 DEF Covered

LEMMA CoveredExpiry ==
  ASSUME BooksOK, Covered, CommitExpiry
  PROVE  Covered'
<1>1. /\ UNCHANGED <<checkout, plan>>
      /\ ledger' = ledger \union {Expired(u) : u \in {v \in Users : expiry.due[v] > 0}}
      /\ crossed' = crossed \union {u \in Users : expiry.due[u] > 0 /\ Promised(u) # {}}
      /\ \A u \in Users : expiry'.due[u] = 0
  BY DEF CommitExpiry, callVars, NoneDue
<1>2. \A u : Promised(u)' = Promised(u)  BY <1>1 DEF Promised
<1>3. ASSUME NEW u \in Users, u \notin crossed'
      PROVE  /\ Came(u)' >= expiry'.due[u]
             /\ \A q \in Promised(u)' : Came(u)' >= plan'[q].points
  <2>1. /\ Came(u) >= expiry.due[u] /\ Came(u) \in Int /\ expiry.due[u] \in Nat
        /\ \A q \in Promised(u) : Came(u) >= plan[q].points
    BY <1>1, <1>3, CameIsInt DEF Covered, BooksOK, LoyaltyTypeOK
  <2>2. CASE expiry.due[u] = 0
    <3>1. Of(u, Flows)' = Of(u, Flows)  BY <1>1, <2>2 DEF Of, Expired
    <3>2. Came(u)' = Came(u)  BY <3>1, Zenon DEF Came
    <3> QED  BY <1>1, <1>2, <2>1, <3>2
  <2>3. CASE expiry.due[u] > 0
    <3>1. Promised(u) = {}  BY <1>1, <1>3, <2>3
    <3> DEFINE r == Expired(u)
    <3>2. r \in Entry /\ r.points = -expiry.due[u]
      <4>1. [order |-> NoOrder, name |-> "sweep", nth |-> sweeps] \in Sources
        BY LoyaltyAssumption DEF CommitExpiry, Sources, BooksOK, Began, LoyaltyTypeOK
      <4> QED  BY <2>1, <4>1 DEF Expired, Entry, EntryKinds
    <3>3. Of(u, Flows)' = Of(u, Flows) \union {r}
      BY <1>1, <2>3 DEF Of, Expired, Flows
    <3> HIDE DEF r
    <3>4. Of(u, Flows) \in SUBSET Entry /\ IsFiniteSet(Of(u, Flows))  BY EntriesOf
    <3>5. Points(Of(u, Flows) \union {r}) >= Points(Of(u, Flows)) + r.points
      BY <2>1, <3>2, <3>4, PointsLess
    <3>6. Points(Of(u, Flows)') = Points(Of(u, Flows) \union {r})  BY <3>3, Zenon
    <3>7. IsFiniteSet(Of(u, Flows) \union {r}) /\ Of(u, Flows) \union {r} \in SUBSET Entry
      BY <3>2, <3>4, FS_AddElement
    <3>8. Points(Of(u, Flows) \union {r}) \in Int  BY <3>7, PointsAre
    <3>9. Came(u)' >= 0  BY <2>1, <3>2, <3>5, <3>6, <3>8 DEF Came
    <3> QED  BY <1>1, <1>2, <3>1, <3>9
  <2> QED  BY <2>1, <2>2, <2>3
<1> QED  BY <1>3 DEF Covered

LEMMA CoveredStep ==
  ASSUME BooksOK, Booked, Covered, [LoyaltyNext]_loyaltyVars
  PROVE  Covered'
<1>1. ASSUME UNCHANGED <<ledger, expiry, checkout, plan, crossed>> PROVE Covered'
  <2>1. \A u : Promised(u)' = Promised(u)  BY <1>1 DEF Promised
  <2> QED  BY <1>1, <2>1, CoveredKept
<1>2. ASSUME NEW o \in Checkouts, Validate(o) \/ PlaceOrder(o) \/ Die(o) \/ Replay(o) PROVE Covered'
  <2>1. UNCHANGED <<ledger, expiry, crossed>>
    BY <1>2 DEF Validate, PlaceOrder, Die, Replay, bookVars
  <2>2. \A q \in Checkouts : plan'[q].points = plan[q].points
    BY <1>2 DEF Validate, PlaceOrder, Die, Replay, BooksOK, LoyaltyTypeOK
  <2>3. \A q \in Checkouts : checkout'[q] \in {"quoted", "placed"} => checkout[q] \in {"quoted", "placed"}
    BY <1>2 DEF Validate, PlaceOrder, Die, Replay, BooksOK, LoyaltyTypeOK
  <2>4. \A u \in Users : \A q \in Promised(u)' : q \in Promised(u) /\ plan'[q].points = plan[q].points
    BY <2>2, <2>3 DEF Promised
  <2> QED  BY <2>1, <2>4, CoveredKept
<1>3. ASSUME NEW o \in Checkouts, NEW name \in Names, Announce(o, name) PROVE Covered'
  BY <1>1, <1>3 DEF Announce, bookVars, callVars
<1>4. ASSUME NEW e \in Events, TakenElsewhere(e) PROVE Covered'
  BY <1>1, <1>4 DEF TakenElsewhere, bookVars, callVars
<1>5. ASSUME NEW d \in Drains, \/ DrainPaid(d) \/ DrainCancelled(d) \/ RollBack(d)
                               \/ \E e \in Events : Undo(d, e)
      PROVE  Covered'
  BY <1>1, <1>5 DEF DrainPaid, DrainCancelled, RollBack, Undo, bookVars, callVars
<1>6. ASSUME UNCHANGED loyaltyVars PROVE Covered'
  BY <1>1, <1>6 DEF loyaltyVars, bookVars, callVars
<1> QED
  BY <1>2, <1>3, <1>4, <1>5, <1>6, CoveredQuote, CoveredApply, CoveredCommit, CoveredBegin,
     CoveredExpiry DEF LoyaltyNext

-----------------------------------------------------------------------------
(* Undoing.                                                                     *)

Once(o) == o \notin late /\ \A e \in Events : e.order = o /\ e.nth = 2 => outbox[e] = "none"
Cancellation(o) == [order |-> o, name |-> "cancelled", nth |-> 1]
Net(L, o) == Points(About(L, o, EntryKinds))

\* Of an order that is announced once, and gains and spends nothing after it was
\* undone, the drain that has undone it sees nothing left, nor does anybody once
\* that drain has committed; and it is to release the redemption there is.
UndoneIn(o) ==
  Once(o) =>
    /\ outbox[Cancellation(o)] = "handled" => Net(ledger, o) = 0 /\ redemption[o] # "applied"
    /\ \A d \in Drains : Cancellation(o) \in drain[d].done =>
         Net(Visible(d), o) = 0 /\ (redemption[o] = "applied" => o \in drain[d].freed)
Undoing == \A o \in Checkouts : UndoneIn(o)

\* What is taken back of at most one entry leaves nothing of it.
LEMMA TakenBackCancels ==
  ASSUME NEW E \in SUBSET Entry, NEW R \in SUBSET Entry,
         \A x, y \in E : x = y, \A x, y \in R : x = y,
         \A x \in R : \E y \in E : x.points = -y.points,
         R = {} => \A y \in E : y.points = 0, E \cap R = {}
  PROVE  Points(E \union R) = 0 /\ IsFiniteSet(E \union R)
<1>1. CASE E = {}
  <2>1. E \union R = {}  BY <1>1
  <2> QED  BY <2>1, PointsEmpty, FS_EmptySet
<1>2. CASE E # {}
  <2>1. PICK y \in E : E = {y}  BY <1>2
  <2>2. y \in Entry  OBVIOUS
  <2>3. Points({y}) = y.points /\ y.points \in Int /\ IsFiniteSet({y})  BY <2>2, PointsOfOne
  <2>4. CASE R = {}
    <3>1. E \union R = {y}  BY <2>1, <2>4
    <3>2. Points(E \union R) = Points({y})  BY <3>1, Zenon
    <3> QED  BY <2>1, <2>3, <2>4, <3>1, <3>2
  <2>5. CASE R # {}
    <3>1. PICK x \in R : R = {x}  BY <2>5
    <3>2. x \in Entry /\ x.points = -y.points /\ {x} \cap {y} = {}  BY <2>1, <3>1
    <3>3. Points({x}) = x.points /\ IsFiniteSet({x})  BY <3>2, PointsOfOne
    <3>4. {x} \in SUBSET Entry /\ {y} \in SUBSET Entry /\ {y} \cap {x} = {}  BY <2>2, <3>2
    <3>5. Points({y} \union {x}) = Points({y}) + Points({x})  BY <2>3, <3>3, <3>4, PointsUnion
    <3>6. E \union R = {y} \union {x}  BY <2>1, <3>1
    <3>7. Points(E \union R) = Points({y} \union {x})  BY <3>6, Zenon
    <3>8. IsFiniteSet(E \union R)
      <4>1. IsFiniteSet({y} \union {x})  BY <2>3, <3>3, FS_Union
      <4> QED  BY <3>6, <4>1, Zenon
    <3> QED  BY <2>3, <3>2, <3>3, <3>5, <3>7, <3>8
  <2> QED  BY <2>4, <2>5
<1> QED  BY <1>1, <1>2

\* The one event of its name an order has.
LEMMA OneEvent ==
  ASSUME NEW o \in Checkouts, Once(o), NEW e \in Events, e.order = o, outbox[e] # "none"
  PROVE  e = [order |-> o, name |-> e.name, nth |-> 1]
BY DEF Once, Events

\* What a drain sees of an order it is about to undo: what it earned, what it
\* spent, one entry of each at most.
LEMMA SeenOf ==
  ASSUME BooksOK, Locks, Booked, NEW o \in Checkouts, Once(o), NEW d \in Drains,
         Cancellation(o) \in drain[d].rows
  PROVE  /\ \A x \in Visible(d) : x.source.order = o => x.kind \in {"earn", "redeem"}
         /\ \A x, y \in About(Visible(d), o, {"earn"}) : x = y
         /\ \A x, y \in About(Visible(d), o, {"redeem"}) : x = y
<1>1. \A x \in Visible(d) : x \in Entry /\ Sourced(x)
  BY DEF Visible, Booked, InLedger, InDrain, BooksOK, LoyaltyTypeOK
<1>2. ASSUME NEW x \in Visible(d), x.source.order = o, x.source \in Events
      PROVE  /\ x.source = [order |-> o, name |-> x.source.name, nth |-> 1]
             /\ x.source # Cancellation(o)
  <2>1. CASE x \in ledger
    <3>1. outbox[x.source] = "handled"  BY <1>2, <2>1 DEF Booked, InLedger
    <3>2. outbox[Cancellation(o)] = "queued"  BY DEF Locks, Held
    <3> QED  BY <1>2, <3>1, <3>2, OneEvent
  <2>2. CASE x \in drain[d].mine
    <3>1. x.source \in drain[d].done  BY <2>2 DEF Booked, InDrain
    <3>2. outbox[x.source] = "queued" /\ x.source # Cancellation(o)  BY <3>1 DEF Locks, Held
    <3> QED  BY <1>2, <3>2, OneEvent
  <2> QED  BY <2>1, <2>2 DEF Visible
<1>3. o # NoOrder  BY LoyaltyAssumption
<1>4. ASSUME NEW x \in Visible(d), x.source.order = o PROVE x.kind \in {"earn", "redeem"}
  <2>1. x.kind \in EntryKinds /\ Sourced(x)  BY <1>1 DEF Entry
  <2>2. x.kind # "expire"  BY <1>3, <1>4, <2>1 DEF Sourced
  <2>3. x.kind \notin {"reverse", "restore"}  BY <1>2, <1>4, <2>1 DEF Sourced, Cancellation
  <2> QED  BY <2>1, <2>2, <2>3 DEF EntryKinds
<1>5. OneEach(Visible(d))  BY DEF Booked
<1>6. ASSUME NEW x \in About(Visible(d), o, {"earn"}), NEW y \in About(Visible(d), o, {"earn"})
      PROVE  x = y
  <2>1. /\ x \in Visible(d) /\ x.kind = "earn" /\ x.source.order = o /\ Sourced(x)
        /\ y \in Visible(d) /\ y.kind = "earn" /\ y.source.order = o /\ Sourced(y)
    BY <1>1 DEF About
  <2>2. x.source \in Events /\ x.source.name = "paid" /\ y.source \in Events /\ y.source.name = "paid"
    BY <1>3, <2>1 DEF Sourced
  <2>3. x.source = y.source
    <3>1. x.source = [order |-> o, name |-> x.source.name, nth |-> 1]  BY <1>2, <2>1, <2>2
    <3>2. y.source = [order |-> o, name |-> y.source.name, nth |-> 1]  BY <1>2, <2>1, <2>2
    <3> QED  BY <2>2, <3>1, <3>2
  <2> QED  BY <1>3, <1>5, <2>1, <2>3 DEF OneEach
<1>7. ASSUME NEW x \in About(Visible(d), o, {"redeem"}), NEW y \in About(Visible(d), o, {"redeem"})
      PROVE  x = y
  <2>1. /\ x \in Visible(d) /\ x.kind = "redeem" /\ x.source.order = o /\ Sourced(x) /\ x \in Entry
        /\ y \in Visible(d) /\ y.kind = "redeem" /\ y.source.order = o /\ Sourced(y) /\ y \in Entry
    BY <1>1 DEF About
  <2>2. x.source.name = "order" /\ x.source.nth = 1 /\ y.source.name = "order" /\ y.source.nth = 1
    BY <2>1 DEF Sourced
  <2>3. x.source \in Sources /\ y.source \in Sources  BY <2>1 DEF Entry
  <2>4. x.source = [order |-> o, name |-> "order", nth |-> 1]  BY <2>1, <2>2, <2>3 DEF Sources, Events
  <2>5. y.source = [order |-> o, name |-> "order", nth |-> 1]  BY <2>1, <2>2, <2>3 DEF Sources, Events
  <2> QED  BY <1>3, <1>5, <2>1, <2>4, <2>5 DEF OneEach
<1> QED  BY <1>4, <1>6, <1>7

\* What the drain takes back is what it sees.
LEMMA NothingLeft ==
  ASSUME BooksOK, Locks, Booked, NEW o \in Checkouts, Once(o), NEW d \in Drains,
         Cancellation(o) \in drain[d].rows,
         NEW reversed, TakesBack(d, Cancellation(o), "earn", "reverse", reversed),
         NEW restored, TakesBack(d, Cancellation(o), "redeem", "restore", restored)
  PROVE  Net((Visible(d) \union reversed) \union restored, o) = 0
<1> DEFINE V == Visible(d)
           E == About(V, o, {"earn"})
           Q == About(V, o, {"redeem"})
<1>1. /\ \A x \in V : x.source.order = o => x.kind \in {"earn", "redeem"}
      /\ \A x, y \in E : x = y
      /\ \A x, y \in Q : x = y
  BY SeenOf
<1>2. Cancellation(o).order = o  BY DEF Cancellation
<1>3. /\ reversed \in SUBSET Entry /\ \A x, y \in reversed : x = y
      /\ \A x \in reversed : /\ x.kind = "reverse" /\ x.source = Cancellation(o)
                             /\ \E y \in E : x.points = -y.points
      /\ reversed = {} => \/ \A y \in E : y.points = 0
                          \/ \E y \in V : y.kind = "reverse" /\ y.source = Cancellation(o)
  BY <1>2 DEF TakesBack
<1>4. /\ restored \in SUBSET Entry /\ \A x, y \in restored : x = y
      /\ \A x \in restored : /\ x.kind = "restore" /\ x.source = Cancellation(o)
                             /\ \E y \in Q : x.points = -y.points
      /\ restored = {} => \/ \A y \in Q : y.points = 0
                          \/ \E y \in V : y.kind = "restore" /\ y.source = Cancellation(o)
  BY <1>2 DEF TakesBack
<1>5. V \in SUBSET Entry  BY DEF Visible, BooksOK, LoyaltyTypeOK
<1>6. /\ E \in SUBSET Entry /\ Q \in SUBSET Entry
      /\ \A x \in E : x \in V /\ x.kind = "earn"
      /\ \A x \in Q : x \in V /\ x.kind = "redeem"
      /\ \A x \in V : x.source.order = o => x \in E \/ x \in Q
      /\ \A x \in E \union Q : x.source.order = o
  BY <1>1, <1>5 DEF About
<1>7. About((V \union reversed) \union restored, o, EntryKinds)
        = (E \union reversed) \union (Q \union restored)
  <2>1. ASSUME NEW x \in About((V \union reversed) \union restored, o, EntryKinds)
        PROVE  x \in (E \union reversed) \union (Q \union restored)
    BY <1>6 DEF About
  <2>2. ASSUME NEW x \in (E \union reversed) \union (Q \union restored)
        PROVE  x \in About((V \union reversed) \union restored, o, EntryKinds)
    <3>1. x \in (V \union reversed) \union restored /\ x.source.order = o
      BY <1>2, <1>3, <1>4, <1>6
    <3>2. x.kind \in EntryKinds  BY <1>3, <1>4, <1>6 DEF Entry
    <3> QED  BY <3>1, <3>2 DEF About
  <2> QED  BY <2>1, <2>2
<1>8. reversed = {} => \A y \in E : y.points = 0  BY <1>1, <1>2, <1>3
<1>9. restored = {} => \A y \in Q : y.points = 0  BY <1>1, <1>2, <1>4
<1>10. E \cap reversed = {} /\ Q \cap restored = {}
       /\ (E \union reversed) \cap (Q \union restored) = {}
  BY <1>3, <1>4, <1>6
<1> HIDE DEF V, E, Q
<1>11. Points(E \union reversed) = 0 /\ IsFiniteSet(E \union reversed)
  BY <1>1, <1>3, <1>6, <1>8, <1>10, TakenBackCancels
<1>12. Points(Q \union restored) = 0 /\ IsFiniteSet(Q \union restored)
  BY <1>1, <1>4, <1>6, <1>9, <1>10, TakenBackCancels
<1>13. Points((E \union reversed) \union (Q \union restored))
         = Points(E \union reversed) + Points(Q \union restored)
  <2>1. E \union reversed \in SUBSET Entry /\ Q \union restored \in SUBSET Entry
    BY <1>3, <1>4, <1>6
  <2> QED  BY <1>10, <1>11, <1>12, <2>1, PointsUnion
<1>14. Points(About((V \union reversed) \union restored, o, EntryKinds)) = 0
  <2>1. Points(About((V \union reversed) \union restored, o, EntryKinds))
          = Points((E \union reversed) \union (Q \union restored))
    BY <1>7, Zenon
  <2> QED  BY <1>11, <1>12, <1>13, <2>1
<1> QED  BY <1>14 DEF Net, V

\* Nothing makes an order that is announced twice, or late, one that is not.
LEMMA OnceStep ==
  ASSUME BooksOK, InTurn, [LoyaltyNext]_loyaltyVars, NEW o \in Checkouts, Once(o)'
  PROVE  Once(o)
<1>0. LoyaltyTypeOK  BY DEF BooksOK
<1>1. late \subseteq late'
  BY DEF LoyaltyNext, Validate, Quote, PlaceOrder, Apply, Redeem, Die, Replay, Announce, TakenElsewhere,
         DrainPaid, DrainCancelled, Commit, RollBack, Undo, BeginExpiry, CommitExpiry, loyaltyVars
<1>2. \A e \in Events : outbox'[e] = "none" => outbox[e] = "none"
  <2>1. ASSUME UNCHANGED outbox PROVE \A e \in Events : outbox'[e] = "none" => outbox[e] = "none"
    BY <2>1
  <2>2. ASSUME NEW q \in Checkouts, NEW name \in Names, Announce(q, name)
        PROVE  \A e \in Events : outbox'[e] = "none" => outbox[e] = "none"
    <3>1. PICK e \in Events : outbox' = [outbox EXCEPT ![e] = "queued"]
      BY <1>0, <2>2, AnnouncedIsNew
    <3> QED  BY <1>0, <3>1 DEF LoyaltyTypeOK
  <2>3. ASSUME NEW e \in Events, TakenElsewhere(e)
        PROVE  \A x \in Events : outbox'[x] = "none" => outbox[x] = "none"
    BY <1>0, <2>3 DEF TakenElsewhere, LoyaltyTypeOK
  <2>4. ASSUME NEW d \in Drains, Commit(d)
        PROVE  \A x \in Events : outbox'[x] = "none" => outbox[x] = "none"
    BY <2>4 DEF Commit
  <2>5. ASSUME NEW q \in Checkouts, \/ Validate(q) \/ Quote(q) \/ PlaceOrder(q) \/ Apply(q) \/ Die(q)
                                    \/ Replay(q)
        PROVE  UNCHANGED outbox
    BY <2>5 DEF Validate, Quote, PlaceOrder, Apply, Die, Replay
  <2>6. ASSUME BeginExpiry \/ CommitExpiry \/ UNCHANGED loyaltyVars PROVE UNCHANGED outbox
    BY <2>6 DEF BeginExpiry, CommitExpiry, loyaltyVars
  <2>7. ASSUME NEW d \in Drains, \/ DrainPaid(d) \/ DrainCancelled(d) \/ RollBack(d)
                                 \/ \E e \in Events : Undo(d, e)
        PROVE  UNCHANGED outbox
    BY <2>7 DEF DrainPaid, DrainCancelled, RollBack, Undo
  <2> QED  BY <2>1, <2>2, <2>3, <2>4, <2>5, <2>6, <2>7 DEF LoyaltyNext
<1> QED  BY <1>1, <1>2 DEF Once

\* Steps that leave what is recorded and released of an order as it was.
LEMMA UndoneInKept ==
  ASSUME NEW o \in Checkouts, UndoneIn(o), Once(o)' => Once(o),
         outbox'[Cancellation(o)] = "handled" => outbox[Cancellation(o)] = "handled",
         redemption'[o] = "applied" => redemption[o] = "applied",
         About(ledger', o, EntryKinds) = About(ledger, o, EntryKinds),
         \A d \in Drains : Cancellation(o) \in drain'[d].done =>
           /\ Cancellation(o) \in drain[d].done /\ drain[d].freed \subseteq drain'[d].freed
           /\ About(Visible(d)', o, EntryKinds) = About(Visible(d), o, EntryKinds)
  PROVE  UndoneIn(o)'
<1>1. Net(ledger', o) = Net(ledger, o)  BY Zenon DEF Net
<1>2. \A d \in Drains : Cancellation(o) \in drain'[d].done => Net(Visible(d)', o) = Net(Visible(d), o)
  BY Zenon DEF Net
<1> HIDE DEF Net, Visible, Cancellation
<1>3. Once(o)' => /\ outbox'[Cancellation(o)] = "handled" => Net(ledger', o) = 0 /\ redemption'[o] # "applied"
                  /\ \A d \in Drains : Cancellation(o) \in drain'[d].done =>
                       Net(Visible(d)', o) = 0 /\ (redemption'[o] = "applied" => o \in drain'[d].freed)
  BY <1>1, <1>2 DEF UndoneIn
<1>4. Cancellation(o)' = Cancellation(o)  BY DEF Cancellation
<1>5. Net(ledger, o)' = Net(ledger', o)  BY DEF Net, About
<1>6. \A d \in Drains : Net(Visible(d), o)' = Net(Visible(d)', o)  BY DEF Net, About
<1> QED  BY <1>3, <1>4, <1>5, <1>6 DEF UndoneIn

\* What is spent on an order that has been undone makes it late.
LEMMA UndoneInApply ==
  ASSUME BooksOK, NEW q \in Checkouts, Apply(q), NEW o \in Checkouts, UndoneIn(o), Once(o)' => Once(o)
  PROVE  UndoneIn(o)'
<1> DEFINE s == [order |-> q, name |-> "order", nth |-> 1]
           R == Recorded(ledger, q, "redeem", -plan[q].points, s)
<1>1. UNCHANGED <<outbox, drain>> /\ (ledger' = ledger \/ ledger' = ledger \union R)
  BY DEF Apply, Redeem
<1>2. CASE q # o
  <2>1. \A x \in R : x.source.order # o
    <3>1. s \in Sources /\ "redeem" \in EntryKinds  BY SourcesAre DEF EntryKinds
    <3>2. -plan[q].points \in Int  BY DEF BooksOK, LoyaltyTypeOK
    <3>3. \A x \in R : x.source = s  BY <3>1, <3>2, RecordedIs
    <3> QED  BY <1>2, <3>3
  <2>2. redemption'[o] = redemption[o]  BY <1>2 DEF Apply, Redeem, BooksOK, LoyaltyTypeOK
  <2> HIDE DEF R
  <2>3. About(ledger', o, EntryKinds) = About(ledger, o, EntryKinds)  BY <1>1, <2>1 DEF About
  <2>4. \A d \in Drains : About(Visible(d)', o, EntryKinds) = About(Visible(d), o, EntryKinds)
    BY <1>1, <2>1 DEF About, Visible
  <2>5. outbox'[Cancellation(o)] = outbox[Cancellation(o)] /\ drain' = drain  BY <1>1
  <2> QED  BY <2>2, <2>3, <2>4, <2>5, UndoneInKept
<1>3. CASE q = o
  <2>1. Cancellation(o) \in Events /\ Cancellation(o).order = o /\ Cancellation(o).name = "cancelled"
    BY DEF Cancellation, Events, Names
  <2>2. Undone(o, Drains) => ~Once(o)'  BY <1>3 DEF Apply, Redeem, Once
  <2>3. (outbox[Cancellation(o)] = "handled" \/ \E d \in Drains : Cancellation(o) \in drain[d].done) => ~Once(o)'
    BY <2>1, <2>2 DEF Undone
  <2>4. Cancellation(o)' = Cancellation(o)  BY DEF Cancellation
  <2> QED  BY <1>1, <2>3, <2>4 DEF UndoneIn
<1> QED  BY <1>2, <1>3

\* The drain that undoes an order leaves nothing of it; another's is not touched.
LEMMA UndoneInUndo ==
  ASSUME BooksOK, Locks, Booked, NEW d \in Drains, NEW e \in Events, Undo(d, e),
         NEW o \in Checkouts, UndoneIn(o)
  PROVE  UndoneIn(o)'
<1>1. PICK reversed \in TakenBack(Visible(d), e.order, "earn", "reverse", e),
           restored \in TakenBack(Visible(d), e.order, "redeem", "restore", e) :
             /\ UndoneBy(d, e, reversed, restored)
             /\ TakesBack(d, e, "earn", "reverse", reversed)
             /\ TakesBack(d, e, "redeem", "restore", restored)
  BY UndoIs DEF BooksOK
<1>2. UNCHANGED <<ledger, redemption, outbox, late>>  BY DEF Undo, bookVars
<1>3. e \in drain[d].rows /\ e.name = "cancelled" /\ outbox[e] = "queued"
  BY <1>1 DEF UndoneBy, Locks, Held
<1>4. /\ drain'[d].mine = drain[d].mine \union reversed \union restored
      /\ drain'[d].done = drain[d].done \union {e}
      /\ drain'[d].freed = Released(d, e)
      /\ \A c \in Drains \ {d} : drain'[c] = drain[c]
  BY <1>1 DEF UndoneBy, BooksOK, LoyaltyTypeOK
<1>5. Visible(d)' = (Visible(d) \union reversed) \union restored  BY <1>2, <1>4 DEF Visible
<1>6. \A c \in Drains \ {d} : Visible(c)' = Visible(c)  BY <1>2, <1>4 DEF Visible
<1>7. Once(o)' <=> Once(o)  BY <1>2 DEF Once
<1>8. CASE e.order # o
  <2>1. \A x \in reversed \union restored : x.source.order # o  BY <1>1, <1>8 DEF TakesBack
  <2>2. ASSUME NEW c \in Drains
        PROVE  About(Visible(c)', o, EntryKinds) = About(Visible(c), o, EntryKinds)
    <3>1. CASE c = d  BY <1>5, <2>1, <3>1 DEF About
    <3>2. CASE c # d  BY <1>6, <3>2, Zenon
    <3> QED  BY <3>1, <3>2
  <2>3. Cancellation(o) # e  BY <1>8 DEF Cancellation
  <2>4. \A c \in Drains : Cancellation(o) \in drain'[c].done =>
          Cancellation(o) \in drain[c].done /\ drain[c].freed \subseteq drain'[c].freed
    BY <1>4, <2>3 DEF Released
  <2>5. outbox'[Cancellation(o)] = outbox[Cancellation(o)] /\ redemption'[o] = redemption[o]  BY <1>2
  <2>6. About(ledger', o, EntryKinds) = About(ledger, o, EntryKinds)  BY <1>2, Zenon
  <2> QED  BY <1>7, <2>2, <2>4, <2>5, <2>6, UndoneInKept
<1>9. CASE e.order = o
  <2> SUFFICES ASSUME Once(o)
      PROVE  /\ outbox'[Cancellation(o)] = "handled" => Net(ledger', o) = 0 /\ redemption'[o] # "applied"
             /\ \A c \in Drains : Cancellation(o) \in drain'[c].done =>
                  Net(Visible(c)', o) = 0 /\ (redemption'[o] = "applied" => o \in drain'[c].freed)
    <3>1. Cancellation(o)' = Cancellation(o)  BY DEF Cancellation
    <3>2. Net(ledger, o)' = Net(ledger', o)  BY DEF Net, About
    <3>3. \A c \in Drains : Net(Visible(c), o)' = Net(Visible(c)', o)  BY DEF Net, About
    <3> QED  BY <1>7, <3>1, <3>2, <3>3 DEF UndoneIn
  <2>1. e = Cancellation(o)  BY <1>3, <1>9, OneEvent DEF Cancellation
  <2>2. outbox'[Cancellation(o)] # "handled"  BY <1>2, <1>3, <2>1
  <2>3. Net((Visible(d) \union reversed) \union restored, o) = 0
    BY <1>1, <1>3, <2>1, NothingLeft
  <2>4. Net(Visible(d)', o) = 0
    <3>1. Net(Visible(d)', o) = Net((Visible(d) \union reversed) \union restored, o)  BY <1>5, Zenon
    <3> QED  BY <2>3, <3>1
  <2>5. redemption'[o] = "applied" => o \in drain'[d].freed  BY <1>2, <1>4, <1>9 DEF Released
  <2>6. \A c \in Drains \ {d} : Cancellation(o) \notin drain'[c].done
    BY <1>3, <1>4, <2>1 DEF Locks, Held
  <2> QED  BY <2>2, <2>4, <2>5, <2>6
<1> QED  BY <1>8, <1>9

\* What a drain has undone is undone once it commits; what it grants makes late
\* what another has undone.
LEMMA UndoneInCommit ==
  ASSUME BooksOK, Locks, Booked, NEW d \in Drains, Commit(d), NEW o \in Checkouts, UndoneIn(o),
         Once(o)' => Once(o)
  PROVE  UndoneIn(o)'
<1>1. /\ ledger' = ledger \union drain[d].mine
      /\ \A e \in Events : outbox'[e] = IF e \in drain[d].done THEN "handled" ELSE outbox[e]
      /\ redemption'[o] = IF o \in drain[d].freed THEN "released" ELSE redemption[o]
      /\ late' = late \union {q \in Checkouts :
                                /\ Undone(q, Drains \ {d})
                                /\ \E e \in drain[d].done : e.order = q /\ e.name = "paid"}
      /\ drain'[d].done = {} /\ \A c \in Drains \ {d} : drain'[c] = drain[c]
  BY DEF Commit, Idle, BooksOK, LoyaltyTypeOK
<1>2. Cancellation(o) \in Events /\ Cancellation(o).order = o /\ Cancellation(o).name = "cancelled"
  BY DEF Cancellation, Events, Names
<1> SUFFICES ASSUME Once(o)', Once(o)
    PROVE  /\ outbox'[Cancellation(o)] = "handled" => Net(ledger', o) = 0 /\ redemption'[o] # "applied"
           /\ \A c \in Drains : Cancellation(o) \in drain'[c].done =>
                Net(Visible(c)', o) = 0 /\ (redemption'[o] = "applied" => o \in drain'[c].freed)
  <2>1. Cancellation(o)' = Cancellation(o)  BY DEF Cancellation
  <2>2. Net(ledger, o)' = Net(ledger', o)  BY DEF Net, About
  <2>3. \A c \in Drains : Net(Visible(c), o)' = Net(Visible(c)', o)  BY DEF Net, About
  <2> QED  BY <2>1, <2>2, <2>3 DEF UndoneIn
<1>3. o \notin late'  BY DEF Once
<1>4. CASE Cancellation(o) \in drain[d].done
  <2>1. Net(Visible(d), o) = 0 /\ (redemption[o] = "applied" => o \in drain[d].freed)
    BY <1>4 DEF UndoneIn
  <2>2. ledger' = Visible(d)  BY <1>1 DEF Visible
  <2>3. Net(ledger', o) = Net(Visible(d), o)  BY <2>2, Zenon
  <2>4. redemption'[o] # "applied"  BY <1>1, <2>1
  <2>5. \A c \in Drains : Cancellation(o) \notin drain'[c].done  BY <1>1, <1>4 DEF Locks, Held
  <2> QED  BY <2>1, <2>3, <2>4, <2>5
<1>5. CASE Cancellation(o) \notin drain[d].done
  <2> SUFFICES ASSUME \/ outbox[Cancellation(o)] = "handled"
                      \/ \E c \in Drains \ {d} : Cancellation(o) \in drain[c].done
               PROVE  /\ About(ledger', o, EntryKinds) = About(ledger, o, EntryKinds)
                      /\ \A c \in Drains \ {d} :
                           About(Visible(c)', o, EntryKinds) = About(Visible(c), o, EntryKinds)
    <3>1. outbox'[Cancellation(o)] = outbox[Cancellation(o)]  BY <1>1, <1>2, <1>5
    <3>2. redemption'[o] = "applied" => redemption[o] = "applied"  BY <1>1
    <3>3. CASE About(ledger', o, EntryKinds) = About(ledger, o, EntryKinds)
               /\ \A c \in Drains \ {d} :
                    About(Visible(c)', o, EntryKinds) = About(Visible(c), o, EntryKinds)
      <4>1. Net(ledger', o) = Net(ledger, o)  BY <3>3, Zenon DEF Net
      <4>2. \A c \in Drains \ {d} : Net(Visible(c)', o) = Net(Visible(c), o)  BY <3>3, Zenon DEF Net
      <4> QED  BY <1>1, <3>1, <3>2, <4>1, <4>2 DEF UndoneIn
    <3>4. CASE ~ (\/ outbox[Cancellation(o)] = "handled"
                  \/ \E c \in Drains \ {d} : Cancellation(o) \in drain[c].done)
      BY <1>1, <3>1, <3>4
    <3> QED  BY <3>3, <3>4
  <2>1. Undone(o, Drains \ {d})  BY <1>2 DEF Undone
  <2>2. ~ \E e \in drain[d].done : e.order = o /\ e.name = "paid"  BY <1>1, <1>3, <2>1
  <2>3. ASSUME NEW x \in drain[d].mine PROVE x.source.order # o
    <3>1. x.source \in drain[d].done /\ x.source \in Events
      BY DEF Booked, InDrain, BooksOK, LoyaltyTypeOK
    <3>2. outbox[x.source] = "queued"  BY <3>1 DEF Locks, Held
    <3>3. SUFFICES ASSUME x.source.order = o PROVE FALSE  OBVIOUS
    <3>4. x.source = [order |-> o, name |-> x.source.name, nth |-> 1]  BY <3>1, <3>2, <3>3, OneEvent
    <3>5. x.source.name = "cancelled"  BY <2>2, <3>1, <3>3 DEF Events, Names
    <3> QED  BY <1>5, <3>1, <3>4, <3>5 DEF Cancellation
  <2>4. About(ledger', o, EntryKinds) = About(ledger, o, EntryKinds)  BY <1>1, <2>3 DEF About
  <2>5. \A c \in Drains \ {d} : About(Visible(c)', o, EntryKinds) = About(Visible(c), o, EntryKinds)
    BY <1>1, <2>3 DEF About, Visible
  <2> QED  BY <2>4, <2>5
<1> QED  BY <1>4, <1>5

LEMMA UndoingStep ==
  ASSUME BooksOK, InTurn, Locks, Booked, Undoing, [LoyaltyNext]_loyaltyVars
  PROVE  Undoing'
<1> SUFFICES ASSUME NEW o \in Checkouts PROVE UndoneIn(o)'  BY DEF Undoing
<1>0. /\ LoyaltyTypeOK /\ UndoneIn(o) /\ (Once(o)' => Once(o))
      /\ Cancellation(o) \in Events /\ Cancellation(o).name = "cancelled"
  BY OnceStep DEF Undoing, Cancellation, Events, Names, BooksOK
<1>1. ASSUME UNCHANGED <<ledger, redemption>>,
             outbox'[Cancellation(o)] = "handled" => outbox[Cancellation(o)] = "handled",
             \A d \in Drains : Cancellation(o) \in drain'[d].done =>
               drain'[d].done = drain[d].done /\ drain'[d].mine = drain[d].mine
                 /\ drain'[d].freed = drain[d].freed
      PROVE  UndoneIn(o)'
  <2>1. About(ledger', o, EntryKinds) = About(ledger, o, EntryKinds)  BY <1>1
  <2>2. ASSUME NEW d \in Drains, Cancellation(o) \in drain'[d].done
        PROVE  /\ Cancellation(o) \in drain[d].done /\ drain[d].freed \subseteq drain'[d].freed
               /\ About(Visible(d)', o, EntryKinds) = About(Visible(d), o, EntryKinds)
    <3>1. Visible(d)' = Visible(d)  BY <1>1, <2>2 DEF Visible
    <3>2. About(Visible(d)', o, EntryKinds) = About(Visible(d), o, EntryKinds)  BY <3>1, Zenon
    <3> QED  BY <1>1, <2>2, <3>2
  <2>3. redemption'[o] = redemption[o]  BY <1>1
  <2> QED  BY <1>0, <1>1, <2>1, <2>2, <2>3, UndoneInKept
<1>2. ASSUME NEW q \in Checkouts, Validate(q) \/ Quote(q) \/ PlaceOrder(q) \/ Die(q) \/ Replay(q)
      PROVE  UndoneIn(o)'
  <2>1. UNCHANGED <<ledger, redemption, outbox, drain>>
    BY <1>2 DEF Validate, Quote, PlaceOrder, Die, Replay, bookVars
  <2> QED  BY <1>1, <2>1
<1>3. ASSUME NEW q \in Checkouts, NEW name \in Names, Announce(q, name) PROVE UndoneIn(o)'
  <2>1. PICK e \in Events : outbox' = [outbox EXCEPT ![e] = "queued"]
    BY <1>0, <1>3, AnnouncedIsNew
  <2>2. outbox'[Cancellation(o)] = "handled" => outbox[Cancellation(o)] = "handled"
    BY <1>0, <2>1 DEF LoyaltyTypeOK
  <2>3. UNCHANGED <<ledger, redemption, drain>>  BY <1>3 DEF Announce, bookVars
  <2> QED  BY <1>1, <2>2, <2>3
<1>4. ASSUME NEW e \in Events, TakenElsewhere(e) PROVE UndoneIn(o)'
  <2>1. UNCHANGED <<ledger, redemption, drain>>  BY <1>4 DEF TakenElsewhere, bookVars
  <2>2. outbox'[Cancellation(o)] = "handled" => outbox[Cancellation(o)] = "handled"
    BY <1>0, <1>4 DEF TakenElsewhere, LoyaltyTypeOK
  <2> QED  BY <1>1, <2>1, <2>2
<1>5. ASSUME NEW d \in Drains, DrainPaid(d) \/ DrainCancelled(d) \/ RollBack(d) PROVE UndoneIn(o)'
  <2>1. UNCHANGED <<ledger, redemption, outbox>>
    BY <1>5 DEF DrainPaid, DrainCancelled, RollBack, bookVars
  <2>2. \A c \in Drains \ {d} : drain'[c] = drain[c]
    BY <1>0, <1>5 DEF DrainPaid, DrainCancelled, RollBack, LoyaltyTypeOK
  <2>3. \/ Cancellation(o) \notin drain'[d].done
        \/ /\ drain'[d].done = drain[d].done /\ drain'[d].mine = drain[d].mine
           /\ drain'[d].freed = drain[d].freed
    <3>1. CASE DrainPaid(d)
      <4>1. drain'[d].done = Waiting("paid")  BY <1>0, <3>1 DEF DrainPaid, Idle, LoyaltyTypeOK
      <4> QED  BY <1>0, <4>1 DEF Waiting
    <3>2. CASE DrainCancelled(d)  BY <1>0, <3>2 DEF DrainCancelled, LoyaltyTypeOK
    <3>3. CASE RollBack(d)  BY <1>0, <3>3 DEF RollBack, Idle, LoyaltyTypeOK
    <3> QED  BY <1>5, <3>1, <3>2, <3>3
  <2> QED  BY <1>1, <2>1, <2>2, <2>3
<1>6. ASSUME BeginExpiry PROVE UndoneIn(o)'
  <2>1. UNCHANGED <<ledger, redemption, outbox, drain>>  BY <1>6 DEF BeginExpiry, bookVars
  <2> QED  BY <1>1, <2>1
<1>7. ASSUME CommitExpiry PROVE UndoneIn(o)'
  <2> DEFINE New == {Expired(u) : u \in {v \in Users : expiry.due[v] > 0}}
  <2>1. UNCHANGED <<redemption, outbox, drain>> /\ ledger' = ledger \union New
    BY <1>7 DEF CommitExpiry
  <2>2. \A x \in New : x.source.order # o  BY LoyaltyAssumption DEF Expired
  <2> HIDE DEF New
  <2>3. About(ledger', o, EntryKinds) = About(ledger, o, EntryKinds)  BY <2>1, <2>2 DEF About
  <2>4. \A d \in Drains : About(Visible(d)', o, EntryKinds) = About(Visible(d), o, EntryKinds)
    BY <2>1, <2>2 DEF About, Visible
  <2>5. outbox'[Cancellation(o)] = outbox[Cancellation(o)] /\ redemption'[o] = redemption[o] /\ drain' = drain
    BY <2>1
  <2> QED  BY <1>0, <2>3, <2>4, <2>5, UndoneInKept
<1>8. ASSUME UNCHANGED loyaltyVars PROVE UndoneIn(o)'
  <2>1. UNCHANGED <<ledger, redemption, outbox, drain>>  BY <1>8 DEF loyaltyVars, bookVars
  <2> QED  BY <1>1, <2>1
<1>9. ASSUME NEW q \in Checkouts, Apply(q) PROVE UndoneIn(o)'  BY <1>0, <1>9, UndoneInApply
<1>10. ASSUME NEW d \in Drains, NEW e \in Events, Undo(d, e) PROVE UndoneIn(o)'
  BY <1>0, <1>10, UndoneInUndo
<1>11. ASSUME NEW d \in Drains, Commit(d) PROVE UndoneIn(o)'  BY <1>0, <1>11, UndoneInCommit
<1> QED
  BY <1>2, <1>3, <1>4, <1>5, <1>6, <1>7, <1>8, <1>9, <1>10, <1>11 DEF LoyaltyNext

-----------------------------------------------------------------------------
(* The invariant of Loyalty.                                                    *)

LoyaltyIInv == BooksOK /\ InTurn /\ Locks /\ Booked /\ Counted /\ Covered /\ Undoing

LEMMA LoyaltyStart == ASSUME LoyaltyInit PROVE LoyaltyIInv
<1> USE DEF LoyaltyInit
<1>1. BooksOK
  <2>1. \A u \in Users : Earlier(u) \in Entry
    BY LoyaltyAssumption DEF Earlier, Entry, Sources, EntryKinds
  <2>2. IsFiniteSet(ledger)
    <3> DEFINE f == [u \in Users |-> Earlier(u)]
    <3>1. f \in Surjection(Users, ledger)  BY DEF Surjection
    <3> HIDE DEF f
    <3> QED  BY <3>1, LoyaltyAssumption, FS_Surjection
  <2>3. \A d \in Drains : IsFiniteSet(drain[d].mine)  BY FS_EmptySet DEF Idle
  <2>4. ledger \subseteq Entry  BY <2>1
  <2>5. LoyaltyTypeOK  BY <2>4, LoyaltyAssumption DEF LoyaltyTypeOK, Idle, NoneDue
  <2> QED  BY <2>2, <2>3, <2>5 DEF BooksOK, Began, NoneDue
<1>2. \A e \in Events : outbox[e] = "none"  OBVIOUS
<1>3. \A d \in Drains : drain[d] = Idle  OBVIOUS
<1>4. InTurn  BY <1>2 DEF InTurn
<1>5. Locks  BY <1>3 DEF Locks, Held, Idle
<1>6. \A x \in ledger : /\ x.kind = "earn" /\ x.points \in Nat /\ x.source.order = NoOrder
                        /\ x.source \notin Events
  BY LoyaltyAssumption DEF Earlier, Events
<1>7. Booked
  <2>1. \A x \in ledger : InLedger(x)  BY <1>6 DEF InLedger, Signed, Sourced, Ups
  <2>2. \A d \in Drains : drain[d].mine = {} /\ Visible(d) = ledger  BY <1>3 DEF Idle, Visible
  <2>3. OneEach(ledger)  BY <1>6 DEF OneEach
  <2>4. \A d \in Drains : OneEach(Visible(d))  BY <2>2, <2>3, Zenon
  <2> QED  BY <2>1, <2>2, <2>4 DEF Booked
<1>8. Counted
  <2>1. Applied = {}  BY DEF Applied
  <2>2. Cardinality(Applied) = 0  BY <2>1, FS_EmptySet, Zenon
  <2>3. Couponed = {}  BY DEF Couponed
  <2> QED  BY <1>3, <2>2, <2>3, LoyaltyAssumption DEF Counted, Idle
<1>9. Covered
  <2>1. ASSUME NEW u PROVE Came(u) >= 0
    <3>1. Of(u, Flows) \in SUBSET Entry /\ IsFiniteSet(Of(u, Flows))  BY <1>1, EntriesOf
    <3>2. \A x \in Of(u, Flows) : x.points >= 0  BY <1>6 DEF Of
    <3> QED  BY <3>1, <3>2, PointsUp DEF Came
  <2>2. \A u : Promised(u) = {}  BY DEF Promised
  <2>3. \A u \in Users : expiry.due[u] = 0  BY DEF NoneDue
  <2> QED  BY <2>1, <2>2, <2>3 DEF Covered
<1>10. Undoing
  <2>1. \A o \in Checkouts : Cancellation(o) \in Events  BY DEF Cancellation, Events, Names
  <2> QED  BY <1>2, <1>3, <2>1 DEF Undoing, UndoneIn, Idle
<1> QED  BY <1>1, <1>4, <1>5, <1>7, <1>8, <1>9, <1>10 DEF LoyaltyIInv

LEMMA LoyaltyStep ==
  ASSUME LoyaltyIInv, [LoyaltyNext]_loyaltyVars
  PROVE  LoyaltyIInv'
<1>1. BooksOK /\ LoyaltyTypeOK /\ InTurn /\ Locks /\ Booked /\ Counted /\ Covered /\ Undoing
  BY DEF LoyaltyIInv, BooksOK
<1>2. BooksOK'    BY <1>1, BooksStep
<1>3. InTurn'     BY <1>1, InTurnStep
<1>4. Locks'      BY <1>1, LocksStep
<1>5. Booked'     BY <1>1, BookedStep
<1>6. Counted'    BY <1>1, CountedStep
<1>7. Covered'    BY <1>1, CoveredStep
<1>8. Undoing'    BY <1>1, UndoingStep
<1> QED  BY <1>2, <1>3, <1>4, <1>5, <1>6, <1>7, <1>8 DEF LoyaltyIInv

\* The invariant holds in every state.
THEOREM LoyaltyInvariance == LoyaltySpec => []LoyaltyIInv
<1>1. LoyaltyInit => LoyaltyIInv  BY LoyaltyStart
<1>2. LoyaltyIInv /\ [LoyaltyNext]_loyaltyVars => LoyaltyIInv'  BY LoyaltyStep
<1> QED  BY <1>1, <1>2, PTL DEF LoyaltySpec

\* The rows of points_ledger, coupon_redemptions and the outbox, and what the
\* calls, drains and sweeps hold, keep their types.
THEOREM LoyaltyTypeCorrect == LoyaltySpec => []LoyaltyTypeOK
<1>1. LoyaltyIInv => LoyaltyTypeOK  BY DEF LoyaltyIInv, BooksOK
<1> QED  BY <1>1, LoyaltyInvariance, PTL

\* used_count is what apply_coupon_redemption and release_coupon_redemption make
\* of it: the redemptions in force, above the cap only where two checkouts had
\* validated the coupon on one count.
THEOREM RedemptionsCounted == LoyaltySpec => []CouponCounted
<1>1. LoyaltyIInv => CouponCounted
  <2> SUFFICES ASSUME LoyaltyIInv PROVE CouponCounted  OBVIOUS
  <2>1. used = Cardinality(Applied) /\ ("coupon" \notin crossed => used <= UsageCap) /\ used \in Nat
    BY DEF LoyaltyIInv, Counted, BooksOK, LoyaltyTypeOK
  <2> QED  BY <2>1, LoyaltyAssumption DEF CouponCounted, Applied
<1> QED  BY <1>1, LoyaltyInvariance, PTL

\* What apply_redemption and sweep_expiry take away came in before, but where
\* quote_redemption and the sweep had read one balance.
THEOREM PointsCovered == LoyaltySpec => []SpentIsCovered
<1>1. LoyaltyIInv => SpentIsCovered
  <2> SUFFICES ASSUME LoyaltyIInv, NEW u \in Users \ crossed
      PROVE  Points(Of(u, {"earn", "restore", "redeem", "expire"})) >= 0
    BY DEF SpentIsCovered
  <2>1. Came(u) >= expiry.due[u] /\ expiry.due[u] \in Nat /\ Came(u) \in Int
    BY CameIsInt DEF LoyaltyIInv, Covered, BooksOK, LoyaltyTypeOK
  <2>2. Came(u) >= 0  BY <2>1
  <2> QED  BY <2>2 DEF Came, Flows
<1> QED  BY <1>1, LoyaltyInvariance, PTL

\* reverse_points, restore_redemption and release_coupon_redemption leave
\* nothing of an order that is cancelled once and granted nothing afterwards.
THEOREM CancellationsUndoInFull == LoyaltySpec => []UndoneInFull
<1>1. LoyaltyIInv => UndoneInFull
  <2> SUFFICES ASSUME LoyaltyIInv, NEW o \in Checkouts,
                      Cardinality(EventsOf(o, {"cancelled"})) = 1,
                      Cardinality(EventsOf(o, {"paid"})) < 2, o \notin late,
                      NEW e \in EventsOf(o, {"cancelled"}), outbox[e] = "handled"
      PROVE  Points(About(ledger, o, EntryKinds)) = 0 /\ redemption[o] # "applied"
    BY DEF UndoneInFull
  <2>1. LoyaltyTypeOK /\ InTurn /\ UndoneIn(o)  BY DEF LoyaltyIInv, BooksOK, Undoing
  <2>2. ASSUME NEW x \in Events, x.order = o, x.nth = 2, outbox[x] # "none" PROVE FALSE
    <3> DEFINE y == [order |-> o, name |-> x.name, nth |-> 1]
               S == EventsOf(o, {x.name})
    <3>1. y \in Events /\ outbox[y] # "none" /\ x # y  BY <2>1, <2>2 DEF Events, InTurn
    <3>2. x \in S /\ y \in S  BY <2>2, <3>1 DEF EventsOf
    <3>3. IsFiniteSet(S) /\ Cardinality(S) \in Nat  BY EventsOfAre
    <3>4. Cardinality(S) < 2  BY <2>2 DEF Events, Names
    <3>5. Cardinality(S) # 0  BY <3>2, <3>3, FS_EmptySet
    <3> HIDE DEF S
    <3>6. Cardinality(S) = 1  BY <3>3, <3>4, <3>5
    <3>7. \E z : S = {z}  BY <3>3, <3>6, FS_Singleton
    <3> QED  BY <3>1, <3>2, <3>7
  <2>3. Once(o)  BY <2>2 DEF Once
  <2>4. e \in Events /\ e.order = o /\ e.name = "cancelled" /\ outbox[e] # "none"  BY DEF EventsOf
  <2>5. e = Cancellation(o)  BY <2>3, <2>4, OneEvent DEF Cancellation
  <2>6. Net(ledger, o) = 0 /\ redemption[o] # "applied"  BY <2>1, <2>3, <2>5 DEF UndoneIn
  <2> QED  BY <2>6 DEF Net
<1> QED  BY <1>1, LoyaltyInvariance, PTL
=============================================================================
