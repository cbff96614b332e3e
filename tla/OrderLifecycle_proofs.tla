----------------------- MODULE OrderLifecycle_proofs -----------------------
(* The order life cycle, proved for any calls, keys, carts, stock and number of *)
(* verifiers.  The invariant says what each stale read still guarantees when its *)
(* write comes: that is what is left of the guard the code evaluated earlier.    *)
EXTENDS OrderLifecycle, Sums, TLAPS

Bank(o) == MethodOf[o] = "bank_transfer"
Count(o, n) == emitted[o][n]

\* What holds of each order, whichever handlers are under way.
OrderOK(o) ==
  /\ status[o] = NoOrder =>
       /\ proof[o] = "none" /\ acting[o] = "idle" /\ o \notin collected
       /\ \A n \in EventNames : Count(o, n) = 0
  /\ status[o] = "pending_payment" => Bank(o)
  /\ status[o] = "cancelled" => Cancelled(o)
  /\ status[o] \in Live => Count(o, "confirmed") > 0
  /\ Count(o, "verified") > 0 <=> proof[o] = "verified"
  /\ Count(o, "paid") = Count(o, "verified") + (IF o \in collected THEN 1 ELSE 0)
  /\ o \in collected => ~ Bank(o)
  /\ proof[o] # "none" => Bank(o)
  /\ o \in overdue => Bank(o)
  /\ Count(o, "cancelled_by_system") > 0 => Bank(o)
  /\ acting[o] = "proving" => Bank(o) /\ proof[o] = "none"
  /\ acting[o] = "receiving" => Count(o, "confirmed") > 0
  /\ \A s \in Sweeps : o \in sweep[s] \union swept[s] => Bank(o) /\ o \in Placed

\* What holds of each POST /orders call.
CallOK(r) ==
  /\ call[r] \in {"idle", "checked"} => status[r] = NoOrder /\ answer[r] = NoOrder
  /\ call[r] = "placed" => r \in Placed /\ answer[r] = NoOrder

\* What a verifier has read and not written yet.
DeskOK(v) == desk[v] # NoOrder => /\ desk[v] \in Placed /\ Bank(desk[v])
                                  /\ proof[desk[v]] # "none"

IInv ==
  /\ TypeOK
  /\ \A o \in Requests : OrderOK(o)
  /\ \A r \in Requests : CallOK(r)
  /\ \A v \in Verifiers : DeskOK(v)
  /\ NoOversell
  /\ OneOrderPerKey
  /\ AnswersOwnKey

-----------------------------------------------------------------------------
(* The helpers the actions are written with.                                  *)

\* Emitting adds one row of each name to one order, and none to any other.
LEMMA EmitAdds ==
  ASSUME TypeOK, NEW o \in Requests, NEW names \in SUBSET EventNames, Emit(o, names)
  PROVE  /\ emitted' \in [Requests -> [EventNames -> Nat]]
         /\ \A q \in Requests : q # o => emitted'[q] = emitted[q]
         /\ \A n \in EventNames :
              emitted'[o][n] = IF n \in names THEN emitted[o][n] + 1 ELSE emitted[o][n]
BY DEF Emit, TypeOK

\* A status written is that order's alone.
LEMMA StatusSet ==
  ASSUME TypeOK, NEW o \in Requests, NEW s \in Statuses, SetStatus(o, s)
  PROVE  /\ status' \in [Requests -> Statuses \union {NoOrder}]
         /\ \A q \in Requests : status'[q] = IF q = o THEN s ELSE status[q]
         /\ s # NoOrder
         /\ Placed' = Placed \union {o}
BY DEF SetStatus, TypeOK, Placed, Statuses, NoOrder

\* Units of a set of orders are counted, and counted once.
LEMMA UnitsAre ==
  ASSUME NEW S \in SUBSET Requests
  PROVE  IsFiniteSet(S) /\ Units(S) \in Nat
<1> DEFINE q == [o \in Requests |-> Qty(o)]
<1>1. \A o \in Requests : q[o] \in Nat
  BY LifecycleAssumption DEF LifecycleAssumption, Qty
<1>2. IsFiniteSet(S)
  BY LifecycleAssumption, FS_Subset DEF LifecycleAssumption
<1> HIDE DEF q
<1>3. SumFunctionOnSet(q, S) \in Nat
  BY <1>1, <1>2, SumNat
<1> QED
  BY <1>2, <1>3 DEF Units, q

\* What a step must leave alone for an order to stay as it should be.
LEMMA OrderKept ==
  ASSUME NEW q \in Requests, OrderOK(q),
         status'[q] = status[q], proof'[q] = proof[q], emitted'[q] = emitted[q],
         acting'[q] = acting[q],
         q \in collected' <=> q \in collected, q \in overdue' => q \in overdue,
         \A s \in Sweeps :
           q \in sweep'[s] \union swept'[s] => q \in sweep[s] \union swept[s]
  PROVE  OrderOK(q)'
BY DEF OrderOK, Count, Bank, Cancelled, Placed

\* ... a call ...
LEMMA CallKept ==
  ASSUME NEW r \in Requests, CallOK(r), call'[r] = call[r], answer'[r] = answer[r],
         status'[r] = NoOrder <=> status[r] = NoOrder
  PROVE  CallOK(r)'
BY DEF CallOK, Placed

\* ... what lies on a desk ...
LEMMA DeskKept ==
  ASSUME TypeOK, NEW v \in Verifiers, DeskOK(v), desk'[v] = desk[v], Placed \subseteq Placed',
         \A q \in Requests : proof[q] # "none" => proof'[q] # "none"
  PROVE  DeskOK(v)'
BY DEF DeskOK, Bank, TypeOK, NoOrder

\* ... and the keys and the answers.
LEMMA KeysKept ==
  ASSUME OneOrderPerKey, AnswersOwnKey, Placed' = Placed, answer' = answer
  PROVE  OneOrderPerKey' /\ AnswersOwnKey'
BY DEF OneOrderPerKey, AnswersOwnKey

-----------------------------------------------------------------------------

\* A call only looks: it ends with an order its key has, a refusal, or a checked cart.
LEMMA BeginPlaceInv ==
  ASSUME IInv, NEW r \in Requests, BeginPlace(r)
  PROVE  IInv'
<1> USE LifecycleAssumption DEF LifecycleAssumption, IInv, BeginPlace, orderVars, sweepVars
<1>0. CASE SameKey(r) # {}
  <2>1. PICK q \in Requests : /\ q \in Placed /\ KeyOf[r] # NoKey /\ KeyOf[q] = KeyOf[r]
                             /\ answer' = [answer EXCEPT ![r] = q]
    BY <1>0 DEF SameKey, Placed
  <2>2. call' = [call EXCEPT ![r] = "done"]
    BY <1>0
  <2> HIDE DEF BeginPlace
  <2>3. UNCHANGED <<status, timeline, proof, emitted, collected, overdue, cart, reserved, debited,
                    acting, desk, sweep, swept, shared, crashes>>
    BY DEF BeginPlace, orderVars, sweepVars
  <2>4. TypeOK'
    BY <2>1, <2>2, <2>3 DEF TypeOK, Placed, NoOrder
  <2>5. ASSUME NEW s \in Requests PROVE OrderOK(s)' /\ CallOK(s)'
    BY <2>1, <2>2, <2>3 DEF OrderOK, CallOK, TypeOK, Placed, Count, Bank, Cancelled, NoOrder
  <2>6. ASSUME NEW w \in Verifiers PROVE DeskOK(w)'
    BY <2>3 DEF DeskOK, Placed, Bank
  <2>7. OneOrderPerKey' /\ AnswersOwnKey'
    BY <2>1, <2>3 DEF OneOrderPerKey, AnswersOwnKey, TypeOK, Placed
  <2> QED
    BY <2>3, <2>4, <2>5, <2>6, <2>7 DEF NoOversell
<1> SUFFICES ASSUME SameKey(r) = {} PROVE IInv'
  BY <1>0
<1>f. \/ answer' = [answer EXCEPT ![r] = "rejected"] /\ call' = [call EXCEPT ![r] = "done"]
      \/ answer' = answer /\ call' = [call EXCEPT ![r] = "checked"]
  OBVIOUS
<1>u. /\ call[r] = "idle"
      /\ UNCHANGED <<status, timeline, proof, emitted, collected, overdue, cart, reserved,
                     debited, acting, desk, sweep, swept, shared, crashes>>
  OBVIOUS
<1> HIDE DEF BeginPlace
<1>1. TypeOK'
  <2>1. answer' \in [Requests -> Requests \union {NoOrder, "rejected"}]
    BY <1>f DEF TypeOK
  <2>2. call' \in [Requests -> {"idle", "checked", "placed", "done"}]
    BY <1>f DEF TypeOK
  <2> QED
    BY <2>1, <2>2, <1>u DEF TypeOK, Placed
<1>2. ASSUME NEW q \in Requests PROVE OrderOK(q)'
  BY <1>u DEF OrderOK, TypeOK, Placed, Count, Bank, Cancelled, NoOrder
<1>3. ASSUME NEW q \in Requests PROVE CallOK(q)'
  BY <1>f, <1>u DEF CallOK, TypeOK, Placed, NoOrder
<1>4. ASSUME NEW w \in Verifiers PROVE DeskOK(w)'
  BY <1>u DEF DeskOK, TypeOK, Placed, Bank, NoOrder
<1>5. NoOversell'
  BY <1>u DEF NoOversell
<1>6. OneOrderPerKey' /\ AnswersOwnKey'
  <2>1. Placed' = Placed
    BY <1>u DEF Placed
  <2>2. \A s \in Requests : answer'[s] \in Requests => answer'[s] = answer[s]
    BY <1>f DEF TypeOK
  <2> QED
    BY <2>1, <2>2 DEF OneOrderPerKey, AnswersOwnKey
<1> QED
  BY <1>1, <1>2, <1>3, <1>4, <1>5, <1>6

\* The guard, the index and the insert are one commit.
LEMMA CommitPlaceInv ==
  ASSUME IInv, NEW r \in Requests, CommitPlace(r)
  PROVE  IInv'
<1> USE LifecycleAssumption DEF LifecycleAssumption, IInv
<1> DEFINE s == IF MethodOf[r] = "cod" THEN "confirmed" ELSE "pending_payment"
<1> DEFINE names == IF MethodOf[r] = "cod" THEN {"placed", "confirmed"} ELSE {"placed"}
<1>s. s \in Statuses /\ names \in SUBSET EventNames
  BY DEF Statuses, EventNames
<1>f. /\ call[r] = "checked" /\ CanCommit(r)
      /\ reserved' = reserved + Qty(r) /\ SetStatus(r, s) /\ Emit(r, names)
      /\ cart' = [cart EXCEPT ![CartOf[r]] = "converted"]
      /\ call' = [call EXCEPT ![r] = "placed"]
      /\ UNCHANGED <<timeline, proof, collected, overdue, debited, answer, acting, desk, sweep,
                     swept, shared, crashes>>
  BY DEF CommitPlace, sweepVars
<1>c. status[r] = NoOrder /\ answer[r] = NoOrder
  BY <1>f DEF CallOK
<1>t. /\ status' \in [Requests -> Statuses \union {NoOrder}]
      /\ \A q \in Requests : status'[q] = IF q = r THEN s ELSE status[q]
      /\ s # NoOrder /\ Placed' = Placed \union {r}
  BY <1>f, <1>s, StatusSet
<1>e. /\ emitted' \in [Requests -> [EventNames -> Nat]]
      /\ \A q \in Requests : q # r => emitted'[q] = emitted[q]
      /\ \A n \in EventNames :
           emitted'[r][n] = IF n \in names THEN emitted[r][n] + 1 ELSE emitted[r][n]
  BY <1>f, <1>s, EmitAdds
<1>m. MethodOf[r] = "cod" \/ Bank(r)
  BY DEF Bank, Methods
<1>q. Qty(r) \in Nat /\ reserved + Qty(r) <= OnHand /\ SameKey(r) = {}
  BY <1>f DEF Qty, TypeOK, CanCommit
<1>1. TypeOK'
  <2>1. cart' \in [Carts -> {"open", "converted"}]
    BY <1>f DEF TypeOK
  <2>2. call' \in [Requests -> {"idle", "checked", "placed", "done"}]
    BY <1>f DEF TypeOK
  <2>3. /\ collected' \subseteq Placed' /\ overdue' \subseteq Placed'
        /\ debited' \subseteq Placed' \intersect Discounted
    BY <1>f, <1>t DEF TypeOK
  <2>4. reserved' \in Nat
    BY <1>f, <1>q DEF TypeOK
  <2> QED
    BY <2>1, <2>2, <2>3, <2>4, <1>f, <1>t, <1>e DEF TypeOK
<1>2. ASSUME NEW q \in Requests PROVE OrderOK(q)'
  <2>1. CASE q # r
    BY <2>1, <1>f, <1>t, <1>e, OrderKept
  <2>2. CASE q = r
    <3>1. /\ proof[r] = "none" /\ acting[r] = "idle"
          /\ r \notin overdue /\ r \notin collected
          /\ \A w \in Sweeps : r \notin sweep[w] \union swept[w]
          /\ \A n \in EventNames : emitted[r][n] = 0
      BY <1>c DEF OrderOK, Placed, TypeOK, Count
    <3>2. /\ emitted'[r]["paid"] = 0 /\ emitted'[r]["verified"] = 0
          /\ emitted'[r]["cancelled_by_system"] = 0
          /\ MethodOf[r] = "cod" => emitted'[r]["confirmed"] = 1
      BY <3>1, <1>e DEF EventNames
    <3>3. status'[r] = s
      BY <1>t
    <3> HIDE DEF names
    <3> QED
      BY <2>2, <3>1, <3>2, <3>3, <1>f, <1>m, <1>t DEF OrderOK, Count, Live, Bank, Placed
  <2> QED
    BY <2>1, <2>2
<1>3. ASSUME NEW q \in Requests PROVE CallOK(q)'
  <2>1. CASE q # r
    BY <2>1, <1>f, <1>t, CallKept DEF TypeOK
  <2>2. CASE q = r
    BY <2>2, <1>f, <1>t, <1>c DEF CallOK, TypeOK
  <2> QED
    BY <2>1, <2>2
<1>4. ASSUME NEW w \in Verifiers PROVE DeskOK(w)'
  BY <1>f, <1>t, DeskKept
<1>5. NoOversell'
  BY <1>f, <1>q DEF NoOversell, TypeOK
<1>6. OneOrderPerKey' /\ AnswersOwnKey'
  <2>1. OneOrderPerKey'
    BY <1>t, <1>q DEF OneOrderPerKey, SameKey
  <2>2. AnswersOwnKey'
    BY <1>f, <1>t DEF AnswersOwnKey
  <2> QED
    BY <2>1, <2>2
<1> QED
  BY <1>1, <1>2, <1>3, <1>4, <1>5, <1>6

\* A refused call leaves no order behind.
LEMMA RejectPlaceInv ==
  ASSUME IInv, NEW r \in Requests, RejectPlace(r)
  PROVE  IInv'
<1> USE LifecycleAssumption DEF LifecycleAssumption, IInv, RejectPlace, orderVars, sweepVars
<1>1. TypeOK'
  BY DEF TypeOK, Placed, NoOrder
<1>2. ASSUME NEW q \in Requests PROVE OrderOK(q)'
  BY DEF OrderOK, TypeOK, Placed, Count, Bank, Cancelled, NoOrder
<1>3. ASSUME NEW q \in Requests PROVE CallOK(q)'
  BY DEF CallOK, TypeOK, Placed, NoOrder
<1>4. ASSUME NEW w \in Verifiers PROVE DeskOK(w)'
  BY DEF DeskOK, TypeOK, Placed, Bank, NoOrder
<1>5. NoOversell'
  BY DEF NoOversell
<1>6. OneOrderPerKey' /\ AnswersOwnKey'
  BY DEF OneOrderPerKey, AnswersOwnKey, TypeOK, Placed
<1> QED
  BY <1>1, <1>2, <1>3, <1>4, <1>5, <1>6

\* The order a call answers with exists and is its own.
LEMMA RedeemInv ==
  ASSUME IInv, NEW r \in Requests, Redeem(r)
  PROVE  IInv'
<1> USE LifecycleAssumption DEF LifecycleAssumption, IInv, Redeem, orderVars, sweepVars
<1>1. TypeOK'
  BY DEF TypeOK, Placed, NoOrder
<1>2. ASSUME NEW q \in Requests PROVE OrderOK(q)'
  BY DEF OrderOK, TypeOK, Placed, Count, Bank, Cancelled, NoOrder
<1>3. ASSUME NEW q \in Requests PROVE CallOK(q)'
  BY DEF CallOK, TypeOK, Placed, NoOrder
<1>4. ASSUME NEW w \in Verifiers PROVE DeskOK(w)'
  BY DEF DeskOK, TypeOK, Placed, Bank, NoOrder
<1>5. NoOversell'
  BY DEF NoOversell
<1>6. OneOrderPerKey' /\ AnswersOwnKey'
  <2>1. r \in Placed /\ Placed' = Placed
    BY DEF CallOK, Placed
  <2>2. \A q \in Requests : answer'[q] = IF q = r THEN r ELSE answer[q]
    BY DEF TypeOK
  <2>3. OneOrderPerKey'
    BY <2>1 DEF OneOrderPerKey
  <2> HIDE DEF Redeem
  <2> QED
    BY <2>1, <2>2, <2>3 DEF AnswersOwnKey
<1> QED
  BY <1>1, <1>2, <1>3, <1>4, <1>5, <1>6

\* A call that dies changes nothing that is committed.
LEMMA CrashCallInv ==
  ASSUME IInv, NEW r \in Requests, CrashCall(r)
  PROVE  IInv'
<1> USE LifecycleAssumption DEF LifecycleAssumption, IInv, CrashCall, orderVars, sweepVars
<1>1. TypeOK'
  BY DEF TypeOK, Placed, NoOrder
<1>2. ASSUME NEW q \in Requests PROVE OrderOK(q)'
  BY DEF OrderOK, TypeOK, Placed, Count, Bank, Cancelled, NoOrder
<1>3. ASSUME NEW q \in Requests PROVE CallOK(q)'
  BY DEF CallOK, TypeOK, Placed, NoOrder
<1>4. ASSUME NEW w \in Verifiers PROVE DeskOK(w)'
  BY DEF DeskOK, TypeOK, Placed, Bank, NoOrder
<1>5. NoOversell'
  BY DEF NoOversell
<1>6. OneOrderPerKey' /\ AnswersOwnKey'
  BY DEF OneOrderPerKey, AnswersOwnKey, TypeOK, Placed
<1> QED
  BY <1>1, <1>2, <1>3, <1>4, <1>5, <1>6

\* A guarded cancellation of an order that had not left the shop.
LEMMA CancelInv ==
  ASSUME IInv, NEW o \in Requests, Cancel(o)
  PROVE  IInv'
<1> USE LifecycleAssumption DEF LifecycleAssumption, IInv
<1>f. /\ status[o] \in {"pending_payment", "confirmed"}
      /\ SetStatus(o, "cancelled") /\ Record(o, {"cancelled"})
      /\ Emit(o, {"cancelled_by_customer"})
      /\ UNCHANGED <<proof, collected, overdue, cart, reserved, debited, call, answer, acting,
                     desk, sweep, swept, shared, crashes>>
  BY DEF Cancel, orderVars, sweepVars
<1>p. o \in Placed
  BY <1>f DEF Placed, NoOrder
<1>t. /\ status' \in [Requests -> Statuses \union {NoOrder}]
      /\ \A q \in Requests : status'[q] = IF q = o THEN "cancelled" ELSE status[q]
      /\ Placed' = Placed
  <2>1. "cancelled" \in Statuses
    BY DEF Statuses
  <2> QED
    BY <1>f, <1>p, <2>1, StatusSet DEF Placed
<1>e. /\ emitted' \in [Requests -> [EventNames -> Nat]]
      /\ \A q \in Requests : q # o => emitted'[q] = emitted[q]
      /\ \A n \in EventNames :
           emitted'[o][n] = IF n \in {"cancelled_by_customer"} THEN emitted[o][n] + 1 ELSE emitted[o][n]
  <2>1. {"cancelled_by_customer"} \in SUBSET EventNames
    BY DEF EventNames
  <2> QED
    BY <1>f, <2>1, EmitAdds
<1>1. TypeOK'
  BY <1>f, <1>t, <1>e DEF TypeOK, Record, Statuses
<1>2. ASSUME NEW q \in Requests PROVE OrderOK(q)'
  <2>1. CASE q # o
    BY <2>1, <1>f, <1>t, <1>e, OrderKept DEF TypeOK
  <2>2. CASE q = o
    <3>1. emitted'[o]["cancelled_by_customer"] > 0
      BY <1>e DEF EventNames, TypeOK
    <3>2. /\ emitted'[o]["confirmed"] = emitted[o]["confirmed"]
          /\ emitted'[o]["paid"] = emitted[o]["paid"]
          /\ emitted'[o]["verified"] = emitted[o]["verified"]
          /\ emitted'[o]["cancelled_by_system"] = emitted[o]["cancelled_by_system"]
      BY <1>e DEF EventNames
    <3>3. Cancelled(o)'
      BY <3>1 DEF Cancelled, Cancellations
    <3>4. status'[o] = "cancelled"
      BY <1>t
    <3>5. OrderOK(o) /\ o \in Placed
      BY <1>p
    <3> QED
      BY <2>2, <3>2, <3>3, <3>4, <3>5, <1>f, <1>t DEF OrderOK, Count, Live, Bank, NoOrder
  <2> QED
    BY <2>1, <2>2
<1>3. ASSUME NEW q \in Requests PROVE CallOK(q)'
  BY <1>f, <1>p, <1>t, CallKept DEF Placed
<1>4. ASSUME NEW w \in Verifiers PROVE DeskOK(w)'
  BY <1>f, <1>t, DeskKept
<1>5. NoOversell'
  BY <1>f DEF NoOversell
<1>6. OneOrderPerKey' /\ AnswersOwnKey'
  <2>1. Placed' = Placed
    BY <1>p, <1>t
  <2> QED
    BY <2>1, <1>f, KeysKept
<1> QED
  BY <1>1, <1>2, <1>3, <1>4, <1>5, <1>6

\* Only a transfer order waits for a proof.
LEMMA BeginProofInv ==
  ASSUME IInv, NEW o \in Requests, BeginProof(o)
  PROVE  IInv'
<1> USE LifecycleAssumption DEF LifecycleAssumption, IInv, BeginProof, orderVars, sweepVars
<1>1. TypeOK'
  BY DEF TypeOK, Placed, NoOrder
<1>2. ASSUME NEW q \in Requests PROVE OrderOK(q)'
  BY DEF OrderOK, TypeOK, Placed, Count, Bank, Cancelled, NoOrder
<1>3. ASSUME NEW q \in Requests PROVE CallOK(q)'
  BY DEF CallOK, TypeOK, Placed, NoOrder
<1>4. ASSUME NEW w \in Verifiers PROVE DeskOK(w)'
  BY DEF DeskOK, TypeOK, Placed, Bank, NoOrder
<1>5. NoOversell'
  BY DEF NoOversell
<1>6. OneOrderPerKey' /\ AnswersOwnKey'
  BY DEF OneOrderPerKey, AnswersOwnKey, TypeOK, Placed
<1> QED
  BY <1>1, <1>2, <1>3, <1>4, <1>5, <1>6

\* The late proof row still belongs to a transfer order.
LEMMA CommitProofInv ==
  ASSUME IInv, NEW o \in Requests, CommitProof(o)
  PROVE  IInv'
<1> USE LifecycleAssumption DEF LifecycleAssumption, IInv
<1>f. /\ acting[o] = "proving" /\ proof' = [proof EXCEPT ![o] = "pending"]
      /\ Emit(o, {"proof_submitted"})
      /\ acting' = [acting EXCEPT ![o] = "idle"]
      /\ UNCHANGED <<status, timeline, collected, overdue, cart, reserved, debited, call, answer,
                     desk, sweep, swept, shared, crashes>>
  BY DEF CommitProof, orderVars, sweepVars
<1>p. o \in Placed /\ OrderOK(o)
  BY <1>f DEF OrderOK, Placed
<1>t. status' = status /\ Placed' = Placed
  BY <1>f DEF Placed
<1>e. /\ emitted' \in [Requests -> [EventNames -> Nat]]
      /\ \A q \in Requests : q # o => emitted'[q] = emitted[q]
      /\ \A n \in EventNames :
           emitted'[o][n] = IF n \in {"proof_submitted"} THEN emitted[o][n] + 1 ELSE emitted[o][n]
  <2>1. {"proof_submitted"} \in SUBSET EventNames
    BY DEF EventNames
  <2> QED
    BY <1>f, <2>1, EmitAdds
<1>1. TypeOK'
  BY <1>f, <1>t, <1>e DEF TypeOK
<1>2. ASSUME NEW q \in Requests PROVE OrderOK(q)'
  <2>1. CASE q # o
    BY <2>1, <1>f, <1>t, <1>e, OrderKept DEF TypeOK
  <2>2. CASE q = o
    <3>1. /\ emitted'[o]["confirmed"] = emitted[o]["confirmed"]
          /\ emitted'[o]["paid"] = emitted[o]["paid"]
          /\ emitted'[o]["verified"] = emitted[o]["verified"]
          /\ emitted'[o]["cancelled_by_system"] = emitted[o]["cancelled_by_system"]
      BY <1>e DEF EventNames
    <3>2. \A n \in EventNames : emitted[o][n] > 0 => emitted'[o][n] > 0
      <4> TAKE n \in EventNames
      <4>1. emitted[o][n] \in Nat
        BY DEF TypeOK
      <4>2. emitted'[o][n] = emitted[o][n] \/ emitted'[o][n] = emitted[o][n] + 1
        BY <1>e
      <4> QED
        BY <4>1, <4>2
    <3>3. Cancelled(o) => Cancelled(o)'
      BY <3>2 DEF Cancelled, Cancellations, EventNames
    <3>4. proof'[o] = "pending" /\ acting'[o] = "idle"
      BY <1>f DEF TypeOK
    <3> QED
      BY <2>2, <3>1, <3>3, <3>4, <1>f, <1>p, <1>t DEF OrderOK, Count, Bank, Placed
  <2> QED
    BY <2>1, <2>2
<1>3. ASSUME NEW q \in Requests PROVE CallOK(q)'
  BY <1>f, <1>p, <1>t, CallKept DEF Placed
<1>4. ASSUME NEW w \in Verifiers PROVE DeskOK(w)'
  BY <1>f, <1>t, DeskKept DEF TypeOK
<1>5. NoOversell'
  BY <1>f DEF NoOversell
<1>6. OneOrderPerKey' /\ AnswersOwnKey'
  <2>1. Placed' = Placed
    BY <1>p, <1>t
  <2> QED
    BY <2>1, <1>f, KeysKept
<1> QED
  BY <1>1, <1>2, <1>3, <1>4, <1>5, <1>6

\* Only a confirmed order can have been delivered.
LEMMA BeginReceiptInv ==
  ASSUME IInv, NEW o \in Requests, BeginReceipt(o)
  PROVE  IInv'
<1> USE LifecycleAssumption DEF LifecycleAssumption, IInv, BeginReceipt, orderVars, sweepVars
<1>1. TypeOK'
  BY DEF TypeOK, Placed, NoOrder
<1>2. ASSUME NEW q \in Requests PROVE OrderOK(q)'
  <2>1. CASE q # o
    BY <2>1, OrderKept DEF TypeOK
  <2>2. CASE q = o
    <3>1. emitted[o]["confirmed"] > 0
      BY DEF OrderOK, Live, Count
    <3> QED
      BY <2>2, <3>1 DEF OrderOK, Count, Bank, Cancelled, Placed, TypeOK, NoOrder
  <2> QED
    BY <2>1, <2>2
<1>3. ASSUME NEW q \in Requests PROVE CallOK(q)'
  BY DEF CallOK, TypeOK, Placed, NoOrder
<1>4. ASSUME NEW w \in Verifiers PROVE DeskOK(w)'
  BY DEF DeskOK, TypeOK, Placed, Bank, NoOrder
<1>5. NoOversell'
  BY DEF NoOversell
<1>6. OneOrderPerKey' /\ AnswersOwnKey'
  BY DEF OneOrderPerKey, AnswersOwnKey, TypeOK, Placed
<1> QED
  BY <1>1, <1>2, <1>3, <1>4, <1>5, <1>6

\* The late receipt still belongs to a confirmed order.
LEMMA CommitReceiptInv ==
  ASSUME IInv, NEW o \in Requests, CommitReceipt(o)
  PROVE  IInv'
<1> USE LifecycleAssumption DEF LifecycleAssumption, IInv
<1>f. /\ acting[o] = "receiving"
      /\ SetStatus(o, "confirmed_received") /\ Record(o, {"confirmed_received"})
      /\ acting' = [acting EXCEPT ![o] = "idle"]
      /\ UNCHANGED <<proof, emitted, collected, overdue, cart, reserved, debited, call, answer,
                     desk, sweep, swept, shared, crashes>>
  BY DEF CommitReceipt, orderVars, sweepVars
<1>p. o \in Placed
  BY <1>f DEF OrderOK, Placed
<1>t. /\ status' \in [Requests -> Statuses \union {NoOrder}]
      /\ \A q \in Requests : status'[q] = IF q = o THEN "confirmed_received" ELSE status[q]
      /\ Placed' = Placed
  <2>1. "confirmed_received" \in Statuses
    BY DEF Statuses
  <2>2. /\ status' \in [Requests -> Statuses \union {NoOrder}]
        /\ \A q \in Requests : status'[q] = IF q = o THEN "confirmed_received" ELSE status[q]
        /\ Placed' = Placed \union {o}
    <3>1. TypeOK
      OBVIOUS
    <3>2. SetStatus(o, "confirmed_received")
      BY <1>f
    <3> HIDE DEF IInv
    <3> QED BY ONLY <2>1, <3>1, <3>2, StatusSet
  <2> QED
    BY <1>p, <2>2
<1>e. emitted' = emitted /\ emitted \in [Requests -> [EventNames -> Nat]]
  BY <1>f DEF TypeOK
<1>1. TypeOK'
  <2>1. timeline' \in [Requests -> SUBSET (Statuses \union {"paid"})]
    BY <1>f DEF TypeOK, Record, Statuses
  <2>2. acting' \in [Requests -> {"idle", "proving", "receiving"}]
    BY <1>f DEF TypeOK
  <2> QED
    BY <1>f, <1>t, <1>e, <2>1, <2>2 DEF TypeOK
<1>2. ASSUME NEW q \in Requests PROVE OrderOK(q)'
  <2>1. CASE q # o
    BY <2>1, <1>f, <1>t, <1>e, OrderKept DEF TypeOK
  <2>2. CASE q = o
    <3>1. status'[o] = "confirmed_received" /\ acting'[o] = "idle"
      BY <1>f, <1>t DEF TypeOK
    <3>2. OrderOK(o) /\ o \in Placed
      BY <1>p
    <3> QED
      BY <2>2, <3>1, <3>2, <1>f, <1>t DEF OrderOK, Count, Bank, NoOrder
  <2> QED
    BY <2>1, <2>2
<1>3. ASSUME NEW q \in Requests PROVE CallOK(q)'
  BY <1>f, <1>p, <1>t, CallKept DEF Placed
<1>4. ASSUME NEW w \in Verifiers PROVE DeskOK(w)'
  BY <1>f, <1>t, DeskKept
<1>5. NoOversell'
  BY <1>f DEF NoOversell
<1>6. OneOrderPerKey' /\ AnswersOwnKey'
  <2>1. Placed' = Placed
    BY <1>p, <1>t
  <2> QED
    BY <2>1, <1>f, KeysKept
<1> QED
  BY <1>1, <1>2, <1>3, <1>4, <1>5, <1>6

\* A guarded cancellation by an admin.
LEMMA ForceCancelInv ==
  ASSUME IInv, NEW o \in Requests, ForceCancel(o)
  PROVE  IInv'
<1> USE LifecycleAssumption DEF LifecycleAssumption, IInv
<1>f. /\ status[o] # NoOrder
      /\ SetStatus(o, "cancelled") /\ Emit(o, {"cancelled_by_admin"})
      /\ UNCHANGED <<timeline, proof, collected, overdue, cart, reserved, debited, call, answer,
                     acting, desk, sweep, swept, shared, crashes>>
  BY DEF ForceCancel, orderVars, sweepVars
<1>p. o \in Placed
  BY <1>f DEF Placed
<1>t. /\ status' \in [Requests -> Statuses \union {NoOrder}]
      /\ \A q \in Requests : status'[q] = IF q = o THEN "cancelled" ELSE status[q]
      /\ Placed' = Placed
  <2>1. "cancelled" \in Statuses
    BY DEF Statuses
  <2> QED
    BY <1>f, <1>p, <2>1, StatusSet DEF Placed
<1>e. /\ emitted' \in [Requests -> [EventNames -> Nat]]
      /\ \A q \in Requests : q # o => emitted'[q] = emitted[q]
      /\ \A n \in EventNames :
           emitted'[o][n] = IF n \in {"cancelled_by_admin"} THEN emitted[o][n] + 1 ELSE emitted[o][n]
  <2>1. {"cancelled_by_admin"} \in SUBSET EventNames
    BY DEF EventNames
  <2> QED
    BY <1>f, <2>1, EmitAdds
<1>1. TypeOK'
  BY <1>f, <1>t, <1>e DEF TypeOK
<1>2. ASSUME NEW q \in Requests PROVE OrderOK(q)'
  <2>1. CASE q # o
    BY <2>1, <1>f, <1>t, <1>e, OrderKept DEF TypeOK
  <2>2. CASE q = o
    <3>1. emitted'[o]["cancelled_by_admin"] > 0
      BY <1>e DEF EventNames, TypeOK
    <3>2. /\ emitted'[o]["confirmed"] = emitted[o]["confirmed"]
          /\ emitted'[o]["paid"] = emitted[o]["paid"]
          /\ emitted'[o]["verified"] = emitted[o]["verified"]
          /\ emitted'[o]["cancelled_by_system"] = emitted[o]["cancelled_by_system"]
      BY <1>e DEF EventNames
    <3>3. Cancelled(o)'
      BY <3>1 DEF Cancelled, Cancellations
    <3>4. status'[o] = "cancelled"
      BY <1>t
    <3>5. OrderOK(o) /\ o \in Placed
      BY <1>p
    <3> QED
      BY <2>2, <3>2, <3>3, <3>4, <3>5, <1>f, <1>t DEF OrderOK, Count, Live, Bank, NoOrder
  <2> QED
    BY <2>1, <2>2
<1>3. ASSUME NEW q \in Requests PROVE CallOK(q)'
  BY <1>f, <1>p, <1>t, CallKept DEF Placed
<1>4. ASSUME NEW w \in Verifiers PROVE DeskOK(w)'
  BY <1>f, <1>t, DeskKept
<1>5. NoOversell'
  BY <1>f DEF NoOversell
<1>6. OneOrderPerKey' /\ AnswersOwnKey'
  <2>1. Placed' = Placed
    BY <1>p, <1>t
  <2> QED
    BY <2>1, <1>f, KeysKept
<1> QED
  BY <1>1, <1>2, <1>3, <1>4, <1>5, <1>6

\* What lies on a desk is a transfer order with a payment row.
LEMMA BeginVerifyInv ==
  ASSUME IInv, NEW v \in Verifiers, NEW o \in Requests, BeginVerify(v, o)
  PROVE  IInv'
<1> USE LifecycleAssumption DEF LifecycleAssumption, IInv, BeginVerify, orderVars, sweepVars
<1>1. TypeOK'
  BY DEF TypeOK, Placed, NoOrder
<1>2. ASSUME NEW q \in Requests PROVE OrderOK(q)'
  BY DEF OrderOK, TypeOK, Placed, Count, Bank, Cancelled, NoOrder
<1>3. ASSUME NEW q \in Requests PROVE CallOK(q)'
  BY DEF CallOK, TypeOK, Placed, NoOrder
<1>4. ASSUME NEW w \in Verifiers PROVE DeskOK(w)'
  <2>1. CASE w # v
    BY <2>1, DeskKept DEF TypeOK, Placed
  <2>2. CASE w = v
    <3>1. OrderOK(o) /\ desk'[v] = o /\ Placed' = Placed
      BY DEF TypeOK, Placed
    <3> QED
      BY <2>2, <3>1 DEF OrderOK, DeskOK, Placed, Bank, NoOrder
  <2> QED
    BY <2>1, <2>2
<1>5. NoOversell'
  BY DEF NoOversell
<1>6. OneOrderPerKey' /\ AnswersOwnKey'
  BY DEF OneOrderPerKey, AnswersOwnKey, TypeOK, Placed
<1> QED
  BY <1>1, <1>2, <1>3, <1>4, <1>5, <1>6

\* The unguarded write of a verification, and the three events it commits.
LEMMA CommitVerifyInv ==
  ASSUME IInv, NEW v \in Verifiers, CommitVerify(v)
  PROVE  IInv'
<1> USE LifecycleAssumption DEF LifecycleAssumption, IInv
<1>0. PICK o \in Requests : /\ desk[v] = o
                            /\ proof' = [proof EXCEPT ![o] = "verified"]
                            /\ SetStatus(o, "confirmed") /\ Record(o, {"paid", "confirmed"})
                            /\ Emit(o, {"verified", "paid", "confirmed"})
  BY DEF CommitVerify
<1>f. /\ proof' = [proof EXCEPT ![o] = "verified"]
      /\ SetStatus(o, "confirmed") /\ Record(o, {"paid", "confirmed"})
      /\ Emit(o, {"verified", "paid", "confirmed"})
      /\ desk' = [desk EXCEPT ![v] = NoOrder]
      /\ UNCHANGED <<collected, overdue, cart, reserved, debited, call, answer, acting, sweep,
                     swept, shared, crashes>>
  BY <1>0 DEF CommitVerify, orderVars, sweepVars
<1>p. o \in Placed /\ Bank(o)
  BY <1>0 DEF DeskOK, NoOrder, Placed
<1>t. /\ status' \in [Requests -> Statuses \union {NoOrder}]
      /\ \A q \in Requests : status'[q] = IF q = o THEN "confirmed" ELSE status[q]
      /\ Placed' = Placed
  <2>1. "confirmed" \in Statuses
    BY DEF Statuses
  <2> QED
    BY <1>f, <1>p, <2>1, StatusSet DEF Placed
<1>e. /\ emitted' \in [Requests -> [EventNames -> Nat]]
      /\ \A q \in Requests : q # o => emitted'[q] = emitted[q]
      /\ \A n \in EventNames :
           emitted'[o][n] = IF n \in {"verified", "paid", "confirmed"} THEN emitted[o][n] + 1 ELSE emitted[o][n]
  <2>1. {"verified", "paid", "confirmed"} \in SUBSET EventNames
    BY DEF EventNames
  <2> QED
    BY <1>f, <2>1, EmitAdds
<1>1. TypeOK'
  BY <1>f, <1>t, <1>e DEF TypeOK, Record, Statuses
<1>2. ASSUME NEW q \in Requests PROVE OrderOK(q)'
  <2>1. CASE q # o
    BY <2>1, <1>f, <1>t, <1>e, OrderKept DEF TypeOK
  <2>2. CASE q = o
    <3>1. /\ emitted'[o]["confirmed"] = emitted[o]["confirmed"] + 1
          /\ emitted'[o]["paid"] = emitted[o]["paid"] + 1
          /\ emitted'[o]["verified"] = emitted[o]["verified"] + 1
          /\ emitted'[o]["cancelled_by_system"] = emitted[o]["cancelled_by_system"]
      BY <1>e DEF EventNames
    <3>2. status'[o] = "confirmed" /\ proof'[o] = "verified"
      BY <1>f, <1>t DEF TypeOK
    <3>3. \A n \in EventNames : emitted[o][n] \in Nat
      BY DEF TypeOK
    <3>4. /\ emitted[o]["confirmed"] \in Nat /\ emitted[o]["paid"] \in Nat
          /\ emitted[o]["verified"] \in Nat
      BY <3>3 DEF EventNames
    <3>5. OrderOK(o) /\ o \in Placed
      BY <1>p
    <3>6. acting'[o] # "proving"
      BY <3>5, <1>f, <1>0 DEF OrderOK, DeskOK, NoOrder
    <3> QED
      BY <2>2, <3>1, <3>2, <3>4, <3>5, <3>6, <1>f, <1>p, <1>t DEF OrderOK, Count, Bank, NoOrder
  <2> QED
    BY <2>1, <2>2
<1>3. ASSUME NEW q \in Requests PROVE CallOK(q)'
  BY <1>f, <1>p, <1>t, CallKept DEF Placed
<1>4. ASSUME NEW w \in Verifiers PROVE DeskOK(w)'
  <2>1. CASE w # v
    BY <2>1, <1>f, <1>t, DeskKept DEF TypeOK
  <2>2. CASE w = v
    BY <2>2, <1>f DEF DeskOK, TypeOK
  <2> QED
    BY <2>1, <2>2
<1>5. NoOversell'
  BY <1>f DEF NoOversell
<1>6. OneOrderPerKey' /\ AnswersOwnKey'
  <2>1. Placed' = Placed
    BY <1>p, <1>t
  <2> QED
    BY <2>1, <1>f, KeysKept
<1> QED
  BY <1>1, <1>2, <1>3, <1>4, <1>5, <1>6

\* Only a transfer order runs out of time.
LEMMA ExpireInv ==
  ASSUME IInv, NEW o \in Requests, Expire(o)
  PROVE  IInv'
<1> USE LifecycleAssumption DEF LifecycleAssumption, IInv, Expire, orderVars, sweepVars
<1>1. TypeOK'
  BY DEF TypeOK, Placed, NoOrder
<1>2. ASSUME NEW q \in Requests PROVE OrderOK(q)'
  BY DEF OrderOK, TypeOK, Placed, Count, Bank, Cancelled, NoOrder
<1>3. ASSUME NEW q \in Requests PROVE CallOK(q)'
  BY DEF CallOK, TypeOK, Placed, NoOrder
<1>4. ASSUME NEW w \in Verifiers PROVE DeskOK(w)'
  BY DEF DeskOK, TypeOK, Placed, Bank, NoOrder
<1>5. NoOversell'
  BY DEF NoOversell
<1>6. OneOrderPerKey' /\ AnswersOwnKey'
  BY DEF OneOrderPerKey, AnswersOwnKey, TypeOK, Placed
<1> QED
  BY <1>1, <1>2, <1>3, <1>4, <1>5, <1>6

\* A sweep selects transfer orders only.
LEMMA BeginSweepInv ==
  ASSUME IInv, NEW w \in Sweeps, BeginSweep(w)
  PROVE  IInv'
<1> USE LifecycleAssumption DEF LifecycleAssumption, IInv
<1>f. /\ sweep' = [sweep EXCEPT ![w] = Sweepable]
      /\ shared' = shared \union (Sweepable \intersect InHand)
      /\ UNCHANGED <<status, timeline, proof, emitted, collected, overdue, cart, reserved, debited,
                     call, answer, acting, desk, swept, crashes>>
  BY DEF BeginSweep, orderVars
<1>0. Sweepable \subseteq overdue /\ overdue \subseteq Requests /\ Placed' = Placed
  BY <1>f DEF Sweepable, TypeOK, Placed
<1>1. TypeOK'
  <2>1. sweep' \in [Sweeps -> SUBSET Requests] /\ shared' \subseteq Requests
    BY <1>f, <1>0 DEF TypeOK
  <2> QED
    BY <1>f, <1>0, <2>1 DEF TypeOK
<1>2. ASSUME NEW q \in Requests PROVE OrderOK(q)'
  <2>1. ASSUME NEW x \in Sweeps, q \in sweep'[x] \union swept'[x]
        PROVE  Bank(q) /\ q \in Placed
    <3>1. q \in sweep[x] \union swept[x] \/ q \in overdue
      BY <1>f, <1>0, <2>1 DEF TypeOK
    <3> QED
      BY <1>0, <3>1 DEF OrderOK, TypeOK
  <2>2. OrderOK(q)
    OBVIOUS
  <2> QED
    BY <1>f, <1>0, <2>1, <2>2 DEF OrderOK, Count, Bank, Cancelled
<1>3. ASSUME NEW q \in Requests PROVE CallOK(q)'
  BY <1>f, CallKept
<1>4. ASSUME NEW v \in Verifiers PROVE DeskOK(v)'
  BY <1>f, <1>0, DeskKept
<1>5. NoOversell' /\ OneOrderPerKey' /\ AnswersOwnKey'
  BY <1>f, <1>0, KeysKept DEF NoOversell
<1> QED
  BY <1>1, <1>2, <1>3, <1>4, <1>5

\* Uncommitted work of a sweep, done or dropped, concerns no order it had not
\* selected.
LEMMA SweepStepInv ==
  ASSUME IInv, NEW w \in Sweeps,
         CrashSweep(w) \/ \E o \in Requests : ReleaseLines(w, o)
  PROVE  IInv'
<1> USE LifecycleAssumption DEF LifecycleAssumption, IInv
<1>f. UNCHANGED <<status, timeline, proof, emitted, collected, overdue, cart, reserved, debited,
                  call, answer, acting, desk, shared>>
  BY DEF CrashSweep, ReleaseLines, orderVars
<1>s. /\ sweep' \in [Sweeps -> SUBSET Requests] /\ swept' \in [Sweeps -> SUBSET Requests]
      /\ \A x \in Sweeps : sweep'[x] \union swept'[x] \subseteq sweep[x] \union swept[x]
      /\ crashes' \in 0 .. MaxCrashes
  <2>1. CASE CrashSweep(w)
    BY <2>1 DEF CrashSweep, TypeOK
  <2>2. ASSUME NEW o \in Requests, ReleaseLines(w, o)
        PROVE  /\ sweep' = [sweep EXCEPT ![w] = sweep[w] \ {o}]
               /\ swept' = [swept EXCEPT ![w] = swept[w] \union {o}]
               /\ o \in sweep[w] /\ crashes' = crashes
    BY <2>2 DEF ReleaseLines
  <2>3. CASE \E o \in Requests : ReleaseLines(w, o)
    <3>1. PICK o \in Requests : ReleaseLines(w, o)
      BY <2>3
    <3>2. /\ sweep' = [sweep EXCEPT ![w] = sweep[w] \ {o}]
          /\ swept' = [swept EXCEPT ![w] = swept[w] \union {o}]
          /\ o \in sweep[w] /\ crashes' = crashes
      BY <3>1, <2>2
    <3>3. /\ sweep \in [Sweeps -> SUBSET Requests] /\ swept \in [Sweeps -> SUBSET Requests]
          /\ crashes \in 0 .. MaxCrashes
      BY DEF TypeOK
    <3> HIDE DEF IInv
    <3>4. /\ sweep' \in [Sweeps -> SUBSET Requests] /\ swept' \in [Sweeps -> SUBSET Requests]
          /\ crashes' \in 0 .. MaxCrashes
      BY <3>2, <3>3
    <3>5. \A x \in Sweeps : sweep'[x] \union swept'[x] \subseteq sweep[x] \union swept[x]
      BY <3>2, <3>3
    <3> QED
      BY <3>4, <3>5
  <2> QED
    BY <2>1, <2>3
<1>0. Placed' = Placed
  BY <1>f DEF Placed
<1>1. TypeOK'
  BY <1>f, <1>s, <1>0 DEF TypeOK
<1>2. ASSUME NEW q \in Requests PROVE OrderOK(q)'
  BY <1>f, <1>s, OrderKept
<1>3. ASSUME NEW q \in Requests PROVE CallOK(q)'
  BY <1>f, CallKept
<1>4. ASSUME NEW v \in Verifiers PROVE DeskOK(v)'
  BY <1>f, <1>0, DeskKept
<1>5. NoOversell' /\ OneOrderPerKey' /\ AnswersOwnKey'
  BY <1>f, <1>0, KeysKept DEF NoOversell
<1> QED
  BY <1>1, <1>2, <1>3, <1>4, <1>5

\* Stock goes back, every order swept is announced cancelled.
LEMMA CommitSweepInv ==
  ASSUME IInv, NEW w \in Sweeps, CommitSweep(w)
  PROVE  IInv'
<1> USE LifecycleAssumption DEF LifecycleAssumption, IInv
<1> DEFINE S == swept[w]
<1>f. /\ S \in SUBSET Requests
      /\ reserved' = Release(Units(S)) /\ swept' = [swept EXCEPT ![w] = {}]
      /\ UNCHANGED <<timeline, proof, collected, overdue, cart, debited, call, answer, acting, desk,
                     sweep, shared, crashes>>
  BY DEF CommitSweep, TypeOK
<1>p. \A q \in S : q \in Placed /\ Bank(q)
  BY <1>f DEF OrderOK
<1>t. /\ status' \in [Requests -> Statuses \union {NoOrder}]
      /\ \A q \in Requests : status'[q] = IF q \in S THEN "cancelled" ELSE status[q]
      /\ Placed' = Placed
  <2>1. status' = [q \in Requests |-> IF q \in S THEN "cancelled" ELSE status[q]]
    BY DEF CommitSweep
  <2> QED
    BY <2>1, <1>p DEF Placed, TypeOK, Statuses, NoOrder
<1>e. /\ emitted' \in [Requests -> [EventNames -> Nat]]
      /\ \A q \in Requests : q \notin S => emitted'[q] = emitted[q]
      /\ \A q \in S : \A n \in EventNames :
           emitted'[q][n] = IF n = "cancelled_by_system" THEN emitted[q][n] + 1 ELSE emitted[q][n]
  <2>1. emitted' = [q \in Requests |->
                      IF q \in S THEN [emitted[q] EXCEPT !["cancelled_by_system"] = @ + 1]
                      ELSE emitted[q]]
    BY DEF CommitSweep
  <2> QED
    BY <2>1, <1>f DEF TypeOK, EventNames
<1>s. /\ swept' \in [Sweeps -> SUBSET Requests]
      /\ \A x \in Sweeps : swept'[x] \subseteq swept[x]
  BY <1>f DEF TypeOK
<1>r. reserved' \in Nat /\ reserved' <= reserved
  <2>1. Units(S) \in Nat
    <3> HIDE DEF S
    <3> QED
      BY <1>f, UnitsAre
  <2> HIDE DEF S
  <2> QED
    BY <1>f, <2>1 DEF Release, TypeOK
<1> HIDE DEF S
<1>1. TypeOK'
  BY <1>f, <1>t, <1>e, <1>r, <1>s DEF TypeOK
<1>2. ASSUME NEW q \in Requests PROVE OrderOK(q)'
  <2>1. CASE q \notin S
    BY <2>1, <1>f, <1>t, <1>e, <1>s, OrderKept
  <2>2. CASE q \in S
    <3>1. /\ emitted'[q]["confirmed"] = emitted[q]["confirmed"]
          /\ emitted'[q]["paid"] = emitted[q]["paid"]
          /\ emitted'[q]["verified"] = emitted[q]["verified"]
      BY <2>2, <1>e DEF EventNames
    <3>2. emitted'[q]["cancelled_by_system"] > 0
      BY <2>2, <1>e DEF EventNames, TypeOK
    <3>3. Cancelled(q)'
      BY <3>2 DEF Cancelled, Cancellations
    <3>4. status'[q] = "cancelled" /\ q \in Placed' /\ Bank(q)
      BY <2>2, <1>t, <1>p
    <3> QED
      BY <3>1, <3>3, <3>4, <1>f, <1>s DEF OrderOK, Count, Live, Bank, NoOrder
  <2> QED
    BY <2>1, <2>2
<1>3. ASSUME NEW q \in Requests PROVE CallOK(q)'
  BY <1>f, <1>p, <1>t, CallKept DEF Placed, NoOrder
<1>4. ASSUME NEW v \in Verifiers PROVE DeskOK(v)'
  BY <1>f, <1>t, DeskKept
<1>5. NoOversell'
  BY <1>r DEF NoOversell, TypeOK
<1>6. OneOrderPerKey' /\ AnswersOwnKey'
  BY <1>f, <1>t, KeysKept
<1> QED
  BY <1>1, <1>2, <1>3, <1>4, <1>5, <1>6

\* The mirror writes only orders that were confirmed.
LEMMA CourierInv ==
  ASSUME IInv, NEW o \in Requests, Courier(o)
  PROVE  IInv'
<1> USE LifecycleAssumption DEF LifecycleAssumption, IInv
<1>f. /\ status[o] \in MirrorFrom
      /\ UNCHANGED <<timeline, proof, emitted, collected, overdue, cart, reserved, debited, call,
                     answer, acting, desk, sweep, swept, shared, crashes>>
  BY DEF Courier, orderVars, sweepVars
<1>0. PICK stop \in Stops : SetStatus(o, stop)
  BY DEF Courier
<1>p. o \in Placed
  BY <1>f DEF MirrorFrom, Placed, NoOrder
<1>t. /\ status' \in [Requests -> Statuses \union {NoOrder}]
      /\ \A q \in Requests : status'[q] = IF q = o THEN stop ELSE status[q]
      /\ stop # NoOrder /\ Placed' = Placed
  <2>1. stop \in Statuses
    BY DEF Stops, Statuses
  <2>2. /\ status' \in [Requests -> Statuses \union {NoOrder}]
        /\ \A q \in Requests : status'[q] = IF q = o THEN stop ELSE status[q]
        /\ stop # NoOrder /\ Placed' = Placed \union {o}
    <3>1. TypeOK
      OBVIOUS
    <3> HIDE DEF IInv
    <3> QED BY ONLY <1>0, <2>1, <3>1, StatusSet
  <2> QED
    BY <1>p, <2>2
<1>e. emitted' = emitted /\ emitted \in [Requests -> [EventNames -> Nat]]
  BY <1>f DEF TypeOK
<1>1. TypeOK'
  BY <1>f, <1>t, <1>e DEF TypeOK
<1>2. ASSUME NEW q \in Requests PROVE OrderOK(q)'
  <2>1. CASE q # o
    BY <2>1, <1>f, <1>t, <1>e, OrderKept
  <2>2. CASE q = o
    <3>1. OrderOK(o) /\ emitted[o]["confirmed"] > 0
      BY <1>f DEF OrderOK, MirrorFrom, Live, Count
    <3>2. status'[o] \in {"picked_up", "en_route", "delivered"}
      BY <1>t DEF Stops
    <3>3. Cancelled(o)' <=> Cancelled(o)
      BY <1>e DEF Cancelled
    <3> QED
      BY <2>2, <3>1, <3>2, <3>3, <1>f, <1>p, <1>t DEF OrderOK, Count, Bank, NoOrder, Placed
  <2> QED
    BY <2>1, <2>2
<1>3. ASSUME NEW q \in Requests PROVE CallOK(q)'
  BY <1>f, <1>p, <1>t, CallKept DEF Placed
<1>4. ASSUME NEW w \in Verifiers PROVE DeskOK(w)'
  BY <1>f, <1>t, DeskKept
<1>5. NoOversell'
  BY <1>f DEF NoOversell
<1>6. OneOrderPerKey' /\ AnswersOwnKey'
  <2>1. Placed' = Placed
    BY <1>p, <1>t
  <2> QED
    BY <2>1, <1>f, KeysKept
<1> QED
  BY <1>1, <1>2, <1>3, <1>4, <1>5, <1>6

\* The cash of an order is collected once, and the order was confirmed.
LEMMA CapturePodInv ==
  ASSUME IInv, NEW o \in Requests, CapturePod(o)
  PROVE  IInv'
<1> USE LifecycleAssumption DEF LifecycleAssumption, IInv
<1>f. /\ MethodOf[o] = "cod" /\ o \notin collected /\ emitted[o]["confirmed"] > 0
      /\ status' = [status EXCEPT ![o] = IF @ \in MirrorFrom THEN "delivered" ELSE @]
      /\ collected' = collected \union {o} /\ Emit(o, {"paid"})
      /\ UNCHANGED <<timeline, proof, overdue, cart, reserved, debited, call, answer, acting, desk,
                     sweep, swept, shared, crashes>>
  BY DEF CapturePod, sweepVars
<1>p. o \in Placed /\ OrderOK(o)
  BY <1>f DEF OrderOK, Placed, Count, EventNames
<1>t. /\ status' \in [Requests -> Statuses \union {NoOrder}]
      /\ \A q \in Requests : q # o => status'[q] = status[q]
      /\ status'[o] = IF status[o] \in MirrorFrom THEN "delivered" ELSE status[o]
      /\ Placed' = Placed
  BY <1>f, <1>p DEF TypeOK, Placed, Statuses, NoOrder
<1>e. /\ emitted' \in [Requests -> [EventNames -> Nat]]
      /\ \A q \in Requests : q # o => emitted'[q] = emitted[q]
      /\ \A n \in EventNames :
           emitted'[o][n] = IF n \in {"paid"} THEN emitted[o][n] + 1 ELSE emitted[o][n]
  <2>1. {"paid"} \in SUBSET EventNames
    BY DEF EventNames
  <2> QED
    BY <1>f, <2>1, EmitAdds
<1>1. TypeOK'
  BY <1>f, <1>p, <1>t, <1>e DEF TypeOK
<1>2. ASSUME NEW q \in Requests PROVE OrderOK(q)'
  <2>1. CASE q # o
    <3>1. q \in collected' <=> q \in collected
      BY <2>1, <1>f
    <3> QED
      BY <2>1, <3>1, <1>f, <1>t, <1>e, OrderKept
  <2>2. CASE q = o
    <3>1. /\ emitted'[o]["confirmed"] = emitted[o]["confirmed"]
          /\ emitted'[o]["paid"] = emitted[o]["paid"] + 1
          /\ emitted'[o]["verified"] = emitted[o]["verified"]
          /\ emitted'[o]["cancelled_by_system"] = emitted[o]["cancelled_by_system"]
          /\ emitted[o]["verified"] \in Nat
      BY <1>e DEF EventNames, TypeOK
    <3>2. Cancelled(o) => Cancelled(o)'
      BY <1>e DEF Cancelled, Cancellations, EventNames
    <3>3. ~ Bank(o) /\ o \in collected'
      BY <1>f DEF Bank
    <3>4. status'[o] # "pending_payment" /\ (status'[o] = "cancelled" => status[o] = "cancelled")
      BY <1>p, <1>t, <3>3 DEF OrderOK
    <3> QED
      BY <2>2, <3>1, <3>2, <3>3, <3>4, <1>f, <1>p, <1>t DEF OrderOK, Count, Bank, Placed
  <2> QED
    BY <2>1, <2>2
<1>3. ASSUME NEW q \in Requests PROVE CallOK(q)'
  <2>1. status'[q] = NoOrder <=> status[q] = NoOrder
    BY <1>p, <1>t DEF Placed, NoOrder
  <2> QED
    BY <1>f, <2>1, CallKept
<1>4. ASSUME NEW v \in Verifiers PROVE DeskOK(v)'
  BY <1>f, <1>t, DeskKept
<1>5. NoOversell'
  BY <1>f DEF NoOversell
<1>6. OneOrderPerKey' /\ AnswersOwnKey'
  BY <1>f, <1>t, KeysKept
<1> QED
  BY <1>1, <1>2, <1>3, <1>4, <1>5, <1>6

-----------------------------------------------------------------------------

\* Before the first order the invariant holds.
THEOREM InitInv == Init => IInv
<1> SUFFICES ASSUME Init PROVE IInv
  OBVIOUS
<1> USE LifecycleAssumption DEF LifecycleAssumption, Init
<1>1. Placed = {}
  BY DEF Placed
<1>2. TypeOK
  BY <1>1 DEF TypeOK
<1>3. ASSUME NEW o \in Requests PROVE OrderOK(o)
  <2>1. \A n \in EventNames : Count(o, n) = 0
    BY DEF Count
  <2>2. Count(o, "paid") = 0 /\ Count(o, "verified") = 0 /\ Count(o, "cancelled_by_system") = 0
    BY <2>1 DEF EventNames
  <2> QED
    BY <2>1, <2>2 DEF OrderOK, Live, NoOrder
<1>4. ASSUME NEW r \in Requests PROVE CallOK(r)
  BY DEF CallOK
<1>5. ASSUME NEW v \in Verifiers PROVE DeskOK(v)
  BY DEF DeskOK
<1>6. NoOversell /\ OneOrderPerKey /\ AnswersOwnKey
  BY <1>1 DEF NoOversell, OneOrderPerKey, AnswersOwnKey
<1> QED
  BY <1>2, <1>3, <1>4, <1>5, <1>6 DEF IInv

\* A step that changes nothing keeps it.
LEMMA StutterInv == IInv /\ UNCHANGED vars => IInv'
<1> SUFFICES ASSUME IInv, UNCHANGED vars PROVE IInv'
  OBVIOUS
<1> USE DEF IInv
<1>1. UNCHANGED <<status, timeline, proof, emitted, collected, overdue, cart, reserved, debited,
                  call, answer, acting, desk, sweep, swept, shared, crashes>>
  BY DEF vars, orderVars, sweepVars
<1>2. TypeOK'
  BY <1>1 DEF TypeOK, Placed
<1>3. ASSUME NEW o \in Requests PROVE OrderOK(o)' /\ CallOK(o)'
  BY <1>1, OrderKept, CallKept
<1>4. ASSUME NEW v \in Verifiers PROVE DeskOK(v)'
  BY <1>1, DeskKept DEF Placed
<1>5. NoOversell' /\ OneOrderPerKey' /\ AnswersOwnKey'
  BY <1>1, KeysKept DEF Placed, NoOversell
<1> QED
  BY <1>2, <1>3, <1>4, <1>5

\* Every action keeps it.
LEMMA NextInv == IInv /\ [Next]_vars => IInv'
<1> SUFFICES ASSUME IInv, Next PROVE IInv'
  BY StutterInv
<1>1. ASSUME NEW r \in Requests,
             BeginPlace(r) \/ CommitPlace(r) \/ RejectPlace(r) \/ Redeem(r) \/ CrashCall(r)
      PROVE  IInv'
  BY <1>1, BeginPlaceInv, CommitPlaceInv, RejectPlaceInv, RedeemInv, CrashCallInv
<1>2. ASSUME NEW o \in Requests,
             \/ Cancel(o) \/ BeginProof(o) \/ CommitProof(o) \/ BeginReceipt(o)
             \/ CommitReceipt(o) \/ ForceCancel(o) \/ Expire(o) \/ Courier(o) \/ CapturePod(o)
      PROVE  IInv'
  BY <1>2, CancelInv, BeginProofInv, CommitProofInv, BeginReceiptInv, CommitReceiptInv,
     ForceCancelInv, ExpireInv, CourierInv, CapturePodInv
<1>3. ASSUME NEW v \in Verifiers, CommitVerify(v) \/ \E o \in Requests : BeginVerify(v, o)
      PROVE  IInv'
  BY <1>3, CommitVerifyInv, BeginVerifyInv
<1>4. ASSUME NEW w \in Sweeps,
             \/ BeginSweep(w) \/ CommitSweep(w) \/ CrashSweep(w)
             \/ \E o \in Requests : ReleaseLines(w, o)
      PROVE  IInv'
  BY <1>4, BeginSweepInv, CommitSweepInv, SweepStepInv
<1> QED
  BY <1>1, <1>2, <1>3, <1>4 DEF Next

\* The invariant of the order life cycle, for any calls, stock and verifiers.
THEOREM Invariance == Spec => []IInv
BY InitInv, NextInv, PTL DEF Spec

\* Every row keeps the values its columns allow, under any interleaving.
THEOREM TypeCorrect == Spec => []TypeOK
<1>1. IInv => TypeOK
  BY DEF IInv
<1> QED
  BY <1>1, Invariance, PTL

\* However many checkouts race, what is reserved never exceeds what is on hand.
THEOREM NeverOversold == Spec => []NoOversell
<1>1. IInv => NoOversell
  BY DEF IInv
<1> QED
  BY <1>1, Invariance, PTL

\* The unlocked lookup of an idempotency key never lets it buy twice, and no call
\* answers with another key's order.
THEOREM KeyBuysOnce == Spec => [](OneOrderPerKey /\ AnswersOwnKey)
<1>1. IInv => OneOrderPerKey /\ AnswersOwnKey
  BY DEF IInv
<1> QED
  BY <1>1, Invariance, PTL

\* Status, payment row and outbox tell one story, whoever wrote the status last.
THEOREM EventsTellTheStatus == Spec => []StateIsAnnounced
<1>1. IInv => StateIsAnnounced
  BY LifecycleAssumption
     DEF IInv, OrderOK, StateIsAnnounced, Count, Bank, LifecycleAssumption, Methods
<1> QED
  BY <1>1, Invariance, PTL

\* The transfer path never touches a cash order, stale reads included.
THEOREM CashIsNeverSwept == Spec => []CodNeverAwaitsTransfer
<1>1. ASSUME IInv, NEW o \in Requests, MethodOf[o] = "cod"
      PROVE  /\ status[o] # "pending_payment" /\ proof[o] = "none"
             /\ emitted[o]["cancelled_by_system"] = 0 /\ o \notin InHand
  <2>1. OrderOK(o) /\ ~ Bank(o)
    BY <1>1 DEF IInv, Bank
  <2>2. emitted[o]["cancelled_by_system"] \in Nat
    BY <1>1 DEF IInv, TypeOK, EventNames
  <2> QED
    BY <2>1, <2>2 DEF OrderOK, Count, InHand
<1>2. IInv => CodNeverAwaitsTransfer
  BY <1>1 DEF CodNeverAwaitsTransfer
<1> QED
  BY <1>2, Invariance, PTL

\* The orders a step may move, and from where: the writers with a guard never
\* find an order closed, the ones without found it earlier.
LEMMA StatusWriters ==
  ASSUME IInv, Next, NEW o \in Requests, status'[o] # status[o]
  PROVE  \/ status[o] \notin {"cancelled", "confirmed_received"}
         \/ \E v \in Verifiers : desk[v] = o
         \/ acting[o] = "receiving" /\ status'[o] = "confirmed_received"
         \/ o \in InHand /\ status'[o] = "cancelled"
<1> USE DEF SetStatus, orderVars, sweepVars
<1>t. status \in [Requests -> Statuses \union {NoOrder}]
  BY DEF IInv, TypeOK
<1>1. ASSUME NEW r \in Requests,
             BeginPlace(r) \/ CommitPlace(r) \/ RejectPlace(r) \/ Redeem(r) \/ CrashCall(r)
      PROVE  status[o] = NoOrder
  <2>1. CommitPlace(r)
    BY <1>1 DEF BeginPlace, RejectPlace, Redeem, CrashCall
  <2>2. r = o /\ call[r] = "checked"
    BY <2>1, <1>t DEF CommitPlace
  <2> QED
    BY <2>2 DEF IInv, CallOK
<1>2. ASSUME NEW q \in Requests,
             \/ Cancel(q) \/ ForceCancel(q)
             \/ BeginProof(q) \/ CommitProof(q) \/ BeginReceipt(q) \/ Expire(q)
      PROVE  status[o] \notin {"cancelled", "confirmed_received"}
  <2>1. Cancel(q) \/ ForceCancel(q)
    BY <1>2 DEF BeginProof, CommitProof, BeginReceipt, Expire
  <2> QED
    BY <2>1, <1>t DEF Cancel, ForceCancel
<1>3. ASSUME NEW q \in Requests, CommitReceipt(q)
      PROVE  acting[o] = "receiving" /\ status'[o] = "confirmed_received"
  BY <1>3, <1>t DEF CommitReceipt
<1>4. ASSUME NEW q \in Requests, Courier(q) \/ CapturePod(q)
      PROVE  status[o] \notin {"cancelled", "confirmed_received"}
  BY <1>4, <1>t DEF Courier, CapturePod, MirrorFrom
<1>5. ASSUME NEW v \in Verifiers, CommitVerify(v) \/ \E q \in Requests : BeginVerify(v, q)
      PROVE  desk[v] = o
  BY <1>5, <1>t DEF CommitVerify, BeginVerify
<1>6. ASSUME NEW w \in Sweeps,
             \/ BeginSweep(w) \/ CommitSweep(w) \/ CrashSweep(w)
             \/ \E q \in Requests : ReleaseLines(w, q)
      PROVE  o \in InHand /\ status'[o] = "cancelled"
  BY <1>6 DEF BeginSweep, CommitSweep, CrashSweep, ReleaseLines, InHand
<1> QED
  BY <1>1, <1>2, <1>3, <1>4, <1>5, <1>6 DEF Next, NoOrder

\* Only a handler that read an order before it closed can reopen it.
THEOREM OnlyStaleHandlersReopen == Spec => ClosedStaysClosed
<1>1. ASSUME IInv, [Next]_vars, NEW o \in Requests
      PROVE  /\ status[o] = "cancelled" /\ status'[o] # "cancelled"
                  => (\E v \in Verifiers : desk[v] = o) \/ acting[o] = "receiving"
             /\ status[o] = "confirmed_received" /\ status'[o] # "confirmed_received"
                  => (\E v \in Verifiers : desk[v] = o) \/ o \in InHand
  <2>1. CASE status'[o] = status[o]
    BY <2>1
  <2>2. CASE Next /\ status'[o] # status[o]
    BY <2>2, <1>1, StatusWriters
  <2> QED
    BY <2>1, <2>2, <1>1 DEF vars, orderVars
<1>2. IInv /\ [Next]_vars =>
        [\A o \in Requests :
           /\ status[o] = "cancelled" /\ status'[o] # "cancelled"
                => (\E v \in Verifiers : desk[v] = o) \/ acting[o] = "receiving"
           /\ status[o] = "confirmed_received" /\ status'[o] # "confirmed_received"
                => (\E v \in Verifiers : desk[v] = o) \/ o \in InHand]_vars
  BY <1>1
<1> QED
  BY <1>2, Invariance, PTL DEF Spec, ClosedStaysClosed

-----------------------------------------------------------------------------
(* The reservation.  What a sweep has returned no later sweep finds again: an   *)
(* order it cancelled never waits for a payment again.  Only a sweep that had    *)
(* selected the order before can return it a second time.                        *)

Returns(o) == emitted[o]["cancelled_by_system"]
Has(s, o)  == o \in sweep[s] \union swept[s]

\* Along the sweeps: an order that was returned waits for no payment, and two
\* sweeps that have returned it or have it in hand have shared it.
SweepOK(o) ==
  /\ Returns(o) > 0 => status[o] \notin {NoOrder, "pending_payment"}
  /\ Returns(o) > 1 => o \in shared
  /\ \A s \in Sweeps : Has(s, o) /\ Returns(o) > 0 => o \in shared
  /\ \A s, t \in Sweeps : s # t /\ Has(s, o) /\ Has(t, o) => o \in shared

Ledger ==
  /\ \A o \in Requests : SweepOK(o)
  /\ Units(Placed) - GivenBack <= reserved
  /\ reserved <= Units(Placed) - Units(Returned)

\* Orders that are not the same hold different units.
LEMMA UnitsOfBoth ==
  ASSUME NEW S \in SUBSET Requests, NEW T \in SUBSET Requests, S \intersect T = {}
  PROVE  Units(S \union T) = Units(S) + Units(T)
<1> DEFINE q == [o \in Requests |-> Qty(o)]
<1>1. \A o \in S \union T : q[o] \in Int
  BY LifecycleAssumption DEF LifecycleAssumption, Qty
<1>2. IsFiniteSet(S) /\ IsFiniteSet(T)
  BY UnitsAre
<1> HIDE DEF q
<1>3. SumFunctionOnSet(q, S \union T) = SumFunctionOnSet(q, S) + SumFunctionOnSet(q, T)
  BY <1>1, <1>2, SumUnion
<1> QED
  BY <1>3 DEF Units, q

\* One order more holds its own units more.
LEMMA UnitsWithOne ==
  ASSUME NEW S \in SUBSET Requests, NEW o \in Requests, o \notin S
  PROVE  Units(S \union {o}) = Units(S) + Qty(o)
<1> DEFINE q == [r \in Requests |-> Qty(r)]
<1>1. \A r \in S \union {o} : q[r] \in Int
  BY LifecycleAssumption DEF LifecycleAssumption, Qty
<1>2. IsFiniteSet(S) /\ q[o] = Qty(o)
  BY UnitsAre
<1> HIDE DEF q
<1>3. SumFunctionOnSet(q, S \union {o}) = SumFunctionOnSet(q, S) + q[o]
  BY <1>1, <1>2, SumAdd
<1> QED
  BY <1>2, <1>3 DEF Units, q

\* What is given back is counted.
LEMMA GivenBackIs == IInv => GivenBack \in Nat
<1> SUFFICES ASSUME IInv PROVE GivenBack \in Nat
  OBVIOUS
<1> DEFINE f == [o \in Requests |-> Qty(o) * emitted[o]["cancelled_by_system"]]
<1>1. \A o \in Requests : f[o] \in Nat
  BY LifecycleAssumption DEF LifecycleAssumption, Qty, IInv, TypeOK, EventNames
<1>2. IsFiniteSet(Requests)
  BY LifecycleAssumption DEF LifecycleAssumption
<1> HIDE DEF f
<1>3. SumFunctionOnSet(f, Requests) \in Nat
  BY <1>1, <1>2, SumNat
<1> QED
  BY <1>3 DEF GivenBack, f

\* As long as no order is announced cancelled by the system, what was given back
\* stays.
LEMMA GivenBackKept ==
  ASSUME \A o \in Requests :
           emitted'[o]["cancelled_by_system"] = emitted[o]["cancelled_by_system"]
  PROVE  GivenBack' = GivenBack
<1> DEFINE f == [o \in Requests |-> Qty(o) * emitted[o]["cancelled_by_system"]]
           g == [o \in Requests |-> Qty(o) * emitted'[o]["cancelled_by_system"]]
<1>1. g = f
  OBVIOUS
<1>2. GivenBack = SumFunctionOnSet(f, Requests) /\ GivenBack' = SumFunctionOnSet(g, Requests)
  BY DEF GivenBack, Qty
<1> HIDE DEF f, g
<1> QED
  BY <1>1, <1>2, Zenon

\* A sweep that commits gives back the units of the orders it has handled.
LEMMA GivenBackGrows ==
  ASSUME IInv, NEW S \in SUBSET Requests,
         \A o \in Requests : Returns(o)' = IF o \in S THEN Returns(o) + 1 ELSE Returns(o)
  PROVE  GivenBack' = GivenBack + Units(S)
<1> DEFINE f == [o \in Requests |-> Qty(o) * Returns(o)]
           g == [o \in Requests |-> IF o \in S THEN Qty(o) ELSE 0]
           h == [o \in Requests |-> Qty(o) * Returns(o)']
           q == [o \in Requests |-> Qty(o)]
           Rest == Requests \ S
<1>1. \A o \in Requests : Qty(o) \in Nat /\ Returns(o) \in Nat
  BY LifecycleAssumption DEF LifecycleAssumption, Qty, IInv, TypeOK, EventNames, Returns
<1>2. /\ IsFiniteSet(Requests) /\ IsFiniteSet(S) /\ IsFiniteSet(Rest)
      /\ S \intersect Rest = {} /\ Requests = S \union Rest
  BY LifecycleAssumption, FS_Subset, UnitsAre DEF LifecycleAssumption
<1>3. ASSUME NEW o \in Requests PROVE f[o] \in Int /\ g[o] \in Int /\ h[o] = f[o] + g[o]
  <2> DEFINE n == Returns(o)
             m == Qty(o)
  <2>1. n \in Nat /\ m \in Nat /\ Returns(o)' = IF o \in S THEN n + 1 ELSE n
    BY <1>1
  <2>2. f[o] = m * n /\ g[o] = (IF o \in S THEN m ELSE 0) /\ h[o] = m * Returns(o)'
    OBVIOUS
  <2> HIDE DEF n, m, f, g, h
  <2>3. m * (n + 1) = m * n + m /\ m * n \in Int
    BY <2>1
  <2> QED
    BY <2>1, <2>2, <2>3
<1>4. /\ \A o \in S : g[o] = q[o] /\ g[o] \in Int
      /\ \A o \in Rest : g[o] = 0 /\ g[o] \in Int
  BY <1>1
<1>5. /\ GivenBack = SumFunctionOnSet(f, Requests) /\ GivenBack' = SumFunctionOnSet(h, Requests)
      /\ Units(S) = SumFunctionOnSet(q, S)
  BY DEF GivenBack, Units, Returns, Qty
<1> HIDE DEF f, g, h, q, Rest
<1>6. SumFunctionOnSet(h, Requests) = SumFunctionOnSet(f, Requests) + SumFunctionOnSet(g, Requests)
  BY <1>2, <1>3, SumPlus
<1>7. SumFunctionOnSet(g, S) = SumFunctionOnSet(q, S) /\ SumFunctionOnSet(g, Rest) = 0
  BY <1>2, <1>4, SumSame, SumZero
<1>8. SumFunctionOnSet(g, S \union Rest) = SumFunctionOnSet(g, S) + SumFunctionOnSet(g, Rest)
  <2>1. \A o \in S \union Rest : g[o] \in Int
    BY <1>4
  <2> QED
    BY <1>2, <2>1, SumUnion
<1>9. SumFunctionOnSet(g, Requests) = SumFunctionOnSet(g, S \union Rest)
  BY <1>2, Zenon
<1>10. SumFunctionOnSet(q, S) \in Nat
  BY <1>5, UnitsAre
<1> QED
  BY <1>5, <1>6, <1>7, <1>8, <1>9, <1>10

\* Fewer orders hold no more units.
LEMMA UnitsOfPart ==
  ASSUME NEW T \in SUBSET Requests, NEW S \in SUBSET T
  PROVE  Units(S) <= Units(T)
<1> DEFINE Rest == T \ S
<1>1. /\ S \in SUBSET Requests /\ Rest \in SUBSET Requests /\ S \intersect Rest = {}
      /\ T = S \union Rest
  OBVIOUS
<1> HIDE DEF Rest
<1>2. Units(S \union Rest) = Units(S) + Units(Rest)
  BY <1>1, UnitsOfBoth
<1>3. Units(T) = Units(S \union Rest)
  BY <1>1, Zenon
<1>4. Units(S) \in Nat /\ Units(Rest) \in Nat
  BY <1>1, UnitsAre
<1> QED
  BY <1>2, <1>3, <1>4

\* Two sets of orders together hold no more than the one and the other.
LEMMA UnitsOfUnion ==
  ASSUME NEW S \in SUBSET Requests, NEW T \in SUBSET Requests
  PROVE  Units(S \union T) <= Units(S) + Units(T)
<1> DEFINE New == T \ S
<1>1. /\ New \in SUBSET T /\ New \in SUBSET Requests /\ S \intersect New = {}
      /\ S \union T = S \union New
  OBVIOUS
<1> HIDE DEF New
<1>2. Units(S \union New) = Units(S) + Units(New)
  BY <1>1, UnitsOfBoth
<1>3. Units(S \union T) = Units(S \union New)
  BY <1>1, Zenon
<1>4. Units(New) <= Units(T)
  BY <1>1, UnitsOfPart
<1>5. Units(S) \in Nat /\ Units(New) \in Nat /\ Units(T) \in Nat
  BY <1>1, UnitsAre
<1> QED
  BY <1>2, <1>3, <1>4, <1>5

\* What a step must leave alone for the ledger to stay as it should be.
LEMMA LedgerKept ==
  ASSUME IInv, Ledger, Placed' = Placed, UNCHANGED <<reserved, shared>>,
         \A o \in Requests :
           /\ emitted'[o]["cancelled_by_system"] = emitted[o]["cancelled_by_system"]
           /\ status'[o] = "pending_payment" => status[o] = "pending_payment"
           /\ \A s \in Sweeps : Has(s, o)' => Has(s, o)
  PROVE  Ledger'
<1>1. ASSUME NEW o \in Requests PROVE SweepOK(o)'
  <2>1. /\ Returns(o)' = Returns(o) /\ SweepOK(o)
        /\ status'[o] = NoOrder <=> status[o] = NoOrder
    BY DEF Ledger, Returns, Placed
  <2>2. \A s \in Sweeps : Has(s, o)' => Has(s, o)
    OBVIOUS
  <2> QED
    BY <2>1, <2>2 DEF SweepOK
<1>2. Returned' = Returned
  BY DEF Returned, Placed
<1>3. Units(Placed') = Units(Placed) /\ Units(Returned') = Units(Returned)
  BY <1>2, Zenon
<1>4. GivenBack' = GivenBack
  BY GivenBackKept
<1> QED
  BY <1>1, <1>3, <1>4 DEF Ledger, Units, Qty

\* ... and with the sweeps, which is what most steps do.
LEMMA LedgerStays ==
  ASSUME IInv, Ledger, Placed' = Placed, UNCHANGED <<reserved, sweep, swept, shared>>,
         \A o \in Requests :
           /\ emitted'[o]["cancelled_by_system"] = emitted[o]["cancelled_by_system"]
           /\ status'[o] = "pending_payment" => status[o] = "pending_payment"
  PROVE  Ledger'
<1>1. \A o \in Requests : \A s \in Sweeps : Has(s, o)' => Has(s, o)
  BY DEF Has
<1> QED
  BY <1>1, LedgerKept

\* A new order reserves its units, and has returned none.
LEMMA CommitPlaceLedger ==
  ASSUME IInv, Ledger, NEW r \in Requests, CommitPlace(r)
  PROVE  Ledger'
<1> DEFINE names == IF MethodOf[r] = "cod" THEN {"placed", "confirmed"} ELSE {"placed"}
           s == IF MethodOf[r] = "cod" THEN "confirmed" ELSE "pending_payment"
<1>1. /\ TypeOK /\ status[r] = NoOrder /\ emitted[r]["cancelled_by_system"] = 0
      /\ UNCHANGED <<sweep, swept, shared>> /\ reserved' = reserved + Qty(r)
      /\ Emit(r, names) /\ SetStatus(r, s)
  BY DEF IInv, CallOK, OrderOK, Count, EventNames, CommitPlace, sweepVars
<1>2. names \in SUBSET EventNames /\ "cancelled_by_system" \notin names /\ s \in Statuses
  BY DEF EventNames, Statuses
<1> HIDE DEF names, s
<1>3. \A o \in Requests :
        emitted'[o]["cancelled_by_system"] = emitted[o]["cancelled_by_system"]
  BY <1>1, <1>2, EmitAdds DEF EventNames
<1>4. /\ Placed' = Placed \union {r} /\ r \notin Placed
      /\ \A o \in Requests : status'[o] = IF o = r THEN s ELSE status[o]
  BY <1>1, <1>2, StatusSet DEF Placed
<1>5. Returned' = Returned
  <2>1. Placed \in SUBSET Requests
    BY DEF Placed
  <2> QED
    BY <1>1, <1>3, <1>4, <2>1 DEF Returned
<1>6. Units(Placed') = Units(Placed) + Qty(r)
  <2>1. Units(Placed \union {r}) = Units(Placed) + Qty(r)
    BY <1>4, UnitsWithOne DEF Placed
  <2> QED
    BY <1>4, <2>1, Zenon
<1>7. Units(Returned') = Units(Returned) /\ GivenBack' = GivenBack
  BY <1>3, <1>5, GivenBackKept, Zenon
<1>8. ASSUME NEW o \in Requests PROVE SweepOK(o)'
  <2>1. /\ Returns(o)' = Returns(o) /\ SweepOK(o) /\ (o = r => Returns(o) = 0)
        /\ \A t \in Sweeps : Has(t, o)' <=> Has(t, o)
    BY <1>1, <1>3 DEF Ledger, Returns, Has
  <2>2. o # r => status'[o] = status[o]
    BY <1>4
  <2> QED
    BY <1>1, <2>1, <2>2 DEF SweepOK
<1>9. /\ Qty(r) \in Int /\ Units(Placed) \in Int /\ Units(Returned) \in Int
      /\ GivenBack \in Int /\ reserved \in Int
  <2>1. Placed \in SUBSET Requests /\ Returned \in SUBSET Requests
    BY DEF Placed, Returned
  <2> QED
    BY <1>1, <2>1, LifecycleAssumption, UnitsAre, GivenBackIs DEF LifecycleAssumption, Qty, TypeOK
<1> QED
  BY <1>1, <1>6, <1>7, <1>8, <1>9 DEF Ledger, Units, Qty

\* Uncommitted work of a sweep returns nothing.
LEMMA SweepStepLedger ==
  ASSUME IInv, Ledger, NEW w \in Sweeps,
         CrashSweep(w) \/ \E o \in Requests : ReleaseLines(w, o)
  PROVE  Ledger'
<1>1. UNCHANGED <<status, emitted, reserved, shared>>
  BY DEF CrashSweep, ReleaseLines, orderVars
<1>2. \A o \in Requests : \A s \in Sweeps : Has(s, o)' => Has(s, o)
  <2>1. CASE CrashSweep(w)
    BY <2>1 DEF CrashSweep, Has, IInv, TypeOK
  <2>2. ASSUME NEW q \in Requests, ReleaseLines(w, q)
        PROVE  \A o \in Requests : \A s \in Sweeps : Has(s, o)' => Has(s, o)
    BY <2>2 DEF ReleaseLines, Has, IInv, TypeOK
  <2> QED
    BY <2>1, <2>2
<1>3. Placed' = Placed
  BY <1>1 DEF Placed
<1> QED
  BY <1>1, <1>2, <1>3, LedgerKept

\* A sweep begins with orders that wait for their payment: none of them has been
\* returned, and those another sweep has in hand are shared from now on.
LEMMA BeginSweepLedger ==
  ASSUME IInv, Ledger, NEW w \in Sweeps, BeginSweep(w)
  PROVE  Ledger'
<1>1. /\ sweep' = [sweep EXCEPT ![w] = Sweepable] /\ sweep \in [Sweeps -> SUBSET Requests]
      /\ shared' = shared \union (Sweepable \intersect InHand)
      /\ UNCHANGED <<status, emitted, reserved, swept>> /\ sweep[w] \union swept[w] = {}
  BY DEF BeginSweep, orderVars, IInv, TypeOK
<1>2. Placed' = Placed /\ Returned' = Returned
  BY <1>1 DEF Placed, Returned
<1>3. Units(Placed') = Units(Placed) /\ Units(Returned') = Units(Returned) /\ GivenBack' = GivenBack
  BY <1>1, <1>2, GivenBackKept, Zenon
<1>4. ASSUME NEW o \in Requests PROVE SweepOK(o)'
  <2>1. /\ Returns(o)' = Returns(o) /\ Returns(o) \in Nat /\ SweepOK(o)
        /\ status'[o] = status[o] /\ (o \in shared => o \in shared')
    BY <1>1 DEF Ledger, Returns, IInv, TypeOK, EventNames
  <2>2. \A s \in Sweeps : Has(s, o)' => Has(s, o) \/ (s = w /\ o \in Sweepable)
    BY <1>1 DEF Has
  <2>3. o \in Sweepable => Returns(o) = 0
    BY <2>1 DEF Sweepable, SweepOK
  <2>4. \A s \in Sweeps : o \in Sweepable /\ Has(s, o) => o \in shared'
    BY <1>1 DEF InHand, Has
  <2> QED
    BY <2>1, <2>2, <2>3, <2>4 DEF SweepOK
<1> QED
  BY <1>1, <1>3, <1>4 DEF Ledger, Units, Qty

\* A sweep commits: the units of its orders are returned and announced.
LEMMA CommitSweepLedger ==
  ASSUME IInv, Ledger, NEW w \in Sweeps, CommitSweep(w)
  PROVE  Ledger'
<1> DEFINE S == swept[w]
<1>1. /\ TypeOK /\ sweep[w] = {} /\ S \in SUBSET Requests
      /\ swept' = [swept EXCEPT ![w] = {}] /\ UNCHANGED <<sweep, shared>>
      /\ reserved' = Release(Units(S))
      /\ \A o \in Requests : status'[o] = IF o \in S THEN "cancelled" ELSE status[o]
  BY DEF IInv, TypeOK, CommitSweep
<1>2. \A o \in Requests : Returns(o)' = IF o \in S THEN Returns(o) + 1 ELSE Returns(o)
  BY <1>1 DEF CommitSweep, TypeOK, EventNames, Returns
<1>3. \A o \in Requests : Returns(o) \in Nat /\ (o \in S => o \in Placed /\ Has(w, o))
  BY <1>1 DEF IInv, OrderOK, TypeOK, EventNames, Returns, Has
<1>h. /\ \A o \in Requests : ~ Has(w, o)'
      /\ \A s \in Sweeps : s # w => (\A o \in Requests : Has(s, o)' <=> Has(s, o))
  BY <1>1 DEF Has, TypeOK
<1> HIDE DEF S
<1>4. Placed' = Placed
  BY <1>1, <1>3 DEF Placed, NoOrder
<1>5. Returned' = Returned \union S
  BY <1>1, <1>2, <1>3, <1>4 DEF Returned, Returns, Placed
<1>6. ASSUME NEW o \in Requests PROVE SweepOK(o)'
  <2>0. SweepOK(o) /\ Returns(o) \in Nat /\ shared' = shared
    BY <1>1, <1>3 DEF Ledger
  <2>1. CASE o \in S
    <3>1. Returns(o)' = Returns(o) + 1 /\ status'[o] = "cancelled" /\ Has(w, o)
      BY <1>1, <1>2, <1>3, <2>1
    <3>2. Returns(o) > 0 => o \in shared
      BY <2>0, <3>1 DEF SweepOK
    <3>3. ASSUME NEW s \in Sweeps, Has(s, o)' PROVE o \in shared
      BY <1>h, <2>0, <3>1, <3>3 DEF SweepOK
    <3> QED
      BY <2>0, <3>1, <3>2, <3>3 DEF SweepOK, NoOrder
  <2>2. CASE o \notin S
    <3>1. Returns(o)' = Returns(o) /\ status'[o] = status[o]
      BY <1>1, <1>2, <2>2
    <3>2. \A s \in Sweeps : Has(s, o)' => Has(s, o)
      BY <1>h
    <3> QED
      BY <2>0, <3>1, <3>2 DEF SweepOK
  <2> QED
    BY <2>1, <2>2
<1>7. /\ Placed \in SUBSET Requests /\ Returned \in SUBSET Requests
      /\ Returned \union S \in SUBSET Placed
  BY <1>1, <1>3 DEF Placed, Returned
<1>8. /\ Units(Placed) \in Nat /\ Units(Returned) \in Nat /\ Units(S) \in Nat
      /\ Units(Returned \union S) \in Nat /\ GivenBack \in Nat /\ reserved \in Nat
  <2>1. Returned \union S \in SUBSET Requests
    BY <1>7
  <2> QED
    BY <1>1, <1>7, <2>1, UnitsAre, GivenBackIs DEF TypeOK
<1>9. /\ Units(Returned \union S) <= Units(Returned) + Units(S)
      /\ Units(Returned \union S) <= Units(Placed)
  BY <1>1, <1>7, UnitsOfUnion, UnitsOfPart
<1>10. GivenBack' = GivenBack + Units(S)
  BY <1>1, <1>2, GivenBackGrows
<1>11. Units(Placed') = Units(Placed) /\ Units(Returned') = Units(Returned \union S)
  BY <1>4, <1>5, Zenon
<1>12. /\ Units(Placed) - GivenBack <= reserved
       /\ reserved <= Units(Placed) - Units(Returned)
  BY DEF Ledger
<1>13. /\ Units(Placed) - (GivenBack + Units(S)) <= reserved'
       /\ reserved' <= Units(Placed) - Units(Returned \union S)
  BY <1>1, <1>8, <1>9, <1>12 DEF Release
<1> QED
  BY <1>6, <1>10, <1>11, <1>13 DEF Ledger, Units, Qty

\* No other step places an order, returns stock or sends an order back to its
\* payment.
LEMMA OtherStepsLedger ==
  ASSUME IInv, Ledger, NEW o \in Requests,
         \/ BeginPlace(o) \/ RejectPlace(o) \/ Redeem(o) \/ CrashCall(o)
         \/ Cancel(o) \/ BeginProof(o) \/ CommitProof(o) \/ BeginReceipt(o) \/ CommitReceipt(o)
         \/ ForceCancel(o) \/ Expire(o) \/ Courier(o) \/ CapturePod(o)
         \/ \E v \in Verifiers : BeginVerify(v, o) \/ CommitVerify(v)
  PROVE  Ledger'
<1> USE DEF orderVars, sweepVars
<1>t. TypeOK
  BY DEF IInv
<1>1. ASSUME UNCHANGED <<status, emitted, reserved, sweep, swept, shared>> PROVE Ledger'
  <2>1. Placed' = Placed
    BY <1>1 DEF Placed
  <2> QED
    BY <1>1, <2>1, LedgerStays
<1>2. ASSUME NEW q \in Placed, NEW s \in Statuses \ {"pending_payment"}, SetStatus(q, s),
             UNCHANGED <<reserved, sweep, swept, shared>>,
             \A p \in Requests :
               emitted'[p]["cancelled_by_system"] = emitted[p]["cancelled_by_system"]
      PROVE  Ledger'
  <2>1. q \in Requests /\ s \in Statuses
    BY DEF Placed
  <2>2. /\ Placed' = Placed \union {q}
        /\ \A p \in Requests : status'[p] = IF p = q THEN s ELSE status[p]
    BY <1>t, <1>2, <2>1, StatusSet
  <2>3. Placed' = Placed
    BY <2>2
  <2> QED
    BY <1>2, <2>2, <2>3, LedgerStays
<1>3. ASSUME NEW q \in Requests, NEW names \in SUBSET (EventNames \ {"cancelled_by_system"}),
             Emit(q, names)
      PROVE  \A p \in Requests :
               emitted'[p]["cancelled_by_system"] = emitted[p]["cancelled_by_system"]
  BY <1>t, <1>3, EmitAdds DEF EventNames
<1>4. CASE BeginPlace(o) \/ RejectPlace(o) \/ Redeem(o) \/ CrashCall(o) \/ BeginProof(o)
             \/ BeginReceipt(o) \/ Expire(o) \/ \E v \in Verifiers : BeginVerify(v, o)
  BY <1>1, <1>4 DEF BeginPlace, RejectPlace, Redeem, CrashCall, BeginProof, BeginReceipt, Expire,
     BeginVerify
<1>5. CASE Cancel(o) \/ ForceCancel(o)
  <2>1. o \in Placed /\ SetStatus(o, "cancelled") /\ UNCHANGED <<reserved, sweep, swept, shared>>
    BY <1>5 DEF Cancel, ForceCancel, Placed, NoOrder
  <2>2. PICK n \in EventNames : n # "cancelled_by_system" /\ Emit(o, {n})
    BY <1>5 DEF Cancel, ForceCancel, EventNames
  <2>3. "cancelled" \in Statuses \ {"pending_payment"}
    BY DEF Statuses
  <2> QED
    BY <1>2, <1>3, <2>1, <2>2, <2>3
<1>6. CASE CommitProof(o)
  <2>1. Emit(o, {"proof_submitted"}) /\ UNCHANGED <<status, reserved, sweep, swept, shared>>
    BY <1>6 DEF CommitProof
  <2>2. {"proof_submitted"} \in SUBSET (EventNames \ {"cancelled_by_system"})
    BY DEF EventNames
  <2>3. Placed' = Placed
    BY <2>1 DEF Placed
  <2> QED
    BY <1>3, <2>1, <2>2, <2>3, LedgerStays
<1>7. CASE CommitReceipt(o)
  <2>1. /\ SetStatus(o, "confirmed_received")
        /\ UNCHANGED <<emitted, reserved, sweep, swept, shared>>
    BY <1>7 DEF CommitReceipt
  <2>2. o \in Placed
    BY <1>7 DEF CommitReceipt, IInv, OrderOK, Placed
  <2> QED
    BY <1>2, <2>1, <2>2 DEF Statuses
<1>8. CASE Courier(o)
  <2>1. PICK stop \in Stops : SetStatus(o, stop)
    BY <1>8 DEF Courier
  <2>2. o \in Placed /\ UNCHANGED <<emitted, reserved, sweep, swept, shared>>
    BY <1>8 DEF Courier, MirrorFrom, Placed, NoOrder
  <2>3. stop \in Statuses \ {"pending_payment"}
    BY DEF Stops, Statuses
  <2> QED
    BY <1>2, <2>1, <2>2, <2>3
<1>9. CASE \E v \in Verifiers : CommitVerify(v)
  <2>1. PICK v \in Verifiers, q \in Requests :
          /\ desk[v] = q /\ SetStatus(q, "confirmed")
          /\ Emit(q, {"verified", "paid", "confirmed"})
    BY <1>9 DEF CommitVerify
  <2>2. UNCHANGED <<reserved, sweep, swept, shared>>
    BY <1>9 DEF CommitVerify
  <2>3. q \in Placed
    BY <2>1, LifecycleAssumption DEF IInv, DeskOK, LifecycleAssumption
  <2>4. {"verified", "paid", "confirmed"} \in SUBSET (EventNames \ {"cancelled_by_system"})
    BY DEF EventNames
  <2>5. "confirmed" \in Statuses \ {"pending_payment"}
    BY DEF Statuses
  <2> QED
    BY <1>2, <1>3, <2>1, <2>2, <2>3, <2>4, <2>5
<1>10. CASE CapturePod(o)
  <2>1. /\ Emit(o, {"paid"}) /\ UNCHANGED <<reserved, sweep, swept, shared>>
        /\ status' = [status EXCEPT ![o] = IF @ \in MirrorFrom THEN "delivered" ELSE @]
    BY <1>10 DEF CapturePod
  <2>2. {"paid"} \in SUBSET (EventNames \ {"cancelled_by_system"})
    BY DEF EventNames
  <2>3. /\ Placed' = Placed
        /\ \A q \in Requests : status'[q] = "pending_payment" => status[q] = "pending_payment"
    BY <1>t, <2>1 DEF Placed, TypeOK, MirrorFrom, NoOrder
  <2> QED
    BY <1>3, <2>1, <2>2, <2>3, LedgerStays
<1> QED
  BY <1>4, <1>5, <1>6, <1>7, <1>8, <1>9, <1>10

\* For any carts and any number of orders and of sweeps that overlap: only a second
\* sweep that selected an order while the first had it in hand gives its units back
\* twice, and what is reserved is what the orders took less what was given back.
THEOREM StockLedgerBalances == Spec => []StockLedger
<1>1. Init => Ledger
  <2> SUFFICES ASSUME Init PROVE Ledger
    OBVIOUS
  <2>1. Placed = {} /\ Returned = {} /\ reserved = 0
    BY DEF Init, Placed, Returned
  <2>2. Units({}) = 0
    BY SumEmpty DEF Units
  <2>3. Units(Placed) = 0 /\ Units(Returned) = 0
    BY <2>1, <2>2, Zenon
  <2>4. ASSUME NEW o \in Requests PROVE SweepOK(o)
    BY DEF Init, SweepOK, Returns, Has, EventNames
  <2>5. GivenBack \in Nat
    BY InitInv, GivenBackIs
  <2> QED
    BY <2>1, <2>3, <2>4, <2>5 DEF Ledger
<1>2. IInv /\ Ledger /\ [Next]_vars => Ledger'
  <2> SUFFICES ASSUME IInv, Ledger, [Next]_vars PROVE Ledger'
    OBVIOUS
  <2>1. CASE UNCHANGED vars
    <3>1. Placed' = Placed
      BY <2>1 DEF vars, orderVars, Placed
    <3> QED
      BY <2>1, <3>1, LedgerStays DEF vars, orderVars, sweepVars
  <2>2. ASSUME NEW o \in Requests,
               \/ BeginPlace(o) \/ RejectPlace(o) \/ Redeem(o) \/ CrashCall(o)
               \/ Cancel(o) \/ BeginProof(o) \/ CommitProof(o) \/ BeginReceipt(o)
               \/ CommitReceipt(o) \/ ForceCancel(o) \/ Expire(o) \/ Courier(o)
               \/ CapturePod(o)
        PROVE  Ledger'
    BY <2>2, OtherStepsLedger
  <2>3. ASSUME NEW v \in Verifiers, CommitVerify(v) PROVE Ledger'
    <3>1. PICK o \in Requests : desk[v] = o
      BY <2>3 DEF CommitVerify
    <3> QED
      BY <2>3, OtherStepsLedger
  <2>4. ASSUME NEW v \in Verifiers, NEW o \in Requests, BeginVerify(v, o) PROVE Ledger'
    BY <2>4, OtherStepsLedger
  <2>5. ASSUME NEW w \in Sweeps,
               \/ BeginSweep(w) \/ CommitSweep(w) \/ CrashSweep(w)
               \/ \E o \in Requests : ReleaseLines(w, o)
        PROVE  Ledger'
    BY <2>5, BeginSweepLedger, CommitSweepLedger, SweepStepLedger
  <2> QED
    BY <2>1, <2>2, <2>3, <2>4, <2>5, CommitPlaceLedger DEF Next
<1>3. Ledger => StockLedger
  BY DEF Ledger, StockLedger, SweepOK, Returns
<1> QED
  BY <1>1, <1>2, <1>3, Invariance, PTL DEF Spec
=============================================================================
