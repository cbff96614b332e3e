--------------------------- MODULE EventDelivery ---------------------------
(* What the event bus promises, with no sessions, locks or batches: an event *)
(* that a business transaction commits is handed off to one taker, once, and *)
(* stays handed off.  OutboxBus is shown to implement this module.           *)
CONSTANT Events

VARIABLES pending,    \* committed to core.outbox and not handed off yet
          delivered   \* handed off; dispatched_at is stamped

vars == <<pending, delivered>>

Init == pending = {} /\ delivered = {}

\* A business transaction commits event e together with its own changes.
Announce(e) ==
  /\ e \notin pending \union delivered
  /\ pending' = pending \union {e}
  /\ UNCHANGED delivered

\* One taker's transaction commits the effects of a whole batch.
HandOff(batch) ==
  /\ batch # {}
  /\ pending' = pending \ batch
  /\ delivered' = delivered \union batch

Next == \/ \E e \in Events : Announce(e)
        \/ \E batch \in SUBSET pending : HandOff(batch)

Spec == Init /\ [][Next]_vars
=============================================================================
