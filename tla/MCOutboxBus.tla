---------------------------- MODULE MCOutboxBus ----------------------------
(* Three events: a registration, a cancellation that three takers react to,   *)
(* and a pickup.  Two overlapping drains, one dispatch poll, one loyalty poll.*)
EXTENDS OutboxBus

MCSessions == {"drain1", "drain2", "dispatch", "loyalty"}

MCNameOf == << "orders.order.cancelled", "identity.user.registered",
               "orders.order.ready_for_pickup" >>

MCRoleOf == [s \in MCSessions |->
               IF s \in {"drain1", "drain2"} THEN "realtime" ELSE s]
=============================================================================
