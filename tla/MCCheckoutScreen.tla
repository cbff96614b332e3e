-------------------------- MODULE MCCheckoutScreen --------------------------
(* Two saved addresses, one of them out of the radius, and one the form saves.  *)
EXTENDS CheckoutScreen

MCAddresses == {"home", "work"}
MCNew == {"mother"}
MCFar == {"work"}
=============================================================================
