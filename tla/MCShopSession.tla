--------------------------- MODULE MCShopSession ---------------------------
(* Two tabs; two calls share the first tab, as on the cart page.              *)
EXTENDS ShopSession

MCTabs  == {"t1", "t2"}
MCCalls == {"a", "b", "c"}
MCTabOf == [c \in MCCalls |-> IF c = "c" THEN "t2" ELSE "t1"]
=============================================================================
