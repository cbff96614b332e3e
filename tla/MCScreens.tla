----------------------------- MODULE MCScreens -----------------------------
(* Every page of the four applications.                                        *)
EXTENDS Screens, StoreScreens, SupplierScreens, AdminScreens, DriverScreens, TLC

MCPages == StorePages @@ SupplierPages @@ AdminPages @@ DriverPages
=============================================================================
