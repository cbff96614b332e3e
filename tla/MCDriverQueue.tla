--------------------------- MODULE MCDriverQueue ---------------------------
(* Instances of DriverQueue for TLC.                                          *)
EXTENDS DriverQueue, TLC

CONSTANTS d1, d2, f1, f2

Interchangeable == Permutations(Flushes)

=============================================================================
