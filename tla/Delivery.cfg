SPECIFICATION Spec
CONSTANTS
  Orders = {"o1", "o2"}
  Cod = {"o1"}
  Pickup = {"o2"}
  Qty <- MCQty
  Drivers = {d1, d2}
  Vans = {"v1"}
  HubStock = 2
  MaxShifts = 2
CONSTRAINT InScope
SYMMETRY DriversAlike
INVARIANTS ProofSettlesOnce UnderwayHasDriver MirrorKeepsUp StockConserved
CHECK_DEADLOCK FALSE
