SPECIFICATION FairSpec
CONSTANTS
  Requests <- MCRequests
  Carts <- MCCarts
  CartOf <- MCCartOf
  NoKey = "nokey"
  KeyOf <- MCKeyOf
  MethodOf <- MCMethodOf
  Discounted = {"o1", "o3"}
  QtyOf <- MCQtyOf
  OverCeiling = {}
  OnHand = 2
  Verifiers = {v1}
  Sweeps = {w1, w2}
  MaxCrashes = 1
INVARIANTS NoOversell OneOrderPerKey StockLedger
PROPERTIES ClosedStaysClosed TransferResolved
CHECK_DEADLOCK FALSE
