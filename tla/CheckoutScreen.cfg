SPECIFICATION CheckoutSpec
CONSTANTS
  Addresses <- MCAddresses
  New <- MCNew
  Preferred = "home"
  Far <- MCFar
  Points = 2
  Half = 1
  MaxCalls = 4
  MaxMoves = 2
  MaxLost = 1
INVARIANTS OneOrder CapIsForTheBalance
CHECK_DEADLOCK FALSE
