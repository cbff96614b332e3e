SPECIFICATION FairSpec
CONSTANTS
  c1 = c1
  c2 = c2
  c3 = c3
  o1 = o1
  o2 = o2
  d1 = d1
  d2 = d2
  Nobody = Nobody
  Calls <- MCCalls
  Orders <- MCOrders
  KeyOf <- MCKeyOf
  Desks <- MCDesks
  Limits <- MCLimits
  NeedsTwo = {4}
  Scenarios <- MCScenarios
  Amounts = {1, 3}
  Total = 2
  MaxInvoices = 2
  MaxProofs = 3
  MaxCrashes = 1
INVARIANTS PaymentsAddUp
PROPERTIES PlacedWithinLimit ClosedInvoicesStayClosed DunnedInTheEnd
CHECK_DEADLOCK FALSE
