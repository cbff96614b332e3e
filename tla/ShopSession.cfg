SPECIFICATION FairShopSpec
CONSTANTS
  Tabs <- MCTabs
  Calls <- MCCalls
  TabOf <- MCTabOf
  MaxPairs = 5
  Room = 4
  MaxLosses = 1
  MaxErrors = 1
INVARIANTS TabPresentsOnce
PROPERTIES ForgottenIsDead CallsReturn
CHECK_DEADLOCK FALSE
