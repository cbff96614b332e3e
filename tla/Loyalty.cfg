SPECIFICATION LoyaltySpec
CONSTANTS
  o1 = o1
  o2 = o2
  d1 = d1
  d2 = d2
  u1 = u1
  NoOrder = NoOrder
  Users <- MCUsers
  Checkouts <- MCCheckouts
  OwnerOf <- MCOwnerOf
  Earns <- MCEarns
  Wanted <- MCWanted
  Ceiling <- MCCeiling
  Coded <- MCCheckouts
  UsageCap = 1
  PerUserLimit = 1
  Opening <- MCOpening
  Drains <- MCDrains
  MaxEvents = 2
  MaxSweeps = 1
  MaxFaults = 1
SYMMETRY Alike
INVARIANTS UndoneInFull CouponCounted SpentIsCovered
CHECK_DEADLOCK FALSE
