SPECIFICATION FairSpec
CONSTANTS
  NumEvents = 3
  NameOf <- MCNameOf
  Sessions <- MCSessions
  RoleOf <- MCRoleOf
  MaxRowsPerDrain = 2
  MaxFaults = 1
INVARIANTS HandledOnce
PROPERTIES OneShotDelivery EventuallyDispatched
