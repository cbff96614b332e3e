SPECIFICATION FairSpec
CONSTANTS
  Endpoints <- MCEndpointTable
  Leaves <- MCLeaves
  Blind <- MCBlind
  Loose <- MCLoose
  Unlocked <- MCUnlocked
  Colliding <- MCColliding
  Requests = {r1, r2}
  None = None
  Opened = Opened
  MaxFaults = 2
CHECK_DEADLOCK FALSE
INVARIANTS RefusedLeavesNothing ToldWhenChanged OnceOnly ChangesWhatItRead FailsOnlyOnFaults
PROPERTIES EveryRequestEnds
