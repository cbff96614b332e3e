SPECIFICATION ScreenSpec
CONSTANTS
  Pages <- MCPages
  MaxClicks = 2
  MaxLoads = 2
  MaxFaults = 1
INVARIANTS ClaimsOnlyStored SubmitsOnce ShowsWhatWasAsked NeverStuck
CHECK_DEADLOCK FALSE
