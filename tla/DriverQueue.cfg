SPECIFICATION Spec
CONSTANTS
  d1 = d1  d2 = d2  f1 = f1  f2 = f2
  Drivers = {d1, d2}
  Flushes = {f1, f2}
  MaxAttempts = 2
  MaxTaps = 1
  MaxLosses = 2
  MaxLogins = 1
  MaxReassigns = 1
SYMMETRY Interchangeable
INVARIANTS AppliedOnce KeptWhileSignedIn
CHECK_DEADLOCK FALSE
