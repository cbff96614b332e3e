SPECIFICATION Spec
SYMMETRY Symmetry
CONSTANTS
  t1 = t1
  t2 = t2
  Txs <- MCTxs
  Scenarios <- MCScenarios
  IsAdmin = TRUE
  Threshold = 2
  MaxTokens = 3
  MaxRefusals = 3
  MaxLinks = 1
  MaxSecrets = 2
INVARIANTS RevocationHolds SingleHeir RefusalsCounted ConfirmedIsProven
CHECK_DEADLOCK FALSE
