SPECIFICATION Safety
CONSTANTS
  Commands <- MCCommands
  NoFile = NoFile
  Torn = Torn
  Repeats = 2
  MaxTees = 2
  MaxEpoch = 2
  MaxTxs = 6
  MaxRuns = 2
INVARIANT SuccessMeansProduction
CHECK_DEADLOCK FALSE
