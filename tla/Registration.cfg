SPECIFICATION Spec
CONSTANTS
  Commands <- MCCommands
  NoFile = NoFile
  Torn = Torn
  Repeats = 2
  MaxTees = 2
  MaxEpoch = 2
  MaxTxs = 6
  MaxRuns = 2
INVARIANTS
  TypeOK
  FileTellsTruth
  SuccessPromotes
PROPERTIES
  GateSparesTransactions
  EveryStepShortensTheRun
  EveryRunEnds
CHECK_DEADLOCK FALSE
