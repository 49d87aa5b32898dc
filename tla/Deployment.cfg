SPECIFICATION Spec
CONSTANTS
  Absent = Absent
  Malformed = Malformed
  Configurations <- MCConfigurations
  Filters <- MCFilters
  Governances <- MCGovernances
  MaxSenders = 2
  MaxExts = 3
  MaxRuns = 3
INVARIANTS
  DeployTypeOK
  EnvNamesWorkingExtension
  CleanReportBinds
  CleanReportIsSound
  SetupIsServed
CHECK_DEADLOCK FALSE
