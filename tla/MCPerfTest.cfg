SPECIFICATION Spec
CONSTANTS
  NumNodes = 3
  Configs <- MCConfigs
  Length = 2
  MaxTries = 2
  MaxFaults = 1
INVARIANTS
  SummariesAreComplete
  InheritsOnlyWhatTerminates
  OnePath
PROPERTIES
  TestsEnd
CHECK_DEADLOCK FALSE
