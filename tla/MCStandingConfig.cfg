CONSTANTS
  Configs <- MCConfigs
  BackendPods = 1
  MaxAttempts = 2
  MaxTests = 3
  MaxFaults = 2
SPECIFICATION Spec
INVARIANTS
  RunsWithWhatItNeeds
  ExactAfterCleanup
PROPERTIES
  LeftoversDoNotStopIt
  RunEnds
