CONSTANTS
  Configs <- MCConfigs
  BackendPods = 1
  MaxAttempts = 2
  MaxTests = 2
  MaxFaults = 0
SPECIFICATION Spec
INVARIANT
  StandingPodsAreUp
