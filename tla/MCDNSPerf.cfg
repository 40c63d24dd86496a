CONSTANTS
  pod1 = pod1
  pod2 = pod2
  Pods <- MCPods
  Modes <- MCModes
  Capacity = 1
  MaxCurls = 3
  MaxTries = 2
SPECIFICATION Spec
INVARIANTS
  EveryResultArrives
  CapturesAreComplete
PROPERTIES
  EverythingEnds
