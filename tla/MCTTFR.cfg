CONSTANTS
  MaxNodes = 2
  PodsPerNode = 1
  MaxPods = 3
  MaxRounds = 2
  MaxFaults = 1
SPECIFICATION Spec
INVARIANTS
  PodsAreDeleted
  UpWithinPermits
  ResultsAreMeasurements
PROPERTY
  RoundsEnd
