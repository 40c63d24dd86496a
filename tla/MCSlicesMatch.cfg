CONSTANTS
  MaxNodes = 2
  PodsPerNode = 1
  MaxPods = 2
  MaxRounds = 1
  MaxFaults = 0
SPECIFICATION Spec
INVARIANT
  SlicesMatch
