CONSTANTS
  Requests <- MCRequests
  Limits <- MCLimits
  MaxTests = 3
  MaxFaults = 2
SPECIFICATION Spec
INVARIANTS
  ReadyAsRequested
  NeverBPFWithKubeProxy
  SettledBeforeTheTest
  CoherentWithoutFaults
