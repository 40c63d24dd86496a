SPECIFICATION Spec
CONSTANTS
  Numbers <- MCNumbers
  MaxNumbers = 5
  Series <- MCSeries
  Connections <- MCConnections
  Seqs <- MCSeqs
  MaxLines = 3
  Nil = Nil
  Ports <- MCPorts
  Amounts <- MCAmounts
INVARIANTS
  PercentilesAreNearestRanks
  RetransmissionsAreCounted
  ValidationMatchesUse
CHECK_DEADLOCK FALSE
