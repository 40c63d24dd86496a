CONSTANTS
  MaxTasks = 3
  NumThreads = 2
  eTimeout = eTimeout
  eConflict = eConflict
  NoError = NoError
  Errors <- MCErrors
SPECIFICATION PoolSpec
INVARIANTS
  PoolTypeOK
  CallsAreBounded
  NothingOutlivesTheCall
  ReportsTheFirstFailure
PROPERTIES
  EveryCallReturns
  ImplementsBulkCall
