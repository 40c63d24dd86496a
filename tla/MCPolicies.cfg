CONSTANTS
  MaxTasks = 3
  NumThreads = 2
  Prefixes = {"policy", "idle-policy"}
  AlreadyExists = AlreadyExists
  NotFound = NotFound
  Failed = Failed
  NoError = NoError
  Errors <- MCErrors
SPECIFICATION Spec
INVARIANTS
  CountIsRightOnSuccess
  DenseWithoutFaults
  NeverOvershoots
