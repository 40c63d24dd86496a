CONSTANTS
  Configs <- MCConfigs
  Namespaces = {"testns1", "testns2"}
  Limits = {"1", "2"}
  Unset = "unset"
  Length = 3
  MaxFaults = 2
  MaxWriteFaults = 1
  MaxSlow = 1
SPECIFICATION Spec
INVARIANTS
  UploadsAreComplete
  FileIsAPrefix
  LimitIsOwn
  NamespaceIsFresh
PROPERTIES
  ImplementsDriver
