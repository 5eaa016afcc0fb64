SPECIFICATION FairSpec
CONSTANTS
  Resources = {"one", "two"}
  Namespaces = {"default"}
  Names = {"key", "token"}
  NamespaceOf <- AllInDefault
  FinalizerKey <- OwnKey
  SpecsOf <- SharedKey
  MaxEdits = 1
  Recreated = {"token"}
  MaxFaults = 1
INVARIANTS
  LockHolds
  UnlockedWhenGone
PROPERTIES
  DeletionEnds
CHECK_DEADLOCK FALSE
