SPECIFICATION FairSpec
CONSTANTS
  KeepLatestPodsOnly = TRUE
  LastTask = 2
  MaxAttempts = 1
  MaxGen = 2
  MaxPods = 3
  MaxReapers = 2
  MaxFaults = 1
INVARIANTS
  TypeOK
PROPERTIES
  PodFindsItsObjects
  SetupIsRetriable
CHECK_DEADLOCK FALSE
