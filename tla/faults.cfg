SPECIFICATION FairSpec
CONSTANTS
  Affected = {}
  RetryLabels = {}
  SetupLabels = {}
  PluginNames = {}
  PluginWhen <- NoPluginWhen
  PluginTask <- NoPluginTask
  IgnoreDeletes = {FALSE}
  KeepPods = FALSE
  DeleteBeforeFirstStage = FALSE
  EvictPhases = {}
  EvictRecordedOnly = FALSE
  EvictAfterLook = TRUE
  PodLag = FALSE
  Faults = {"status", "update", "create", "delete", "get", "list", "crash"}
  MaxUid = 1
  MaxGen = 1
  MaxPods = 9
  MaxLabels = 0
  MaxFailures = 1
  MaxEvictions = 0
  MaxFaults = 2
INVARIANTS
  TasksRunInOrder
  OneLivePodPerStage
PROPERTIES
  ReleasedOnlyAfterDestroy
  ImplementsWorkflow
  DeletionEnds
  WorkflowSettles
CHECK_DEADLOCK FALSE
