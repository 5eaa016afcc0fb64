SPECIFICATION Spec
CONSTANTS
  Affected = {}
  RetryLabels = {}
  SetupLabels = {}
  PluginNames = {}
  PluginWhen <- NoPluginWhen
  PluginTask <- NoPluginTask
  IgnoreDeletes = {TRUE, FALSE}
  KeepPods = FALSE
  DeleteBeforeFirstStage = FALSE
  EvictPhases = {"Running", "Failed"}
  EvictRecordedOnly = FALSE
  EvictAfterLook = TRUE
  PodLag = FALSE
  Faults = {}
  MaxUid = 1
  MaxGen = 2
  MaxPods = 9
  MaxLabels = 0
  MaxFailures = 1
  MaxEvictions = 1
  MaxFaults = 0
INVARIANTS
  TypeOK
  TasksRunInOrder
  CompletedRanWholeWorkflow
PROPERTIES
  ReleasedOnlyAfterDestroy
  NoCreateTaskOnceDeleting
  InProgressStageKept
CHECK_DEADLOCK FALSE
