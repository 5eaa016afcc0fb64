SPECIFICATION PodsSpec
CONSTANTS
  Affected = {"*"}
  PluginNames = {"p", "q"}
  Specs <- UserSpecs
  MaxGen = 2
  MaxReapers = 2
  MaxCrashes = 1
INVARIANTS
  TypeOK
  PodsAreValid
  ScriptsAreMounted
  PlansAreHeld
  OldJobsWereLate
  AfterItsTask
  DuePluginsStarted
CHECK_DEADLOCK FALSE
