SPECIFICATION ScriptsSpec
CONSTANTS
  Affected = {"preapply-delete"}
  PluginNames = {}
  Specs <- UserSpecs
  OutputsOf <- Declared
  PartialDownloads = {4}
  MaxGen = 2
  MaxRuns = 9
  MaxTroubles = 1
INVARIANTS
  RunsInOrder
  TypeOK
  CompletedIsApplied
  AppliedWasApproved
  OutputsAreSaved
  OutputsAreShown
  VarFilesInOrder
PROPERTIES
  GoneIsDestroyed
CHECK_DEADLOCK FALSE
