SPECIFICATION FairSpec
CONSTANTS
  FileCount = 2
  EntryFile = 2
  Sources <- MCSources
  Trees <- MCTrees
  StartupEdits = FALSE
  MaxEdits = 3
  MaxFaults = 1
INVARIANTS
  TypeOK
  OneModuleRuns
  StoresFit
PROPERTIES
  BadBuildIsSurvived
  LastSaveIsBuilt
CHECK_DEADLOCK FALSE
