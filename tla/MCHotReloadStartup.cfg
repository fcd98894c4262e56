SPECIFICATION FairSpec
CONSTANTS
  FileCount = 2
  EntryFile = 2
  Sources <- StartupSources
  Trees <- StartTrees
  StartupEdits = TRUE
  MaxEdits = 1
  MaxFaults = 0
PROPERTIES
  EverySaveIsBuilt
CHECK_DEADLOCK FALSE
