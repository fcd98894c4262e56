SPECIFICATION Spec
CONSTANTS
  FileCount = 2
  EntryFile = 2
  Sources <- CircularSources
  Trees <- StartTrees
  StartupEdits = FALSE
  MaxEdits = 1
  MaxFaults = 0
INVARIANTS
  ReloadKeepsRunning
CHECK_DEADLOCK FALSE
