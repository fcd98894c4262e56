SPECIFICATION Spec
CONSTANTS
  FileCount = 2
  EntryFile = 2
  Sources <- NestedSources
  Trees <- StartTrees
  StartupEdits = FALSE
  MaxEdits = 1
  MaxFaults = 0
INVARIANTS
  ComponentsAsDeclared
CHECK_DEADLOCK FALSE
