SPECIFICATION Spec
CONSTANTS
  FileCount = 2
  EntryFile = 2
  Sources <- LayoutSources
  Trees <- StartTrees
  StartupEdits = FALSE
  MaxEdits = 2
  MaxFaults = 0
INVARIANTS
  ComponentsAsDeclared
CHECK_DEADLOCK FALSE
