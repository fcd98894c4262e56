SPECIFICATION Spec
CONSTANTS
  Modules <- MCModules
  MaxEntities = 3
  MaxReloads = 1
INVARIANTS
  TypeOK
  OneWindowIsMade
  WindowBeforeRenderer
  TimeRowsOfRegistrations
PROPERTIES
  ClosingIsConfirmed
  CloseIsDecided
CHECK_DEADLOCK FALSE
