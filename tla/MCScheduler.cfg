SPECIFICATION FairSpec
CONSTANTS
  a = a
  b = b
  c = c
  Definitions <- MCDefinitions
INVARIANTS
  TypeOK
PROPERTIES
  ImplementsTicks
  StopEndsLoop
