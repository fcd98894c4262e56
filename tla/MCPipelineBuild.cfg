SPECIFICATION FairSpec
CONSTANTS
  a = a
  b = b
  c = c
  x = x
  SystemNames <- MCNames
  Registries <- MCRegistries
INVARIANTS
  TypeOK
  OrderRespectsAttributes
  RejectedOnlyForCycle
  MatchesRegistrationOrder
PROPERTIES
  BuildReturns
CHECK_DEADLOCK FALSE
