SPECIFICATION Spec
CONSTANTS
  Names = {Hierarchy, A, B}
  Hierarchy = Hierarchy
  A = A
  B = B
  Values = {zero, v}
  zero = zero
  v = v
  NoParent = zero
  IdLimit = 3
INVARIANTS
  NamesUnique
PROPERTIES
  RowsKeepTheirPlace
  ImplementsEntityMap
CHECK_DEADLOCK FALSE
