SPECIFICATION Spec
CONSTANTS
  Names = {Hierarchy, A}
  Hierarchy = Hierarchy
  A = A
  Values = {zero}
  zero = zero
  NoParent = zero
  IdLimit = 6
INVARIANTS
  TypeOK
  IdsUnique
  RowsOfLiveEntities
  HierarchyTotal
  BuffersCover
CHECK_DEADLOCK FALSE
