SPECIFICATION HostSpec
CONSTANTS
  Names <- MCNames
  Literals <- MCLiterals
  Unquoted <- MCUnquoted
  Numbers <- MCNumbers
  MaxEntities = 6
  Projects <- MCProjects
  CoreSources <- MCCoreSources
  FullDisk = {}
  HierarchySize = 12
  Parse <- ParseFile
  CollectDeclarations <- CollectFiles
  LinkBodies <- LinkAll
  Decompile <- ModuleText
  Hosts <- MCHosts
  Draws <- MCDraws
  MaxRuns = 2
  MaxBlobs = 3
  Sizes = {0, 1}
  Bytes = {1}
  Texts <- MCTexts
  Garbage = 9
CHECK_DEADLOCK FALSE
INVARIANTS
  ReturnEndsItsFunction
  EachOwnerIsVisitedOnce
  NoFreedRowIsUsed
  ExpressionsMeanTheirText
PROPERTY ImplementsBlobMap
