SPECIFICATION Spec
CONSTANTS
  Names <- MCNames
  Literals <- MCLiterals
  Unquoted <- MCUnquoted
  Projects <- MCProjects
  FullDisk <- MCFullDisk
  CoreSources <- MCCoreSources
  HierarchySize = 12
  Parse <- ParseFile
  CollectDeclarations <- CollectFiles
  LinkBodies <- LinkAll
  Decompile <- ModuleText
CHECK_DEADLOCK FALSE
INVARIANTS
  BuiltModuleLoads
  ReadsWhatWasMeant
  ComponentsAreRegistered
  PartialFileIsRefused
  DecompiledModuleRebuilds
  FileOrderIsImmaterial
  HeaderMatchesModule
  TreePassesDeliver
