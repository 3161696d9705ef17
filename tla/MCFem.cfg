SPECIFICATION Spec
CONSTANTS
  Names = {"a"}
  Dims = {2}
  Users = {0, 2}
  Vectors <- MCVectors
  Files <- MCFiles
  MaxNodes = 3
  MaxMeshes = 2
  MeshingCalls = 5
  MaxNumber = 5
  Meshings <- MCMeshings
  ElementTypes <- MCElementTypes
  Dofs = {0, 1}
  Groups <- MCGroups
  Conditions <- MCConditions
  Forces <- MCForces
  Unset = 99
  SystemCalls = 3
  MaxSize = 3
  Offs <- MCOffs
  Ons <- MCOns
  Starts <- MCStarts
  Entries <- MCEntries
  MatrixCalls = 2
  Types <- MCTypes
  Features = {"K", "M"}
  Models <- MCModels
  Cara = {"E", "nu", "Iy"}
  Numbers = {x1}
  MaxLists = 2
  LibraryCalls = 7
  Kinds = {"NODES", "NODE_ON_ELEMENTS", "ELEMENTS", "what"}
  Spaces = {1, 2}
  ResultRows = {3, 7}
  Sizes = {1, 2}
  Informations = {1, 3}
  Values = {x2}
  AnalysisCalls = 5
  Sentences <- MCSentences
  DofNames = {"DX", "DY"}
  GroupFiles <- MCGroupFiles
  Lists <- MCLists
  GroupCalls = 2
INVARIANTS
  MeshingsWhole
  EquationsNumbered
  ProductsRight
  AttributesExact
  ResultsKept
PROPERTIES
  SystemRight
CHECK_DEADLOCK FALSE
