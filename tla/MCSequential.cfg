SPECIFICATION SequentialSpec
CONSTANTS
  Texts <- MCTexts
  BufferSize = 4
  LineSize = 4
  Boundary = 2
  Span = 2
  MaxDepth = 4
  MaxEvaluations = 6
  DataSets = {55, 56, 57, 58, 2414}
  AnalysisTypes = {0, 1, 2, 3, 4, 5, 6, 7}
  Layouts <- MCLayouts
  HeaderLines <- MCHeaderLines
  Types = {"UNV55", "UNV2411", "UNVXX"}
  MaxBlocks = 2
  Files <- MCFiles
  Programs <- MCPrograms
  Elements = {1, 2}
  PageSizes = {0, 1, 2}
  MaxElements = 4
  Keys <- MCKeys
  HashValues = {v1, v2}
  TableSizes = {1, 3}
  HASH_COLLISION_MAX = 2
  MaxCopies = 4
  Cells = {1, 2, 3}
  Data = {5, 6}
  SLINK_CACHE_SIZE = 2
  FunctionNames = {"f"}
  Signatures <- MCSignatures
  ObjectTypes = {"float", "list", "matrix"}
  Copyable = {"float", "list"}
  FUNC_MAX_ARGS = 2
  MaxFunctions = 3
  Libraries <- MCLibraries
  Here = "here"
  Paths = {"lib", "other"}
  Modules = {"base", "fem", "plot", "new", "text", "fails"}
  UserTypes <- MCUserTypes
  HAPLO_MAJOR = 2
  HAPLO_MINOR = 3
  MaxLoads = 5
  Lines <- MCLines
  Leaks = {TRUE, FALSE}
  Addresses = {1, 2}
  Sizes = {0, 1, 2}
  MaxBlocksAsked = 3
  Codes = {1440}
  MaxCallDepth = 4
  MaxReports = 2
  Million = 3
  Seconds = 2
  ClockSteps = {2}
  Widths = {3, 4, 6}
  MantissaBits = 4
  BLOCK = 4
  WORD = 1
  Limit = 64
  Pieces = {1, 2, 3, 4, 5, 9, 13}
  MaxGiven = 19
INVARIANTS
  StreamExact
  BlocksRead
  AsMeant
  ContainersExact
  CallsRight
  EndsInnermost
  ModulesSound
  ReportsRight
PROPERTIES
  Implements
CHECK_DEADLOCK FALSE
