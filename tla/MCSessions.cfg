INIT Init
NEXT Next
CONSTANTS
  Files <- IncludedFiles
  Programs <- AssignedFunctions
INVARIANTS
  AsMeant
CHECK_DEADLOCK FALSE
