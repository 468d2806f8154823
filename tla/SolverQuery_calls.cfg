SPECIFICATION Spec
CONSTANTS
  Paths <- MCPaths
  Ints <- MCInts
  Halves <- MCHalves
  Texts <- MCTexts
  Configs <- MCConfigs
  Unicode <- MCUnicode
  StoreId = 2
  MaxCalls = 2
INVARIANTS SolvedInputSatisfies FaithfulUnsat
CHECK_DEADLOCK FALSE
