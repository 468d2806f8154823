SPECIFICATION StrSpec
CONSTANTS
  Inputs <- MCInputs
  Literals <- MCLiterals
  Texts <- MCTexts
  Pieces <- MCPieces
  Unicode <- MCUnicode
  Bound = 12
  MaxLength = 4
  MaxSteps = 3
INVARIANTS Coherent BranchesHold RangeFaithful SplitFaithful CharactersFaithful
CHECK_DEADLOCK FALSE
