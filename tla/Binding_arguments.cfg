SPECIFICATION Spec
CONSTANTS
  Names <- MCNames
  Signature <- MCSignature
  Templates <- MCTemplates
  Numbers <- MCNumbers
  MaxAttempts = 3
  MaxWrites = 1
INVARIANTS RecordsShowInputs ModelLands SymbolsMatchModel WritableButTuples
CHECK_DEADLOCK FALSE
