SPECIFICATION RewritingSpec
CONSTANTS
  Targets <- MCTargets
  Source <- MCSource
  Arguments <- MCArguments
  Supply <- MCSupply
  MaxRewrites = 1
INVARIANTS LinesPreserved
CHECK_DEADLOCK FALSE
