SPECIFICATION RewritingSpec
CONSTANTS
  Targets <- MCTargets
  Source <- MCSource
  Arguments <- MCArguments
  Supply <- MCSupply
  MaxRewrites = 3
INVARIANTS SameResult ChainsTrue
CHECK_DEADLOCK FALSE
