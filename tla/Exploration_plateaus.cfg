SPECIFICATION Spec
CONSTANTS
    i0 = i0
    i1 = i1
    i2 = i2
    i3 = i3
    i4 = i4
    ch = ch
    NoChain = NoChain
    Chains = {ch}
    InitialArgs = i0
    Lines <- MCFewLines
    TargetLines <- MCFewTargetLines
    PreCovered = {}
    Inputs = {i0, i1, i2, i3, i4}
    ChainOf <- MCMixedChains
    MaxIterations = 2
    PlateauThreshold = 1
    MaxStaleAttempts = 1
    PostLoopRounds = 0
    MiniIterations = 0
    StreakThreshold = 1
    OwnTimeouts = TRUE
    MaxSeeds = 1
    MaxConstraints = 3
INVARIANT DispatchesBounded
PROPERTY PlateauMeasured
SYMMETRY MCSymmetry
CHECK_DEADLOCK FALSE
