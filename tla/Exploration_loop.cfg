SPECIFICATION FairSpec
CONSTANTS
    i0 = i0
    i1 = i1
    i2 = i2
    i3 = i3
    i4 = i4
    ch = ch
    NoChain = NoChain
    Chains = {ch}
    InitialArgs = i0
    Lines <- MCLines
    TargetLines <- MCTargetLines
    PreCovered <- MCPreCovered
    Inputs = {i0, i1, i2}
    ChainOf <- MCMixedChains
    MaxIterations = 2
    PlateauThreshold = 2
    MaxStaleAttempts = 1
    PostLoopRounds = 2
    MiniIterations = 1
    StreakThreshold = 1
    OwnTimeouts = FALSE
    MaxSeeds = 1
    MaxConstraints = 2
INVARIANT RecordsDistinct
INVARIANT SeedsNotStranded
INVARIANT DeltasPartition
CHECK_DEADLOCK FALSE
PROPERTY Terminates
