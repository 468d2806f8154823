SPECIFICATION Spec
CONSTANTS
    MaxAttempts = 5
    Capacity = 3
    Unpicklable = TRUE
    DiesWriting = TRUE
    StallsWriting = FALSE
INVARIANT LostChildAccounted
INVARIANT CheckpointTrue
INVARIANT FinalPreferred
PROPERTY ComesBack
