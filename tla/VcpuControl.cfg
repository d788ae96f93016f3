CONSTANTS
    N = 2
    MaxOps = 3
    Late = TRUE
    SpawnFails = TRUE
    Repeated = FALSE
SPECIFICATION FairSpec
INVARIANTS OkMeansDone SavedStatesAreCurrent ErrorExitReported
PROPERTIES VmmEnds OperationReturns
