SPECIFICATION ScriptFairSpec
CONSTANTS
    Script = "lazy_remote_dedup"
    Count = 2
    MaxRuns = 2
    FirecrackerDies = TRUE
    ScriptKilled = TRUE
INVARIANTS OwnEndpoints StartedRunLeavesNothing
PROPERTIES RunEndsUnlessSpinning
