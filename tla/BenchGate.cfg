SPECIFICATION FairSpec
CONSTANTS
    Total = 5
    Concurrency = 4
    PreparedOpFails = FALSE
INVARIANTS
    ResultsComplete
PROPERTIES
    ImplementsGate
    BenchEnds
