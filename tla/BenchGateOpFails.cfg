SPECIFICATION FairSpec
CONSTANTS
    Total = 2
    Concurrency = 2
    PreparedOpFails = TRUE
PROPERTIES BenchEnds
