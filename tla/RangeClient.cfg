SPECIFICATION FairSpec
CONSTANTS
    page_size = 2
    FETCH_CHUNK_SIZE = 4
    remote_size = 10
    MaxFetches = 4
CHECK_DEADLOCK FALSE
INVARIANTS
    OwnAnswer
    PanicOnlyAfterFresh
PROPERTIES
    FetchEnds
