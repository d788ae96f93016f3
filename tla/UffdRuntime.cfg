SPECIFICATION FairSpec
CONSTANTS
    Retries = 2
    MaxFaults = 3
    MaxMessages = 3
PROPERTIES
    FaultsAnswered
    StopReturns
