SPECIFICATION FairSpec
CONSTANTS
    Vcpus = {v1, v2}
    Pages = {p1, p2}
    NoPage = NoPage
    MaxFaults = 3
    MaxRemoves = 2
INVARIANTS
    NoLostFault
PROPERTIES
    EveryFaultResolved
