SPECIFICATION FairSpec
CONSTANTS
    Handlers = {h1, h2, h3}
    k1 = k1
    k2 = k2
    Keys <- TwoKeys
    NoKey = NoKey
    Length <- TwoLengths
    MaxRequests = 4
INVARIANTS
    SingleFlight
    NoOrphanedWaiter
    RightBytes
    RequestsAddUp
    IndInv
PROPERTIES
    Implements
    EveryRequestAnswered
