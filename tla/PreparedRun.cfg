SPECIFICATION Spec
CONSTANTS
    NumWorkers = 2
    Total = 3
    Ops <- AllOps
    ATTEMPTS = 2
    MaxIgnored = 1
INVARIANTS
    RestoreInOrder
    InTheRightNamespace
    ContextsOwned
    ChildGone
