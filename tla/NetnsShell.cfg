SPECIFICATION ShellFairSpec
CONSTANTS
    Total = 3
    Concurrency = 2
    MaxIgnored = 1
INVARIANTS
    StagesAligned
    NetworksOwned
PROPERTIES
    ShellEnds
