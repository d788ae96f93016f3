SPECIFICATION FairSpec
CONSTANTS
    t1 = t1  t2 = t2  t3 = t3
    i1 = i1  i2 = i2
    NoTask = NoTask
    Tasks = {t1, t2, t3}
    Instances = {i1, i2}
    InstanceOf <- MCInstanceOf
    MaxKills = 1
    MaxFailures = 1
INVARIANTS SnapshotMatches FreshUpper DataWellFormed
PROPERTY TasksEnd
