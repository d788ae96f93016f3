CONSTANTS
    Chains <- SmallChains
    MaxReqs = 3
    MaxSaves = 1
    Engines = {"Sync", "Async"}
    RingSize = 1
    OpsBudget = 2
    BytesBudget = 4
    NumSectors = {1, 2}
    SECTOR_SIZE = 4
    VIRTIO_BLK_ID_BYTES = 3
    U64 = 16
SPECIFICATION FairSpec
INVARIANTS EveryRequestInOnePlace SnapshotComplete
PROPERTIES StaysInDisk EveryRequestReturned
