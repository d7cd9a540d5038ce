SPECIFICATION FairSpec
CONSTANTS
    MaxLocks = 4
    Items = 2
    Instances <- InstancesOf
    MaxItems <- MaxItemsOf
    InfoSize = 32
    DescSize = 68
    PageSize = 8
    Creators <- CreatorsOf
    Desc <- DescOf
    MaxCalls = 2
    MaxKills = 1
INVARIANTS TypeOK ChunksDisjoint HeapSuffices ValuesUnderOwnName EntriesDistinct PoolExclusive
PROPERTIES ImplementsLock StopEnds
