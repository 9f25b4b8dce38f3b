SPECIFICATION FairSpec
CONSTANTS
    c1 = c1
    c2 = c2
    c3 = c3
    Clusters <- Three
    Configs <- TwoConfigs
    MaxConn = 1
    Kinds = {"performance"}
INVARIANTS
    BoundedQueries
    NoSendOnClosedChannel
    ReleaseNeverBlocks
    NoMetricLost
    StatusSound
    NeverStuck
    IInv
PROPERTIES
    CycleAdvances
    CycleTerminates
    ImplementsCycle
