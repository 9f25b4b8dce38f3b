SPECIFICATION SpecAll
CONSTANTS
    c1 = c1
    c2 = c2
    v1 = v1
    v2 = v2
    v3 = v3
    d = d
    e = e
    Clusters <- TwoClusters
    Volumes <- ThreeVolumes
    Handle <- HandleOf
    Paths <- TwoPaths
    Location <- AllInD
    OwnPaths <- OwnPathsOf
    ClassPaths <- ClassPathsOf
    Configs <- TwoConfigs
    MaxConn = 2
INVARIANTS
    IInv
    NoTallyLost
    NeverStuck
    TopologyRecorded
PROPERTIES
    NoQuotaMissed
    CycleAdvances
    ExportsReturn
    QuotasImplementCycle
