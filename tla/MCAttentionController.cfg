SPECIFICATION Spec
CONSTANTS
    Dist <- MCDist
    PortionScale = 10
    Mtu = 1500
    WordSize = 8
    IngressEntries = 16
    EgressEntries = 12
    MedianFloor = 2
    InitMedian = 2
    IllZone0 = 2
    IllZone1 = 10
    IllZone2 = 4
    RatioNum = 21
    RatioDen = 10
    MinNum = 18
    MinDen = 10
    SampleScale = 16
    FlowNums = {0, 1, 4, 9, 20, 26}
    SmallCounts <- MCSmallCounts
INVARIANTS
    TypeOK
    ZonesFit
    HealthyLayout
    DeployedInSync
    CrashOnlyEmptyMedian
PROPERTIES
    EmptyMedianIsAbsorbing
    OnlyLoweringHHInverts
