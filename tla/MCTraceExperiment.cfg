SPECIFICATION Spec
CONSTANTS
    Depth = 2
    Width = 2
    HH_THRESHOLD = 3
    HC_THRESHOLD = 2
    mask1 = 3
    mask2 = 6
    ELE_THRESHOLD = 2
    BaseMax = 1
    DigitMax = 1
    Layers = 4
    CountRows = 3
    CountWidth = 2
    capacity = 3
    UnivLevels = 2
    Stages = 2
    StageWidth = 2
    CocoRows = 2
    CocoLength = 2
    HEAVY_STAGE = 2
    BUCKET = 2
    SwapRatio = 3
    counter_num = 2
    LightMax = 3
    Trees = 2
    K_ARY = 3
    WL1 = 9
    RegMax <- MCRegMax
    Limits <- MCLimits
    Limits1 <- MCLimits1
    LimitsD <- MCLimitsD
    Cutoff4 = 20
    Cutoff3 = 18
    inf = 6
    THRESL1 = 2
    THRESL2 = 3
    Kinds = {"cm","cu","mrac","fermat","pcm","countheap","univmon","hashpipe","coco","elastic","fcm"}
    TIMES = 2
    Traces <- MCTraces
    Hashes <- MCHashes
    TowerTypes = {"CM", "CU"}
    Offsets = {0, 1}
    Words = {0, 1, 2, 3}
    EM_ITER = 1
    Garbage = {0, 1}
INVARIANTS
    EstimatesBounded
    RecordsAgree
    PacketsKept
    SplitsOnce
    ReportsRight
CHECK_DEADLOCK FALSE
