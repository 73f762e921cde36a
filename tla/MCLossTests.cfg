SPECIFICATION TestSpec
CONSTANTS
    C = 2
    hash_len = 3
    total = 4
    total_sam = 2
    Window = 3
    Big = 2
    Flow = {1, 2, 3, 4}
    MaxSize = 2
    FlowHashes <- MCFlowHashes
    PacketHashes <- MCPacketHashes
    FilterHashes <- MCFilterHashes
    Garbage <- MCGarbage
    Rows = 3
    Width = 3
    PRIME = 13
    CounterSize = 25
    IDs = {1, 2, 3, 5}
    FlowID <- MCFlowID
    Sizes = {3, 11, 25}
    PRIME_FING = 5
    FingSize = 2
    IDSpace = 6
    MaxPasses = 4
    MaxVerified = 3
    Variants = {"fermat", "fermat_fing", "level", "8bit"}
    Hashes <- MCHashes
    Fings <- MCFings
INVARIANTS
    RadarsFindAll
    FermatFindsAll
    SumsConserved
PROPERTIES
    ImplementsPeeling
    DecodingEnds
CHECK_DEADLOCK FALSE
