\* One switch, one packet of a readout lost, every epoch handled in time.
CONSTANTS
    d1 = d1
    d2 = d2
    Dev = {d1}
    Filters = {"filter"}
    LastBucket = 1
    CounterSize = 3
    BurstSize = 2
    Prompt = TRUE
    MaxFlips = 5
    MaxPackets = 1
    MaxLost = 1
SPECIFICATION Spec
INVARIANTS LostBucketHeals LostLastDesyncs
CHECK_DEADLOCK FALSE
