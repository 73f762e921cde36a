\* Two switches, nothing lost, every epoch handled before the next one ends.
CONSTANTS
    d1 = d1
    d2 = d2
    Dev = {d1, d2}
    Filters = {"filter"}
    LastBucket = 0
    CounterSize = 3
    BurstSize = 2
    Prompt = TRUE
    MaxFlips = 3
    MaxPackets = 1
    MaxLost = 0
SPECIFICATION Spec
INVARIANTS ReportsOneEpoch LossSettles
PROPERTIES ImplementsCollection EveryEpochReported
CHECK_DEADLOCK FALSE
