\* Two switches that do not wait for the controller.
CONSTANTS
    d1 = d1
    d2 = d2
    Dev = {d1, d2}
    Filters = {}
    LastBucket = 1
    CounterSize = 3
    BurstSize = 3
    Prompt = FALSE
    MaxFlips = 3
    MaxPackets = 0
    MaxLost = 0
SYMMETRY DevSym
SPECIFICATION Spec
INVARIANTS WholeUntilOverrun NoEpochReportedTwice
CHECK_DEADLOCK FALSE
