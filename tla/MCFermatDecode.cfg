SPECIFICATION FairSpec
CONSTANTS
    Rows = 3
    Width = 3
    PRIME = 13
    CounterSize = 16
    Entries = 3
    IDs <- MCIDs
    Hashes <- MCHashes
    Heavy = {2}
    MaxIn = 2
    MaxOut = 1
    MaxPackets = 5
INVARIANTS
    Conserved
    NothingOverlooked
    PeelsToCore
    VerdictIsRight
PROPERTY
    Terminates
CHECK_DEADLOCK FALSE
