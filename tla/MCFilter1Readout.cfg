CONSTANTS
    Chains = 2
    Pieces <- MCPieces
    Carry <- MCCarry
    MaxRounds = 2
    MaxWire = 1
SPECIFICATION Spec
INVARIANT Filter1WholeWhenAvailable
CHECK_DEADLOCK FALSE
