CONSTANTS
    Chains = 2
    Pieces <- MCPieces
    Carry <- MCCarry
    MaxRounds = 2
    MaxWire = 1
SPECIFICATION Spec
INVARIANTS WholeWhenAvailable CleanBeforeReuse NoUnderrun
PROPERTY ReadoutEnds
\* the switch stops after MaxRounds
CHECK_DEADLOCK FALSE
