SPECIFICATION SearchSpec
CONSTANT MaxThresh = 8
INVARIANTS FindsCrossing FindsLowest
PROPERTY Terminates
\* the search stops when the bounds meet
CHECK_DEADLOCK FALSE
