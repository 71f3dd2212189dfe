SPECIFICATION FrSpec
CONSTANTS
    FrPipe = {p1, p2, p3}
    FrParts = {1, 2}
    FrEnds = 1
INVARIANT
    FrAtomic
CHECK_DEADLOCK FALSE
