SPECIFICATION Spec
CONSTANTS
    Creator = c
    Forked = {f}
    Worker = {w1, w2}
    MaxMade = 3
    MaxMoves = 1
    Word = 8
INVARIANTS TypeOK CounterCounts CreatorSafe LastDropFrees NeverZero
SYMMETRY Symmetry
CHECK_DEADLOCK FALSE
