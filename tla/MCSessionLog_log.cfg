SPECIFICATION Spec
CONSTANTS
    MaxSize = 3
    BufSize = 2
    Newlines <- MCNewlines
    MaxOut = 7
    Starts = 3
    MaxLines = 2
CHECK_DEADLOCK FALSE
INVARIANTS
    TypeOK
    LogHoldsOutput
    LogBounded
    ShownOnce
PROPERTIES
    PrintsLastLines
    FollowerCatchesUp
