SPECIFICATION Spec
CONSTANTS
    MaxSize = 3
    BufSize = 2
    Newlines <- MCNewlines
    MaxOut = 3
    Starts = 1
    MaxLines = 1
CHECK_DEADLOCK FALSE
PROPERTIES
    ReaffirmsOnly
