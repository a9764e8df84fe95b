SPECIFICATION Spec
CONSTANTS
    QueueCap = 2
    KeyCap = 2
    ChunkLen = 2
    MaxResize = 2
    Suspends = TRUE
    Detaches = TRUE
INVARIANTS
    TypeOK
    TerminalRestored
    AttachedWhileReading
    SizeNotForgotten
PROPERTIES
    DieEnds
    SizeReaches
