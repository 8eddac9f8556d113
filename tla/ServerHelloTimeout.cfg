CONSTANTS
    c1 = c1
    c2 = c2
    Conns <- MCOne
    ClientFrames <- MCPoliteFrames
    MaxFrames = 2
    MaxBatch = 1
    MaxResponseChunks = 1
SPECIFICATION Spec
CHECK_DEADLOCK FALSE
PROPERTY
    TimeoutIsFinal
