CONSTANTS
    c1 = c1
    c2 = c2
    Conns <- MCConns
    ClientFrames <- MCPoliteFrames
    MaxFrames = 2
    MaxBatch = 1
    MaxResponseChunks = 1
SYMMETRY Symmetry
SPECIFICATION Spec
CHECK_DEADLOCK FALSE
PROPERTY
    DeadConnectionsSwept
