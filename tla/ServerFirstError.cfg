\* One connection and a client that sends any frame, two in one read.
CONSTANTS
    c1 = c1
    c2 = c2
    Conns <- MCOne
    ClientFrames <- MCClientFrames
    MaxFrames = 3
    MaxBatch = 2
    MaxResponseChunks = 1
SPECIFICATION Spec
CHECK_DEADLOCK FALSE
PROPERTY
    FirstErrorIsReported
