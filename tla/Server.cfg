CONSTANTS
    c1 = c1
    c2 = c2
    Conns <- MCConns
    ClientFrames <- MCClientFrames
    MaxFrames = 3
    MaxBatch = 2
    MaxResponseChunks = 2
SYMMETRY Symmetry
SPECIFICATION Spec
CHECK_DEADLOCK FALSE
INVARIANTS
    TypeOK
    HandledInSequence
    ResponsesNumberedOnce
    ErrorFrameIsLast
    SweepKeepsLive
PROPERTY
    NoRequestBeforeHello
    TransportLifecycleSpec
