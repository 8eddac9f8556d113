\* Two connections one after the other on the same state cell; the tasks of
\* the first may still run while the second is set up.
CONSTANTS
    MaxConns = 2
    MaxRequests = 1
    PeerSendsHello = FALSE
SPECIFICATION Spec
\* A connection ends: its tasks stop and nothing is left to do.
CHECK_DEADLOCK FALSE
INVARIANT
    QuitFromOwnReader
