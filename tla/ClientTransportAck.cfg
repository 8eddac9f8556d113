\* Two connections: can the ACK arm of the reading task store Processing
\* over a Finished that another task has stored meanwhile?
CONSTANTS
    MaxConns = 2
    MaxRequests = 1
    PeerSendsHello = FALSE
SPECIFICATION Spec
CHECK_DEADLOCK FALSE
PROPERTY
    AckNeverUndoesFinished
