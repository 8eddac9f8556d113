\* connect() called again after a connection is over, while the reading
\* and the writing task of the first connection are still there.
CONSTANTS
    MaxConns = 2
    MaxRequests = 1
    PeerSendsHello = FALSE
SPECIFICATION Spec
CHECK_DEADLOCK FALSE
PROPERTY
    FinishedByOwnTasks
