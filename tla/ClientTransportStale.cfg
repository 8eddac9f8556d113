\* connect() called again after a connection is over: does it report on the
\* connection it started?
CONSTANTS
    MaxConns = 2
    MaxRequests = 1
    PeerSendsHello = FALSE
SPECIFICATION Spec
CHECK_DEADLOCK FALSE
INVARIANT
    IdleMeansDisconnected
