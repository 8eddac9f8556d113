\* One connection from connect() to its end, against a peer that may send any
\* frame, a frame the reader does not know included.
CONSTANTS
    MaxConns = 1
    MaxRequests = 2
    PeerSendsHello = TRUE
SPECIFICATION Spec
\* A connection ends: its tasks stop and nothing is left to do.
CHECK_DEADLOCK FALSE
INVARIANTS
    TypeOK
    NoHalfDeadConnection
    ResponseOnlyForInflight
    IdleMeansDisconnected
PROPERTY
    LifecycleSpec
    TerminalCodeReplacedByWriterOnly
