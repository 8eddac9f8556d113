\* One connection: can the writing task reach the panic of send_request?
CONSTANTS
    MaxConns = 1
    MaxRequests = 1
    PeerSendsHello = FALSE
SPECIFICATION Spec
CHECK_DEADLOCK FALSE
INVARIANT
    WriterNeverPanics
