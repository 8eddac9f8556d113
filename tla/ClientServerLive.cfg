\* One client and the server with one transport under fair scheduling, the
\* client sending one request of up to two chunks: what must happen.
CONSTANTS
    MaxRequests = 1
    MaxRequestChunks = 2
    MaxBatch = 2
    MaxResponseChunks = 2
SPECIFICATION LiveSpec
\* Both ends stop when the connection is over.
CHECK_DEADLOCK FALSE
INVARIANTS
    ResponsesReassembled
PROPERTIES
    ConnectReturnsUnlessAckLost
    ServerCloseFinishesClient
    ReaderExitStopsWriter
    GracefulClose
    AbortEndsConnection
