\* One client and the server with one transport, the client sending up to
\* two requests of up to two chunks: safety of the handshake and of what
\* the server reads.
CONSTANTS
    MaxRequests = 2
    MaxRequestChunks = 2
    MaxBatch = 2
    MaxResponseChunks = 1
SPECIFICATION Spec
\* Both ends stop when the connection is over.
CHECK_DEADLOCK FALSE
INVARIANTS
    TypeOK
    HandshakeAgreement
    NoFrameMisplaced
    OutOfSequenceOnlyAfterLoss
    ResponsesReassembled
