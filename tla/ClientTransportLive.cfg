\* One connection under fair scheduling, against a peer that answers the
\* HELLO with a frame the reader knows or closes the stream.
CONSTANTS
    MaxConns = 1
    MaxRequests = 2
    PeerSendsHello = FALSE
SPECIFICATION LiveSpec
\* A connection ends: its tasks stop and nothing is left to do.
CHECK_DEADLOCK FALSE
PROPERTIES
    ReaderExitStopsWriter
    GracefulClose
    ConnectReturns
