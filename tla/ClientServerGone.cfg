\* One client and the server under fair scheduling: does the server let go
\* of a connection whose client has gone?
CONSTANTS
    MaxRequests = 1
    MaxRequestChunks = 1
    MaxBatch = 1
    MaxResponseChunks = 1
SPECIFICATION LiveSpec
CHECK_DEADLOCK FALSE
PROPERTY
    ClientCloseEndsConnection
