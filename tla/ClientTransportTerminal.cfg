\* One connection: is the status code of the first Finished kept?
CONSTANTS
    MaxConns = 1
    MaxRequests = 1
    PeerSendsHello = FALSE
SPECIFICATION Spec
CHECK_DEADLOCK FALSE
PROPERTY
    FirstTerminalCodeWins
