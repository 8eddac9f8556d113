\* The reader towards a peer that may interleave and abort messages; two
\* requests may be under reassembly at a time.  Sequence numbers have three
\* bits, and the peer sends ten chunks: the last three come after the wrap.
CONSTANTS
    r1 = r1
    r2 = r2
    r3 = r3
    RequestIds <- MCRequestIds
    max_chunk_count = 2
    MaxParts = 3
    SeqMax = 7
    MaxSeq = 10
    PeerInterleaves = TRUE
    StrictStart = FALSE
SYMMETRY Symmetry
SPECIFICATION Spec
\* The reader stops at its first error or panic and the peer at MaxSeq.
CHECK_DEADLOCK FALSE
INVARIANTS
    TypeOK
    FailureOnlyByPeer
    NoSilentLoss
    TableIsInFlight
    RequestsBounded
