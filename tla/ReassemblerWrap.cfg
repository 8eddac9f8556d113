\* The reader towards a peer that goes on after the largest sequence number,
\* with three-bit numbers.
CONSTANTS
    r1 = r1
    r2 = r2
    r3 = r3
    RequestIds <- MCRequestIds
    max_chunk_count = 2
    MaxParts = 3
    SeqMax = 7
    MaxSeq = 10
    PeerInterleaves = FALSE
    StrictStart = FALSE
SYMMETRY Symmetry
SPECIFICATION Spec
\* The reader stops at its first error or panic and the peer at MaxSeq.
CHECK_DEADLOCK FALSE
PROPERTY
    NumbersNeverReused
