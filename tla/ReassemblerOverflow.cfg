\* The reader towards a peer that uses every sequence number of three bits
\* and stops at the largest.
CONSTANTS
    r1 = r1
    r2 = r2
    r3 = r3
    RequestIds <- MCRequestIds
    max_chunk_count = 2
    MaxParts = 3
    SeqMax = 7
    MaxSeq = 7
    PeerInterleaves = FALSE
    StrictStart = FALSE
SYMMETRY Symmetry
SPECIFICATION Spec
CHECK_DEADLOCK FALSE
INVARIANT
    ReaderNeverPanics
