\* The reader towards a peer that sends one message after the other, each of
\* up to four chunks, with max_chunk_count = 2.
CONSTANTS
    r1 = r1
    r2 = r2
    r3 = r3
    RequestIds <- MCRequestIds
    max_chunk_count = 2
    MaxParts = 4
    SeqMax = 7
    MaxSeq = 6
    PeerInterleaves = FALSE
    StrictStart = FALSE
SYMMETRY Symmetry
SPECIFICATION Spec
CHECK_DEADLOCK FALSE
INVARIANT
    ChunkBound
