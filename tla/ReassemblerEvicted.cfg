\* The reader towards a peer that interleaves three messages, with
\* max_chunk_count = 2: one of them is evicted and goes on arriving.
CONSTANTS
    r1 = r1
    r2 = r2
    r3 = r3
    RequestIds <- MCRequestIds
    max_chunk_count = 2
    MaxParts = 3
    SeqMax = 7
    MaxSeq = 6
    PeerInterleaves = TRUE
    StrictStart = FALSE
SYMMETRY Symmetry
SPECIFICATION Spec
CHECK_DEADLOCK FALSE
INVARIANT
    EvictedIsAbandoned
