\* The reader towards a peer that interleaves the chunks of its messages;
\* the limit on requests under reassembly is off.
CONSTANTS
    r1 = r1
    r2 = r2
    r3 = r3
    RequestIds <- MCRequestIds
    max_chunk_count = 0
    MaxParts = 3
    SeqMax = 7
    MaxSeq = 6
    PeerInterleaves = TRUE
    StrictStart = FALSE
SYMMETRY Symmetry
SPECIFICATION Spec
CHECK_DEADLOCK FALSE
INVARIANT
    InterleavedDelivery
