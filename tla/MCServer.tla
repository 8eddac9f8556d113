------------------------------ MODULE MCServer ------------------------------
EXTENDS Server, TLC

CONSTANTS c1, c2

MCConns == {c1, c2}
MCOne == {c1}
Symmetry == Permutations(MCConns)

\* a client that says HELLO, well or badly, sends final chunks with the
\* sequence numbers 1 and 2, an intermediate and an aborting chunk, a chunk
\* with a bad signature, a frame that is not for a server, and bytes that
\* are no frame
MCClientFrames ==
    {Hello(Good), Hello("BadTcpEndpointUrlInvalid"),
     Chunk(Good, "F", 1), Chunk(Good, "F", 2), Chunk(Good, "C", 1), Chunk(Good, "A", 1),
     Chunk("BadSecurityChecksFailed", "F", 1), Other, Garbage}

\* a client that keeps to the protocol
MCPoliteFrames == {Hello(Good), Chunk(Good, "F", 1)}
=============================================================================
