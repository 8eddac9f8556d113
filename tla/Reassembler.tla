---------------------------- MODULE Reassembler ----------------------------
(***************************************************************************)
(* Chunk reassembly of the client reader: ReadState of                     *)
(* src/lib/src/async_client/comms/tcp_transport.rs (process_chunk,         *)
(* merge_chunks, turn_received_chunks_into_message), with the two Chunker  *)
(* functions it calls (validate_chunks, decode), which live outside src/   *)
(* and are taken from the design text.                                     *)
(*                                                                         *)
(* The reader is the only task that touches this state, so the module has  *)
(* two actors: the peer, which puts one chunk after the other on the       *)
(* stream, and the reader, which processes each chunk as it arrives.  A    *)
(* step is "the peer sends chunk c and the reader's process_chunk(c)       *)
(* returns".  A chunk is abstracted to its headers and to `part`, its      *)
(* position in the message it belongs to; the payload of a message is the  *)
(* sequence of its parts.                                                  *)
(***************************************************************************)
EXTENDS Integers, Sequences, FiniteSets, SequencesExt

CONSTANTS
    RequestIds,        \* request ids the peer sends messages for
    max_chunk_count,   \* ReadState.max_chunk_count; 0 switches the limit off
    MaxParts,          \* bound: most chunks in one message
    SeqMax,            \* the largest sequence number: u32::MAX in the code
    MaxSeq,            \* bound: the number of chunks the peer sends
    PeerInterleaves,   \* TRUE: the peer may interleave chunks of messages
    StrictStart        \* TRUE: validate_chunks wants first = N, else first >= N

ASSUME /\ IsFiniteSet(RequestIds) /\ RequestIds # {}
       /\ max_chunk_count \in Nat
       /\ MaxParts \in Nat \ {0}
       /\ SeqMax \in Nat \ {0} /\ MaxSeq \in Nat \ {0}
       /\ PeerInterleaves \in BOOLEAN /\ StrictStart \in BOOLEAN

VARIABLES
    chunks,                          \* ReadState.chunks: request id -> Vec
    last_received_sequence_number,   \* ReadState, same name
    status,                          \* what the read loop holds in status_code
    delivered,                       \* messages process_chunk returned
    panicked,                        \* the reading task died of an overflow
    peerSeq,                         \* chunks the peer has sent
    peerOpen,                        \* request id -> intermediate chunks sent
    completed,                       \* messages whose final chunk was sent
    interleaved,                     \* history: the peer interleaved messages
    tampered,                        \* history: a chunk failed verification
    evicted                          \* history: request ids evicted

vars == <<chunks, last_received_sequence_number, status, delivered, panicked,
          peerSeq, peerOpen, completed, interleaved, tampered, evicted>>

reader == <<chunks, last_received_sequence_number, status, delivered>>

-----------------------------------------------------------------------------
(* Data *)

Good == "Good"
BadCodes == {"BadSecurityChecksFailed", "BadSequenceNumberInvalid",
             "BadTcpMessageTypeInvalid", "BadDecodingError"}

Intermediate == "C"
Final        == "F"
FinalError   == "A"

Chunk   == [req : RequestIds, seq : 0..SeqMax,
            fin : {Intermediate, Final, FinalError}, part : 1..MaxParts]
Message == [req : RequestIds, parts : Seq(1..MaxParts)]

Ok(v)    == [err |-> Good, val |-> v]
Err(e)   == [err |-> e, val |-> 0]

\* n + 1 on a u32 where the build does not check overflow
Succ(n)     == (n + 1) % (SeqMax + 1)
Parts(cs)   == [i \in DOMAIN cs |-> cs[i].part]
Whole(n)    == [i \in 1..n |-> i]
\* The keys of the HashMap: an entry exists from its first push to its remove.
Keys(table) == {r \in RequestIds : table[r] # <<>>}

-----------------------------------------------------------------------------
(* Chunker (outside src/): validate_chunks and decode *)

\* validate_chunks(N, chunks): sequence numbers first, first+1, ..., one
\* request id, all but the last chunk Intermediate and the last one Final;
\* the result is the last sequence number.
ValidateChunks(N, cs) ==
    LET first == cs[1].seq
        run   == \A i \in DOMAIN cs : cs[i].seq = first + i - 1
        start == IF StrictStart THEN first = N ELSE first >= N
        same  == \A i \in DOMAIN cs : cs[i].req = cs[1].req
        kinds == \A i \in DOMAIN cs :
                    cs[i].fin = IF i = Len(cs) THEN Final ELSE Intermediate
    IN  CASE ~(start /\ run) -> Err("BadSequenceNumberInvalid")
          [] ~same           -> Err("BadSecurityChecksFailed")
          [] ~kinds          -> Err("BadTcpMessageTypeInvalid")
          [] OTHER           -> Ok(first + Len(cs) - 1)

\* decode: the payloads concatenated and handed to the message decoder.  A
\* whole payload decodes; of a payload with a part missing the decoder may
\* make a message or fail, so both outcomes are kept.
Decode(cs) ==
    LET msg == [req |-> cs[1].req, parts |-> Parts(cs)]
    IN  IF Parts(cs) = Whole(Len(cs)) /\ Last(cs).fin = Final
        THEN {Ok(msg)}
        ELSE {Ok(msg), [err |-> "BadDecodingError", val |-> msg]}

-----------------------------------------------------------------------------
(* ReadState *)

MergeChunksLastOnly(list) == <<Last(list)>>

\* merge_chunks: one chunk is returned as it is; more are sorted by sequence
\* number and kept while they continue the run that starts at the smallest.
MergeChunks(list) ==
    IF Len(list) = 1 THEN list
    ELSE LET sorted == SortSeq(list, LAMBDA a, b : a.seq < b.seq)
             Keep(ret, c) == IF ret = <<>> \/ c.seq = Succ(Last(ret).seq)
                             THEN Append(ret, c) ELSE ret
         IN  FoldLeft(Keep, <<>>, sorted)

\* expect_sequence_number += 1 in merge_chunks goes past u32::MAX when a
\* chunk it keeps has the largest number
MergeOverflows(list) == Len(list) > 1 /\ Last(MergeChunks(list)).seq = SeqMax

TurnReceivedChunksIntoMessageFromLast(last, in_chunks) ==
    LET v == ValidateChunks(last, in_chunks)
    IN  IF v.err # Good
        THEN {[last |-> last, result |-> v]}
        ELSE {[last |-> v.val, result |-> d] : d \in Decode(in_chunks)}

TurnReceivedChunksIntoMessageOnePast(last, in_chunks) ==
    LET v == ValidateChunks(Succ(last), in_chunks)
    IN  IF v.err # Good
        THEN {[last |-> last, result |-> v]}
        ELSE {[last |-> v.val + 1, result |-> d] : d \in Decode(in_chunks)}

\* turn_received_chunks_into_message: validate, store the last sequence
\* number, decode.  The outcomes are [last, result] pairs.
TurnReceivedChunksIntoMessage(last, in_chunks) ==
    LET v == ValidateChunks(Succ(last), in_chunks)
    IN  IF v.err # Good
        THEN {[last |-> last, result |-> v]}
        ELSE {[last |-> v.val, result |-> d] : d \in Decode(in_chunks)}

StoreIntermediateOffByOne(table, c) ==
    LET pushed == [table EXCEPT ![c.req] = Append(@, c)]
    IN  IF max_chunk_count > 0 /\ Cardinality(Keys(pushed)) > max_chunk_count + 1
        THEN {[pushed EXCEPT ![r] = <<>>] : r \in Keys(pushed)}
        ELSE {pushed}

\* process_chunk, Intermediate: push, then if the map has more entries than
\* max_chunk_count remove the entry the map's iterator yields first, which
\* for a HashMap is any of them.
StoreIntermediate(table, c) ==
    LET pushed == [table EXCEPT ![c.req] = Append(@, c)]
    IN  IF max_chunk_count > 0 /\ Cardinality(Keys(pushed)) > max_chunk_count
        THEN {[pushed EXCEPT ![r] = <<>>] : r \in Keys(pushed)}
        ELSE {pushed}

ProcessIntermediate(c) ==
    /\ c.fin = Intermediate
    /\ \E table \in StoreIntermediate(chunks, c) :
          /\ chunks' = table
          /\ evicted' = evicted \cup ((Keys(chunks) \cup {c.req}) \ Keys(table))
    /\ UNCHANGED <<last_received_sequence_number, status, delivered>>

ProcessFinalErrorKeeps(c) ==
    /\ c.fin = FinalError
    /\ UNCHANGED <<reader, evicted>>

\* process_chunk, FinalError: the request's chunks are dropped.
ProcessFinalError(c) ==
    /\ c.fin = FinalError
    /\ chunks' = [chunks EXCEPT ![c.req] = <<>>]
    /\ UNCHANGED <<last_received_sequence_number, status, delivered, evicted>>

\* The tail of the Final arm: the merged chunks become a message or an error.
Deliver(in_chunks) ==
    \E o \in TurnReceivedChunksIntoMessage(last_received_sequence_number,
                                           in_chunks) :
        /\ last_received_sequence_number' = o.last
        /\ status' = o.result.err
        /\ delivered' = IF o.result.err = Good
                        THEN Append(delivered, o.result.val) ELSE delivered

ProcessFinalLeavesEntry(c) ==
    /\ c.fin = Final
    /\ chunks' = [chunks EXCEPT ![c.req] = Append(@, c)]
    /\ Deliver(MergeChunks(Append(chunks[c.req], c)))
    /\ UNCHANGED evicted

\* process_chunk, Final: push, remove the entry, merge, turn into a message.
ProcessFinal(c) ==
    /\ c.fin = Final
    /\ chunks' = [chunks EXCEPT ![c.req] = <<>>]
    /\ Deliver(MergeChunks(Append(chunks[c.req], c)))
    /\ UNCHANGED evicted

\* process_chunk, Final, in a build that checks overflow: the += 1 of
\* merge_chunks or the + 1 of turn_received_chunks_into_message panics, after
\* the entry has been removed.
ProcessFinalOverflows(c) ==
    /\ c.fin = Final
    /\ \/ MergeOverflows(Append(chunks[c.req], c))
       \/ last_received_sequence_number = SeqMax
    /\ chunks' = [chunks EXCEPT ![c.req] = <<>>]
    /\ UNCHANGED <<last_received_sequence_number, status, delivered, evicted>>

\* process_chunk when verify_and_remove_security or chunk_info fails: the
\* error leaves through `?` before anything is stored.
ProcessTampered(c) ==
    /\ status' = "BadSecurityChecksFailed"
    /\ UNCHANGED <<chunks, last_received_sequence_number, delivered, evicted>>

-----------------------------------------------------------------------------
(* The peer *)

Busy(r) == \E q \in RequestIds \ {r} : peerOpen[q] > 0

\* The chunks the peer may send next: the next sequence number, the next part
\* of a message it has not finished, of any kind the bounds allow.
PeerNext ==
    {c \in Chunk :
        /\ peerSeq < MaxSeq /\ c.seq = Succ(peerSeq)
        /\ \A m \in Range(completed) : m.req # c.req
        /\ PeerInterleaves \/ ~Busy(c.req)
        /\ c.part = peerOpen[c.req] + 1
        /\ c.fin = Intermediate => c.part < MaxParts}

PeerSends(c) ==
    /\ peerSeq' = peerSeq + 1
    /\ peerOpen' = [peerOpen EXCEPT
                       ![c.req] = IF c.fin = Intermediate THEN c.part ELSE 0]
    /\ completed' = IF c.fin = Final
                    THEN Append(completed, [req |-> c.req, parts |-> Whole(c.part)])
                    ELSE completed
    /\ interleaved' = (interleaved \/ Busy(c.req))

-----------------------------------------------------------------------------
(* Specification *)

Init ==
    /\ chunks = [r \in RequestIds |-> <<>>]
    /\ last_received_sequence_number = 0
    /\ status = Good
    /\ delivered = <<>>
    /\ panicked = FALSE
    /\ peerSeq = 0
    /\ peerOpen = [r \in RequestIds |-> 0]
    /\ completed = <<>>
    /\ interleaved = FALSE
    /\ tampered = FALSE
    /\ evicted = {}

\* The read loop takes the next chunk while status_code is good; one action
\* for each way process_chunk can go with it.
Arrives(c) ==
    /\ status = Good /\ ~panicked
    /\ c \in PeerNext
    /\ PeerSends(c)

Unharmed == UNCHANGED <<tampered, panicked>>

ReceiveIntermediate ==
    \E c \in Chunk : Arrives(c) /\ ProcessIntermediate(c) /\ Unharmed

ReceiveFinalError ==
    \E c \in Chunk : Arrives(c) /\ ProcessFinalError(c) /\ Unharmed

ReceiveFinal ==
    \E c \in Chunk : Arrives(c) /\ ProcessFinal(c) /\ Unharmed

ReceiveFinalOverflows ==
    \E c \in Chunk :
        Arrives(c) /\ ProcessFinalOverflows(c) /\ panicked' = TRUE
                   /\ UNCHANGED tampered

ReceiveTampered ==
    \E c \in Chunk :
        Arrives(c) /\ ProcessTampered(c) /\ tampered' = TRUE
                   /\ UNCHANGED panicked

Next ==
    \/ ReceiveIntermediate
    \/ ReceiveFinalError
    \/ ReceiveFinal
    \/ ReceiveFinalOverflows
    \/ ReceiveTampered

Spec == Init /\ [][Next]_vars

-----------------------------------------------------------------------------
(* Properties *)

TypeOK ==
    /\ chunks \in [RequestIds -> Seq(Chunk)]
    /\ last_received_sequence_number \in 0..SeqMax
    /\ status \in {Good} \cup BadCodes
    /\ delivered \in Seq(Message)
    /\ panicked \in BOOLEAN
    /\ peerSeq \in 0..MaxSeq
    /\ peerOpen \in [RequestIds -> 0..MaxParts]
    /\ completed \in Seq(Message)
    /\ interleaved \in BOOLEAN /\ tampered \in BOOLEAN
    /\ evicted \subseteq RequestIds

Kept(msgs) == SelectSeq(msgs, LAMBDA m : m.req \notin evicted)
\* the peer has sent the chunk with the largest sequence number, or gone past it
UsedUp  == peerSeq >= SeqMax
Wrapped == peerSeq > SeqMax

\* The read loop of spawn_reading_task breaks on the first error of
\* process_chunk.  Towards a peer that sends its messages one after the other
\* and whose chunks verify, process_chunk never returns one: neither an
\* aborted message (FinalError) nor the sequence numbers it used up may make
\* the next message fail.  A peer that goes on past the largest sequence
\* number is at fault like one that interleaves; the reader panics, where the
\* build checks the + 1 of turn_received_chunks_into_message and the += 1 of
\* merge_chunks, only at the largest number.
FailureOnlyByPeer ==
    /\ status # Good => tampered \/ interleaved \/ Wrapped
    /\ panicked => UsedUp

\* What process_chunk has returned so far is what the peer has finished so
\* far: every message whole, none missing, in the order of the final chunks.
\* merge_chunks and validate_chunks together must never hand a message with
\* a part missing to the session; the messages of a request evicted at the
\* max_chunk_count limit are the exception the code accepts.  It holds past
\* the largest sequence number too, unless the peer interleaves there:
\* merge_chunks then sorts the chunks after the wrap before the others.
NoSilentLoss ==
    (status = Good /\ ~panicked /\ ~(interleaved /\ Wrapped)) =>
        Kept(delivered) = Kept(completed)

\* ReadState.chunks holds, for a request that was never evicted, exactly the
\* intermediate chunks the peer has sent of its unfinished message: nothing
\* of a message that was finished by Final or abandoned by FinalError stays.
TableIsInFlight ==
    status = Good =>
        \A r \in RequestIds \ evicted : Parts(chunks[r]) = Whole(peerOpen[r])

\* The eviction in the Intermediate arm of process_chunk keeps the number of
\* requests under reassembly at max_chunk_count.
RequestsBounded ==
    max_chunk_count > 0 => Cardinality(Keys(chunks)) <= max_chunk_count

\* The design text asks that chunks of interleaved messages are reassembled:
\* with nothing tampered and nothing evicted the reader does not fail and
\* delivers every finished message.
InterleavedDelivery ==
    (~tampered /\ evicted = {}) => (status = Good /\ delivered = completed)

\* The design text: sequence numbers are monotone and never reused in the
\* lifetime of a channel.  The number turn_received_chunks_into_message
\* keeps never goes back, whatever the peer sends after the largest one.
NumbersNeverReused ==
    [][last_received_sequence_number' >= last_received_sequence_number]_vars

\* No chunk of a peer makes the reading task panic, a chunk that carries the
\* largest sequence number included: this is about the additions in
\* merge_chunks and turn_received_chunks_into_message.
ReaderNeverPanics == ~panicked

\* The design text has an evicted request abandoned: nothing that arrives
\* for it afterwards is held.  The Intermediate arm of process_chunk makes a
\* new entry for whatever request id a chunk names.
EvictedIsAbandoned ==
    \A r \in evicted : chunks[r] = <<>>

\* The design text asks that the reader never holds more than max_chunk_count
\* chunks over all requests under reassembly.
ChunkBound ==
    max_chunk_count > 0 =>
        FoldFunction(LAMBDA list, n : Len(list) + n, 0, chunks) <= max_chunk_count

=============================================================================
