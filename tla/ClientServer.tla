---------------------------- MODULE ClientServer ----------------------------
(***************************************************************************)
(* One client transport and the server with one of its transports, joined  *)
(* by a socket: the tasks of src/lib/src/async_client/comms/               *)
(* tcp_transport.rs (module ClientTransport) against the listener and the  *)
(* tasks of src/server/src (modules Server and ServerTransport).           *)
(*                                                                         *)
(* Neither module is changed.  Each of their actions is a step here, and   *)
(* the steps that read or write the socket are tied to what is on it:      *)
(*   - upstream is what the client has written, and the server's read      *)
(*     takes the next frames of it;                                        *)
(*   - the server's wire is what it has written, and the client's reading  *)
(*     task takes the next frame of it;                                    *)
(*   - an end sees the end of the stream once the other has dropped the    *)
(*     socket.                                                             *)
(* The socket keeps the order of the bytes and loses nothing by itself; a  *)
(* read or a write may fail at either end.  Frames arrive whole.           *)
(*                                                                         *)
(* The message writer of the client is outside src/: following the design  *)
(* text it cuts a request into chunks, all but the last Intermediate, and  *)
(* numbers them in the order it stages them.                               *)
(*                                                                         *)
(* What process_chunk makes of a chunk of the server is said by module     *)
(* Reassembler, whose ReadState is the reading task's here.  Request ids   *)
(* are not carried: this server answers one request at a time and writes   *)
(* the chunks of a response together, so the reader never has two          *)
(* requests under reassembly.  validate_chunks is read as the server's     *)
(* model reads it, the first number being exactly the one expected.        *)
(***************************************************************************)
EXTENDS Integers, Sequences, SequencesExt, FiniteSets

CONSTANTS
    MaxRequests,        \* bound: requests the session puts on the channel
    MaxRequestChunks,   \* bound: chunks the message writer makes of a request
    MaxBatch,           \* bound: frames that one read of the server brings in
    MaxResponseChunks   \* bound: chunks the server makes of a response

VARIABLES
    \* the client (ClientTransport)
    state, conn, callerPc, ctPc, readerPc, status_code, writerPc, request,
    staged, close_connection, chan, sender, sent, written, inflight, responses,
    \* the server (Server, ServerTransport)
    abort, listener, connections, offered, server_poisoned, transport_state,
    session_status, last_received_sequence_number, last_sent_sequence_number,
    terminate_session, terminated, loopPc, batch_state, messages,
    session_status_code, send_buffer, helloPc, received, wire, handled,
    \* the socket and the client's message writer
    link,       \* "none", "up" once the connection is made, "down" when the
                \* client dropped it before it had spawned its tasks
    upstream,   \* the frames the client has written
    taken,      \* how many frames of the server's wire the reader has taken
    numbered,   \* MessageWriter: the last sequence number given to a chunk
    outgoing,   \* MessageWriter: the chunks staged for the next write
    \* the ReadState of the client's reading task (Reassembler)
    chunks,          \* ReadState.chunks
    last_received,   \* ReadState.last_received_sequence_number
    delivered,       \* history: the messages process_chunk has returned
    evicted          \* history: the request ids evicted at the limit

clientVars == <<state, conn, callerPc, ctPc, readerPc, status_code, writerPc,
                request, staged, close_connection, chan, sender, sent, written,
                inflight, responses>>
serverVars == <<abort, listener, connections, offered, server_poisoned, transport_state,
                session_status, last_received_sequence_number,
                last_sent_sequence_number, terminate_session, terminated, loopPc,
                batch_state, messages, session_status_code, send_buffer, helloPc,
                received, wire, handled>>
writerVars == <<numbered, outgoing>>
readVars   == <<chunks, last_received, delivered, evicted>>
socketVars == <<link, upstream, taken, writerVars, readVars>>
vars == <<clientVars, serverVars, socketVars>>

\* the one connection
k == 1

\* what a server may find wrong with the HELLO and with the chunks of a
\* request this client sends: its endpoint url, its signature
HelloFaults == {"Good", "BadTcpEndpointUrlInvalid"}
ChunkFaults == {"Good", "BadSecurityChecksFailed"}

\* the frames this client can put on the socket
Sendable ==
    [type : {"Hello"}, fault : HelloFaults, is_final : {"F"}, seq : {0}] \cup
    [type : {"Chunk"}, fault : ChunkFaults, is_final : {"C", "F"},
     seq : 1..(MaxRequests * MaxRequestChunks)]

C == INSTANCE ClientTransport
        WITH MaxConns <- 1, PeerSendsHello <- FALSE, wire <- written

S == INSTANCE Server
        WITH Conns <- {k}, ClientFrames <- Sendable,
             MaxFrames <- MaxRequests * MaxRequestChunks + 1

\* the sequence numbers the server can give to chunks of responses
MaxSent == MaxRequests * MaxRequestChunks * MaxResponseChunks

\* The peer of the reassembler is the server: the peer's bookkeeping of
\* module Reassembler has no part here, and what the read loop holds in
\* status_code is the reading task's own variable.  There is one request
\* id, and max_chunk_count, which limits the requests under reassembly, is
\* the least limit that is on.
R == INSTANCE Reassembler
        WITH RequestIds <- {0}, max_chunk_count <- 1, MaxParts <- MaxResponseChunks,
             SeqMax <- MaxSent, MaxSeq <- MaxSent, PeerInterleaves <- FALSE, StrictStart <- TRUE,
             last_received_sequence_number <- last_received,
             status <- status_code[k],
             panicked <- FALSE, peerSeq <- 0, peerOpen <- <<>>, completed <- <<>>,
             interleaved <- FALSE, tampered <- FALSE

----------------------------------------------------------------------------
(* The two ends of the socket *)

\* The client has dropped the socket: before it spawned its tasks, or both
\* tasks, each of which owns one half of it, are over.
ClientClosed ==
    \/ link = "down"
    \/ /\ readerPc[k] \in {"done", "panicked"}
       /\ writerPc[k] \in {"done", "panicked"}

\* The server has dropped the socket: it was aborting when the listener
\* yielded it, run panicked, or the main loop, which owns it, has returned.
ServerClosed ==
    k \in offered /\ loopPc[k] \in {"idle", "done", "failed", "panicked"}

\* frames on their way to the server
Available == Len(upstream) - received

\* A read of the server returns n frames: what has arrived, at least one,
\* or nothing at the end of the stream.
Reads(n) ==
    /\ n <= Available
    /\ n = 0 => Available = 0 /\ ClientClosed

\* The reading task of the client takes the next frame, of this type.
Takes(type) ==
    /\ taken < Len(wire[k])
    /\ wire[k][taken + 1].type = type
    /\ taken' = taken + 1
    /\ UNCHANGED <<serverVars, link, upstream, writerVars>>

\* the chunk the codec makes of the next frame of the server
NextChunk ==
    LET frame == wire[k][taken + 1]
    IN  [req |-> 0, seq |-> frame.seq, fin |-> frame.is_final, part |-> frame.part]

\* process_chunk of the reading task: the chunk does not verify, is stored,
\* or completes a message that validates and decodes, or does not
ProcessChunk(c) ==
    R!ProcessTampered(c) \/ R!ProcessIntermediate(c) \/ R!ProcessFinal(c)

\* MessageWriter::write: n chunks with the next sequence numbers, the last
\* of them Final.
Chunks(fault, n) ==
    [i \in 1..n |-> S!Chunk(fault, IF i = n THEN "F" ELSE "C", numbered + i)]

\* a step of one side that does not touch the socket
Client(A) == A /\ UNCHANGED <<serverVars, socketVars>>
Server(A) == A /\ UNCHANGED <<clientVars, socketVars>>

----------------------------------------------------------------------------
(* The client's steps at the socket *)

\* TcpStream::connect succeeds: the server's listener is bound and has a
\* socket to yield.
ClientConnects ==
    /\ listener = "listening"
    /\ C!CtConnected(k)
    /\ link' = "up"
    /\ UNCHANGED <<serverVars, upstream, taken, writerVars, readVars>>

\* The connection is made, and set_nodelay or the write of the HELLO fails:
\* the socket is dropped.
ClientGivesUp ==
    /\ \/ listener = "listening" /\ C!CtNoDelayFails(k)
       \/ C!CtHelloFails(k)
    /\ link' = "down"
    /\ UNCHANGED <<serverVars, upstream, taken, writerVars, readVars>>

\* The HELLO is written.
ClientSaysHello ==
    /\ C!CtSpawnLoopingTasks(k)
    /\ \E fault \in HelloFaults : upstream' = Append(upstream, S!Hello(fault))
    /\ UNCHANGED <<serverVars, link, taken, writerVars, readVars>>

\* send_request as it would be if every request took one sequence number
\* more than it has chunks
ClientStagesSkipsNumber ==
    /\ C!WriterSendRequest(k)
    /\ IF staged'[k]
       THEN \E n \in 1..MaxRequestChunks, fault \in ChunkFaults :
                /\ outgoing' = Chunks(fault, n)
                /\ numbered' = numbered + n + 1
       ELSE UNCHANGED writerVars
    /\ UNCHANGED <<serverVars, link, upstream, taken, readVars>>

\* send_request: when the message writer succeeds the chunks of the request
\* are numbered and staged.
ClientStages ==
    /\ C!WriterSendRequest(k)
    /\ IF staged'[k]
       THEN \E n \in 1..MaxRequestChunks, fault \in ChunkFaults :
                /\ outgoing' = Chunks(fault, n)
                /\ numbered' = numbered + n
       ELSE UNCHANGED writerVars
    /\ UNCHANGED <<serverVars, link, upstream, taken, readVars>>

\* write_all puts what is staged on the socket, or fails and loses it.
ClientWrites ==
    /\ \/ C!WriterWrites(k) /\ upstream' = upstream \o outgoing
       \/ C!WriterWriteFails(k) /\ UNCHANGED upstream
    /\ outgoing' = <<>>
    /\ UNCHANGED <<serverVars, link, taken, numbered, readVars>>

\* The next frame of the server reaches the reading task.  A chunk goes
\* through process_chunk, and store_response gets a response only when
\* that has returned a message.  An error frame of this server carries a
\* status code that is bad.
ClientReads ==
    \/ Takes("ACK") /\ C!ReaderAck(k) /\ UNCHANGED readVars
    \/ Takes("MSG") /\ C!ReaderChunkUnexpected(k) /\ UNCHANGED readVars
    \/ /\ Takes("MSG") /\ C!ReaderChunk(k) /\ ProcessChunk(NextChunk)
       /\ responses' # responses => delivered' # delivered
    \/ Takes("MSG") /\ C!ReaderChunkFails(k) /\ ProcessChunk(NextChunk)
    \/ /\ Takes("ERR") /\ C!ReaderError(k) /\ status_code'[k] = "BadTcpServerTooBusy"
       /\ UNCHANGED readVars

\* The server has dropped the socket and nothing is left to read.
ClientReadsEnd ==
    /\ taken = Len(wire[k]) /\ ServerClosed
    /\ Client(C!ReaderEndOfStream(k))

----------------------------------------------------------------------------
(* The server's steps at the socket *)

\* The listener yields the socket.  peer_addr fails only for a socket the
\* client has dropped.
ServerAccepts ==
    /\ link # "none"
    /\ Server(S!Accept(k))
    /\ server_poisoned' => ClientClosed

ServerAcceptsAborting ==
    /\ link # "none"
    /\ Server(S!AcceptAborting(k))

ServerReads ==
    /\ Server(S!LoopRead(k))
    /\ Reads(received' - received)
    /\ messages'[k] = SubSeq(upstream, received + 1, received')

ServerReadsAborted ==
    /\ Server(S!LoopReadAborted(k))
    /\ Reads(received' - received)

----------------------------------------------------------------------------
(* Specification *)

Init ==
    /\ C!Init /\ S!Init
    /\ link = "none" /\ upstream = <<>> /\ taken = 0
    /\ numbered = 0 /\ outgoing = <<>>
    /\ chunks = [r \in {0} |-> <<>>] /\ last_received = 0
    /\ delivered = <<>> /\ evicted = {}

ClientNext ==
    \/ Client(C!Connect) \/ Client(C!Poll) \/ Client(C!WaitForDisconnect)
    \/ Client(C!SessionSends)
    \/ Client(C!CtBegin(k)) \/ Client(C!CtConnectFails(k)) \/ ClientConnects
    \/ ClientGivesUp \/ ClientSaysHello \/ Client(C!CtWatch(k))
    \/ ClientReads \/ ClientReadsEnd \/ Client(C!ReaderReadError(k))
    \/ Client(C!ReaderAckSetsProcessing(k)) \/ Client(C!ReaderFinish(k))
    \/ Client(C!ReaderQuit(k))
    \/ Client(C!WriterRecvQuit(k)) \/ Client(C!WriterRecv(k))
    \/ Client(C!WriterChecksFinished(k)) \/ Client(C!WriterChecksProcessing(k))
    \/ Client(C!WriterNotProcessing(k)) \/ ClientStages \/ Client(C!WriterPanics(k))
    \/ Client(C!WriterRequestWasProcessed(k)) \/ Client(C!WriterSetsFinishedGood(k))
    \/ ClientWrites

\* the steps of the main loop between two reads
ServerProcesses ==
    \/ Server(S!LoopHello(k)) \/ Server(S!LoopPanicsOnIntermediate(k))
    \/ Server(S!LoopChunkRejected(k)) \/ Server(S!LoopChunkOutOfSequence(k))
    \/ Server(S!LoopChunkHandled(k)) \/ Server(S!LoopPanicsInSendResponse(k))
    \/ Server(S!LoopStoresStatus(k)) \/ Server(S!LoopContinues(k))
    \/ Server(S!LoopEnds(k)) \/ Server(S!LoopFinishes(k))
    \/ Server(S!LoopTerminates(k))

ServerNext ==
    \/ Server(S!ServerRun)
    \/ ServerAccepts \/ ServerAcceptsAborting \/ Server(S!Abort)
    \/ ServerReads \/ ServerReadsAborted \/ Server(S!LoopReadFails(k))
    \/ ServerProcesses
    \/ Server(S!HelloTimesOut(k)) \/ Server(S!HelloSetsStatus(k))
    \/ Server(S!HelloPanics(k))

Next == ClientNext \/ ServerNext

Spec == Init /\ [][Next]_vars

\* The runtimes poll every task that can take a step, the listener yields a
\* socket it has, and the socket delivers what was written and the end of
\* the stream.  Nothing obliges a read or a write to fail, the timeout to
\* run out, or anybody to abort the server.
Fairness ==
    /\ WF_vars(Client(C!Poll))
    /\ WF_vars(Client(C!CtBegin(k)) \/ Client(C!CtConnectFails(k)) \/ ClientConnects
                \/ ClientGivesUp \/ ClientSaysHello \/ Client(C!CtWatch(k)))
    /\ WF_vars(ClientReads \/ ClientReadsEnd)
    /\ WF_vars(Client(C!ReaderProceeds(k)))
    /\ WF_vars(Client(C!WritingTask(k)) \/ ClientStages \/ ClientWrites)
    /\ WF_vars(Server(S!ServerRun))
    /\ WF_vars(ServerAccepts \/ ServerAcceptsAborting)
    /\ WF_vars(ServerReads \/ ServerReadsAborted \/ ServerProcesses)

LiveSpec == Spec /\ Fairness

----------------------------------------------------------------------------
(* Properties *)

\* Both ends are in states of their own modules, and the socket holds
\* frames this client can send: the reader has taken no more than the
\* server wrote and the server no more than the client wrote.
TypeOK ==
    /\ C!TypeOK /\ S!TypeOK
    /\ link \in {"none", "up", "down"}
    /\ upstream \in Seq(Sendable)
    /\ taken \in 0..Len(wire[k])
    /\ received \in 0..Len(upstream)
    /\ numbered \in 0..(MaxRequests * MaxRequestChunks)
    /\ outgoing \in Seq(Sendable)
    /\ chunks \in [{0} -> Seq(R!Chunk)]
    /\ last_received \in 0..MaxSent
    /\ delivered \in Seq(R!Message)
    /\ evicted \subseteq {0}

\* When the client takes the connection for usable, the server has accepted
\* its HELLO: connect() returns Ok only after an ACK that process_hello
\* staged once the three checks of the HELLO had passed.  This is about the
\* ACK arm of the reading task and process_hello of the server.
HandshakeAgreement ==
    state.name = "Processing"
        => transport_state[k] \in {"ProcessMessages", "Finished"}

\* No frame of this client is misplaced at the server: every frame of a
\* read is of the kind the transport state of that read has an arm for.
\* The server judges all frames of a read by the state the read began in,
\* so a chunk that came in with the HELLO would end the connection; it is
\* the client's wait for the ACK that keeps the two apart.  This is about
\* spawn_looping_tasks and the writing task's check of Processing on one
\* side and the match on transport_state in make_looping_task on the other.
NoFrameMisplaced ==
    \A i \in DOMAIN messages[k] :
        messages[k][i].type = S!Expects(batch_state[k])

\* a request the writing task is done with whose chunks never reached the
\* socket: send_request or write_all failed
Unwritten ==
    \E h \in inflight \ written[k] :
        ~(writerPc[k] \in {"set_finished", "write"} /\ request[k].handle = h)

\* a chunk the server has read and refuses: it goes on with the frames the
\* same read brought in, without having counted the chunk
RefusedChunk == \E i \in 1..received : upstream[i].fault # "Good"

\* The server finds a chunk of this client out of sequence only after a
\* request was lost on the way or refused: the message writer numbers the
\* chunks of the requests without a gap and the server expects them without
\* one, so the two agree until a write_all fails or a chunk does not pass.
\* A failed write is logged and the writing task goes on, and it is the
\* next request that ends the connection, at the server, with
\* BadSequenceNumberInvalid.  This is about send_request and
\* write_bytes_task of the client and validate_chunks of the server.
OutOfSequenceOnlyAfterLoss ==
    session_status_code[k] = "BadSequenceNumberInvalid"
        => Unwritten \/ RefusedChunk

\* a chunk of a response that send_response numbered and that never reached
\* the socket: the write of write_output that had it failed
ResponseLost ==
    LET Numbers(frames) ==
            {frames[i].seq : i \in {j \in DOMAIN frames : frames[j].type = "MSG"}}
    IN  ~(1..last_sent_sequence_number[k]
            \subseteq Numbers(wire[k]) \cup Numbers(send_buffer[k]))

\* the final chunks of responses among the frames the reader has taken
FinalsTaken ==
    {i \in 1..taken : wire[k][i].type = "MSG" /\ wire[k][i].is_final = "F"}

\* what the read loop holds when a chunk did not verify, when a frame came
\* that the state has no place for, or when the stream failed
ReaderMetFault == status_code[k] \in
    {"BadSecurityChecksFailed", "BadUnexpectedError", "BadCommunicationError",
     "BadTcpServerTooBusy"}

\* Every response of this server reaches store_response whole: unless a
\* write of the server was lost or a chunk did not verify, process_chunk
\* has returned one message for every final chunk the reading task has
\* taken, never an error, and every message is the whole response, its
\* slices in the order the server cut them.  The server numbers the chunks
\* of its responses as the client's validation expects them, response
\* after response, and the number the reader keeps after one message is the
\* one the next message continues; nothing of a response of several chunks
\* is left in the table, dropped by the merge or handed on in part.  A write
\* of the server that fails is only logged there: it is the client that
\* ends the connection, at the next response.  This is about send_response
\* and write_output of the server and process_chunk, merge_chunks and
\* turn_received_chunks_into_message of the client.
ResponsesReassembled ==
    ~(ResponseLost \/ ReaderMetFault) =>
        /\ Len(delivered) = Cardinality(FinalsTaken)
        /\ \A i \in DOMAIN delivered :
               delivered[i].parts = R!Whole(Len(delivered[i].parts))

\* Once the reading task has sent Quit and gone, the writing task ends,
\* whatever the server made the reader stop for: an error frame, the end of
\* the stream, a failed read.  This is about shutdown_writer_from_reader and
\* the Quit arm of the writing task.
ReaderExitStopsWriter == C!ReaderExitStopsWriter

\* A CloseSecureChannelRequest the session has put on the channel leads to a
\* Finished state whether or not the server is still there to read it: the
\* writing task sets Finished(Good) itself before it writes the request.
\* This is about the close_connection branch of the writing task.
GracefulClose == C!GracefulClose

\* The server's ACK of a good HELLO was lost: process_hello staged it and
\* the one write of write_output did not put it on the socket.
AckLost ==
    /\ transport_state[k] = "ProcessMessages"
    /\ send_buffer[k] = <<>>
    /\ \A i \in DOMAIN wire[k] : wire[k][i].type # "ACK"

\* connect() returns, against this server: its polling loop ends whatever
\* the server does with the HELLO (ACK, error frame, abort, panic, a failed
\* read), with one exception, a lost write of the ACK, after which the
\* server waits for a request and the client for the ACK.  This is about
\* the polling loop of connect(), which has no timeout, and the hello
\* timeout of the server, which closes nothing.
ConnectReturnsUnlessAckLost ==
    callerPc = "polling" ~> (callerPc # "polling" \/ AckLost)

\* When the server has dropped the socket the client's connection becomes
\* Finished: the reading task meets the end of the stream, sets the state
\* and stops the writer, so wait_for_disconnect() returns.  This is about
\* shutdown_writer_from_reader after the read loop.
ServerCloseFinishesClient ==
    (ServerClosed /\ link = "up") ~> C!IsFinished

\* Server::abort ends a connection as soon as a read of its main loop
\* returns: with a frame of the client on its way, or with the client gone,
\* the loop meets the abort check and drops the socket.  Nothing wakes a
\* loop whose client is there and silent.  This is about the flag abort()
\* sets and the one place after io::read where make_looping_task looks at
\* it.
AbortEndsConnection ==
    (abort /\ k \in offered /\ (Available > 0 \/ ClientClosed)) ~> ServerClosed

\* The design text: a close by the peer ends the connection
\* (BadConnectionClosed), and no component busy-waits.  Once the client has
\* dropped the socket the server's main loop returns and drops it too.
\* This is about the zero bytes io::read returns at the end of the stream
\* in make_looping_task.
ClientCloseEndsConnection ==
    ClientClosed ~> ServerClosed

=============================================================================
