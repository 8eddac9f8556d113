-------------------------- MODULE ServerTransport --------------------------
(***************************************************************************)
(* The server side of a connection: src/server/src/comms/tcp_transport.rs. *)
(*                                                                         *)
(* TcpTransport::run starts three tasks over one accepted socket.  Two of  *)
(* them share the transport behind its lock and are modelled here:         *)
(*   - the main loop (make_looping_task): read bytes, turn them into        *)
(*     frames, process every frame, store the session status, write what   *)
(*     was staged, then decide whether to go on;                           *)
(*   - the hello-timeout loop (make_hello_timeout_loop), which looks at    *)
(*     the transport state and records BadTimeout.                         *)
(* An action is what one task does while it holds the lock, together with  *)
(* the task-local work that follows it.  The client is the environment: a  *)
(* read may bring any frames of ClientFrames, in any order.                *)
(*                                                                         *)
(* A frame is its kind, the fault its content has, and for a chunk its     *)
(* is_final mark and sequence number.  Payloads, buffer sizes, the secure  *)
(* channel and the service handlers are outside src/: a handler answers,   *)
(* stays silent or fails, and may ask for the session to be terminated.    *)
(***************************************************************************)
EXTENDS Integers, Sequences, FiniteSets, FiniteSetsExt

CONSTANTS
    Conns,              \* the connections the server is offered
    ClientFrames,       \* the frames a client may send
    MaxFrames,          \* bound: frames sent by all clients together
    MaxBatch,           \* bound: frames that one read brings in
    MaxResponseChunks   \* bound: chunks Chunker::encode makes of a response

VARIABLES
    abort,                           \* ServerState.abort
    listener,                        \* where Server::run is
    connections,                     \* Server.connections
    offered,                         \* the sockets the listener has yielded
    server_poisoned,                 \* the server's lock is poisoned
    transport_state,                 \* TcpTransport.transport_state
    session_status,                  \* TcpTransport.session_status
    last_received_sequence_number,   \* TcpTransport
    last_sent_sequence_number,       \* TcpTransport
    terminate_session,               \* Session.terminate_session
    terminated,                      \* Session.terminated()
    loopPc,                          \* where the main loop is
    batch_state,                     \* its local transport_state, read once per read
    messages,                        \* the frames of this read not yet processed
    session_status_code,             \* its local session_status_code
    send_buffer,                     \* ConnectionState.send_buffer
    helloPc,                         \* where the hello-timeout loop is
    received,                        \* frames the clients have sent and the server has read
    wire,                            \* what the server has written to the socket
    handled                          \* history: sequence numbers that passed validation

serverVars    == <<abort, listener, connections, offered, server_poisoned>>
seqVars       == <<last_received_sequence_number, last_sent_sequence_number>>
transportVars == <<transport_state, session_status, seqVars>>
sessionVars   == <<terminate_session, terminated>>
loopVars      == <<loopPc, batch_state, messages, session_status_code, send_buffer>>
vars == <<serverVars, transportVars, sessionVars, loopVars, helloPc, received, wire, handled>>

----------------------------------------------------------------------------
(* Data *)

Good == "Good"

TransportState == {"New", "WaitingHello", "ProcessMessages", "Finished"}

HelloErrors == {"BadTcpEndpointUrlInvalid", "BadCommunicationError",
                "BadProtocolVersionUnsupported"}
StatusCodes == HelloErrors \cup
    {Good, "BadTimeout", "BadConnectionClosed", "BadUnexpectedError",
     "BadSequenceNumberInvalid", "BadSecurityChecksFailed", "BadDecodingError"}

\* what the codec hands to the loop
Hello(fault)          == [type |-> "Hello", fault |-> fault, is_final |-> "F", seq |-> 0]
Chunk(fault, fin, n)  == [type |-> "Chunk", fault |-> fault, is_final |-> fin, seq |-> n]
Other   == [type |-> "Other",   fault |-> Good, is_final |-> "F", seq |-> 0]  \* an ACK or ERR
Garbage == [type |-> "Garbage", fault |-> Good, is_final |-> "F", seq |-> 0]  \* what store_bytes rejects
Frames == [type : {"Hello", "Chunk", "Other", "Garbage"}, fault : StatusCodes,
           is_final : {"C", "F", "A"}, seq : Nat]

\* what the server writes; a chunk of a response carries its is_final mark
\* and, for its payload, which slice of the response it is
Out(type, n, code, fin, part) ==
    [type |-> type, seq |-> n, code |-> code, is_final |-> fin, part |-> part]
Acknowledge     == Out("ACK", 0, Good, "F", 0)
ErrorMessage(c) == Out("ERR", 0, c, "F", 0)
OutFrames == [type : {"ACK", "MSG", "ERR"}, seq : Nat, code : StatusCodes,
              is_final : {"C", "F"}, part : 0..MaxResponseChunks]

\* Chunker::encode: n chunks numbered from sequence_number, all but the last
\* Intermediate
Encode(sequence_number, n) ==
    [i \in 1..n |-> Out("MSG", sequence_number + i - 1, Good,
                        IF i = n THEN "F" ELSE "C", i)]

ASSUME /\ ClientFrames \subseteq Frames
       /\ MaxFrames \in Nat /\ MaxBatch \in Nat \ {0} /\ MaxResponseChunks \in Nat \ {0}

Set(f, k, v) == [f EXCEPT ![k] = v]

\* impl Transport for TcpTransport: set_session_status
SetSessionStatus(k, code) == session_status' = Set(session_status, k, code)

\* a panic under the transport's write lock poisons the lock: the main loop
\* panics in it, and so does run before it has made the loop
Poisoned(k) == loopPc[k] = "panicked"

\* the main loop of k has returned, one way or another
LoopOver(k) == loopPc[k] \in {"done", "failed", "panicked"}

----------------------------------------------------------------------------
(* TcpTransport::run *)

\* The accepted socket becomes a transport in WaitingHello and the tasks
\* are spawned.  Server::handle_connection calls it and says what becomes of
\* the server's own state.
Run(k) ==
    /\ transport_state[k] = "New"
    /\ transport_state' = Set(transport_state, k, "WaitingHello")
    /\ loopPc' = Set(loopPc, k, "read")
    /\ helloPc' = Set(helloPc, k, "watch")
    /\ UNCHANGED <<session_status, seqVars, sessionVars, batch_state, messages,
                   session_status_code, send_buffer, received, wire, handled>>

\* The client is gone before run looks at it: socket.peer_addr().unwrap()
\* panics with the transport's write lock held.  The state stays New and no
\* task is spawned.
RunPanics(k) ==
    /\ transport_state[k] = "New"
    /\ loopPc' = Set(loopPc, k, "panicked")
    /\ UNCHANGED <<transportVars, sessionVars, batch_state, messages,
                   session_status_code, send_buffer, helloPc, received, wire, handled>>

----------------------------------------------------------------------------
(* The hello-timeout loop *)

HelloQuiet == UNCHANGED <<serverVars, transport_state, seqVars, sessionVars, loopVars,
                          received, wire, handled>>

\* is_hello_timeout: the transport is read under the lock, and the lock is
\* released before anything is done about it.  The time that has passed is
\* not modelled: the timeout may be found to have run out at any moment.
HelloTimesOut(k) ==
    /\ helloPc[k] = "watch" /\ ~Poisoned(k)
    /\ transport_state[k] = "WaitingHello"
    /\ helloPc' = Set(helloPc, k, "timeout")
    /\ UNCHANGED session_status /\ HelloQuiet

\* (mutant) the timeout as the design text has it, ending the connection,
\* stored without a look at what the main loop has read meanwhile
HelloSetsStatusFinishes(k) ==
    /\ helloPc[k] = "timeout" /\ ~Poisoned(k)
    /\ SetSessionStatus(k, "BadTimeout")
    /\ transport_state' = Set(transport_state, k, "Finished")
    /\ helloPc' = Set(helloPc, k, "done")
    /\ UNCHANGED <<serverVars, seqVars, sessionVars, loopVars, received, wire, handled>>

\* The status is set to BadTimeout, whatever the state is by now, and the
\* loop is left.  Nothing else is done: no state change, no wake-up.
HelloSetsStatus(k) ==
    /\ helloPc[k] = "timeout" /\ ~Poisoned(k)
    /\ SetSessionStatus(k, "BadTimeout")
    /\ helloPc' = Set(helloPc, k, "done")
    /\ HelloQuiet

\* trace_read_lock_unwrap! on a poisoned lock panics
HelloPanics(k) ==
    /\ helloPc[k] \in {"watch", "timeout"} /\ Poisoned(k)
    /\ helloPc' = Set(helloPc, k, "panicked")
    /\ UNCHANGED session_status /\ HelloQuiet

HelloTimeoutLoop(k) == HelloTimesOut(k) \/ HelloSetsStatus(k) \/ HelloPanics(k)

----------------------------------------------------------------------------
(* The main loop: reading *)

LoopGoto(k, from, to) == loopPc[k] = from /\ loopPc' = Set(loopPc, k, to)

\* what no step of the loop touches before, and what none touches after,
\* the frames of a read are processed
ReadQuiet  == UNCHANGED <<serverVars, helloPc, transportVars, sessionVars,
                          send_buffer, wire, handled>>
AfterQuiet == UNCHANGED <<serverVars, helloPc, seqVars, terminate_session, batch_state,
                          messages, session_status_code, received, handled>>

\* What one io::read may return: the next frames the client has sent, at
\* most MaxBatch of them, none when the bytes are the front of a frame or
\* the stream is at its end.
Batches == UNION {[1..n -> ClientFrames] : n \in 0..MaxBatch}

\* io::read fails; the error leaves the loop through map_err.
LoopReadFails(k) ==
    /\ LoopGoto(k, "read", "failed")
    /\ UNCHANGED <<batch_state, messages, session_status_code, received>>
    /\ ReadQuiet

\* the read as it would be without the abort check that follows it
LoopReadAbortIgnored(k) ==
    /\ abort
    /\ LoopGoto(k, "read", "process")
    /\ \E batch \in Batches :
        /\ received + Len(batch) <= MaxFrames
        /\ received' = received + Len(batch)
        /\ batch_state' = Set(batch_state, k, transport_state[k])
        /\ messages' = Set(messages, k, batch)
        /\ session_status_code' = Set(session_status_code, k, Good)
    /\ ReadQuiet

\* The read returns and the server is aborting: Err(BadCommunicationError)
\* leaves the loop the same way, and what was read is dropped.
LoopReadAborted(k) ==
    /\ abort
    /\ LoopGoto(k, "read", "failed")
    /\ \E batch \in Batches :
        /\ received + Len(batch) <= MaxFrames
        /\ received' = received + Len(batch)
    /\ UNCHANGED <<batch_state, messages, session_status_code>>
    /\ ReadQuiet

\* store_bytes: the frames of the bytes read, or an error for all of them
StoreBytesSkipsBad(batch) ==
    [messages |-> batch, code |-> Good]

StoreBytes(batch) ==
    IF \E i \in DOMAIN batch : batch[i] = Garbage
    THEN [messages |-> <<>>, code |-> "BadDecodingError"]
    ELSE [messages |-> batch, code |-> Good]

\* The read returns: the transport state is read once for all the frames of
\* this read, and session_status_code starts from what store_bytes says.
LoopRead(k) ==
    /\ ~abort
    /\ LoopGoto(k, "read", "process")
    /\ \E batch \in Batches :
        /\ received + Len(batch) <= MaxFrames
        /\ received' = received + Len(batch)
        /\ batch_state' = Set(batch_state, k, transport_state[k])
        /\ messages' = Set(messages, k, StoreBytes(batch).messages)
        /\ session_status_code' = Set(session_status_code, k, StoreBytes(batch).code)
    /\ ReadQuiet

----------------------------------------------------------------------------
(* The main loop: one frame of the batch.  The for loop has no break: a    *)
(* frame that fails sets session_status_code and the next one is taken.    *)

\* what no frame changes
FrameQuiet == UNCHANGED <<serverVars, helloPc, session_status, terminated,
                          batch_state, received, wire>>

ExpectsChunkAtOnce(state) ==
    CASE state \in {"WaitingHello", "ProcessMessages"} -> "Chunk"
      [] OTHER                                        -> "nothing"

\* the kind of frame the match on the transport state has an arm for
Expects(state) ==
    CASE state = "WaitingHello"    -> "Hello"
      [] state = "ProcessMessages" -> "Chunk"
      [] OTHER                     -> "nothing"

Taking(k, type) ==
    /\ loopPc[k] = "process" /\ messages[k] # <<>>
    /\ Head(messages[k]).type = type
    /\ messages' = Set(messages, k, Tail(messages[k]))

TakingChunk(k, fin) ==
    /\ Expects(batch_state[k]) = "Chunk"
    /\ Taking(k, "Chunk")
    /\ Head(messages[k]).is_final = fin

Fails(k, code) == session_status_code' = Set(session_status_code, k, code)

Stages(k, frames) == send_buffer' = Set(send_buffer, k, send_buffer[k] \o frames)

\* the frame is refused with a status code and nothing else happens
Refused(k, code) ==
    /\ Fails(k, code)
    /\ UNCHANGED <<transport_state, seqVars, terminate_session, loopPc,
                   send_buffer, handled>>
    /\ FrameQuiet

\* process_hello as it would be if it staged the ACK and left the state
ProcessHelloKeepsState(k, hello) ==
    \/ /\ hello.fault # Good
       /\ Refused(k, hello.fault)
    \/ /\ hello.fault = Good
       /\ Stages(k, <<Acknowledge>>)
       /\ UNCHANGED <<transport_state, seqVars, terminate_session, loopPc,
                      session_status_code, handled>>
       /\ FrameQuiet

\* process_hello: the three checks, then the new state and the ACK.
ProcessHello(k, hello) ==
    \/ /\ hello.fault # Good
       /\ Refused(k, hello.fault)
    \/ /\ hello.fault = Good
       /\ transport_state' = Set(transport_state, k, "ProcessMessages")
       /\ Stages(k, <<Acknowledge>>)
       /\ UNCHANGED <<seqVars, terminate_session, loopPc, session_status_code, handled>>
       /\ FrameQuiet

LoopHello(k) ==
    /\ Expects(batch_state[k]) = "Hello"
    /\ Taking(k, "Hello")
    /\ ProcessHello(k, Head(messages[k]))

\* The frame is not what the state of this batch expects.
LoopMisplaced(k) ==
    /\ \E type \in {"Hello", "Chunk", "Other"} \ {Expects(batch_state[k])} : Taking(k, type)
    /\ Refused(k, IF Expects(batch_state[k]) = "nothing"
                  THEN "BadUnexpectedError" ELSE "BadCommunicationError")

\* process_chunk, Intermediate: panic, with the transport's write lock held.
LoopPanicsOnIntermediate(k) ==
    /\ TakingChunk(k, "C")
    /\ loopPc' = Set(loopPc, k, "panicked")
    /\ UNCHANGED <<transport_state, seqVars, terminate_session,
                   session_status_code, send_buffer, handled>>
    /\ FrameQuiet

\* process_chunk, FinalError: the chunk is dropped, its sequence number with it.
LoopChunkDiscarded(k) ==
    /\ TakingChunk(k, "A")
    /\ UNCHANGED <<transport_state, seqVars, terminate_session, loopPc,
                   session_status_code, send_buffer, handled>>
    /\ FrameQuiet

\* process_chunk, Final: the header, the signature or the chunk info is bad.
LoopChunkRejected(k) ==
    /\ TakingChunk(k, "F")
    /\ Head(messages[k]).fault # Good
    /\ Refused(k, Head(messages[k]).fault)

\* Chunker::validate_chunks for the one chunk of a request: its sequence
\* number is the one expected.
ValidateChunks(expected, chunk) == chunk.seq = expected

LoopChunkOutOfSequence(k) ==
    /\ TakingChunk(k, "F")
    /\ Head(messages[k]).fault = Good
    /\ ~ValidateChunks(last_received_sequence_number[k] + 1, Head(messages[k]))
    /\ Refused(k, "BadSequenceNumberInvalid")

\* turn_received_chunks_into_message: the chunk is valid and its number kept.
TurnReceivedChunksIntoMessageForgets(k, chunk) ==
    /\ ValidateChunks(last_received_sequence_number[k] + 1, chunk)
    /\ handled' = Set(handled, k, Append(handled[k], chunk.seq))
    /\ UNCHANGED last_received_sequence_number

TurnReceivedChunksIntoMessage(k, chunk) ==
    /\ ValidateChunks(last_received_sequence_number[k] + 1, chunk)
    /\ handled' = Set(handled, k, Append(handled[k], chunk.seq))
    /\ last_received_sequence_number' =
           Set(last_received_sequence_number, k, chunk.seq)

\* send_response: the chunks of the response take the next sequence numbers
\* and are staged.
SendResponseReuses(k, n) ==
    LET sequence_number == last_sent_sequence_number[k] + 1
    IN  /\ UNCHANGED last_sent_sequence_number
        /\ Stages(k, Encode(sequence_number, n))

SendResponse(k, n) ==
    LET sequence_number == last_sent_sequence_number[k] + 1
    IN  /\ last_sent_sequence_number' =
               Set(last_sent_sequence_number, k, sequence_number + n - 1)
        /\ Stages(k, Encode(sequence_number, n))

\* A handler may set Session.terminate_session while it has the message.
MayTerminate(k) == terminate_session' \in {terminate_session, Set(terminate_session, k, TRUE)}

\* process_chunk, Final, valid: the message is decoded and goes to its
\* handler, which answers, has nothing to answer yet, or fails (as the
\* decoding may before it).
LoopChunkHandled(k) ==
    /\ TakingChunk(k, "F")
    /\ Head(messages[k]).fault = Good
    /\ TurnReceivedChunksIntoMessage(k, Head(messages[k]))
    /\ \/ /\ \E n \in 1..MaxResponseChunks : SendResponse(k, n)
          /\ MayTerminate(k)
          /\ UNCHANGED session_status_code
       \/ /\ MayTerminate(k)
          /\ UNCHANGED <<last_sent_sequence_number, send_buffer, session_status_code>>
       \/ /\ Fails(k, "BadDecodingError")
          /\ UNCHANGED <<last_sent_sequence_number, send_buffer, terminate_session>>
    /\ UNCHANGED <<transport_state, loopPc>>
    /\ FrameQuiet

\* send_response panics on an Invalid response or when apply_security
\* fails; what it has staged by then is never written.
LoopPanicsInSendResponse(k) ==
    /\ TakingChunk(k, "F")
    /\ Head(messages[k]).fault = Good
    /\ TurnReceivedChunksIntoMessage(k, Head(messages[k]))
    /\ loopPc' = Set(loopPc, k, "panicked")
    /\ UNCHANGED <<transport_state, last_sent_sequence_number, terminate_session,
                   session_status_code, send_buffer>>
    /\ FrameQuiet

----------------------------------------------------------------------------
(* The main loop: after the batch *)

\* write_output: one write of the whole buffer.  The write may take all of
\* it; when it fails or takes only the front, what is left is lost, because
\* the buffer is emptied in every case.  The wire keeps whole frames only.
WriteOutput(k, buffer) ==
    /\ wire' \in {Set(wire, k, wire[k] \o buffer), wire}
    /\ send_buffer' = Set(send_buffer, k, <<>>)

\* The status of this batch replaces the session status, and what was
\* staged is written.
LoopStoresStatus(k) ==
    /\ messages[k] = <<>>
    /\ LoopGoto(k, "process", "decide")
    /\ SetSessionStatus(k, session_status_code[k])
    /\ WriteOutput(k, send_buffer[k])
    /\ UNCHANGED <<transport_state, terminated>>
    /\ AfterQuiet

\* the status the loop decides on: BadConnectionClosed when a handler has
\* asked for the end, else what session_status holds by now
Decided(k) == IF terminate_session[k] THEN "BadConnectionClosed" ELSE session_status[k]

Decides(k) == SetSessionStatus(k, Decided(k))

LoopContinues(k) ==
    /\ Decided(k) = Good
    /\ LoopGoto(k, "decide", "read")
    /\ Decides(k)
    /\ UNCHANGED <<transport_state, terminated, send_buffer, wire>>
    /\ AfterQuiet

\* the last act of a session: an error frame for every status but
\* BadConnectionClosed, written from the start of the buffer
SendsError(k) ==
    IF Decided(k) = "BadConnectionClosed"
    THEN UNCHANGED <<send_buffer, wire>>
    ELSE WriteOutput(k, <<ErrorMessage(Decided(k))>>)

LoopEndsAndGoesOn(k) ==
    /\ Decided(k) # Good
    /\ LoopGoto(k, "decide", "read")
    /\ Decides(k) /\ SendsError(k)
    /\ UNCHANGED <<transport_state, terminated>>
    /\ AfterQuiet

\* The status is bad: the session ends.
LoopEnds(k) ==
    /\ Decided(k) # Good
    /\ LoopGoto(k, "decide", "finish")
    /\ Decides(k) /\ SendsError(k)
    /\ UNCHANGED <<transport_state, terminated>>
    /\ AfterQuiet

LoopFinishes(k) ==
    /\ LoopGoto(k, "finish", "terminate")
    /\ transport_state' = Set(transport_state, k, "Finished")
    /\ UNCHANGED <<session_status, terminated, send_buffer, wire>>
    /\ AfterQuiet

LoopTerminates(k) ==
    /\ LoopGoto(k, "terminate", "done")
    /\ terminated' = Set(terminated, k, TRUE)
    /\ UNCHANGED <<transport_state, session_status, send_buffer, wire>>
    /\ AfterQuiet

LoopingTask(k) ==
    \/ LoopReadFails(k) \/ LoopReadAborted(k) \/ LoopRead(k)
    \/ LoopHello(k) \/ LoopMisplaced(k)
    \/ LoopPanicsOnIntermediate(k) \/ LoopChunkDiscarded(k) \/ LoopChunkRejected(k)
    \/ LoopChunkOutOfSequence(k) \/ LoopChunkHandled(k) \/ LoopPanicsInSendResponse(k)
    \/ LoopStoresStatus(k) \/ LoopContinues(k) \/ LoopEnds(k)
    \/ LoopFinishes(k) \/ LoopTerminates(k)

----------------------------------------------------------------------------

\* TcpTransport::new for every connection, and nothing on any socket
TransportInit ==
    /\ transport_state = [k \in Conns |-> "New"]
    /\ session_status = [k \in Conns |-> Good]
    /\ last_received_sequence_number = [k \in Conns |-> 0]
    /\ last_sent_sequence_number = [k \in Conns |-> 0]
    /\ terminate_session = [k \in Conns |-> FALSE]
    /\ terminated = [k \in Conns |-> FALSE]
    /\ loopPc = [k \in Conns |-> "idle"]
    /\ batch_state = [k \in Conns |-> "New"]
    /\ messages = [k \in Conns |-> <<>>]
    /\ session_status_code = [k \in Conns |-> Good]
    /\ send_buffer = [k \in Conns |-> <<>>]
    /\ helloPc = [k \in Conns |-> "idle"]
    /\ received = 0
    /\ wire = [k \in Conns |-> <<>>]
    /\ handled = [k \in Conns |-> <<>>]

\* the steps of the tasks of the transports that run
TransportNext ==
    \/ \E k \in Conns : LoopingTask(k)
    \/ \E k \in Conns : HelloTimeoutLoop(k)

TransportTypeOK ==
    /\ transport_state \in [Conns -> TransportState]
    /\ session_status \in [Conns -> StatusCodes]
    /\ last_received_sequence_number \in [Conns -> Nat]
    /\ last_sent_sequence_number \in [Conns -> Nat]
    /\ terminate_session \in [Conns -> BOOLEAN]
    /\ terminated \in [Conns -> BOOLEAN]
    /\ loopPc \in [Conns -> {"idle", "read", "process", "decide", "finish",
                             "terminate", "done", "failed", "panicked"}]
    /\ batch_state \in [Conns -> TransportState]
    /\ messages \in [Conns -> Seq(ClientFrames \ {Garbage})]
    /\ session_status_code \in [Conns -> StatusCodes]
    /\ send_buffer \in [Conns -> Seq(OutFrames)]
    /\ helloPc \in [Conns -> {"idle", "watch", "timeout", "done", "panicked"}]
    /\ received \in 0..MaxFrames
    /\ wire \in [Conns -> Seq(OutFrames)]
    /\ handled \in [Conns -> Seq(Nat)]

----------------------------------------------------------------------------
(* What a transport promises *)

\* A request is taken once and in its turn: the sequence numbers of the
\* chunks a connection decodes and hands to a handler are 1, 2, 3, ...  A
\* chunk that is replayed or that skips a number never gets that far.  This
\* is about process_chunk and the number that
\* turn_received_chunks_into_message keeps.
HandledInSequence ==
    \A k \in Conns : handled[k] = [i \in 1..Len(handled[k]) |-> i]

\* The chunks of the responses a connection writes carry strictly increasing
\* sequence numbers, however the responses are cut into chunks and whichever
\* writes are lost.  This is about send_response and last_sent_sequence_number.
ResponsesNumberedOnce ==
    \A k \in Conns : \A i, j \in DOMAIN wire[k] :
        (i < j /\ wire[k][i].type = "MSG" /\ wire[k][j].type = "MSG")
            => wire[k][i].seq < wire[k][j].seq

\* An error frame is the last thing a connection writes, and the main loop
\* that wrote it is on its way out: it reads and handles nothing more.  This
\* is about the end of make_looping_task (Loop::Break after the error).
ErrorFrameIsLast ==
    \A k \in Conns : \A i \in DOMAIN wire[k] :
        wire[k][i].type = "ERR"
            => i = Len(wire[k]) /\ loopPc[k] \in {"finish", "terminate", "done"}

\* No request reaches a handler before the HELLO of its connection has been
\* accepted, whatever a read brings in one piece: the frames that follow a
\* HELLO in the same read are judged by the state the read began in.  This
\* is about transport_state, which the main loop reads once per read and
\* process_hello changes in the middle of it.
NoRequestBeforeHello ==
    [][\A k \in Conns :
        handled'[k] # handled[k] => transport_state[k] = "ProcessMessages"]_vars

\* the phase of the table of permitted transitions a transport state is
Phase(k) ==
    IF transport_state[k] = "ProcessMessages" THEN "Processing" ELSE transport_state[k]

Lifecycle(k) == INSTANCE ConnectionLifecycle WITH phase <- Phase(k)

\* The state of every transport moves as the table of permitted transitions
\* says: New, WaitingHello, Processing in this order, Finished from the two
\* after New, and nothing after Finished.  The main loop judges the frames
\* of a read by the state the read began in and process_hello stores
\* ProcessMessages without looking, while the states of other tasks and a
\* second HELLO in the same read come in between.  This is about the stores
\* to transport_state in run, process_hello and the end of
\* make_looping_task.
TransportLifecycleSpec ==
    /\ \A k \in Conns : Lifecycle(k)!Init
    /\ [][\A k \in Conns : Lifecycle(k)!Next \/ UNCHANGED Phase(k)]_vars

\* Once the hello-timeout loop has recorded BadTimeout for a connection that
\* waits for its HELLO, the connection does not enter ProcessMessages: the
\* design text has the timeout end in Finished(BadTimeout).  This is about
\* make_hello_timeout_loop and the status the main loop stores after a read.
TimeoutIsFinal ==
    [][\A k \in Conns :
        (helloPc[k] = "done" /\ transport_state[k] = "WaitingHello")
            => transport_state'[k] # "ProcessMessages"]_vars


\* The first error of a connection is the one reported: the design text has
\* the first terminal code kept and later errors only logged.  This is
\* about session_status_code in make_looping_task, which every frame of a
\* read that fails assigns anew, the frames after a refused one included.
FirstErrorIsReported ==
    [][\A k \in Conns :
        session_status_code[k] # Good
            => session_status_code'[k] = session_status_code[k]]_vars

=============================================================================
