-------------------------- MODULE ClientTransport --------------------------
(***************************************************************************)
(* The client transport driver of                                          *)
(* src/lib/src/async_client/comms/tcp_transport.rs: connect() and          *)
(* wait_for_disconnect() of the caller, the connection task, the reading   *)
(* task and the writing task, all working on one shared ConnectionState    *)
(* cell, the request channel and the message queue.                        *)
(*                                                                         *)
(* The tasks run on a multi-threaded runtime, so a step of the model is    *)
(* one access of a task to something shared (the state cell, the channel,  *)
(* the message queue, the socket) together with the task-local code        *)
(* around it.  A connect() after the state is Finished starts a new        *)
(* connection on the same cell; connections are numbered 1..MaxConns and   *)
(* the tasks of an earlier one may still be running.                       *)
(*                                                                         *)
(* Abstracted: a request is its request handle; a frame the reader takes   *)
(* from the codec is its kind; process_chunk is what it returns (module    *)
(* Reassembler has its inside).  ConnectionStateMgr and MessageQueue live  *)
(* outside src/ and follow the design text.                                *)
(***************************************************************************)
EXTENDS Integers, Sequences, FiniteSets

CONSTANTS
    MaxConns,        \* bound: calls of connect() that start a connection
    MaxRequests,     \* bound: requests the session puts on the channel
    PeerSendsHello   \* TRUE: the peer may send a frame that is no ACK/ERR/chunk

ASSUME /\ MaxConns \in Nat \ {0}
       /\ MaxRequests \in Nat
       /\ PeerSendsHello \in BOOLEAN

VARIABLES
    state,             \* ConnectionStateMgr: the shared ConnectionState
    conn,              \* connections started so far; the last is `conn`
    callerPc,          \* where the caller of connect() is
    ctPc,              \* connection_task of each connection
    readerPc,          \* reading task of each connection
    status_code,       \* the reading task's local status_code
    writerPc,          \* writing task of each connection
    request,           \* the message the writing task took from the channel
    staged,            \* send_buffer holds bytes of `request`
    close_connection,  \* the writing task's local close_connection
    chan,              \* the request channel of each connection
    sender,            \* the connection whose channel the message queue feeds
    sent,              \* requests the session has put on a channel
    wire,              \* handles of the requests written to each socket
    inflight,          \* MessageQueue: handles marked by request_was_processed
    responses          \* MessageQueue: handles store_response was called for

callerVars == <<conn, callerPc>>
readerVars == <<readerPc, status_code>>
writerVars == <<writerPc, request, staged, close_connection>>
chanVars   == <<chan, sender, sent>>
queueVars  == <<inflight, responses>>
vars == <<state, callerVars, ctPc, readerVars, writerVars, chanVars, wire,
          queueVars>>

-----------------------------------------------------------------------------
(* Data *)

Conns   == 1..MaxConns
Handles == 1..MaxRequests

Good == "Good"
StatusCodes == {Good, "BadCommunicationError", "BadUnexpectedError",
                "BadSecurityChecksFailed", "BadSequenceNumberInvalid",
                "BadTcpMessageTypeInvalid", "BadDecodingError", "BadTcpServerTooBusy"}

\* What process_chunk fails with, and the numbers an ERR frame may carry: a
\* bad code, zero, and a number that is no status code.
ChunkErrors  == {"BadSecurityChecksFailed", "BadSequenceNumberInvalid",
                 "BadTcpMessageTypeInvalid", "BadDecodingError"}
ErrorNumbers == {"BadTcpServerTooBusy", Good, "0xFFFF"}

St(name)    == [name |-> name, code |-> Good]
Finished(c) == [name |-> "Finished", code |-> c]
ConnectionState ==
    {St(n) : n \in {"New", "Connecting", "Connected", "WaitingForAck",
                    "Processing"}} \cup {Finished(c) : c \in StatusCodes}

Quit       == [type |-> "Quit", handle |-> 0]
Request(h) == [type |-> "Request", handle |-> h]
Close(h)   == [type |-> "CloseSecureChannelRequest", handle |-> h]
Message    == {Quit} \cup {Request(h) : h \in Handles}
                     \cup {Close(h) : h \in Handles}

-----------------------------------------------------------------------------
(* ConnectionStateMgr (outside src/) *)

IsFinished  == state.name = "Finished"
IsConnected == state.name \notin {"New", "Finished"}

\* set_state and set_finished store; conditional_set_finished stores only
\* when the state is not Finished yet.
SetState(name)  == state' = St(name)
SetFinished(c)  == state' = Finished(c)
ConditionalSetFinished(c) ==
    state' = IF IsFinished THEN state ELSE Finished(c)

-----------------------------------------------------------------------------
(* The caller: connect() and wait_for_disconnect() *)

\* connect(): the url resolves, the connection task is spawned and the
\* caller starts to poll.  (A url that does not resolve makes connect()
\* return before anything is touched: a step that changes nothing.)
Connect ==
    /\ callerPc = "idle" /\ ~IsConnected
    /\ conn < MaxConns
    /\ conn' = conn + 1
    /\ ctPc' = [ctPc EXCEPT ![conn + 1] = "start"]
    /\ callerPc' = "polling"
    /\ UNCHANGED <<state, readerVars, writerVars, chanVars, wire,
                   queueVars>>

\* connect() on a transport that is connected panics.
ConnectPanics ==
    /\ callerPc = "idle" /\ IsConnected
    /\ callerPc' = "panicked"
    /\ UNCHANGED <<state, conn, ctPc, readerVars, writerVars,
                   chanVars, wire, queueVars>>

PollAnyState ==
    /\ callerPc = "polling"
    /\ \/ state.name = "Processing" /\ callerPc' = "connected"
       \/ state.name # "Processing" /\ callerPc' = "idle"
    /\ UNCHANGED <<state, conn, ctPc, readerVars, writerVars, chanVars, wire,
                   queueVars>>

\* The polling loop of connect(): Ok on Processing, an error on Finished,
\* otherwise another round.
Poll ==
    /\ callerPc = "polling"
    /\ \/ state.name = "Processing" /\ callerPc' = "connected"
       \/ IsFinished /\ callerPc' = "idle"
    /\ UNCHANGED <<state, conn, ctPc, readerVars, writerVars, chanVars, wire,
                   queueVars>>

\* wait_for_disconnect() returns once the state is Finished.
WaitForDisconnect ==
    /\ callerPc = "connected" /\ IsFinished
    /\ callerPc' = "idle"
    /\ UNCHANGED <<state, conn, ctPc, readerVars, writerVars,
                   chanVars, wire, queueVars>>

\* The session above the transport: after connect() returned Ok it sends
\* requests, a CloseSecureChannelRequest among them, through the sender the
\* message queue holds.
SessionSends ==
    /\ callerPc = "connected" /\ sent < MaxRequests
    /\ \E m \in {Request(sent + 1), Close(sent + 1)} :
          chan' = [chan EXCEPT ![sender] = Append(@, m)]
    /\ sent' = sent + 1
    /\ UNCHANGED <<state, callerVars, ctPc, readerVars, writerVars, sender,
                   wire, queueVars>>

-----------------------------------------------------------------------------
(* connection_task *)

CtGoto(k, from, to) ==
    /\ ctPc[k] = from
    /\ ctPc' = [ctPc EXCEPT ![k] = to]

CtQuiet == UNCHANGED <<callerVars, readerVars, writerVars, chanVars, wire,
                       queueVars>>

CtBegin(k) ==
    /\ CtGoto(k, "start", "connect")
    /\ SetState("Connecting")
    /\ CtQuiet

CtConnectFails(k) ==
    /\ CtGoto(k, "connect", "done")
    /\ SetFinished("BadCommunicationError")
    /\ CtQuiet

\* set_nodelay fails: the task returns from inside the match.
CtNoDelayFails(k) ==
    /\ CtGoto(k, "connect", "returned")
    /\ SetFinished("BadUnexpectedError")
    /\ CtQuiet

CtConnected(k) ==
    /\ CtGoto(k, "connect", "hello")
    /\ SetState("Connected")
    /\ CtQuiet

CtHelloFailsQuietly(k) ==
    /\ CtGoto(k, "hello", "watch")
    /\ UNCHANGED state
    /\ CtQuiet

CtHelloFails(k) ==
    /\ CtGoto(k, "hello", "watch")
    /\ SetFinished("BadCommunicationError")
    /\ CtQuiet

\* spawn_looping_tasks as it would be if it took the connection for usable
\* as soon as the HELLO is written
CtSpawnsProcessing(k) ==
    /\ CtGoto(k, "hello", "watch")
    /\ SetState("Processing")
    /\ chan' = [chan EXCEPT ![k] = <<>>]
    /\ sender' = k
    /\ readerPc' = [readerPc EXCEPT ![k] = "read"]
    /\ writerPc' = [writerPc EXCEPT ![k] = "recv"]
    /\ UNCHANGED <<callerVars, status_code, request, staged, close_connection,
                   sent, wire, queueVars>>

\* HELLO is written; spawn_looping_tasks sets WaitingForAck, makes the
\* request channel and spawns the reading and the writing task.
CtSpawnLoopingTasks(k) ==
    /\ CtGoto(k, "hello", "watch")
    /\ SetState("WaitingForAck")
    /\ chan' = [chan EXCEPT ![k] = <<>>]
    /\ sender' = k
    /\ readerPc' = [readerPc EXCEPT ![k] = "read"]
    /\ writerPc' = [writerPc EXCEPT ![k] = "recv"]
    /\ UNCHANGED <<callerVars, status_code, request, staged, close_connection,
                   sent, wire, queueVars>>

\* The 10 ms loop that ends the task once the state is Finished.
CtWatch(k) ==
    /\ IsFinished
    /\ CtGoto(k, "watch", "done")
    /\ UNCHANGED state
    /\ CtQuiet

ConnectionTask(k) ==
    \/ CtBegin(k) \/ CtConnectFails(k) \/ CtNoDelayFails(k) \/ CtConnected(k)
    \/ CtHelloFails(k) \/ CtSpawnLoopingTasks(k) \/ CtWatch(k)

-----------------------------------------------------------------------------
(* The reading task *)

ReaderGoto(k, from, to) ==
    /\ readerPc[k] = from
    /\ readerPc' = [readerPc EXCEPT ![k] = to]

\* A bad status_code ends the read loop.
ReaderBreaks(k, code) ==
    /\ ReaderGoto(k, "read", "shutdown")
    /\ status_code' = [status_code EXCEPT ![k] = code]

ReaderQuiet == UNCHANGED <<callerVars, ctPc, writerVars, chanVars, wire>>

ReaderAckAnyState(k) ==
    /\ ReaderGoto(k, "read", "ack")
    /\ UNCHANGED <<state, status_code, queueVars>>
    /\ ReaderQuiet

\* Acknowledge: the state is read; while WaitingForAck the reader goes on to
\* take the secure channel's lock, in every other state the ACK is an error.
ReaderAck(k) ==
    /\ \/ /\ state.name = "WaitingForAck"
          /\ ReaderGoto(k, "read", "ack")
          /\ UNCHANGED status_code
       \/ /\ state.name # "WaitingForAck"
          /\ ReaderBreaks(k, "BadUnexpectedError")
    /\ UNCHANGED <<state, queueVars>>
    /\ ReaderQuiet

\* Acknowledge, with the lock: the decoding options are set and the state
\* becomes Processing.
ReaderAckSetsProcessing(k) ==
    /\ ReaderGoto(k, "ack", "read")
    /\ SetState("Processing")
    /\ UNCHANGED <<status_code, queueVars>>
    /\ ReaderQuiet

\* Chunk in a state other than Processing.
ReaderChunkUnexpected(k) ==
    /\ state.name # "Processing"
    /\ ReaderBreaks(k, "BadUnexpectedError")
    /\ UNCHANGED <<state, queueVars>>
    /\ ReaderQuiet

\* Chunk while Processing, process_chunk returns Ok: nothing yet, or the
\* response to a request the peer has seen, which store_response takes.
ReaderChunk(k) ==
    /\ state.name = "Processing"
    /\ ReaderGoto(k, "read", "read")
    /\ \/ UNCHANGED responses
       \/ \E h \in wire[k] \ responses : responses' = responses \cup {h}
    /\ UNCHANGED <<state, status_code, inflight>>
    /\ ReaderQuiet

\* Chunk while Processing, process_chunk returns an error.
ReaderChunkFails(k) ==
    /\ state.name = "Processing"
    /\ \E e \in ChunkErrors : ReaderBreaks(k, e)
    /\ UNCHANGED <<state, queueVars>>
    /\ ReaderQuiet

ReaderErrorRawCode(k) ==
    /\ \E n \in ErrorNumbers : ReaderBreaks(k, n)
    /\ UNCHANGED <<state, queueVars>>
    /\ ReaderQuiet

\* Error frame: StatusCode::from_u32 of its number, BadUnexpectedError for a
\* number that is no status code, and the loop ends whatever the code is.
ReaderError(k) ==
    /\ \E n \in ErrorNumbers :
          ReaderBreaks(k, IF n \in StatusCodes THEN n ELSE "BadUnexpectedError")
    /\ UNCHANGED <<state, queueVars>>
    /\ ReaderQuiet

\* Any other frame: the task panics where it stands.
ReaderPanics(k) ==
    /\ PeerSendsHello
    /\ ReaderGoto(k, "read", "panicked")
    /\ UNCHANGED <<state, status_code, queueVars>>
    /\ ReaderQuiet

\* The codec returns an error: an I/O error or a frame it cannot decode.
ReaderReadError(k) ==
    /\ ReaderBreaks(k, "BadCommunicationError")
    /\ UNCHANGED <<state, queueVars>>
    /\ ReaderQuiet

\* The stream ends: the loop is left with status_code as it is.
ReaderEndOfStream(k) ==
    /\ ReaderGoto(k, "read", "shutdown")
    /\ UNCHANGED <<state, status_code, queueVars>>
    /\ ReaderQuiet

ReaderFinishSkipped(k) ==
    /\ ReaderGoto(k, "shutdown", "quit")
    /\ UNCHANGED <<state, status_code, queueVars>>
    /\ ReaderQuiet

\* (mutant) the reader storing as the writer does, with set_finished
ReaderFinishStores(k) ==
    /\ ReaderGoto(k, "shutdown", "quit")
    /\ SetFinished(status_code[k])
    /\ UNCHANGED <<status_code, queueVars>>
    /\ ReaderQuiet

\* shutdown_writer_from_reader, first half: conditional_set_finished.
ReaderFinish(k) ==
    /\ ReaderGoto(k, "shutdown", "quit")
    /\ ConditionalSetFinished(status_code[k])
    /\ UNCHANGED <<status_code, queueVars>>
    /\ ReaderQuiet

ReaderQuitSkipped(k) ==
    /\ ReaderGoto(k, "quit", "done")
    /\ UNCHANGED <<state, status_code, callerVars, ctPc, writerVars, chanVars,
                   wire, queueVars>>

\* (mutant) Quit sent through the sender the message queue holds, which is
\* that of the newest connection
ReaderQuitToQueueSender(k) ==
    /\ ReaderGoto(k, "quit", "done")
    /\ chan' = [chan EXCEPT ![sender] = Append(@, Quit)]
    /\ UNCHANGED <<state, status_code, callerVars, ctPc, writerVars, sender,
                   sent, wire, queueVars>>

\* shutdown_writer_from_reader, second half: Quit goes to the writer.
ReaderQuit(k) ==
    /\ ReaderGoto(k, "quit", "done")
    /\ chan' = [chan EXCEPT ![k] = Append(@, Quit)]
    /\ UNCHANGED <<state, status_code, callerVars, ctPc, writerVars, sender,
                   sent, wire, queueVars>>

\* The next frame of the stream, whatever the peer chose to send.
ReaderReceives(k) ==
    \/ ReaderAck(k) \/ ReaderChunkUnexpected(k) \/ ReaderChunk(k)
    \/ ReaderChunkFails(k) \/ ReaderError(k) \/ ReaderPanics(k)
    \/ ReaderReadError(k) \/ ReaderEndOfStream(k)

\* The steps the reading task takes by itself.
ReaderProceeds(k) ==
    ReaderAckSetsProcessing(k) \/ ReaderFinish(k) \/ ReaderQuit(k)

-----------------------------------------------------------------------------
(* The writing task *)

WriterGoto(k, from, to) ==
    /\ writerPc[k] = from
    /\ writerPc' = [writerPc EXCEPT ![k] = to]

WriterQuiet == UNCHANGED <<callerVars, ctPc, readerVars, sender, sent,
                           responses>>

\* receiver.recv() yields Quit: the loop ends.
WriterRecvQuit(k) ==
    /\ chan[k] # <<>> /\ Head(chan[k]) = Quit
    /\ WriterGoto(k, "recv", "done")
    /\ chan' = [chan EXCEPT ![k] = Tail(@)]
    /\ UNCHANGED <<state, request, staged, close_connection, wire, inflight>>
    /\ WriterQuiet

\* receiver.recv() yields a request.
WriterRecv(k) ==
    /\ chan[k] # <<>> /\ Head(chan[k]) # Quit
    /\ WriterGoto(k, "recv", "is_finished")
    /\ chan' = [chan EXCEPT ![k] = Tail(@)]
    /\ request' = [request EXCEPT ![k] = Head(chan[k])]
    /\ UNCHANGED <<state, staged, close_connection, wire, inflight>>
    /\ WriterQuiet

\* if write_state.state.is_finished() { break }
WriterChecksFinished(k) ==
    /\ \/ IsFinished /\ WriterGoto(k, "is_finished", "done")
       \/ ~IsFinished /\ WriterGoto(k, "is_finished", "state")
    /\ UNCHANGED <<state, request, staged, close_connection, chan, wire,
                   inflight>>
    /\ WriterQuiet

\* if write_state.state.state() == Processing: go on to send_request.
WriterChecksProcessing(k) ==
    /\ state.name = "Processing"
    /\ WriterGoto(k, "state", "send_request")
    /\ UNCHANGED <<state, request, staged, close_connection, chan, wire,
                   inflight>>
    /\ WriterQuiet

\* ... else: set_finished(BadUnexpectedError) and close after the write.
WriterNotProcessing(k) ==
    /\ state.name # "Processing"
    /\ WriterGoto(k, "state", "write")
    /\ SetFinished("BadUnexpectedError")
    /\ close_connection' = [close_connection EXCEPT ![k] = TRUE]
    /\ UNCHANGED <<request, staged, chan, wire, inflight>>
    /\ WriterQuiet

\* send_request reads the state again: Processing, and the message writer
\* stages the chunks or fails; the caller drops the result.
WriterSendRequest(k) ==
    /\ state.name = "Processing"
    /\ WriterGoto(k, "send_request", "request_was_processed")
    /\ \E ok \in BOOLEAN : staged' = [staged EXCEPT ![k] = ok]
    /\ close_connection' =
          [close_connection EXCEPT
              ![k] = (request[k].type = "CloseSecureChannelRequest")]
    /\ UNCHANGED <<state, request, chan, wire, inflight>>
    /\ WriterQuiet

\* ... any other state: panic.
WriterPanics(k) ==
    /\ state.name # "Processing"
    /\ WriterGoto(k, "send_request", "panicked")
    /\ UNCHANGED <<state, request, staged, close_connection, chan, wire,
                   inflight>>
    /\ WriterQuiet

AfterMarked(k) == IF close_connection[k] THEN "set_finished" ELSE "write"

WriterRequestNotMarked(k) ==
    /\ WriterGoto(k, "request_was_processed", AfterMarked(k))
    /\ UNCHANGED <<state, request, staged, close_connection, chan, wire,
                   inflight>>
    /\ WriterQuiet

\* message_queue.request_was_processed(request_handle)
WriterRequestWasProcessed(k) ==
    /\ WriterGoto(k, "request_was_processed", AfterMarked(k))
    /\ inflight' = inflight \cup {request[k].handle}
    /\ UNCHANGED <<state, request, staged, close_connection, chan, wire>>
    /\ WriterQuiet

WriterCloseNotFinished(k) ==
    /\ WriterGoto(k, "set_finished", "write")
    /\ UNCHANGED <<state, request, staged, close_connection, chan, wire,
                   inflight>>
    /\ WriterQuiet

\* if close_connection { set_finished(Good) }
WriterSetsFinishedGood(k) ==
    /\ WriterGoto(k, "set_finished", "write")
    /\ SetFinished(Good)
    /\ UNCHANGED <<request, staged, close_connection, chan, wire, inflight>>
    /\ WriterQuiet

AfterWrite(k) == IF close_connection[k] THEN "done" ELSE "recv"

\* write_bytes_task, write_all succeeds: the staged bytes are on the socket;
\* the loop ends after a close.
WriterWrites(k) ==
    /\ WriterGoto(k, "write", AfterWrite(k))
    /\ wire' = [wire EXCEPT ![k] = IF staged[k] THEN @ \cup {request[k].handle}
                                   ELSE @]
    /\ staged' = [staged EXCEPT ![k] = FALSE]
    /\ UNCHANGED <<state, request, close_connection, chan, inflight>>
    /\ WriterQuiet

\* write_bytes_task, write_all fails: the error is logged.
WriterWriteFails(k) ==
    /\ WriterGoto(k, "write", AfterWrite(k))
    /\ staged' = [staged EXCEPT ![k] = FALSE]
    /\ UNCHANGED <<state, request, close_connection, chan, wire, inflight>>
    /\ WriterQuiet

WritingTask(k) ==
    \/ WriterRecvQuit(k) \/ WriterRecv(k) \/ WriterChecksFinished(k)
    \/ WriterChecksProcessing(k) \/ WriterNotProcessing(k)
    \/ WriterSendRequest(k) \/ WriterPanics(k)
    \/ WriterRequestWasProcessed(k) \/ WriterSetsFinishedGood(k)
    \/ WriterWrites(k) \/ WriterWriteFails(k)

-----------------------------------------------------------------------------
(* Specification *)

Init ==
    /\ state = St("New")
    /\ conn = 0
    /\ callerPc = "idle"
    /\ ctPc = [k \in Conns |-> "unborn"]
    /\ readerPc = [k \in Conns |-> "unborn"]
    /\ status_code = [k \in Conns |-> Good]
    /\ writerPc = [k \in Conns |-> "unborn"]
    /\ request = [k \in Conns |-> Quit]
    /\ staged = [k \in Conns |-> FALSE]
    /\ close_connection = [k \in Conns |-> FALSE]
    /\ chan = [k \in Conns |-> <<>>]
    /\ sender = 0
    /\ sent = 0
    /\ wire = [k \in Conns |-> {}]
    /\ inflight = {}
    /\ responses = {}

Caller == Connect \/ ConnectPanics \/ Poll \/ WaitForDisconnect

Next ==
    \/ Caller
    \/ SessionSends
    \/ \E k \in Conns : ConnectionTask(k)
    \/ \E k \in Conns : ReaderReceives(k)
    \/ \E k \in Conns : ReaderProceeds(k)
    \/ \E k \in Conns : WritingTask(k)

Spec == Init /\ [][Next]_vars

\* The runtime polls every task that can take a step, and the caller's
\* polling loop comes round; the peer answers a HELLO, with an ACK or with
\* anything else, or the stream ends.
Fairness ==
    /\ WF_vars(Poll)
    /\ \A k \in Conns :
          /\ WF_vars(ConnectionTask(k))
          /\ WF_vars(ReaderProceeds(k))
          /\ WF_vars(WritingTask(k))
          /\ WF_vars(state.name = "WaitingForAck" /\ ReaderReceives(k))

LiveSpec == Spec /\ Fairness

-----------------------------------------------------------------------------
(* Properties *)

TypeOK ==
    /\ state \in ConnectionState
    /\ conn \in 0..MaxConns
    /\ callerPc \in {"idle", "polling", "connected", "panicked"}
    /\ ctPc \in [Conns -> {"unborn", "start", "connect", "hello", "watch",
                           "done", "returned"}]
    /\ readerPc \in [Conns -> {"unborn", "read", "ack", "shutdown", "quit",
                               "done", "panicked"}]
    /\ status_code \in [Conns -> StatusCodes]
    /\ writerPc \in [Conns -> {"unborn", "recv", "is_finished", "state",
                               "send_request", "request_was_processed",
                               "set_finished", "write", "done", "panicked"}]
    /\ request \in [Conns -> Message]
    /\ staged \in [Conns -> BOOLEAN]
    /\ close_connection \in [Conns -> BOOLEAN]
    /\ \A k \in Conns : chan[k] \in Seq(Message)
    /\ sender \in 0..MaxConns
    /\ sent \in 0..MaxRequests
    /\ wire \in [Conns -> SUBSET Handles]
    /\ inflight \subseteq Handles
    /\ responses \subseteq Handles

Lifecycle == INSTANCE ConnectionLifecycle WITH phase <- state.name

\* The state cell of one connection moves as the table of permitted
\* transitions says: New, Connecting, Connected, WaitingForAck, Processing in
\* this order, Finished from every phase after New, and nothing after
\* Finished.  The stores of connection_task, of the reader's ACK arm and of
\* the writer are unconditional, so this is a property of how the three
\* tasks interleave.
LifecycleSpec == Lifecycle!Spec

HalfDead(k) == writerPc[k] \in {"done", "panicked"} \/ readerPc[k] = "done"

\* A connection whose writing task has ended, or whose reading task has left
\* its loop and gone, is Finished: the reader sets the state before it sends
\* Quit, and the writer sets it before it breaks out of its loop.  Otherwise
\* the session would go on sending into a connection nobody serves.
NoHalfDeadConnection ==
    \A k \in Conns : (k = conn /\ HalfDead(k)) => IsFinished

\* store_response is only called for a request that request_was_processed
\* has marked: the writer marks the request before its bytes reach the
\* socket, so the reader cannot see the answer to an unmarked request.
ResponseOnlyForInflight ==
    responses \subseteq inflight

\* Whenever the caller is free to call connect(), the transport is not
\* connected: connect() returned an error only for a connection that is
\* over, and wait_for_disconnect() only after the state was Finished.  It is
\* the precondition connect() panics on.
IdleMeansDisconnected ==
    callerPc = "idle" => ~IsConnected

\* Once the reading task has sent Quit and gone, the writing task ends:
\* whatever requests are still in the channel before the Quit, the writer
\* gets through them.
ReaderExitStopsWriter ==
    \A k \in Conns :
        readerPc[k] = "done" ~> writerPc[k] \in {"done", "panicked"}

CloseRequested ==
    \E k \in Conns : \E i \in DOMAIN chan[k] :
        chan[k][i].type = "CloseSecureChannelRequest"

\* A CloseSecureChannelRequest the session has put on the channel leads to a
\* Finished state, so wait_for_disconnect() returns: either the writer gets
\* to it and sets Finished(Good), or the connection was finished before.
GracefulClose ==
    CloseRequested ~> IsFinished

\* connect() returns: every way the connection task and the reading task
\* can go, towards a peer that answers the HELLO with some frame the reader
\* knows or closes the stream, ends in Processing or Finished, and the
\* polling loop sees it.
ConnectReturns ==
    callerPc = "polling" ~> callerPc # "polling"

\* A terminal code is replaced by the writing task only: the connection
\* task stores before the reader and the writer exist, and the reader ends
\* every way out of its loop with conditional_set_finished, which leaves a
\* Finished cell alone.  So the code wait_for_disconnect() reports is the
\* first one or one the writer put in its place (BadUnexpectedError, Good),
\* never a later error of the reader.  This is about the stores of the
\* three tasks into the one state cell.
TerminalCodeReplacedByWriterOnly ==
    [][(IsFinished /\ state' # state)
        => \E k \in Conns : writerPc'[k] # writerPc[k]]_vars

\* The design text: the first caller of conditional_set_finished wins, and
\* once Finished(c) is set state() returns Finished(c) thereafter.
FirstTerminalCodeWins ==
    [][IsFinished => state' = state]_vars

\* A connection is ended by its own tasks.  The design text has a session
\* make a new connection after one is over; connect() starts it on the state
\* cell the reading and the writing task of the old one still hold.
FinishedByOwnTasks ==
    [][(~IsFinished /\ state'.name = "Finished")
        => \/ ctPc'[conn] # ctPc[conn]
           \/ readerPc'[conn] # readerPc[conn]
           \/ writerPc'[conn] # writerPc[conn]]_vars

\* The ACK arm never brings a finished connection back: the design text has
\* nothing follow Finished but a new connection.  The reading task reads the
\* state, takes the secure channel's lock and stores Processing without
\* looking again.
AckNeverUndoesFinished ==
    [][IsFinished => state'.name # "Processing"]_vars

\* A writing task is told to quit by the reading task of its own connection
\* only: spawn_looping_tasks hands the reading task the sender of the channel
\* it has just made, and shutdown_writer_from_reader sends Quit through it.
\* The message queue holds a sender too, that of the newest connection; a
\* reading task that outlives its connection and used that one would stop
\* the writer of the connection that came after it.
QuitFromOwnReader ==
    \A k \in Conns :
        (\E i \in DOMAIN chan[k] : chan[k][i] = Quit) => readerPc[k] = "done"

\* send_request: "Should not be calling this unless in the processing
\* state"; the writing task checks the state twice before it calls.
WriterNeverPanics ==
    \A k \in Conns : writerPc[k] # "panicked"

=============================================================================
