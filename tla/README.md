# TLA+ models of the OPC UA TCP transport

This directory holds TLA+ specifications of the binary TCP transport of the
OPC UA client and server in this repository and of the binary encoding of its
service types, the TLC configurations that check them, and `PROJECT.json`,
which lists every run, maps every definition to the source lines it models
and records what the runs found.

## 1. The system

| Part | Source | State | Operations |
|---|---|---|---|
| Client reassembler | `src/lib/src/async_client/comms/tcp_transport.rs` 53-184 (`ReadState`) | `chunks` (request id -> chunks received), `last_received_sequence_number`, `max_chunk_count` | `process_chunk`, `merge_chunks`, `turn_received_chunks_into_message` |
| Client driver | same file, 226-445, 659-715 (`TcpTransport`) | the shared `ConnectionState` cell | `new`, `connect` (spawn, then poll), `wait_for_disconnect`, `is_connected`, `connection_task`, `spawn_looping_tasks` |
| Client reading task | same file, 473-582 | `status_code`, the reassembler | one arm for ACK, chunk, ERR, anything else; `shutdown_writer_from_reader` |
| Client writing task | same file, 187-217, 447-471, 584-655 | the request just received, the staged bytes, `close_connection` | receive, check state, `send_request`, `request_was_processed`, `write_bytes_task` |
| Connection state cell, chunker, message queue, message writer, codec, secure channel | not in `src/` | | used by all of the above; modelled from the design text (`spec.md`) where a module needs them |
| Server main loop | `src/server/src/comms/tcp_transport.rs` 317-503, 514-677 | `transport_state`, `session_status`, the two sequence numbers, the send buffer, the session's `terminate_session` and `terminated` | read, `store_bytes`, `process_hello`, `process_chunk`, `send_response`, `write_output`, the decision to go on or to end |
| Server hello-timeout loop | same file, 239-275 | reads `transport_state`, writes `session_status` | `is_hello_timeout`, `set_session_status(BadTimeout)` |
| Server subscription timer | same file, 278-314, 413-438 | the session's subscriptions (not in `src/`) | tick, send publish responses into a channel nobody reads |
| Server | `src/server/src/server.rs` | `connections`, `abort`, the server's lock, the listener | `new`, `run` (the discovery timer, the bind, the listener's closure, the end of the listener on an accept error), `start_discovery_server_registration_timer`, `abort`, `remove_dead_connections`, `handle_connection` |
| Service types | `src/types/src/generated/*.rs` | none | `byte_len`, `encode`, `decode` of each record, and `object_id` of those that travel with their type |
| Types crate root | `src/types/src/lib.rs` | none | constants, macros, the list of modules |

How the parts of the client interact. A caller owns a `TcpTransport`.
`connect()` spawns the connection task and polls the state cell every 100 ms.
The connection task opens the stream, sends HELLO and spawns the reading and
the writing task, then watches the cell every 10 ms until it is `Finished`.
The reader turns frames into state changes and responses; the writer takes
requests from an unbounded channel whose sending end belongs to the session.
The four of them share one cell, `ConnectionState`, whose every access takes
and releases a lock: each read and each store is a step of its own, and the
steps of the four tasks interleave freely. The reader ends the writer by the
`Quit` message on the request channel. A transport that is `Finished` may be
connected again; nothing stops the tasks of the earlier connection first.

How the parts of the server interact. `Server::run` takes the server's write
lock to start the discovery registration timer, which spawns a task before
any runtime exists, and only then enters `tokio::run` and binds the
listener. The listener's closure runs under the server's write lock: it checks `abort`, sweeps the list of connections with
`try_read` on every transport, pushes a new transport and calls
`TcpTransport::run`, which spawns the main loop and the hello-timeout loop of
that connection. Both loops take the transport's lock for every access and
release it in between. The main loop is the only task that reads the socket;
it looks at the server's `abort` and at `session_status` only after a read
has returned. A panic while a lock is held for writing poisons it. An error
of `accept` ends the stream of incoming sockets, and with it the listener;
the connections that run go on.

How client and server interact. The client's connection task connects and
writes HELLO; the server's listener accepts and its main loop reads whatever
has arrived, one frame or several, answers the HELLO with ACK or an error
frame and every request with the chunks of a response. The client's reader
takes the server's frames one at a time. Either end may drop the socket at
any of its exits, and the other sees the end of the stream at its next read:
the client's `framed_read.next()` returns `None`, the server's `io::read`
returns zero bytes.

What is hard about it: check-then-act on the state cell by two tasks, a
terminal state that may be stored twice, the order of "set the state" and
"send Quit", a poll that can read the state of the previous connection,
sequence numbers that count the chunks of the whole channel while messages
are reassembled per request, and a limit that is compared with the wrong
quantity; on the server a timeout recorded by one task and overwritten by
another, ways out of the main loop that skip its last steps, a snapshot of
the transport state that is stale for the second frame of a read, a sweep
that judges a connection by a lock it may not get, and a read loop that does
not know the end of the stream; in the encoding, a format without tags, in
which a field out of order or a length that is off by one shifts everything
behind it.

## 2. Modules

| Module | Models | Variables |
|---|---|---|
| `Reassembler` | `ReadState` and the chunk arm of the read loop, against a peer that numbers the chunks it sends | `chunks`, `last_received_sequence_number`, `status`, `delivered`, `panicked`; history: `sent`, `completed`, `evicted`, `tampered` and the peer's counters |
| `ConnectionLifecycle` | the table of permitted transitions of `ConnectionState` (design text, section 4.5) | `phase` |
| `ClientTransport` | caller, session, connection task, reader and writer of up to `MaxConns` successive connections of one transport | `state` (the cell), `conn`, `callerPc`, `ctPc`, `readerPc`, `status_code`, `writerPc`, `request`, `staged`, `close_connection`, `chan`, `sender`, `sent`, `wire`, `inflight`, `responses` |
| `ServerTransport` | main loop and hello-timeout loop of every connection of `Conns`, against clients that send any frames of `ClientFrames` | `transport_state`, `session_status`, `last_received_sequence_number`, `last_sent_sequence_number`, `terminate_session`, `terminated`, `loopPc`, `batch_state`, `messages`, `session_status_code`, `send_buffer`, `helloPc`; environment and history: `received`, `wire`, `handled`; declared here and owned by `Server`: `abort`, `listener`, `connections`, `offered`, `server_poisoned` |
| `Server` | extends `ServerTransport` with `Server::new`, `Server::run` down to the bind, the listener's closure, the accept error and `abort` | the same |
| `ClientServer` | one `ClientTransport` and one `Server` with one connection, joined by a socket | those of both, `ClientTransport`'s `wire` renamed `written`; the socket: `link`, `upstream`, `taken`; the client's message writer: `numbered`, `outgoing`; the reading task's `ReadState`: `chunks`, `last_received`, `delivered`, `evicted` |
| `BinaryEncoding` | the encoding of the built-in types and of arrays (design text, "Wire framing") | none: operators |
| `ServiceTypes` | the sixteen generated service types with their object ids, and a writer, a stream that may end early and a reader that finds the decoder by the object id around them | `pc`, `type`, `value`, `size`, `stream`, `cut`, `result` |
| `MCReassembler`, `MCClientTransport`, `MCServer`, `MCClientServer`, `MCServiceTypes` | the constants of the runs | |

Correspondence with the code.

* `Reassembler`: `ProcessIntermediate`, `ProcessFinalError`, `ProcessFinal`
  and `ProcessTampered` are the four ways through `process_chunk`.
  `StoreIntermediate` is the push and, when `chunks.len()` exceeds
  `max_chunk_count`, the eviction of the key the `HashMap` iterator yields
  first: any key, the one just stored included. `MergeChunks` sorts by
  sequence number and keeps the chunks that continue the run from the
  smallest. `ValidateChunks` and `Decode` belong to the chunker, which is
  outside `src/`, and follow the design text. A chunk is its request id, its
  sequence number, its kind and its position in its message; the payload is
  that position, so that a message delivered with parts missing or out of
  order is told apart from a whole one. Sequence numbers are the numbers
  `0..SeqMax`, `SeqMax` standing for `u32::MAX`, and `Succ` is `+ 1` on
  them. What `last_received_sequence_number + 1` and
  `expect_sequence_number += 1` do at the largest number depends on the
  build, so the model has both: `ProcessFinal` wraps to 0, and
  `ProcessFinalOverflows` is the panic, after `chunks.remove` and before
  anything else is stored; `panicked` is the reading task gone. The peer
  counts the chunks it sends (`peerSeq`, up to `MaxSeq`) and numbers them
  `Succ(peerSeq)`: a peer that sends more than `SeqMax` chunks reuses
  numbers.
* `ClientTransport`: every `*Pc` variable is the place a task has reached;
  each action is the code between two accesses of shared state. The state
  cell is a record `[name, code]`, the code being `Good` unless the name is
  `Finished`. `Connect` is `connect()` up to the spawn, `Poll` one turn of its
  loop; `CtBegin` … `CtWatch` are `connection_task`; `ReaderAck` and
  `ReaderAckSetsProcessing` are the two halves of the ACK arm, between which
  the secure channel's lock is taken; `ReaderFinish` and `ReaderQuit` are
  `shutdown_writer_from_reader`; `WriterChecksFinished`,
  `WriterChecksProcessing` and `WriterSendRequest` are the three reads of the
  cell the writer makes for one request. The result of `process_chunk` is a
  choice here (response, nothing, one of its four errors): `Reassembler`
  says which, and in `ClientServer` it decides.
* `ServerTransport`: `loopPc` is the place the main loop has reached
  (`read`, `process`, `decide`, `finish`, `terminate`; `done`, `failed`,
  `panicked` when it has returned). `Run` is `TcpTransport::run`, `RunPanics`
  its `peer_addr().unwrap()` on a socket that is already gone. `LoopRead` is
  the read, the abort check, the snapshot of the transport state
  (`batch_state`) and `store_bytes`; `LoopReadFails` and `LoopReadAborted`
  are the two errors that leave the loop through `map_err`. One action takes
  one frame of the read: `LoopHello`, `LoopMisplaced`, and for a chunk
  `LoopPanicsOnIntermediate`, `LoopChunkDiscarded`, `LoopChunkRejected`,
  `LoopChunkOutOfSequence`, `LoopChunkHandled`, `LoopPanicsInSendResponse`.
  There is no break in the loop over the frames, so a failing frame only
  sets `session_status_code`. `LoopStoresStatus` stores that code and writes
  the buffer; `LoopContinues` and `LoopEnds` are the decision,
  `LoopFinishes` and `LoopTerminates` the last two locked sections.
  `Encode` is `Chunker::encode` as `send_response` uses it: the chunks of a
  response, numbered, all but the last Intermediate, each with the slice of
  the response it carries. `WriteOutput` is one `write`: everything, or
  nothing that a client could use, and the buffer is empty afterwards in
  both cases. What a handler does with a request is outside `src/`: it
  answers with one to
  `MaxResponseChunks` chunks, has no answer yet, or fails, and it may set
  `terminate_session`. The hello-timeout loop is `HelloTimesOut` (the check)
  and `HelloSetsStatus` (the store). `SetSessionStatus` is
  `set_session_status`, the one place `session_status` is written. `Phase(k)`
  reads `transport_state` in the words of `ConnectionLifecycle`.
* `Server`: `New` is the server `Server::new` returns. `ServerRun` is `run`
  down to the bind: the listener is `listening` when the port was free and
  the discovery timer did not panic, `panicked` otherwise.
  `StartDiscoveryServerRegistrationTimerPanics` says when it does: a
  discovery server is configured and `tokio::spawn` finds no executor, which
  is an input here because it depends on how the caller runs `run`; the
  panic happens under the write lock and poisons it. `AcceptError(k)` is the
  `map_err` of the listener: the attempt of `k` fails and the listener is
  `closed`. `Accept` is the closure for a socket when the server is not
  aborting, `AcceptAborting` when it is. `RemoveDeadConnections(list, busy)`
  is `retain`: a connection stays unless `try_read` succeeds and the session
  says terminated; `busy` is any set of connections whose tasks may hold a
  lock at that moment. `HandleConnection` pushes the transport and runs it;
  when `run` panics the closure unwinds with the server's write lock held,
  `server_poisoned` becomes true, and no later accept or abort gets the lock.
  The server's variables are declared in `ServerTransport` so that each step
  of a transport says itself that it leaves them alone.
* `ClientServer` changes neither module. `C` and `S` are instances of
  `ClientTransport` and `Server`; every action of theirs that does not touch
  the socket is a step of the composition as it stands, and every action
  that does is conjoined with what the socket holds. `ClientConnects` is
  `TcpStream::connect` succeeding, possible once `ServerRun` has bound the
  listener, and `ClientGivesUp` the connection task leaving before it has
  spawned its tasks: `set_nodelay` fails on the socket `connect` has just
  returned, or the write of the HELLO fails. Either way the client drops a
  socket the listener has still to yield; `ClientSaysHello` appends
  the HELLO to `upstream`; `ClientStages` is `send_request` with the message
  writer cutting the request into chunks and numbering them (`numbered`,
  `outgoing`); `ClientWrites` is `write_all`. `ServerReads` gives the
  server's read the next frames of `upstream`, between none and `MaxBatch`
  of those that are there; it is enabled with none once the client has
  dropped the socket, which is the read that returns zero bytes.
  `ClientReads` gives the reader the frame at position `taken + 1` of the
  server's `wire`, an error frame as the status code the reader makes of it;
  `ClientReadsEnd` is the `None` of `framed_read.next()` once the server's
  tasks have returned. A chunk the reader takes while `Processing` goes
  through `ProcessChunk`, which is `process_chunk` of the instance `R` of
  `Reassembler`: the chunk does not verify, is stored, or completes a
  message; the status code the read loop holds is the one `R` returns, and
  `store_response` gets a response only when a message was returned.
  `NextChunk` is what `chunk_info` reads from the frame. Request ids are
  not carried: this server answers one request at a time and stages the
  chunks of a response together, so the reader never has two requests under
  reassembly. `validate_chunks` is read as in `ServerTransport`: the first
  number is exactly the one expected. A frame may be unusable to the receiver (`HelloFaults`,
  `ChunkFaults`); the fault is chosen when the frame is written.
* `BinaryEncoding` and `ServiceTypes`: a byte is a number in `0..255`, a
  stream a sequence of bytes. Each generated type is four tables copied from
  its file: the fields of the struct with their types, and the names of the
  fields in the order in which `byte_len`, `encode` and `decode` of that
  file go through them. `ByteLen`, `Encode` and `Decode` are the three
  functions over such tables. The encoders of the built-in types are outside
  `src/` and follow the design text; a structure defined outside `src/`
  (`RequestHeader`, `NodeId`, ...) is an opaque run of bytes whose first
  byte says how many follow. `X_object_id` is `object_id()` of `impl
  MessageInfo for X`; `Decoder(T)` is the type whose id a receiver finds in
  front of a value of `T`, and the reader decodes with that type's tables.
* `ConnectionLifecycle` is the promise. `ClientTransport` is checked to
  implement it with the refinement mapping `phase <- state.name`
  (`LifecycleSpec`), every connection of `ServerTransport` with
  `phase <- Phase(k)` (`TransportLifecycleSpec`).

## 3. Runs

| Run | Module, configuration | Result | What it shows |
|---|---|---|---|
| `reasm` | `MCReassembler`, `Reassembler.cfg` | pass | a message is delivered only as the peer finished it, nothing stays in the table after a Final or FinalError chunk, the table never holds more than `max_chunk_count + 1` requests, and `process_chunk` fails only when the peer interleaved, tampered or sent more chunks than there are sequence numbers; the reader panics for overflow only at the largest number. The peer sends past the wrap of the numbers, so both builds are followed through it |
| `reasm_interleaved` | `MCReassembler`, `ReassemblerInterleaved.cfg` | violation | two interleaved messages end the connection: r1 C(1), r2 C(2), r1 F(3) gives `BadTcpMessageTypeInvalid` |
| `client` | `MCClientTransport`, `ClientTransport.cfg` | pass | the cell follows the transition table (`LifecycleSpec`, the refinement); a writer or reader that is gone means `Finished`; responses only for requests in flight; `connect()` leaves the caller idle only when nothing is connected; a terminal state once stored is replaced by the writing task only, never by the reader or the connection task |
| `client_reconnect` | `MCClientTransport`, `ClientTransportReconnect.cfg` | pass | two connections whose tasks overlap, the panic of `connect()` on a transport that is connected included: Quit reaches a writing task only from the reading task of its own connection, so a reader that outlives its connection cannot stop the writer of the next (`QuitFromOwnReader`; it is the one thing the connections do not share) |
| `client_writer_panic` | `MCClientTransport`, `ClientTransportPanic.cfg` | violation | the panic in `send_request` is reachable |
| `server` | `MCServer`, `Server.cfg` | pass | from `Server::run`, with a listener that may fail to come up or end on an accept error: every connection follows the transition table (`TransportLifecycleSpec`, the refinement); requests reach decoding and their handler in sequence, 1, 2, 3, ...; the chunks on the wire carry increasing sequence numbers whatever is lost; an error frame is the last thing written and the loop that wrote it is leaving; the list of connections holds every transport that still runs; no request is handled before the HELLO was accepted, whatever one read brings in |
| `server_hello_timeout` | `MCServer`, `ServerHelloTimeout.cfg` | violation | accept, a read with the HELLO, the timeout found and stored while the frame waits to be processed, then the HELLO accepted: `ProcessMessages` after `BadTimeout`, and the status overwritten by the next store |
| `server_dead_connection` | `MCServer`, `ServerDeadConnection.cfg` | violation | accept c1, its read fails, accept c2: c1 is still on the list, and stays there |
| `client_server` | `MCClientServer`, `ClientServer.cfg` | pass | the client is `Processing` only when the server has accepted its HELLO, and the server meets no frame of the client in a state that has no place for it: the order of HELLO, ACK and requests holds between the two programs, with reads of two frames and failing writes; the server finds a chunk out of sequence only when a chunk the client numbered was never written or an earlier chunk was refused; the client's `process_chunk` returns every response the server wrote, one after the other, and refuses none unless a write of the server was lost or a chunk did not verify (`ResponsesReassembled`) |
| `client_server_live` | `MCClientServer`, `ClientServerLive.cfg` | pass | `connect()` returns whatever the server does with the HELLO, unless the ACK is lost; a server that drops the socket leaves the client `Finished`; the writer ends when the reader does; a close request ends in `Finished`; `abort` ends a connection at the next read that returns; a response cut into two chunks is stored, merged and returned whole (`ResponsesReassembled`, an invariant of this run too) |
| `server_client_gone` | `MCClientServer`, `ClientServerGone.cfg` | violation | the listener is bound, the client connects and is accepted, and then drops the socket (its tasks end, or the write of the HELLO fails); the main loop reads zero bytes, stores `Good`, decides to go on and reads again, for ever: the end of the stream never ends the connection |
| `codec` | `MCServiceTypes`, `ServiceTypes.cfg` | pass | for every generated type and every value over the sample fields: decode returns what encode was given and stops where the value ends, `byte_len` is the number of bytes `encode` writes, and a value cut short anywhere is refused; the decoder is the one the value's object id names, so two types with one id show |

Further configurations, kept for the findings they reproduce
(`tlc -config <cfg> <module>`):

| Configuration | Module | Property | Outcome |
|---|---|---|---|
| `ReassemblerBound.cfg` | `MCReassembler` | `ChunkBound` | violated: one request holds three chunks with `max_chunk_count = 2`, because the limit is compared with the number of requests |
| `ReassemblerWrap.cfg` | `MCReassembler` | `NumbersNeverReused` | violated: after the chunk numbered `SeqMax` the reader accepts one numbered 0, and `last_received_sequence_number` falls from 7 to 0 |
| `ReassemblerOverflow.cfg` | `MCReassembler` | `ReaderNeverPanics` | violated: the Final chunk of a two-chunk message whose first chunk carries the largest number but one; `expect_sequence_number += 1` overflows |
| `ReassemblerEvicted.cfg` | `MCReassembler` | `EvictedIsAbandoned` | violated: a request is evicted at the limit, and its next chunk starts a new entry |
| `ClientTransportOldTasks.cfg` | `MCClientTransport` | `FinishedByOwnTasks` | violated with two connections: the writer of the first finds the second in `Connecting` and stores `Finished(BadUnexpectedError)` |
| `ClientTransportAck.cfg` | `MCClientTransport` | `AckNeverUndoesFinished` | violated with two connections: the writer of the first stores `Finished` between the read of the state and the store of `Processing` in the ACK arm of the second |
| `ClientTransportTerminal.cfg` | `MCClientTransport` | `FirstTerminalCodeWins` | violated: the writer replaces the reader's terminal code |
| `ClientTransportStale.cfg` | `MCClientTransport` | `IdleMeansDisconnected` | violated with two connections: `connect()` after a failure answers from the old `Finished` and the transport connects behind the caller's back |
| `ServerFirstError.cfg` | `MCServer` | `FirstErrorIsReported` | violated: a read brings a chunk that fails verification and a second chunk, which is then out of sequence; the loop over the frames has no break and the second code replaces the first |
| `ClientTransportLive.cfg` | `MCClientTransport` | `ReaderExitStopsWriter`, `GracefulClose`, `ConnectReturns` | hold: the client alone, against a peer that is only assumed to answer |

The violations and the other disagreements between code and design text that
were met while modelling are under `findings` in `PROJECT.json`.

## 4. Bounds

* `Reassembler.cfg`: three request ids (a symmetric set), `SeqMax = 7`,
  `MaxSeq = 10`, `MaxParts = 3`, `max_chunk_count = 2`. Three ids with a
  limit of two make the eviction happen. Sequence numbers have three bits
  in place of thirty-two: the arithmetic is the same and the end of the
  numbers comes after seven chunks. Of the ten chunks the peer sends, the
  first seven let two three-chunk messages or three two-chunk ones
  complete, interleaved or not, and the last three are a message that lies
  before, across or after the wrap. About 240 thousand states. The
  violation runs and `ReassemblerEvicted.cfg` stop the peer at six chunks,
  before the wrap.
* `ClientTransport.cfg`: one connection, two request handles: a request and
  a close request, or two requests, so that the writer is in its loop while
  the reader fails.
* `ClientTransportReconnect.cfg`: two connections and one handle. Two is the
  least number at which tasks of different connections share the cell, and
  at which `connect()` is called on a transport that is connected. One
  handle is enough for a reader to outlive its connection: the writer ends
  the first connection with the close request, the caller connects again,
  and the first reader meets the end of its stream after that.
* `Server.cfg`: two connections (a symmetric set), `MaxFrames = 3` frames
  from all clients together, `MaxBatch = 2` frames in one read,
  `MaxResponseChunks = 2`. The clients choose from nine frames: a good and a
  bad HELLO, Final chunks numbered 1 and 2, an Intermediate and a FinalError
  chunk, a chunk that fails verification, an ACK, and bytes that are no
  frame. Three frames are HELLO and two requests, or HELLO, a request and a
  replay of it; two frames in a read make the stale snapshot and the missing
  break happen; two connections let one accept sweep the other. An accept
  error takes the place of one of the two connection attempts, so that the
  listener ends before, between or after them. About 2.7 million states.
  The violation runs need two frames and one chunk.
* `ClientServer.cfg`: `MaxRequests = 2`, `MaxRequestChunks = 2`,
  `MaxBatch = 2`, `MaxResponseChunks = 1`. Two requests are needed for a
  request that follows a lost or rejected one, two chunks for a request
  whose first chunk is Intermediate, two frames in a read for a HELLO and a
  chunk that arrive together; one chunk for a response, so that two
  responses follow each other and the number kept after the first is what
  the second is checked against. The listener comes up or does not; it meets
  no accept error, which would only leave the client without a server.
  About 1.2 million states.
* `ClientServerLive.cfg`: one request of up to two chunks, reads of up to
  two frames, responses of up to two chunks, which is where the
  Intermediate arm of `process_chunk` and the merge are met; about 80
  thousand states, which is what the liveness check handles in reasonable
  time. Every way the
  handshake can end is there with one request.
* `ClientServerGone.cfg`: one request, one chunk, one frame: the loop needs
  no request at all.
* `ServiceTypes.cfg`: numbers 1 and 258 (they differ in the first and in the
  second byte, so that two numeric fields exchanged or a byte dropped show),
  the empty text and a text of one byte, structures of one and of two bytes,
  arrays of up to two elements and the null array, and a stream that ends
  with the value or goes on with one more byte. The stream may be cut at
  every length below that of the value.
* Time is not modelled. The hello timeout may be found to have run out
  whenever the transport waits for its HELLO, which is every behaviour a
  clock allows and more; the properties of the passing runs do not depend on
  when it fires.
* `PeerSendsHello` lets the peer send a frame the reader has no arm for. It
  is on in the safety run of the client and off in the composition, where
  the peer is the server of this repository, which never sends one.
* `CtSpawnLoopingTasks` is one step: the store of `WaitingForAck` and
  `make_request_channel` under the message queue's lock. Within one
  connection no task runs that could tell them apart. A reading task of an
  earlier connection could, if its peer sent it an ACK in between; the
  properties checked with two connections (`QuitFromOwnReader`, and the
  findings) do not depend on the order of the two.

Deadlock checking is off in the configurations of the transports: a
transport whose connections are all over, a caller that never calls again, a
server whose clients have sent all they will, have nothing left to do. It is
on for the codec, whose writer always has a next value.

## 5. Fairness

`ClientServer!LiveSpec` assumes weak fairness of

* `Poll`, the loop of `connect()`,
* the steps of the connection task, the reading task's read and its way out,
  and the steps of the writing task,
* `Server::run` down to the bind, the listener's accept, and the main
  loop's read and processing.

These are tokio tasks on a work-stealing runtime and timer loops: a step
that stays possible is taken. No fairness is assumed for what may go wrong
or need not happen: a read or write that fails, the hello timeout,
`Server::abort`, and the session, which need not send anything. A property
that holds under this fairness holds because the code gets there by itself.

`ConnectReturnsUnlessAckLost` has one exception in its statement. In the
model a write of the server may fail without the socket failing for good:
`write_output` logs the error and the main loop goes on. When that write was
the ACK, the server waits for a request and the client for the ACK; the
hello timeout of the server does not help, since the HELLO has arrived.
Whether a TCP socket can lose one write and deliver the next is a question
about the operating system; what the run shows is that nothing in either
program ends the wait.

`ClientTransport!LiveSpec` (used by `ClientTransportLive.cfg`) is the same
for the client alone, with one assumption about the peer in place of the
server: after HELLO something arrives.

The runs of `Server` check safety only. Its main loop moves only when a
client sends, and in `MCServer` the clients are free to send nothing.

## 6. Not modelled

* Bytes of the transport: framing, encryption, signatures, URL parsing,
  logging. A frame is its kind; a verification passes or fails. Frames
  arrive whole: a read that ends in the middle of a frame is the business of
  the codec's framing, which is outside `src/`.
* The session behind the message queue and its timeouts.
* The server's subscription timer: the function `run` spawns is not defined
  in the file, the timer that is defined sends into a channel without a
  receiver, and the main loop's subscription event is a constant `None`.
* Service handlers, the address space, sessions' subscriptions: outside
  `src/`; a handler is its outcome.
* `log_endpoint_info`, `create_polling_action` and the body of the discovery
  registration timer: logging, and a timer whose action is a stub. That the
  timer is spawned, and where, is modelled.
* The buffer sizes and limits of HELLO and ACK. The server answers with
  constants whatever the HELLO asked for and the client stores what the ACK
  says; no model carries the numbers. The disagreement with the design text
  is recorded as a finding, from the source.
* `src/types/src/lib.rs`: its constants are the limits of decoders that are
  outside `src/`, and the design text does not say what a decoder does at
  the limit; its macros have no caller in `src/`.
* The encoders of the built-in types beyond what the design text fixes
  (numbers, strings, arrays): `NodeId`, `Variant`, `ExtensionObject` and the
  other structures are opaque.
* Sequence numbers near `u32::MAX` on the server. `ServerTransport` counts
  in naturals, and `MaxFrames = 3` ends its run long before the numbers
  do; a width of three bits would need eight frames of one connection,
  which is beyond what the run of the server can hold next to two
  connections and reads of two frames. The arithmetic in the server's
  `process_chunk` and `send_response` is that of the client's reader, which
  is checked across the wrap in `reasm`; the place is listed as a hazard
  without a property. In `ClientServer` the reassembler is instanced with
  as many numbers as chunks are sent, so the wrap is not met there.
* Request ids between client and server, and chunks of two responses that
  interleave: the server of this repository has one response under way at
  a time. Interleaving is studied in `Reassembler` alone, against any peer.
* A second connection in the composition. The stale `Finished` and the
  tasks of an earlier connection are studied in `ClientTransport` alone.

## 7. Plan

1. `Reassembler`, `ConnectionLifecycle`, `ClientTransport` (done).
2. `ServerTransport` and `Server` (done): main loop, hello-timeout loop,
   accept, sweep, abort.
3. `ClientServer` (done): the client and the server over one socket, the
   handshake and the requests that follow it, and what each side makes of
   the other's early end.
4. The listener with the server's lock as state (done): the panic in `run`
   under the lock, and `abort` against a client that keeps sending
   (`AbortEndsConnection`).
5. `BinaryEncoding` and `ServiceTypes` (done): `byte_len`, `encode` and
   `decode` of the generated types, round trip over small field values.
6. `Server::new` and `Server::run` down to the bind, the accept error, the
   server as an implementation of `ConnectionLifecycle`, the object ids of
   the generated types, and the two questions about stored codes: who may
   replace a terminal state of the client, and when the server may find a
   chunk out of sequence (done).
7. The sequence numbers with a narrow width, for the wrap at the top of the
   range (done for the client's reader, in `Reassembler`; see section 6
   for the server).
8. The reassembler in place of the choice `ClientTransport` makes for the
   result of `process_chunk`, in the composition, so that responses of
   several chunks are followed from the server's `send_response` to the
   client's `store_response` (done).
