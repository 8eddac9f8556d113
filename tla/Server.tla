------------------------------- MODULE Server -------------------------------
(***************************************************************************)
(* The server of src/server/src/server.rs with its transports.             *)
(*                                                                         *)
(* Server::run starts the discovery timer, binds the listener and then is  *)
(* one closure per socket the listener yields.  The closure runs           *)
(* with the server's write lock held, so it is one step: the abort check,  *)
(* remove_dead_connections, handle_connection.  Server::abort needs the    *)
(* same lock.  A panic inside the closure poisons the lock and ends the     *)
(* listener's task: no socket is accepted after it and nobody can abort.   *)
(* The transports the server has started run beside it (module             *)
(* ServerTransport).                                                       *)
(***************************************************************************)
EXTENDS ServerTransport

\* remove_dead_connections: retain keeps a connection unless its lock can
\* be read and its session says it is terminated.  try_read fails on a lock
\* that is poisoned or that a task holds for writing at that moment (busy).
RemoveDeadConnectionsKeepsDead(list, busy) ==
    SelectSeq(list, LAMBDA c : terminated[c] \/ c \in busy)

RemoveDeadConnections(list, busy) ==
    SelectSeq(list, LAMBDA c : ~terminated[c] \/ Poisoned(c) \/ c \in busy)

\* the connections a task may hold the lock of for writing: the hello-timeout
\* loop on its way to set the status, the main loop while it runs
MayBeLocked ==
    {c \in Conns : helloPc[c] = "timeout" \/ ~(loopPc[c] = "idle" \/ LoopOver(c))}

\* handle_connection: a new transport is pushed on the list and run.  When
\* run panics the closure of the listener unwinds with the server's write
\* lock held, and that lock is poisoned as well.
HandleConnection(k, list) ==
    /\ connections' = Append(list, k)
    /\ \/ Run(k) /\ UNCHANGED server_poisoned
       \/ RunPanics(k) /\ server_poisoned' = TRUE

\* start_discovery_server_registration_timer: with a discovery server in the
\* configuration the timer is spawned, and spawn panics where no executor
\* is set.  Server::run calls it before tokio::run, with the server's write
\* lock held.
StartDiscoveryServerRegistrationTimerPanics(discovery_server_url, executor) ==
    discovery_server_url /\ ~executor

\* Server::run down to the listener: the address is parsed, the timer
\* started, the listener bound.  Each of the three can panic; only the timer
\* does it under the server's write lock.  Whether the caller runs inside a
\* runtime of its own is not in the hands of the server.
ServerRun ==
    /\ listener = "new"
    /\ \E discovery_server_url, executor, bound \in BOOLEAN :
          /\ server_poisoned' =
                 StartDiscoveryServerRegistrationTimerPanics(discovery_server_url, executor)
          /\ listener' = IF bound /\ ~server_poisoned' THEN "listening" ELSE "panicked"
    /\ UNCHANGED <<abort, connections, offered, transportVars, sessionVars, loopVars,
                   helloPc, received, wire, handled>>

\* The listener yields an error in place of a socket: for_each ends with the
\* first one, it is logged and the listener's task is over, while the
\* transports it has started go on.
AcceptError(k) ==
    /\ listener = "listening"
    /\ k \notin offered
    /\ offered' = offered \cup {k}
    /\ listener' = "closed"
    /\ UNCHANGED <<abort, connections, server_poisoned, transportVars, sessionVars,
                   loopVars, helloPc, received, wire, handled>>

\* The listener yields a socket and the server is not aborting: the dead
\* connections are swept and the new one is handled.
Accept(k) ==
    /\ listener = "listening"
    /\ k \notin offered /\ ~server_poisoned /\ ~abort
    /\ offered' = offered \cup {k}
    /\ \E busy \in SUBSET MayBeLocked :
           HandleConnection(k, RemoveDeadConnections(connections, busy))
    /\ UNCHANGED <<abort, listener>>

\* The listener yields a socket and the server is aborting: the socket is
\* dropped, and the listener goes on.
AcceptAborting(k) ==
    /\ listener = "listening"
    /\ k \notin offered /\ ~server_poisoned /\ abort
    /\ offered' = offered \cup {k}
    /\ UNCHANGED <<abort, listener, connections, server_poisoned, transportVars, sessionVars,
                   loopVars, helloPc, received, wire, handled>>

\* Server::abort, by a caller that has taken the server's write lock
Abort ==
    /\ ~abort /\ ~server_poisoned
    /\ abort' = TRUE
    /\ UNCHANGED <<listener, connections, offered, server_poisoned, transportVars, sessionVars,
                   loopVars, helloPc, received, wire, handled>>

\* Server::new: a server that is not aborting, has no connections and has
\* not been run
New ==
    /\ abort = FALSE
    /\ connections = <<>>
    /\ server_poisoned = FALSE
    /\ listener = "new"

Init ==
    /\ New
    /\ offered = {}
    /\ TransportInit

Next ==
    \/ ServerRun
    \/ \E k \in Conns : AcceptError(k)
    \/ \E k \in Conns : Accept(k)
    \/ \E k \in Conns : AcceptAborting(k)
    \/ Abort
    \/ TransportNext

Spec == Init /\ [][Next]_vars

----------------------------------------------------------------------------

TypeOK ==
    /\ abort \in BOOLEAN
    /\ listener \in {"new", "listening", "closed", "panicked"}
    /\ connections \in Seq(Conns)
    /\ offered \subseteq Conns
    /\ server_poisoned \in BOOLEAN
    /\ TransportTypeOK

\* The list of connections holds every transport whose main loop still
\* runs: the sweep at the next accept takes out only what is over.  This is
\* about the closure of retain in remove_dead_connections, which another
\* connection's accept runs while this one's tasks are at any point.
SweepKeepsLive ==
    \A k \in Conns :
        ~(loopPc[k] = "idle" \/ LoopOver(k))
            => \E i \in DOMAIN connections : connections[i] = k

\* An accept leaves no connection in the list whose main loop has returned,
\* unless a task held its lock during the sweep: whatever made the loop
\* return, it left the session terminated.  This is about the ways out of
\* make_looping_task (read error, abort, panic, normal end) as
\* remove_dead_connections sees them at the next accept.
DeadConnectionsSwept ==
    [][connections' # connections
        => \A i \in DOMAIN connections' :
               LoopOver(connections'[i]) => connections'[i] \in MayBeLocked]_vars

=============================================================================
