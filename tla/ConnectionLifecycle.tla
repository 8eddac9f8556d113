------------------------ MODULE ConnectionLifecycle ------------------------
(***************************************************************************)
(* The life of one connection as the design text gives it: the table of    *)
(* permitted transitions of ConnectionState.  This is what the transport   *)
(* drivers promise to everybody who watches the state cell; the client and *)
(* the server driver are shown to implement it.  The type ConnectionState  *)
(* and its manager live outside src/, so this module follows the table.    *)
(*                                                                         *)
(* Only the phase is kept.  The status code that Finished carries is left  *)
(* to the detailed modules, where "the first code wins" is checked.        *)
(***************************************************************************)

VARIABLE phase

Phases == {"New", "Connecting", "Connected", "WaitingForAck", "WaitingHello",
           "Processing", "Finished"}

Step(from, to) == phase = from /\ phase' = to

\* client: the driver begins to connect
BeginConnect == Step("New", "Connecting")

\* client: the stream is open and TCP_NODELAY set
StreamOpened == Step("Connecting", "Connected")

\* client: HELLO is out
HelloSent == Step("Connected", "WaitingForAck")

\* client: ACK received
Acknowledged == Step("WaitingForAck", "Processing")

\* server: a stream was accepted
Accepted == Step("New", "WaitingHello")

\* server: HELLO received and answered
HelloReceived == Step("WaitingHello", "Processing")

\* a fatal error, a timeout or a close, in every phase after New
Finish == phase \notin {"New", "Finished"} /\ phase' = "Finished"

Init == phase = "New"

Next ==
    \/ BeginConnect \/ StreamOpened \/ HelloSent \/ Acknowledged
    \/ Accepted \/ HelloReceived
    \/ Finish

Spec == Init /\ [][Next]_phase

TypeOK == phase \in Phases

=============================================================================
