------------------------- MODULE MCClientTransport -------------------------
(***************************************************************************)
(* ClientTransport for model checking.  The bounds come from the .cfg; the *)
(* module adds nothing to the specification.                               *)
(***************************************************************************)
EXTENDS ClientTransport

=============================================================================
