----------------------------- MODULE MCReadiness -----------------------------
(***************************************************************************)
(* A small instance of Readiness: the three connections of the processors. *)
(***************************************************************************)
EXTENDS Readiness

CONSTANTS email, letters, pdf  \* connections

Clients == {email, letters, pdf}
=============================================================================
