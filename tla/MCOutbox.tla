------------------------------ MODULE MCOutbox ------------------------------
(* A TLC instance of Outbox with two replicas.  Event 1 is a signing       *)
(* email; whether its notification arrives is left open, as for any event. *)
EXTENDS Outbox
CONSTANTS a, b
Jobs == {"email", "pdf"}
JobOfEvent == [e \in Event |-> IF e = 1 THEN "email" ELSE "pdf"]
Workers == {a, b}
=============================================================================
