------------------------------ MODULE MCStatus ------------------------------
(***************************************************************************)
(* A small instance of JobStatus: two streams, one of them opened with a   *)
(* renewed token, and two requests at a time.                              *)
(***************************************************************************)
EXTENDS JobStatus

CONSTANTS s1, s2,  \* streams
          c1, c2   \* requests

Streams == {s1, s2}
Calls == {c1, c2}
=============================================================================
