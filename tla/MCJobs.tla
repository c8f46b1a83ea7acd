------------------------------- MODULE MCJobs -------------------------------
(***************************************************************************)
(* A small instance of JobWorkers: one document with two job records (its  *)
(* last two signers both found it complete) and one e-mail.                *)
(***************************************************************************)
EXTENDS JobWorkers

CONSTANTS first, second,  \* job records
          mail,           \* the job of one e-mail
          w1, w2          \* consumers

Records == {first, second}
Requests == {mail}
Runs == {w1, w2}
=============================================================================
