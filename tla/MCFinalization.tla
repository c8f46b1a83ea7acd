---------------------------- MODULE MCFinalization ----------------------------
(***************************************************************************)
(* A small instance of Finalization: two signers, and two job records for  *)
(* the case that both complete the document.                               *)
(***************************************************************************)
EXTENDS Finalization

CONSTANTS ann, bob,       \* signers
          first, second,  \* job records
          w1              \* a consumer

Signers == {ann, bob}
Followed == {ann}
Records == {first, second}
Runs == {w1}
=============================================================================
