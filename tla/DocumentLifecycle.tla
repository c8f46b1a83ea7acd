------------------------- MODULE DocumentLifecycle -------------------------
(***************************************************************************)
(* What the signing workflow promises about one document: it is sent once, *)
(* signatures are never taken back, it is completed only by a signature    *)
(* and only when every signer has signed, and the final PDF is requested   *)
(* exactly when it is completed.  That the last signature does complete    *)
(* the document is not promised here: the code does not guarantee it.      *)
(***************************************************************************)
CONSTANT Signer

VARIABLES phase,      \* "DRAFT", "SENT" or "COMPLETED"
          signed,     \* signers with a stored submission
          requested   \* the final PDF has been requested

vars == <<phase, signed, requested>>

Init == phase = "DRAFT" /\ signed = {} /\ requested = FALSE

Send == /\ phase = "DRAFT"
        /\ phase' = "SENT"
        /\ UNCHANGED <<signed, requested>>

Sign(r) == /\ phase # "DRAFT"
           /\ signed' = signed \cup {r}
           /\ \/ UNCHANGED <<phase, requested>>
              \/ signed' = Signer /\ phase' = "COMPLETED" /\ requested' = TRUE

Next == Send \/ \E r \in Signer : Sign(r)

Spec == Init /\ [][Next]_vars
=============================================================================
