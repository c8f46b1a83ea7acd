--------------------------- MODULE SigningOverlap ---------------------------
(***************************************************************************)
(* What the endpoints of SigningWorkflow guarantee until two calls         *)
(* overlap. Each of them decides from a read and writes later; as long as  *)
(* at most one call is served at a time, what it has read is still so when *)
(* it writes.  overlapped remembers that this was ever otherwise.          *)
(***************************************************************************)
EXTENDS SigningWorkflow

VARIABLE overlapped  \* two calls have been served at the same time

Sole == \A c, d \in Call : pc[c] # "idle" /\ pc[d] # "idle" => c = d

history == <<vars, overlapped>>

HistoryInit == Init /\ overlapped = FALSE
HistoryNext == Next /\ overlapped' = (overlapped \/ ~Sole')

HistorySpec == HistoryInit /\ [][HistoryNext]_history

FairHistorySpec == HistorySpec /\ Fairness

-----------------------------------------------------------------------------
\* The final submission completes the document.
AllSignedCompletes ==
    ~overlapped =>
        ((\A r \in Signer : request[r] = "COMPLETED") => document = "COMPLETED")

\* The final PDF is requested once per document, and a signer submits once,
\* however often they are asked to.
RecordedOnce ==
    ~overlapped => /\ finalizations <= 1
                   /\ \A r \in Signer : submissions[r] <= 1

\* A completed request stays completed, and its link stays dead.
CompletedIsFinal ==
    [][~overlapped' =>
         \A r \in Signer : request[r] = "COMPLETED" => request'[r] = "COMPLETED"]_history
=============================================================================
