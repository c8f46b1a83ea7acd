---------------------------- MODULE DraftOverlap ----------------------------
(***************************************************************************)
(* What the checks of DraftEditing guarantee although calls overlap.       *)
(* Every call checks first and writes later, outside of a transaction.     *)
(* What it has found is stale once another call has written in between;    *)
(* as long as no stale call writes, calls may overlap in any way and leave *)
(* what they would leave one after the other.                              *)
(***************************************************************************)
EXTENDS DraftEditing

VARIABLES
    stale,  \* calls on their way while another has changed a table
    raced   \* a stale call has changed a table

history == <<vars, stale, raced>>

UnderWay == {c \in Call : pc[c] # "idle"}
Writes == tables' # tables

HistoryInit == Init /\ stale = {} /\ raced = FALSE
HistoryNext ==
    \E c \in Call :
        /\ CallStep(c)
        /\ stale' = UnderWay' \cap (IF Writes THEN stale \cup (Call \ {c}) ELSE stale)
        /\ raced' = (raced \/ (Writes /\ c \in stale))

HistorySpec == HistoryInit /\ [][HistoryNext]_history

-----------------------------------------------------------------------------
\* A field is never assigned to somebody who does not sign, and never extends
\* beyond its page.
FieldsAreSound ==
    ~raced => FieldsOwnedBySigners /\ FieldsInsidePage

\* A sent document has links for exactly its signers, who own all its fields
\* and at least one each.
SentIsComplete == ~raced => SentIsWellFormed

\* Once sent, recipients and fields do not change, although calls that were
\* let in before go on.
SentIsFrozen ==
    [][~raced' => (document = "SENT" => UNCHANGED tables)]_history
=============================================================================
