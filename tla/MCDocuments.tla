---------------------------- MODULE MCDocuments ----------------------------
(***************************************************************************)
(* A small instance of Documents: three documents, two organizations, and  *)
(* pages of one row.                                                       *)
(***************************************************************************)
EXTENDS Documents

CONSTANTS page1,          \* a tab that uploads
          mine, theirs    \* organizations

Uploaders == {page1}
Orgs == {mine, theirs}
=============================================================================
