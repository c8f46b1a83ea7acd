------------------------------ MODULE MCEditor ------------------------------
(***************************************************************************)
(* A small instance of EditorView: one field on a page two steps wide, one *)
(* more that may be placed.                                                *)
(***************************************************************************)
EXTENDS EditorView

CONSTANTS f1, f2,  \* fields
          c1, c2,  \* mutations
          l1, l2   \* renderings

Fields == {f1, f2}
Existing == {f1}
Calls == {c1, c2}
Loads == {l1, l2}
=============================================================================
