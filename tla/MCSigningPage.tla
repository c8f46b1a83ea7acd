--------------------------- MODULE MCSigningPage ---------------------------
(***************************************************************************)
(* A small instance of SigningPage: two tabs, and a signature and a        *)
(* checkbox, both of them required.                                        *)
(***************************************************************************)
EXTENDS SigningPage

CONSTANTS t1, t2,     \* tabs
          c1, c2      \* calls

Tabs == {t1, t2}
Calls == {c1, c2}
Fields == {"name", "agree"}
TypeOf(f) == IF f = "name" THEN "SIGNATURE" ELSE "CHECKBOX"
IsRequired(f) == TRUE
=============================================================================
