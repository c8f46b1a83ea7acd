----------------------------- MODULE MCSessions -----------------------------
(***************************************************************************)
(* A small instance of Sessions: one browser with two tabs.                *)
(***************************************************************************)
EXTENDS Sessions

CONSTANTS left, right,   \* tabs
          q1, q2         \* request slots

Tabs == {left, right}
Requests == {q1, q2}
=============================================================================
