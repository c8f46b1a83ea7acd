----------------------------- MODULE MCSigning -----------------------------
(* TLC instances of SigningWorkflow and of its history.                    *)
EXTENDS SigningOverlap
CONSTANTS ann, bob, c1, c2, c3
TwoSigners == {ann, bob}
TwoCalls == {c1, c2}
ThreeCalls == {c1, c2, c3}
=============================================================================
