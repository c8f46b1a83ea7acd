------------------------------ MODULE MCDraft ------------------------------
(* A TLC instance of DraftEditing and of its history.                      *)
EXTENDS DraftOverlap, TLC
CONSTANTS ann, bob, sig, c1, c2, null, keep
Two == {ann, bob}
OneField == {sig}
TwoCalls == {c1, c2}
\* Nothing tells the recipients or the calls apart, and no run of this
\* instance checks liveness.
Interchangeable == Permutations(Two) \cup Permutations(TwoCalls)
\* Callers move, resize or reassign a field.
OnlyOwner == {[owner |-> r, left |-> keep, width |-> keep] :
                 r \in Recipient \cup {null}}
OnlyShape == {[owner |-> keep, left |-> x, width |-> keep] : x \in Left}
             \cup {[owner |-> keep, left |-> keep, width |-> w] : w \in Width}
AnyOne == OnlyOwner \cup OnlyShape
=============================================================================
