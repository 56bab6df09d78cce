------------------------ MODULE MCEmailScheduling ------------------------
(***************************************************************************)
(* Model values for the runs of EmailScheduling: three steps, the second   *)
(* of them ARCHIVED, so that the next step is not the next position.       *)
(***************************************************************************)
EXTENDS EmailScheduling, TLC

CONSTANTS c1, c2, s1, s2

TwoContacts == {c1, c2}
ThreeSteps == 1 .. 3
FirstAndThird == {1, 3}
Second == {2}
TwoSlots == {s1, s2}

Symmetry == Permutations(TwoSlots) \cup Permutations(TwoContacts)
=============================================================================
