----------------------- MODULE MCTemplatePublication -----------------------
(***************************************************************************)
(* Model values for the runs of TemplatePublication.                       *)
(***************************************************************************)
EXTENDS TemplatePublication, TLC

CONSTANTS s1, s2, k1, k2, k3

OneSlot == {s1}
TwoSlots == {s1, s2}
ThreeKeys == {k1, k2, k3}
TwoKeys == {k1, k2}

AllOps == {"publish", "republish", "edit", "archive", "reopen", "delete"}
RepublishOps == {"publish", "republish"}
PublishOps == {"publish", "delete"}
AllFaults == {"crash", "db"}
NoFault == {}

Symmetry == Permutations(TwoSlots) \cup Permutations(TwoKeys)
=============================================================================
