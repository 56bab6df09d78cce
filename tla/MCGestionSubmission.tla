------------------------ MODULE MCGestionSubmission ------------------------
(***************************************************************************)
(* Model values and symmetry for the runs of GestionSubmission.            *)
(***************************************************************************)
EXTENDS GestionSubmission, TLC

CONSTANTS s1, s2, s3, k1, k2, k3, v1, v2

OneSlot == {s1}
TwoSlots == {s1, s2}
ThreeSlots == {s1, s2, s3}
TwoKeys == {k1, k2}
ThreeKeys == {k1, k2, k3}
OneVersion == {v1}
TwoVersions == {v1, v2}

AllOps == {"start", "refresh", "update", "delete", "upload", "map"}
AllFaults == {"crash", "db", "remote"}
NoFault == {}
RemoteFault == {"remote"}

\* The liveness run leaves out the steps that keep a handler from its end
\* (restart, failed statement), the violation runs what they do not need.
LiveOps == {"start", "delete"}
SubmitOps == {"start", "refresh"}
DeleteOps == {"start", "delete", "upload", "map"}

\* Sound for the safety runs: no definition names a particular slot or key.
Symmetry == Permutations(Slots) \cup Permutations(Keys) \cup Permutations(Versions)
=============================================================================
