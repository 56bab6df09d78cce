------------------------- MODULE MCSequenceRemoval -------------------------
(***************************************************************************)
(* Model values for the runs of SequenceRemoval: the contacts are of one   *)
(* company, and a second company has none in the sequence.                 *)
(***************************************************************************)
EXTENDS SequenceRemoval, TLC

CONSTANTS c1, c2, company, empty, k1, r1, r2, m1, step1

OneContact == {c1}
TwoContacts == {c1, c2}
MCCompany == {company, empty}
OneAtCompany == [c \in OneContact |-> company]
BothAtCompany == [c \in TwoContacts |-> company]
MCRequest == {r1, r2}
MCMonitor == {m1}
OneKey == {k1}
OneStep == {step1}
AllFaults == {"fail", "crash"}
NoFault == {}

Symmetry == Permutations(MCRequest)
=============================================================================
