-------------------------- MODULE MCAdministration --------------------------
(***************************************************************************)
(* Values for the run of Administration.  Its parts share no row and no     *)
(* property speaks of two, so that interleaving them shows nothing: a       *)
(* behaviour checked here is one of MailboxLink, one of EngineCommands or   *)
(* one of SequenceSteps.  The first two have one initial state each; they   *)
(* begin beside a sequence that has no step yet.                            *)
(***************************************************************************)
EXTENDS Administration, TLC

CONSTANTS e1, e2, k1, k2, c1, c2, c3, s1, s2, t1, t2

TwoExecutives == {e1, e2}
TheSecond == {e2}
TwoKeys == {k1, k2}
ThreeCommands == {c1, c2, c3}
TwoSlots == {s1, s2}
TwoTexts == {t1, t2}
Symmetry == Permutations(TwoSlots) \cup Permutations(TwoKeys)

Unedited == edits = 0 /\ Editing!Live = {}

\* Commands are interchangeable, and created in this order: any other behaviour is one of
\* these with its commands renamed.
Created(c) == engineCommand[c].status # "NONE"

InTurn ==
    /\ Created(c2)' => Created(c1)'
    /\ Created(c3)' => Created(c2)'

MCNext ==
    \/ Unedited /\ engineRequests = 0 /\ LinkStep
    \/ Unedited /\ requests = 0 /\ EngineStep /\ InTurn
    \/ requests = 0 /\ engineRequests = 0 /\ EditingStep

MCSpec == AdministrationInit /\ [][MCNext]_<<vars, engineVars, stepVars>>
=============================================================================
