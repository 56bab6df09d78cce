-------------------------- MODULE RemoteSubmission --------------------------
(***************************************************************************)
(* What submitting a Gestion to the motor promises.  While nothing disturbs *)
(* it (two starts at once, a remote Gestion that fails) the motor gets one  *)
(* Gestion, under the key that is stored, so that whoever lost its answer   *)
(* can ask again; disturbed or not, what is known exists at the motor and   *)
(* nothing is shown of a Gestion that does not exist.                       *)
(***************************************************************************)
EXTENDS Naturals

CONSTANTS
    Keys,         \* idempotency keys; a remote Gestion is named by its key
    None          \* no key yet

VARIABLES
    stored,       \* the key stored with the Gestion
    remote,       \* the remote Gestion of each key
    known,        \* the key of the remote Gestion known here
    shown,        \* how far the Gestion is said to be
    disturbed     \* whether starts overlapped or a remote Gestion failed

svars == <<stored, remote, known, shown, disturbed>>

\* How far a remote Gestion is, and how far one is said to be.
Stage == [ACCEPTED |-> 1, QUEUED |-> 1, RUNNING |-> 2, COMPLETED |-> 3]
Submitted == {"ACCEPTED", "RUNNING", "COMPLETED"}

Exists(k) == remote[k] # "NONE"
NoneExists == \A k \in Keys : ~Exists(k)

Init ==
    /\ stored = None
    /\ remote = [k \in Keys |-> "NONE"]
    /\ known = None
    /\ shown = "PENDING"
    /\ disturbed = FALSE

\* Another key is stored only as long as no remote Gestion exists that it would hide.
Store(k) ==
    /\ disturbed \/ stored = k \/ NoneExists
    /\ stored' = k
    /\ UNCHANGED <<remote, known, shown, disturbed>>

\* The motor accepts a key once; undisturbed, that is the one stored, and the only one.
Create(k) ==
    /\ ~Exists(k)
    /\ disturbed \/ (stored = k /\ NoneExists)
    /\ remote' = [remote EXCEPT ![k] = "QUEUED"]
    /\ UNCHANGED <<stored, known, shown, disturbed>>

Progress(k) ==
    /\ \/ remote[k] = "QUEUED" /\ remote' = [remote EXCEPT ![k] = "RUNNING"]
       \/ remote[k] = "RUNNING" /\ remote' = [remote EXCEPT ![k] = "COMPLETED"]
    /\ UNCHANGED <<stored, known, shown, disturbed>>

Fail(k) ==
    /\ Exists(k)
    /\ \E st \in {"FAILED", "REJECTED"} : remote' = [remote EXCEPT ![k] = st]
    /\ disturbed' = TRUE
    /\ UNCHANGED <<stored, known, shown>>

\* An answer is recorded: undisturbed, never another than the one known already.
Learn(k) ==
    /\ Exists(k)
    /\ disturbed \/ known \in {None, k}
    /\ known' = k
    /\ shown' = "ACCEPTED"
    /\ UNCHANGED <<stored, remote, disturbed>>

\* What is shown may fall back, be withdrawn or catch up; undisturbed it is never ahead.
Show ==
    /\ \/ shown' = "PENDING"
       \/ /\ known # None
          /\ Exists(known)
          /\ shown' \in Submitted
          /\ disturbed \/ Stage[shown'] <= Stage[remote[known]]
    /\ UNCHANGED <<stored, remote, known, disturbed>>

Disturb ==
    /\ disturbed' = TRUE
    /\ UNCHANGED <<stored, remote, known, shown>>

Next ==
    \/ \E k \in Keys : Store(k) \/ Create(k) \/ Progress(k) \/ Fail(k) \/ Learn(k)
    \/ Show
    \/ Disturb

Spec == Init /\ [][Next]_svars
=============================================================================
