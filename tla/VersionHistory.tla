--------------------------- MODULE VersionHistory ---------------------------
(***************************************************************************)
(* What publishing a Plantilla promises to those who refer to its versions. *)
(* The history only grows; a version is decided once, accepted only under   *)
(* an identity that the motor granted and no other version has; it follows  *)
(* none or one that was accepted before it; and the template is offered     *)
(* only once some version is accepted.                                      *)
(***************************************************************************)
EXTENDS Naturals, Sequences

CONSTANTS
    Keys,         \* the identities that the motor may grant
    None          \* no identity, no version

VARIABLES
    history,      \* the versions, in the order of their numbers
    granted,      \* the identities that the motor granted
    offered       \* whether the template is offered for new Gestiones

hvars == <<history, granted, offered>>

Accepted == {i \in DOMAIN history : history[i].status = "ACCEPTED"}

Init ==
    /\ history = <<>>
    /\ granted = {}
    /\ offered = FALSE

Request(p) ==
    /\ p = None \/ p \in Accepted
    /\ history' = Append(history, [status |-> "REQUESTED", serverId |-> None, previous |-> p])
    /\ UNCHANGED <<granted, offered>>

Grant(k) ==
    /\ granted' = granted \cup {k}
    /\ UNCHANGED <<history, offered>>

Decide(i, status, k) ==
    /\ history[i].status = "REQUESTED"
    /\ history' = [history EXCEPT ![i] = [status |-> status, serverId |-> k,
                                          previous |-> history[i].previous]]
    /\ UNCHANGED <<granted, offered>>

Accept(i, k) ==
    /\ k \in granted
    /\ \A j \in DOMAIN history : history[j].serverId # k
    /\ Decide(i, "ACCEPTED", k)

Offer ==
    /\ offered' \in BOOLEAN
    /\ offered' => Accepted # {}
    /\ UNCHANGED <<history, granted>>

Next ==
    \/ \E p \in DOMAIN history \cup {None} : Request(p)
    \/ \E k \in Keys : Grant(k)
    \/ \E i \in DOMAIN history : Decide(i, "FAILED", None) \/ \E k \in Keys : Accept(i, k)
    \/ Offer

Spec == Init /\ [][Next]_hvars
=============================================================================
