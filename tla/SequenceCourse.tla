--------------------------- MODULE SequenceCourse ---------------------------
(***************************************************************************)
(* What a sequence promises of the emails its contacts receive.  Each      *)
(* contact receives a step only once it has received all earlier ones of   *)
(* the course, and is through the sequence only with the whole course      *)
(* received, however requests interleave.  A contact that is stopped stays *)
(* so and receives nothing more, unless it is a loose one: two requests    *)
(* worked on it at once, or somebody asked that an email of its be sent    *)
(* which no longer waited to be, having been sent, failed or cancelled.    *)
(***************************************************************************)
EXTENDS Naturals

CONSTANTS
    Contacts,     \* those who may be enrolled
    Steps,        \* the positions of the sequence's steps
    Course        \* those of them that a contact goes through

VARIABLES
    received,     \* the steps each contact received an email of
    stopped,      \* contacts whose participation ended
    through,      \* those it ended for because they went through every step
    loose         \* contacts about which requests overlapped, or one of whose
                  \* emails was to be sent though it no longer waited

cvars == <<received, stopped, through, loose>>

Init ==
    /\ received = [c \in Contacts |-> {}]
    /\ stopped = {}
    /\ through = {}
    /\ loose = {}

Receive(c, k) ==
    /\ k \notin received[c]
    /\ {j \in Course : j < k} \subseteq received[c]
    /\ c \in stopped => c \in loose
    /\ received' = [received EXCEPT ![c] = @ \cup {k}]
    /\ UNCHANGED <<stopped, through, loose>>

\* One request may move several contacts, and may make some of them loose.
Move ==
    /\ loose \subseteq loose'
    /\ stopped \subseteq stopped' \cup loose'
    /\ through' \subseteq stopped'
    /\ \A c \in through' : Course \subseteq received[c]
    /\ UNCHANGED received

Next == Move \/ \E c \in Contacts, k \in Steps : Receive(c, k)

Spec == Init /\ [][Next]_cvars
=============================================================================
