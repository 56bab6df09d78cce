--------------------------- MODULE KeyedOperation ---------------------------
(***************************************************************************)
(* What an Idempotency-Key promises: the first request that is applied     *)
(* decides the key's outcome for good, the operation has its effect once,  *)
(* and whoever asks for the same operation with that key is answered with  *)
(* that outcome, or refused.  Nothing is said of requests that are never   *)
(* answered.                                                               *)
(***************************************************************************)
EXTENDS Naturals

CONSTANTS
    Key,          \* idempotency keys, as stored
    Payload,      \* what can be asked
    Result,       \* what the operation can report
    Request,      \* the requests
    None          \* no question, no outcome or no answer yet

VARIABLES
    asked,        \* the key and payload of each request
    outcome,      \* the payload and result each key was decided with
    effects,      \* how often the operation of each key took effect
    answered      \* the outcome each request was answered with

kvars == <<asked, outcome, effects, answered>>

Init ==
    /\ asked = [r \in Request |-> None]
    /\ outcome = [k \in Key |-> None]
    /\ effects = [k \in Key |-> 0]
    /\ answered = [r \in Request |-> None]

Ask(r) ==
    /\ asked[r] = None
    /\ \E k \in Key, p \in Payload : asked' = [asked EXCEPT ![r] = [key |-> k, payload |-> p]]
    /\ UNCHANGED <<outcome, effects, answered>>

Apply(r) ==
    /\ asked[r] # None
    /\ answered[r] = None
    /\ outcome[asked[r].key] = None
    /\ \E x \in Result :
         outcome' = [outcome EXCEPT ![asked[r].key] = [payload |-> asked[r].payload, result |-> x]]
    /\ effects' = [effects EXCEPT ![asked[r].key] = @ + 1]
    /\ UNCHANGED <<asked, answered>>

Answer(r) ==
    /\ asked[r] # None
    /\ answered[r] = None
    /\ outcome[asked[r].key] # None
    /\ outcome[asked[r].key].payload = asked[r].payload
    /\ answered' = [answered EXCEPT ![r] = outcome[asked[r].key]]
    /\ UNCHANGED <<asked, outcome, effects>>

Next == \E r \in Request : Ask(r) \/ Apply(r) \/ Answer(r)

Spec == Init /\ [][Next]_kvars
=============================================================================
