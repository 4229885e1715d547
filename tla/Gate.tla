-------------------------------- MODULE Gate --------------------------------
(***************************************************************************)
(* What the data plane promises, without processes or connections: every   *)
(* request is either passed to the upstream or denied, once and for all; a *)
(* judgement is made at most once and never revised; and unless its        *)
(* location opted out of inspection or opted for failing open, a request   *)
(* passes only after it was judged allowable.                              *)
(***************************************************************************)
CONSTANT Requests

VARIABLES
    lenient,  \* requests of locations that are exempt or fail open; fixed
    judged,   \* judged[r]: the judgement about r, if any
    outcome   \* outcome[r]: what the client got

vars == <<lenient, judged, outcome>>

Init ==
    /\ lenient \in SUBSET Requests
    /\ judged = [r \in Requests |-> "none"]
    /\ outcome = [r \in Requests |-> "pending"]

(* A judgement may come after the outcome: nobody waits for it then.       *)
Judge(r) ==
    /\ judged[r] = "none"
    /\ \E v \in {"allow", "block", "reject"} : judged' = [judged EXCEPT ![r] = v]
    /\ UNCHANGED <<lenient, outcome>>

Pass(r) ==
    /\ outcome[r] = "pending"
    /\ r \in lenient \/ judged[r] = "allow"
    /\ outcome' = [outcome EXCEPT ![r] = "passed"]
    /\ UNCHANGED <<lenient, judged>>

Deny(r) ==
    /\ outcome[r] = "pending"
    /\ outcome' = [outcome EXCEPT ![r] = "denied"]
    /\ UNCHANGED <<lenient, judged>>

Next == \E r \in Requests : Judge(r) \/ Pass(r) \/ Deny(r)

Spec == Init /\ [][Next]_vars
=============================================================================
