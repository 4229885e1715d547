---------------------------- MODULE PolicyStore ----------------------------
(***************************************************************************)
(* The PolicyStore of the engine: a map of policies by id, and the order   *)
(* in which they were added, which List follows.  Each operation holds the *)
(* lock of the store.                                                      *)
(***************************************************************************)
EXTENDS Integers, Sequences, SequencesExt

CONSTANTS Policies,  \* the ids of policies
          MaxAdds    \* bound on the policies added

PolicyStoreConstants == MaxAdds \in Nat

VARIABLES order,     \* the ids in the order of their additions
          policies,  \* the keys of the map
          adds,      \* how many policies were added (history)
          since      \* since[p]: the number of the addition of p (history)

vars == <<order, policies, adds, since>>

Init ==
    /\ order = <<>> /\ policies = {}
    /\ adds = 0 /\ since = [p \in Policies |-> 0]

(* Add refuses an id that is there ...                                     *)
AddPolicy(p) ==
    /\ p \notin policies
    /\ adds < MaxAdds
    /\ policies' = policies \cup {p}
    /\ order' = Append(order, p)
    /\ adds' = adds + 1
    /\ since' = [since EXCEPT ![p] = adds + 1]

\* Mutant: the order keeps the ids of removed policies.
RemovePolicyLazy(p) ==
    /\ p \in policies
    /\ policies' = policies \ {p}
    /\ UNCHANGED <<order, adds, since>>

(* ... and Remove one that is not, and takes the first entry out.          *)
RemovePolicy(p) ==
    /\ p \in policies
    /\ policies' = policies \ {p}
    /\ LET first == CHOOSE i \in DOMAIN order : order[i] = p /\ \A j \in 1 .. i - 1 : order[j] # p
       IN  order' = RemoveAt(order, first)
    /\ UNCHANGED <<adds, since>>

(* What List goes over: the entries of the order that are in the map.      *)
List == {i \in DOMAIN order : order[i] \in policies}

Next == \E p \in Policies : AddPolicy(p) \/ RemovePolicy(p)

Spec == Init /\ [][Next]_vars

-----------------------------------------------------------------------------
TypeOK == policies \subseteq Policies /\ adds \in 0 .. MaxAdds /\ Len(order) <= adds

(* However policies come, go and come again, List returns each policy of   *)
(* the map, once, and the one that was added earlier first.                *)
StoreConsistent ==
    /\ {order[i] : i \in List} = policies
    /\ List = DOMAIN order
    /\ \A i, j \in List : i < j => since[order[i]] < since[order[j]]
=============================================================================
