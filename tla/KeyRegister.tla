----------------------------- MODULE KeyRegister -----------------------------
(***************************************************************************)
(* What the DKIM keys of the domains promise to whoever publishes them: a   *)
(* register that holds at most one key per domain, which is never replaced  *)
(* or lost and belongs to no other domain, and of which nothing but the key *)
(* is ever shown. Module CustomDomain implements it.                       *)
(***************************************************************************)
CONSTANTS Domain, Key, NoKey

VARIABLES
    key,   \* key[d]: the key of domain d, or NoKey
    shown  \* shown[d]: the keys that were shown for d

Init == key = [d \in Domain |-> NoKey] /\ shown = [d \in Domain |-> {}]

Create(d, k) ==
    /\ key[d] = NoKey /\ \A e \in Domain : key[e] # k
    /\ key' = [key EXCEPT ![d] = k]
    /\ UNCHANGED shown

Show(d) ==
    /\ key[d] # NoKey
    /\ shown' = [shown EXCEPT ![d] = @ \cup {key[d]}]
    /\ UNCHANGED key

Next == \E d \in Domain : Show(d) \/ \E k \in Key : Create(d, k)

Spec == Init /\ [][Next]_<<key, shown>>
=============================================================================
