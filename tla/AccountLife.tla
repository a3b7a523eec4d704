----------------------------- MODULE AccountLife -----------------------------
(***************************************************************************)
(* What the relay promises about a name when the operations on it do not    *)
(* overlap: it belongs to at most one owner at a time and goes through one  *)
(* cycle, which only the loss of its whole domain cuts short. Module        *)
(* Accounts implements it, with the owner being the credential on disk.     *)
(***************************************************************************)
CONSTANTS
    Name, Cred, NoCred,
    Custom \* the sets of names that are lost together, with their domain

VARIABLES
    phase, \* phase[n]: "free", "recorded", "held" or "leftover"
    holder \* holder[n]: who has recorded n, NoCred if it is free

Init == /\ phase = [n \in Name |-> "free"]
        /\ holder = [n \in Name |-> NoCred]

\* A free name is recorded for an owner, before the owner is told.
Record(n, c) ==
    /\ phase[n] = "free"
    /\ phase'  = [phase EXCEPT ![n] = "recorded"]
    /\ holder' = [holder EXCEPT ![n] = c]

\* The owner is told, once; nobody else ever is.
Acknowledge(n) ==
    /\ phase[n] = "recorded"
    /\ phase' = [phase EXCEPT ![n] = "held"]
    /\ UNCHANGED holder

\* A crash: the owners that have not been told will not be.
Abandon ==
    /\ phase' = [n \in Name |-> IF phase[n] = "recorded" THEN "leftover" ELSE phase[n]]
    /\ UNCHANGED holder

\* The removal of a name that is held begins.
Withdraw(n) ==
    /\ phase[n] = "held"
    /\ phase' = [phase EXCEPT ![n] = "leftover"]
    /\ UNCHANGED holder

\* Only what nobody holds, or is about to hold, is erased.
Erase(n) ==
    /\ phase[n] = "leftover"
    /\ phase'  = [phase EXCEPT ![n] = "free"]
    /\ holder' = [holder EXCEPT ![n] = NoCred]

\* Whole domains are lost, while nobody is about to hold a name.
Lose(S) ==
    /\ \A n \in S : phase[n] # "recorded"
    /\ phase'  = [n \in Name |-> IF n \in S THEN "free" ELSE phase[n]]
    /\ holder' = [n \in Name |-> IF n \in S THEN NoCred ELSE holder[n]]

Next ==
    \/ Abandon \/ \E D \in SUBSET Custom : Lose(UNION D)
    \/ \E n \in Name : \/ Acknowledge(n) \/ Withdraw(n) \/ Erase(n)
                       \/ \E c \in Cred : Record(n, c)

Spec == Init /\ [][Next]_<<phase, holder>>
=============================================================================
