---------------------------- MODULE MailTransfer ----------------------------
(***************************************************************************)
(* What the inbound path promises for each copy of a message, that is for   *)
(* each pair of a transaction and an account: it is accepted once, carried, *)
(* put into the mailbox once or lost, and a copy that has gone stays gone.  *)
(* Module Inbound implements it, with a copy being carried while the        *)
(* session holds it, in the buffer, and in the hand of a draining request. *)
(***************************************************************************)
CONSTANTS Txn, Account

Copy == Txn \X Account

VARIABLE where  \* where[c]: "new", "carried", "stored" or "gone"

Init == where = [c \in Copy |-> "new"]

\* A copy is taken over, or dropped at once.
Accept(c) ==
    /\ where[c] = "new"
    /\ where' \in {[where EXCEPT ![c] = "carried"], [where EXCEPT ![c] = "gone"]}

\* A copy is put into the mailbox; it may replace some that are there.
Store(c) ==
    /\ where[c] = "carried"
    /\ \E replaced \in SUBSET {d \in Copy : d[2] = c[2] /\ where[d] = "stored"} :
         where' = [d \in Copy |-> IF d = c THEN "stored"
                                  ELSE IF d \in replaced THEN "gone" ELSE where[d]]

\* Copies are lost on the way, or with the mailbox.
Lose ==
    \E S \in SUBSET {c \in Copy : where[c] \in {"carried", "stored"}} :
        where' = [c \in Copy |-> IF c \in S THEN "gone" ELSE where[c]]

Next == Lose \/ \E c \in Copy : Accept(c) \/ Store(c)

Spec == Init /\ [][Next]_where
=============================================================================
