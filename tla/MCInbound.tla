---- MODULE MCInbound ----
EXTENDS Inbound, TLC
CONSTANTS alice, bob, sales, t1, t2, h1, h2

\* sales@second.example is an alias of alice@example; bob@second.example is a
\* dynamic account.
RouteAlice == sales :> alice
TwoDomains == alice :> "example" @@ bob :> "second" @@ sales :> "second"

OneId == [t \in Txn |-> "id"]
OwnId == [t \in Txn |-> t]
Mixed == [t \in Txn |-> IF t = t1 THEN "plain" ELSE "e2e"]

Symmetry == Permutations(Handler)
====
