---- MODULE MCAccounts ----
EXTENDS Accounts, TLC
CONSTANTS alice, al, bob, peersdir, r1, r2, c1, c2, d1, d2

RouteAlice == al :> alice
BobsDomain == {{bob}}
NoRoute == [a \in {} |-> alice]

\* Requests and owners are interchangeable; so are DIDs.
Symmetry == Permutations(Req) \cup Permutations(Cred) \cup Permutations(DID)
====
