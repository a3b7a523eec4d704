---- MODULE MCCustomDomain ----
EXTENDS CustomDomain, TLC
CONSTANTS own, cfgd, p1, p2, k1, k2, k3, k4, main

\* Requests and keys are interchangeable.
Symmetry == Permutations(Proc) \cup Permutations(Key)
====
