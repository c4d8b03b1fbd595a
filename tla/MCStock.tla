------------------------------ MODULE MCStock ------------------------------
EXTENDS Stock, TLC

\* Items, tags and requests are interchangeable.
Symmetric == Permutations(Items) \cup Permutations(Epcs) \cup Permutations(Requests)
=============================================================================
