----------------------------- MODULE MCSessions -----------------------------
EXTENDS Sessions, TLC
Symmetry == Permutations(Tokens) \cup Permutations(Requests)
=============================================================================
