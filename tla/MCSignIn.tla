----------------------------- MODULE MCSignIn -----------------------------
EXTENDS SignIn, TLC
Symmetry == Permutations(Codes) \cup Permutations(Requests)
=============================================================================
