------------------------------- MODULE MCMenu -------------------------------
EXTENDS Menu, TLC
CONSTANTS b1, b2
RoomFor == (b1 :> 2) @@ (b2 :> 0)
Symmetry == Permutations(Requests)
=============================================================================
