------------------------------ MODULE MCOrders ------------------------------
EXTENDS Orders, TLC
Symmetry == Permutations(Requests)
\* One and two paise, and an amount that is less than half a paisa; and whole
\* paise alone.
SomeAmounts == {2, 5, 10}
WholeAmounts == {5, 10}
=============================================================================
