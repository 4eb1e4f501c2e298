---------------------------- MODULE MCCustomers ----------------------------
EXTENDS Customers, TLC
Symmetry == Permutations(Customers) \cup Permutations(Orders)
              \cup Permutations(Phones) \cup Permutations(Requests)
=============================================================================
