---------------------------- MODULE MCCustomers -----------------------------
EXTENDS Customers, TLC

CONSTANTS x1, x2, c1, c2

MCCustomerIds == {x1, x2}
MCCustomerCalls == {c1, c2}
Symmetric == Permutations(MCCustomerIds) \union Permutations(MCCustomerCalls)
=============================================================================
