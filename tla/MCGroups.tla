------------------------------ MODULE MCGroups ------------------------------
EXTENDS Groups, TLC

CONSTANTS x1, x2, x3, c1, c2

MCCustomerIds == {x1, x2, x3}
MCCalls == {c1, c2}
Symmetric == Permutations(MCCustomerIds) \union Permutations(MCCalls)
=============================================================================
