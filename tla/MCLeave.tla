------------------------------ MODULE MCLeave -------------------------------
EXTENDS Leave, TLC

CONSTANTS a1, a2, p1, p2, c1, c2

MCApplications == {a1, a2}
MCProposals == {p1, p2}
MCCalls == {c1, c2}
Symmetric == Permutations(MCApplications) \union Permutations(MCProposals)
                \union Permutations(MCCalls)
=============================================================================
