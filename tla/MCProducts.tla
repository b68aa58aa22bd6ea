----------------------------- MODULE MCProducts -----------------------------
EXTENDS Products, TLC

CONSTANTS r1, r2, r3, c1, c2

MCRequests == {r1, r2, r3}
MCCalls == {c1, c2}
MCShapes == {"one step", "two steps"}
MCPrincipals == 0..40 \union {99, 100, 101, 150, 151}
MCTermsOf ==
    [flat3 |-> [type |-> "FLAT", rate |-> 1, tenure |-> 28, period |-> 10],
     flat4 |-> [type |-> "FLAT", rate |-> 3, tenure |-> 28, period |-> 7],
     free1 |-> [type |-> "REDUCING", rate |-> 0, tenure |-> 14, period |-> 30],
     steep2 |-> [type |-> "REDUCING", rate |-> 10, tenure |-> 28, period |-> 14],
     reducing3 |-> [type |-> "REDUCING", rate |-> 1, tenure |-> 28, period |-> 10],
     reducing4 |-> [type |-> "REDUCING", rate |-> 3, tenure |-> 28, period |-> 7]]
MCTerms == DOMAIN MCTermsOf
Symmetric == Permutations(MCRequests) \union Permutations(MCCalls)
=============================================================================
