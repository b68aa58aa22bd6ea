---------------------------- MODULE MCRepayments ----------------------------
EXTENDS Repayments, TLC

CONSTANTS r1, r2, c1, c2

MCRecords == {r1, r2}
MCCalls == {c1, c2}
Symmetric == Permutations(MCRecords) \union Permutations(MCCalls)

\* Bound: calls die on one record at most.
OneStalled == \A r, s \in stalled : r = s
=============================================================================
