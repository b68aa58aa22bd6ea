----------------------------- MODULE MCBranches -----------------------------
EXTENDS Branches, TLC

CONSTANTS m1, m2, a1, a2, f1, f2, c1, c2

MCStaff == {m1, m2}
MCAccounts == {a1, a2}
MCFundings == {f1, f2}
MCCalls == {c1, c2}

\* Bound: four records in all, of the bank accounts, fundings and assignments, so
\* that two kinds meet in full, or all three, but never six records at once.
FewRecords == Cardinality(Known) + Cardinality(Fundings \ Unused) + inserted <= 4

Symmetric == Permutations(MCStaff) \union Permutations(MCAccounts) \union
             Permutations(MCFundings) \union Permutations(MCCalls)
=============================================================================
