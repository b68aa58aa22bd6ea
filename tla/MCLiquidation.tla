--------------------------- MODULE MCLiquidation ----------------------------
EXTENDS Liquidation, TLC

CONSTANTS q1, r1, r2, c1, c2, p1

MCRequests == {q1}
MCRepayments == {r1, r2}
MCCalls == {c1, c2}
MCPeriods == {p1}
MCAmounts == {1, 2}

\* Bound: a penalty meets one repayment, with the request and its delay charge.
\* (Penalties and several repayments without a request are the run of Repayments.)
PenaltyMeetsOne ==
    charged = {} \/ Cardinality({r \in MCRepayments : repayments[r] # NoRepayment}) <= 1

Symmetric == Permutations(MCRepayments) \union Permutations(MCCalls)
=============================================================================
