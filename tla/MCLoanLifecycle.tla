-------------------------- MODULE MCLoanLifecycle ---------------------------
EXTENDS LoanLifecycle, TLC

CONSTANTS l1, m1, m2, c1, c2, none

MCLoans == {l1}
MCMembers == {m1, m2}
MCCalls == {c1, c2}

\* A loan of one or of both members, and bodies that raise or edit an amount.
MCAsks == {m1 :> 1 @@ m2 :> 1, m1 :> 1 @@ m2 :> 0, m1 :> 2 @@ m2 :> 0}
=============================================================================
