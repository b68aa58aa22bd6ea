SPECIFICATION Spec
CONSTANTS
  r1 = r1
  r2 = r2
  c1 = c1
  c2 = c2
  None = None
  Records <- MCRecords
  Calls <- MCCalls
  Periods = {p1}
  Amounts = {2}
  Opening = 2
  Penalty = 1
SYMMETRY Symmetric
CONSTRAINT OneStalled
INVARIANTS
  RestingApprovedIsApplied
  DebtNeverInflated
PROPERTIES
  ImplementsDebt
CHECK_DEADLOCK FALSE
