SPECIFICATION Spec
CONSTANTS
  q1 = q1
  r1 = r1
  r2 = r2
  c1 = c1
  c2 = c2
  p1 = p1
  None = None
  Requests <- MCRequests
  Repayments <- MCRepayments
  Periods <- MCPeriods
  Calls <- MCCalls
  Amounts <- MCAmounts
  Opening = 1
  Fee = 1
  Delay = 1
  Penalty = 1
CONSTRAINT PenaltyMeetsOne
SYMMETRY Symmetric
INVARIANTS
  CompletedWasPaid
PROPERTIES
  ImplementsDebt
  PostedOnce
CHECK_DEADLOCK FALSE
