SPECIFICATION LeaveSpec
CONSTANTS
  a1 = a1
  a2 = a2
  p1 = p1
  p2 = p2
  c1 = c1
  c2 = c2
  None = None
  Applications <- MCApplications
  Proposals <- MCProposals
  LeaveCalls <- MCCalls
  MaxDays = 2
  MaxDate = 2
SYMMETRY Symmetric
INVARIANTS
  UsageIsCharged
  SalaryHistory
CHECK_DEADLOCK FALSE
