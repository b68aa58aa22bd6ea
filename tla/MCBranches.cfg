SPECIFICATION Spec
CONSTANTS
  m1 = m1
  m2 = m2
  a1 = a1
  a2 = a2
  f1 = f1
  f2 = f2
  c1 = c1
  c2 = c2
  None = None
  Staff <- MCStaff
  Accounts <- MCAccounts
  Fundings <- MCFundings
  Calls <- MCCalls
  Amounts = {1}
  MaxProposals = 2
  MaxAssignments = 2
CONSTRAINT FewRecords
SYMMETRY Symmetric
INVARIANTS
  CreditedOnce
  ManagerIsReplaced
PROPERTIES
  DecisionStands
CHECK_DEADLOCK FALSE
