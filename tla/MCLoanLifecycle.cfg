SPECIFICATION FairSpec
CONSTANTS
  l1 = l1
  m1 = m1
  m2 = m2
  c1 = c1
  c2 = c2
  none = none
  Loans <- MCLoans
  Members <- MCMembers
  Asks <- MCAsks
  Calls <- MCCalls
  None <- none
  MaxFunds = 3
INVARIANTS
  TypeOK
  AllOrNothing
  ApprovedFirst
  OnlyClearedBorrowers
  ActiveIsDebited
PROPERTIES
  PassedIsDisbursed
CHECK_DEADLOCK FALSE
