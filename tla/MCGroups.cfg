SPECIFICATION Spec
CONSTANTS
  x1 = x1
  x2 = x2
  x3 = x3
  c1 = c1
  c2 = c2
  None = None
  Customers <- MCCustomerIds
  Calls <- MCCalls
  Founders = 2
  MaxRequests = 2
  MaxVersions = 2
SYMMETRY Symmetric
INVARIANTS
  OneMembershipEach
  MembersWereApproved
  MembersLeaveByDecision
CHECK_DEADLOCK FALSE
