SPECIFICATION CustomerSpec
CONSTANTS
  x1 = x1
  x2 = x2
  c1 = c1
  c2 = c2
  NoCustomerId = NoCustomerId
  Customers <- MCCustomerIds
  CustomerCalls <- MCCustomerCalls
  MaxRequests = 2
SYMMETRY Symmetric
INVARIANTS
  ActiveWasVetted
  VerifiedIsEarned
  OneRecordPerPerson
CHECK_DEADLOCK FALSE
