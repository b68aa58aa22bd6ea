SPECIFICATION CatalogueSpec
CONSTANTS
  r1 = r1
  r2 = r2
  r3 = r3
  c1 = c1
  c2 = c2
  NoRequestId = NoRequestId
  Requests <- MCRequests
  CatalogueCalls <- MCCalls
  Shapes <- MCShapes
  AllTerms <- MCTerms
  TermsOf <- MCTermsOf
  Principals <- MCPrincipals
  Unit = 4
SYMMETRY Symmetric
INVARIANTS
  RecurringHasInterval
  SchedulesAddUp
  InStepUnlessDisturbed
CHECK_DEADLOCK FALSE
