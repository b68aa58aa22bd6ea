CONSTANTS
    maker = maker
    admin = admin
    reviewer = reviewer
    review = review
    approve = approve
    call1 = call1
    call2 = call2
    NoOne = NoOne
    Staff <- MCStaff
    Capability <- MCCapability
    Holds <- MCHolds
    Shapes <- MCShapes
    Calls <- MCCalls
    MaxVersion = 2
SYMMETRY CallSymmetry
SPECIFICATION Spec
INVARIANT TypeOK
INVARIANT StepsFollowStatus
INVARIANT ActorsEntitled
INVARIANT OutcomeEventsAgree
PROPERTY DecisionIsFinal
PROPERTY PayloadStableUnderApproval
PROPERTY ImplementsApproval
CHECK_DEADLOCK FALSE
