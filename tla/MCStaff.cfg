SPECIFICATION Spec
CONSTANTS
    root = root
    root2 = root2
    m1 = m1
    m2 = m2
    Newcomer = n
    Calls = {c1, c2}
    Seeded <- MCSeeded
    Profile <- MCProfile
    Tracked <- MCTracked
    Offered <- MCOffered
    MaxEdits = 2
INVARIANT ElevatedBySponsor
INVARIANT MarketersInitiate
INVARIANT DutiesSeparated
SYMMETRY Symmetric
CHECK_DEADLOCK FALSE
