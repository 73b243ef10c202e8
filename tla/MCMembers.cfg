CONSTANTS
    r1 = r1
    r2 = r2
    r3 = r3
    None = None
    Requests <- MCRequests
    Names <- MCNames
    Fold <- MCFold
    People <- MCPeople
    Servers = {"s1", "s2"}
    Mails = {"m1", "m2"}
SPECIFICATION Spec
SYMMETRY MCSymmetry
CHECK_DEADLOCK FALSE
INVARIANTS
    ImportsKeepPeopleApart
    CheckedWhereConfigured
