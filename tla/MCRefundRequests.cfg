CONSTANTS
    u1 = u1
    j1 = j1
    c1 = c1
    c2 = c2
    c3 = c3
    c4 = c4
    NoCall = NoCall
    Users <- MCUsers
    Jobs <- MCJobs
    Calls <- MCCalls
    Owner <- MCOwner
    Cost <- MCCost
    InitBalance <- MCInitBalance
    CreditLimit <- MCCreditLimit
    MaxFaults = 2
SPECIFICATION Spec
CHECK_DEADLOCK FALSE
INVARIANTS
    RefundedOnceInTurn
    ApprovedIsCredited
    LedgerExplainsBalance
PROPERTIES
    VerdictStands
SYMMETRY MCSymmetry
