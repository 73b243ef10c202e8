CONSTANTS
    u1 = u1
    r1 = r1
    c1 = c1
    c2 = c2
    c3 = c3
    NoRequest = NoRequest
    Users <- MCUsers
    Requests <- MCRequests
    Calls <- MCCalls
    Owner <- MCOwner
    Amount <- MCAmount
    Recharges <- MCRecharges
    Targets <- MCTargets
    InitBalance <- MCInitBalance
    CreditLimit <- MCCreditLimit
    MaxFaults = 1
SPECIFICATION Spec
CHECK_DEADLOCK FALSE
INVARIANTS
    CreditedAtMostOnce
