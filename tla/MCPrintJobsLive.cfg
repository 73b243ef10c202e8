CONSTANTS
    u1 = u1
    f1 = f1
    p1 = p1
    c1 = c1
    c2 = c2
    NoCall = NoCall
    Users <- MCUsers
    Files <- MCFiles
    Printers <- MCPrinters
    Calls <- MCCalls
    Owner <- MCOwner
    InitBalance <- MCInitBalance
    CreditLimit <- MCCreditLimit
    Costs = {2}
    Transit = {"pending"}
    Error = {"aborted"}
    MaxTries = 1
    MaxFaults = 1
SPECIFICATION Spec
CHECK_DEADLOCK FALSE
PROPERTIES
    StatusFollowsCups
    FailedJobRefunded
