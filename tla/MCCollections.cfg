CONSTANTS
    a1 = a1
    a2 = a2
    u1 = u1
    r1 = r1
    r2 = r2
    e1 = e1
    s1 = s1
    s2 = s2
    s3 = s3
    None = None
    Users <- MCUsers
    Admins <- MCAdmins
    Recharges <- MCRecharges
    Expenses <- MCExpenses
    Sweeps <- MCSweeps
    Amount <- MCAmount
    Holder <- MCHolder
    Recorder <- MCRecorder
    Customer <- MCCustomer
    MaxFaults = 2
SPECIFICATION Spec
CHECK_DEADLOCK FALSE
INVARIANTS
    SettledWasCounted
    CashAccountedFor
PROPERTIES
    CountedIsSettled
