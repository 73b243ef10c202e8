CONSTANTS
    u1 = u1
    g1 = g1
    g2 = g2
    p1 = p1
    AllUsers <- MCUsers
    AllGroups <- MCGroups
    AllPrinters <- MCPrinters
    PriceLists <- MCPriceLists
    Settings <- MCSettings
    Documents = {4}
    Options <- MCOptions
    Amounts = {10}
    Recharges <- MCRecharges
    MaxHistory = 3
    MaxChanges = 1
SPECIFICATION ReportSpec
SYMMETRY MCSymmetry
CHECK_DEADLOCK FALSE
INVARIANTS
    NobodyOverpays
    FinanceExplainsBalances
    LogPagesAreOfWhole
    OwnFiguresAreHonest
