CONSTANTS
    u1 = u1
    x1 = x1
    x2 = x2
    i1 = i1
    i2 = i2
    p1 = p1
    p2 = p2
    c1 = c1
    c2 = c2
    NoItem = NoItem
    Users <- MCUsers
    Purchases <- MCPurchases
    Products <- MCProducts
    Items <- MCItems
    Resolvers <- MCResolvers
    Buyer <- MCBuyer
    Product <- MCProduct
    Quantity <- MCQuantity
    Total <- MCTotal
    ItemOf <- MCItemOf
    Deltas <- MCDeltas
    InitBalance <- MCInitBalance
    InitStock <- MCInitStock
    CreditLimit <- MCCreditLimit
    MaxMoves = 1
    MaxFaults = 2
    MaxChanges = 2
SPECIFICATION Spec
CHECK_DEADLOCK FALSE
INVARIANTS
    SettledOnceInTurn
    RejectedIsRefunded
    StockMatchesSales
    LedgerExplainsBalance
SYMMETRY MCSymmetry
