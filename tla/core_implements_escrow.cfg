SPECIFICATION Spec
CONSTANTS
    Scale = 1
    a1 = a1  a2 = a2  s1 = s1  k1 = k1  k2 = k2
    Accounts = {a1, a2}
    Symbols = {s1}
    TickPrices = {}
    TickTimes = {}
    OrderIds = {o1, o2}
    RequestKeys = {k1, k2}
    Requests <- EscrowRequests
    Deposits = {7}
    EventIds = {e1, e2, e3}
    ExecIds = {x1, x2}
    FillQuantities = {1, 2}
    FillPrices = {1, 3}
    SubmitFailures = {}
    Amounts <- SmallAmounts
SYMMETRY AlikeOrders
CHECK_DEADLOCK FALSE
PROPERTIES
    ImplementsEscrow
