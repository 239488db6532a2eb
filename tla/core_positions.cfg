SPECIFICATION Spec
CONSTANTS
    Scale = 1
    a1 = a1  a2 = a2  s1 = s1  k1 = k1  k2 = k2  o1 = o1  o2 = o2
    Accounts = {a1, a2}
    Symbols = {s1}
    TickPrices = {36}
    TickTimes = {1}
    OrderIds = {o1, o2}
    RequestKeys = {k1, k2}
    Requests <- ReversingRequests
    Deposits = {72}
    EventIds = {e1, e2, e3}
    ExecIds = {x1, x2, x3}
    FillQuantities = {1, 2}
    FillPrices = {12}
    SubmitFailures = {}
SYMMETRY Alike
CHECK_DEADLOCK FALSE
INVARIANTS
    FilledQuantityIsSumOfFills
    PositionsAreSumsOfFills
    PositionsAreMarkedToMarket
    CashIsDepositAndFills
