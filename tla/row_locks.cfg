SPECIFICATION LocksSpec
CONSTANTS
    Scale = 1
    a1 = a1  a2 = a2  s1 = s1  k1 = k1  k2 = k2  o1 = o1  o2 = o2  o3 = o3
    e1 = e1  e2 = e2  e3 = e3  e4 = e4  e5 = e5
    Accounts = {a1, a2}
    Symbols = {s1}
    TickPrices = {1, 8}
    TickTimes = {1, 2}
    OrderIds = {o1, o2, o3}
    RequestKeys = {k1, k2}
    Requests <- LockRequests
    Deposits = {6}
    EventIds = {e1, e2, e3, e4, e5}
    ExecIds = {e1, e2, e4, e5}
    FillQuantities = {1, 2}
    FillPrices = {2, 9}
    SubmitFailures = {"lost_reply"}
    Calls <- LockCalls
    Asks <- LockAsks
    After <- LockAfter
    Scenarios <- LockScenarios
CHECK_DEADLOCK FALSE
INVARIANTS
    LookupsStayTrue
    PositionsAreMarkedToMarket
PROPERTIES
    TransactionsAreSerial
    EveryCallEnds
