SPECIFICATION RuntimeSpec
CONSTANTS
    Scale = 10
    a1 = a1  a2 = a2  s1 = s1  k1 = k1  k2 = k2
    Accounts = {a1, a2}
    Symbols = {s1}
    TickPrices = {}
    TickTimes = {}
    OrderIds = {o1, o2}
    RequestKeys = {k1, k2}
    Requests <- RuntimeRequests
    Deposits = {4}
    EventIds <- EventNames
    ExecIds <- EventNames
    FillQuantities = {1, 2}
    FillPrices = {2, 10}
    SubmitFailures = {}
    ScanLimit = 1
    MaxFaults = 1
INVARIANTS
    OrphansHaveACause
    IgnoredEventsHaveACause
PROPERTIES
    OrdersEnd
