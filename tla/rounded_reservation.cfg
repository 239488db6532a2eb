SPECIFICATION Spec
CONSTANTS
    Scale = 10
    a1 = a1  a2 = a2  s1 = s1  k1 = k1  k2 = k2  o1 = o1  o2 = o2
    Accounts = {a1}
    Symbols = {s1}
    TickPrices = {}
    TickTimes = {}
    OrderIds = {o1, o2}
    RequestKeys = {k1, k2}
    Requests <- FineRequests
    Deposits = {6}
    EventIds = {e1, e2, e3}
    ExecIds = {x1, x2}
    FillQuantities = {1, 2, 3}
    FillPrices = {2, 9}
    SubmitFailures = {}
SYMMETRY Alike
CHECK_DEADLOCK FALSE
INVARIANTS
    OpenOrdersAreCovered
