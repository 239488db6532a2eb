SPECIFICATION BookSpec
CONSTANTS
    Scale = 2
    Accounts = {a1, a2}
    Symbols = {s1}
    TickPrices = {90, 260}
    TickTimes = {1, 2}
    Quantities = {1, 2, 3}
    Prices = {100, 251}
    MaxExecutions = 4
SYMMETRY AlikeAccounts
CHECK_DEADLOCK FALSE
INVARIANTS
    NetIsSumOfExecutions
    ProfitIsCashFlow
    AverageIsBetweenPrices
    PositionsAreMarkedToMarket
PROPERTIES
    PricesMoveForward
