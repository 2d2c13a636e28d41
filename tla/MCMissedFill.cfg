SPECIFICATION Spec
CONSTANTS
    Symbols = {btc}
    LimitIds = {c1}
    MarketIds = {c2}
    Lot = 2
    Prices = {2, 4}
    MaxOrders = 1
    MaxMessages = 3
    MaxLosses = 1
    MaxGaps = 1
CHECK_DEADLOCK FALSE
INVARIANTS
    NoFillMissed
