SPECIFICATION Spec
CONSTANTS
    btc = btc
    eth = eth
    sol = sol
    bnb = bnb
    Lot = 1
    Symbols = {btc, eth, sol, bnb}
    Signals <- Crossing
    max_open_orders = 2
    kMaxConsecutiveRejects = 2
    kChanBuffer = 16
    AckMayTimeOut = TRUE
    MaxOrders = 5
    MaxUnderWay = 1
CHECK_DEADLOCK FALSE
INVARIANTS
    EveryOrderOwned
    OnePairPerSymbol
    AtMostOneOverLimit
