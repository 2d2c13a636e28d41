SPECIFICATION Spec
CONSTANTS
    btc = btc
    eth = eth
    sol = sol
    bnb = bnb
    Lot = 2
    Symbols = {btc, eth}
    Signals <- OneSignal
    max_open_orders = 2
    kMaxConsecutiveRejects = 2
    kChanBuffer = 16
    AckMayTimeOut = FALSE
    MaxOrders = 3
    MaxUnderWay = 3
CHECK_DEADLOCK FALSE
INVARIANTS
    NoNakedLeg
