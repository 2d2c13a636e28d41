SPECIFICATION Spec
CONSTANTS
    btc = btc
    eth = eth
    sol = sol
    bnb = bnb
    Lot = 2
    Symbols = {btc, eth}
    Signals <- OneSignal
    max_open_orders = 2
    kMaxConsecutiveRejects = 2
    kChanBuffer = 1
    AckMayTimeOut = FALSE
    MaxOrders = 6
    MaxUnderWay = 3
CHECK_DEADLOCK FALSE
INVARIANTS
    TypeOK
    ReleasedOnlyWhenTerminal
    FilledOrdersBooked
    QuiescentBookExact
    FilledFirstIsHedged
PROPERTIES
    NoPairAfterRejects
