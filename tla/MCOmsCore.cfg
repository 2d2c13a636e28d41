SPECIFICATION Spec
CONSTANTS
    Symbols = {btc}
    Keys = {k1, k2, k3}
    Tickets <- MCTickets
    Reports <- MCReports
    MaxSlots = 3
    MaxCommission = 2
SYMMETRY MCSymmetry
INVARIANTS
    FreeSlotsUnused
    SlotsAccountedFor
PROPERTIES
    FilledNeverShrinks
    ImplementsOrderMap
