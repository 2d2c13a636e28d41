SPECIFICATION FairSpec
CONSTANTS
    Items = {u1, u2, u3}
    NoItem = NoItem
    Capacity = 4
INVARIANTS
    NoSlotRace
PROPERTIES
    ImplementsFifo
    PushCompletes
