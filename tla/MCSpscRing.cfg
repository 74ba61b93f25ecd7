CONSTANTS
    Capacity = 2
    CounterMod = 4
    Values = {a, b}
    Torn = Torn
    MaxSent = 5
SPECIFICATION FairSpec
INVARIANTS
    NoSlotRace
    LenWithinCapacity
    UnreadIntact
    RingInv
PROPERTIES
    ImplementsFifo
    EveryMessageDelivered
