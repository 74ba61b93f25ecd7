SPECIFICATION Spec
CONSTANTS
    HeaderSize = 5
    CacheLine = 4
    SlotsOffset = 3
    CounterMod = 4
    U32Max = 30
    UsizeMax = 40
    SlotCounts = {0, 1, 2, 3}
    MaxPayloads = {0, 2, 3, 7, 33, 40}
    Messages <- SomeMessages
    MaxWrites = 5
INVARIANT
    SlotInv
PROPERTY
    SinkAsPromised
