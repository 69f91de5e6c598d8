SPECIFICATION FairSpec
CONSTANTS
    Requesters = {p1, p2}
    Items = {i1, i2}
    Again = {i1}
    MaxExpiries = 1
    MaxInterrupts = 1
    MaxFaults = 1
INVARIANTS
    TypeOK
    SessionKept
PROPERTIES
    OutboxKept
    EveryItemAnswered
CHECK_DEADLOCK FALSE
