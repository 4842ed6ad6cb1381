SPECIFICATION FairSpec
CONSTANTS
    r1 = r1
    r2 = r2
    r3 = r3
    k1 = k1
    Requests = {r1, r2, r3}
    Keys = {k1}
    KeyOf <- OneKey
    Streaming = {TRUE, FALSE}
    InitialLimit = 2
    MinLimit = 1
    MaxLimit = 2
    Alpha = 1
    Beta = 0
    Faults = {"ttl", "redis", "upstream", "routing", "crash"}
    NoOne = NoOne
INVARIANTS TypeOK SlotsCounted OnlyTheseLeakSlots OwnersExclusive OnlyTheseLeakLocks
PROPERTIES EveryRequestEnds
CHECK_DEADLOCK FALSE
