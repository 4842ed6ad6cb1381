SPECIFICATION Spec
CONSTANTS
    r1 = r1
    r2 = r2
    r3 = r3
    k1 = k1
    Requests = {r1, r2}
    Keys = {k1}
    KeyOf <- OneKey
    Streaming = {FALSE}
    InitialLimit = 2
    MinLimit = 1
    MaxLimit = 2
    Alpha = 1
    Beta = 0
    Faults = {}
    NoOne = NoOne
INVARIANTS FinishedHoldNoSlot
CHECK_DEADLOCK FALSE
