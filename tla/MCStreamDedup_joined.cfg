SPECIFICATION FairSpec
CONSTANTS
    Streams = {1, 2}
    Consumers = {c1}
    Length = 3
    Faults = {"error", "die"}
INVARIANTS ReplayIsExact InOrder
PROPERTIES ConsumersEnd
CHECK_DEADLOCK FALSE
