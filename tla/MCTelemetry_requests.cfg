SPECIFICATION Spec
CONSTANTS
    Requests = {r1, r2, r3}
    Limit = 1
    Latencies = {1, 2, 3}
    WindowSize = 2
    MinSamples = 2
    Scale = 125
    MaxTick = 2
    RedisFails = TRUE
SYMMETRY RequestSymmetry
INVARIANTS LimitIsExact WindowIsRecent DriftBounded
CHECK_DEADLOCK FALSE
