SPECIFICATION LimiterFairSpec
CONSTANTS
    InitialLimit = 8
    MinLimit = 2
    MaxLimit = 12
    Alpha = 2
    Beta = 5
    WindowSize = 4
    MinSamples = 3
    Latencies = {0, 1, 3, 10}
INVARIANTS BaselineIsMinimal WithinBounds
PROPERTIES ImplementsControl CongestionSettlesAtBeta UncongestedReachesMax
