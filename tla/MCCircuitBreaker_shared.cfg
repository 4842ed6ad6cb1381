SPECIFICATION FairSpec
CONSTANTS
    Workers = {w1, w2}
    FailureThreshold = 3
    SuccessThreshold = 3
    RecoveryTimeout = 3
    Chaos = TRUE
    MaxErrors = 1
INVARIANTS TypeOK NothingLost
PROPERTIES HealsWhenHealthy TripsWhenFailing UncrossedMeetsContract
