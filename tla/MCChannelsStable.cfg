SPECIFICATION Spec
CONSTANTS
    Pairs <- RevertedPairs
    FirstGeneration = 1
    MaxGeneration = 2
    StableSeals <- TwoSeals
    TestingBuilds <- None
    MaxAttempts = 1
    MaxFailures = 1
    StaleReruns = TRUE
    LiveManifests <- LiveOnly
INVARIANTS
    SealedStaysSealed
    AliasesFollowCommit
PROPERTIES
    StableOnlyAdvances
CHECK_DEADLOCK FALSE
