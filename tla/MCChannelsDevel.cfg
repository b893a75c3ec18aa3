SPECIFICATION Spec
CONSTANTS
    Pairs <- RevertedPairs
    FirstGeneration = 2
    MaxGeneration = 4
    StableSeals <- None
    TestingBuilds <- None
    MaxAttempts = 1
    MaxFailures = 0
    StaleReruns = FALSE
    LiveManifests <- LiveOnly
PROPERTIES
    DevelopmentAdvances
CHECK_DEADLOCK FALSE
