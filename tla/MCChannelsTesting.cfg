SPECIFICATION Spec
CONSTANTS
    Pairs <- RevertedPairs
    FirstGeneration = 2
    MaxGeneration = 3
    StableSeals <- OneSeal
    TestingBuilds <- Nightlies
    MaxAttempts = 2
    MaxFailures = 0
    StaleReruns = FALSE
    LiveManifests <- AnyManifest
INVARIANTS
    ManifestsAgree
    AtMostOneDefault
PROPERTIES
    TestingOnlyAdvances
    QualifiedDevelAdvances
CHECK_DEADLOCK FALSE
