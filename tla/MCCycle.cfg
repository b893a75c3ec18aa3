SPECIFICATION Spec
CONSTANTS
    Pairs = {p1, p2}
    Revisions = {r1, r2}
    MaxRuns = 3
    MaxAttempts = 2
    MaxFailures = 1
    StaleReruns = TRUE
SYMMETRY Symmetry
INVARIANTS
    PublishedUnlessRerun
    NoMarkLost
PROPERTIES
    FrozenUntilComplete
    CycleNeverBackwards
CHECK_DEADLOCK FALSE
