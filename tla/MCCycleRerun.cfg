SPECIFICATION Spec
CONSTANTS
    Pairs = {p1, p2}
    Revisions = {r1, r2}
    MaxRuns = 2
    MaxAttempts = 1
    MaxFailures = 1
    StaleReruns = TRUE
SYMMETRY Symmetry
INVARIANTS
    PublishedMeansDevicesHaveIt
CHECK_DEADLOCK FALSE
