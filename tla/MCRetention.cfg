SPECIFICATION Spec
CONSTANTS
    Groups <- MCGroups
    About <- MCAbout
    StableTrain = "1.1"
    DevelopmentTrain = "1.2"
    KeepDevelopment = 1
    KeepMirrors = 1
    KeepSmoke = 1
    OrphanGrace = 1
    CompletedGrace = 0
    MinimumInterval = 1
    MaxObjects = 4
    Releases <- Forward
    Contents <- MCContents
    Pins = {13}
    BatchSize = 2
    FirstReleases <- MCFirst
    FirstObjects <- MCFirstObjects
    FirstBuilt <- MCFirstBuilt
    Locks <- MCLocks
    MaxRuns = 2
    MaxTime = 2
INVARIANTS LiveIsWhole RunsKeepTheirArtifacts
PROPERTIES StableIsPermanent NothingGoesUnannounced
CHECK_DEADLOCK FALSE
