SPECIFICATION MCSpec
CONSTANTS
    Machines = {"layers", "reuse", "farm", "identity", "downloads", "train"}
    Ports <- TreePorts
    KnownNames <- PackageNames
    Configured <- PortsTrees
    Always = {"pkg"}
    Required = {"pkg"}
    MaxDelta = 2
    MinMirror = 2
    MaxChurn = 1
    PackageSet <- Repository
    Deps <- Dependencies
    CorePackages = {"kernel"}
    Modules = {"driver"}
    Stamped = {"gui"}
    Versions = {0, 1}
    Policies <- FarmPolicies
    MaxAttempts <- AttemptsOf
    Bundles <- ReleaseBundles
    MaxJobs = 4
    Repositories = {"freesense-packages"}
    PackagesRepository = "freesense-packages"
    Soak = 1
    MaxPatch = 1
    MaxMain = 3
    MaxCommits = 2
    MaxTime = 1
    MaxTestings = 1
    MaxEvents = 3
INVARIANTS
    LayersAreExact
    SeedIsSound
    NothingIsLost
    NothingRebuiltForARelease
    ShardsAreBalanced
    CheckpointsAreCumulative
    CollectionIsComplete
    ReuseIsExact
    ImagesAreOneBase
    DownloadsHoldTheRelease
    TagsNameWhatIsLive
    SealsAreCandidates
PROPERTIES
    RepositoryIsFresh
    ReleasesOnlyAdvance
    SoakBetweenSeals
    MainIsAppendOnly
CHECK_DEADLOCK FALSE
