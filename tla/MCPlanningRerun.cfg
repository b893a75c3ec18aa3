SPECIFICATION MCSpec
CONSTANTS
    Machines = {"farm"}
    Ports <- TreePorts
    KnownNames <- PackageNames
    Configured <- PortsTrees
    Always = {"pkg"}
    Required = {"pkg"}
    MaxDelta = 2
    MinMirror = 2
    MaxChurn = 1
    PackageSet <- Repository
    Deps <- Dependencies
    CorePackages = {"kernel"}
    Modules = {"driver"}
    Stamped = {"gui"}
    Versions = {0, 1}
    Policies <- FarmPolicies
    MaxAttempts <- AttemptsOf
    Bundles <- ReleaseBundles
    MaxJobs = 4
    Repositories = {"freesense-packages"}
    PackagesRepository = "freesense-packages"
    Soak = 1
    MaxPatch = 1
    MaxMain = 3
    MaxCommits = 2
    MaxTime = 1
    MaxTestings = 1
    MaxEvents = 3
INVARIANTS
    ARerunResumes
CHECK_DEADLOCK FALSE
