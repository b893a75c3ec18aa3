----------------------------- MODULE MCPlanning -----------------------------
(***************************************************************************)
(* The machines that decide what is built, reused and released, checked in one *)
(* run.  They hand each other files only, and share no state: a behaviour is    *)
(* one of a single machine.  The variables of the others keep a value that      *)
(* means nothing, those of StableTrain, whose names this module has, their       *)
(* first one.                                                               *)
(***************************************************************************)
EXTENDS MCLayers, StableTrain

CONSTANTS
    Machines,               \* the machines that a run checks
    Ports, KnownNames, Configured, Always, Required, MaxDelta, MinMirror, MaxChurn,   \* those of DeltaLayers
    PackageSet, Deps, CorePackages, Modules, Stamped, Versions,   \* those of PackageReuse
    Policies, MaxAttempts,  \* those of Farm
    Bundles, MaxJobs,       \* those of Downloads
    MaxEvents               \* a bound on what happens around a Stable train

VARIABLES
    machine,
    input, collecting, visited, pending, records, customized, stack, forced, accepted, assembled,
    trees, repository, recorded, seed,
    policy, stored, markers, worker, collected,
    inputs, edits, plan, store, channels, image,
    channel, device, release, alias, objects, reserved, built, lane, kept, published, jobs, beside

layersVars == <<input, collecting, visited, pending, records, customized, stack, forced, accepted, assembled>>
reuseVars == <<trees, repository, recorded, seed>>
farmVars == <<policy, stored, markers, worker, collected>>
identityVars == <<inputs, edits, plan, store, channels, image>>
downloadsVars ==
    <<channel, device, release, alias, objects, reserved, built, lane, kept, published, jobs, beside>>
MCvars == <<machine, layersVars, reuseVars, farmVars, identityVars, downloadsVars, vars>>

-----------------------------------------------------------------------------
(* DeltaLayers: ports trees of MCLayers, with ceilings some of them pass.      *)

\* What a port links is among the ports that the collection visits for it.
ASSUME LinksAssumption == \A tree \in Configured : \A p \in Ports : tree.links[p] \ {p} \subseteq tree.needs[p]

\* A path without a flavor builds one of the ports at that path.
ASSUME DefaultsAssumption ==
    \A tree \in Configured : \A p \in Ports :
        LET d == tree.default[tree.ports[p].path] IN d \in Ports /\ tree.ports[d].path = tree.ports[p].path

Layers == INSTANCE DeltaLayers WITH Names <- KnownNames, Inputs <- Configured, stage <- collecting

-----------------------------------------------------------------------------
(* PackageReuse: a core package, a library, what links it, a port that takes    *)
(* its version from the product, and a kernel module.                        *)

Repository == {"kernel", "lib", "tool", "gui", "driver"}
Dependencies ==
    "kernel" :> {} @@ "lib" :> {"upstream"} @@ "tool" :> {"lib", "kernel"} @@ "gui" :> {"tool"} @@ "driver" :> {"lib"}

\* "cyclic package dependency provenance" is refused (package_provenance.py:124).
ASSUME AcyclicAssumption == \A T \in SUBSET PackageSet : T # {} => \E n \in T : Deps[n] \cap T = {}

\* A core package that something depends on does not take the version of the
\* product, and depends on core packages only.  Poudriere resolves dependencies
\* to ports, and no core package is one, so this asks less than holds.
ASSUME CoreAssumption ==
    \A n \in PackageSet : \A d \in Deps[n] \cap CorePackages :
        d \notin Stamped /\ Deps[d] \cap PackageSet \subseteq CorePackages

\* A core package has no port (package_provenance.py:92).
ASSUME ModulesAssumption == Modules \cap CorePackages = {}

Reuse == INSTANCE PackageReuse WITH Packages <- PackageSet, Core <- CorePackages

-----------------------------------------------------------------------------
(* Farm *)

Policy(heavy, closure, cost, stage, host) ==
    [roots |-> {1, 2, 3}, heavy |-> heavy, count |-> 2, closure |-> closure, cost |-> cost,
     limit |-> 3, stage |-> stage, host |-> host]

\* Every way three roots can share the two ports below them, with a heavy root
\* or none: only how they are divided.
Divided ==
    {Policy(heavy, closure, cost, "packages", "github-amd64") :
        heavy \in {{}, {2}}, closure \in [1..3 -> SUBSET {10, 11}], cost \in [1..3 -> {1, 2, 4}]}

\* Shards of one and of two batches, an empty one, with and without a core.
Built ==
    {Policy({}, [r \in 1..3 |-> shared], 1 :> 2 @@ 2 :> 1 @@ 3 :> 2, stage, host) :
        shared \in {{}, {10}}, stage \in {"system", "packages"}, host \in {"github-amd64", "dedicated"}}

FarmPolicies == Divided \cup Built
AttemptsOf == [p \in FarmPolicies |-> IF p \in Built THEN 2 ELSE 0]

\* What partition and batches take (partition_roots.py:15-24, 51-57): a set of
\* roots, whose heavy ones are among them, and a cost of each that is not negative.
RootsGiven(p) ==
    /\ p.roots \in SUBSET (Nat \ {0}) /\ IsFiniteSet(p.roots)
    /\ p.heavy \in SUBSET p.roots
    /\ p.count \in Nat
    /\ p.cost \in [p.roots -> Nat]

ASSUME PoliciesAssumption == \A p \in Policies : RootsGiven(p)

Components == INSTANCE Farm

-----------------------------------------------------------------------------
(* ComponentIdentity, with what is proved about it: PlanningProofs concludes from *)
(* it what this module states.                                               *)

Identity == INSTANCE ComponentIdentityProofs WITH
    Architectures <- {"amd64", "arm64"}, MaxEdits <- 2, MaxStored <- 3

-----------------------------------------------------------------------------
(* Downloads: bundles of one pair that share an installer or its name, a later    *)
(* pair of the next version, assembled twice, and Stable releases of which the    *)
(* first is assembled twice.                                                     *)

Installer(n) == <<"installer", n>>
Cloud(n) == <<"cloud", n>>

Bundle(line, version, generation, day, images) ==
    [channel |-> line, version |-> version, generation |-> generation, day |-> day, images |-> images]

ReleaseBundles ==
    {Bundle("stable", 1, 1, 0, <<Installer(1), Cloud(1)>>),
     Bundle("stable", 1, 2, 0, <<Installer(1), Cloud(2)>>),
     Bundle("stable", 2, 3, 0, <<Installer(3), Cloud(3)>>),
     Bundle("devel", 1, 10, 1, <<Installer(1), Cloud(1)>>),
     Bundle("devel", 1, 10, 1, <<Installer(1), Cloud(2)>>),
     Bundle("devel", 1, 10, 2, <<Installer(2), Cloud(2)>>),
     Bundle("devel", 2, 20, 2, <<Installer(3), Cloud(3)>>),
     Bundle("devel", 2, 20, 2, <<Installer(4), Cloud(3)>>)}

\* A bundle has an installer at least.
ASSUME BundlesAssumption == \A b \in Bundles : Len(b.images) \in Nat \ {0}

\* Of two pairs, the later one has the later generation, the second in which it
\* was first planned, and sources whose version is no lower.
ASSUME VersionsAssumption ==
    \A b \in Bundles :
        /\ b.channel \in {"stable", "devel"} /\ b.version \in Nat /\ b.generation \in Nat \ {0}
        /\ \A c \in Bundles :
              b.channel = "devel" /\ c.channel = "devel" /\ b.generation < c.generation => b.version <= c.version

Images == INSTANCE Downloads

-----------------------------------------------------------------------------
(* StableTrain: merges, commits of sources, ticks and completed pairs are bounded    *)
(* together, since a few of them in any mix make the interesting cases.        *)

Commits == FoldFunction(+, 0, heads) - Cardinality(Repositories)
Within == Len(main) - 1 + Commits + clock + (Cardinality(complete) \div 2) <= MaxEvents

-----------------------------------------------------------------------------
MCInit ==
    /\ machine \in Machines
    /\ Init
    /\ IF machine = "layers" THEN Layers!Init
       ELSE /\ input = 0 /\ collecting = 0 /\ visited = 0 /\ pending = 0 /\ records = 0
            /\ customized = 0 /\ stack = 0 /\ forced = 0 /\ accepted = 0 /\ assembled = 0
    /\ IF machine = "reuse" THEN Reuse!Init
       ELSE trees = 0 /\ repository = 0 /\ recorded = 0 /\ seed = 0
    /\ IF machine = "farm" THEN Components!Init
       ELSE policy = 0 /\ stored = 0 /\ markers = 0 /\ worker = 0 /\ collected = 0
    /\ IF machine = "identity" THEN Identity!Init
       ELSE inputs = 0 /\ edits = 0 /\ plan = 0 /\ store = 0 /\ channels = 0 /\ image = 0
    /\ IF machine = "downloads" THEN Images!Init
       ELSE /\ channel = 0 /\ device = 0 /\ release = 0 /\ alias = 0 /\ objects = 0 /\ reserved = 0
            /\ built = 0 /\ lane = 0 /\ kept = 0 /\ published = 0 /\ jobs = 0 /\ beside = 0

MCNext ==
    /\ UNCHANGED machine
    /\ \/ /\ machine = "layers" /\ Layers!Next
          /\ UNCHANGED <<reuseVars, farmVars, identityVars, downloadsVars, vars>>
       \/ /\ machine = "reuse" /\ Reuse!Next
          /\ UNCHANGED <<layersVars, farmVars, identityVars, downloadsVars, vars>>
       \/ /\ machine = "farm" /\ Components!Next
          /\ UNCHANGED <<layersVars, reuseVars, identityVars, downloadsVars, vars>>
       \/ /\ machine = "identity" /\ Identity!Next
          /\ UNCHANGED <<layersVars, reuseVars, farmVars, downloadsVars, vars>>
       \/ /\ machine = "downloads" /\ Images!Next
          /\ UNCHANGED <<layersVars, reuseVars, farmVars, identityVars, vars>>
       \/ /\ machine = "train" /\ Next /\ Within'
          /\ UNCHANGED <<layersVars, reuseVars, farmVars, identityVars, downloadsVars>>

MCSpec == MCInit /\ [][MCNext]_MCvars

-----------------------------------------------------------------------------
(* The properties of the modules, stated there.  Those of StableTrain are its own. *)

(* What FreeSense builds is closed under dependents and no larger.              *)
LayersAreExact == machine = "layers" => Layers!LayersAreExact

(* The older seed is complete, and the mirror holds what it held.              *)
SeedIsSound == machine = "layers" => Layers!SeedIsSound

(* A package is in neither layer only where another flavor was built instead.    *)
NothingIsLost == machine = "layers" => Layers!NothingIsLost

(* A seeded build publishes what a build without a seed would have made.       *)
RepositoryIsFresh == [][machine = "reuse" => Reuse!FreshBuild]_MCvars

(* Nothing is built again without a reason.                                   *)
NothingRebuiltForARelease == machine = "reuse" => Reuse!NothingRebuiltForARelease

(* The shards of a component share out its roots, none far ahead of another.    *)
ShardsAreBalanced == machine = "farm" => Components!ShardsAreBalanced

(* A later checkpoint of a job holds every package of an earlier one as it was. *)
CheckpointsAreCumulative == machine = "farm" => Components!CheckpointsAreCumulative

(* What the finalizer merges has every root once.                              *)
CollectionIsComplete == machine = "farm" => Components!CollectionIsComplete

(* A rerun of a job that completed a checkpoint resumes.                      *)
ARerunResumes == machine = "farm" => Components!ARerunResumes

(* A component that a plan reuses is what the plan would build.                *)
ReuseIsExact == machine = "identity" => Identity!ReuseIsExact

(* An image joins a System and Packages of one base.                          *)
ImagesAreOneBase == machine = "identity" => Identity!ImagesAreOneBase

(* What a live release document names can be downloaded.                        *)
DownloadsHoldTheRelease == machine = "downloads" => Images!DownloadsHoldTheRelease

(* A published release is not taken back, nor given other images.               *)
ReleasesOnlyAdvance == [][machine = "downloads" => Images!Forward]_MCvars
=============================================================================
