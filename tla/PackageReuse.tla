---------------------------- MODULE PackageReuse ----------------------------
(***************************************************************************)
(* Reuse of packages from the previous FreeSense repository.  Every build     *)
(* records what each package of its repository is made from                  *)
(* (scripts/package_provenance.py); a later build compares that with what its *)
(* own trees say and seeds Poudriere with the packages that match             *)
(* (freesense_reuse.py, load_previous_freesense_seed).  A package may come     *)
(* down through any number of builds this way.                               *)
(*                                                                         *)
(* Versions of ports, of the build configuration and so on are numbers; an    *)
(* edit gives one another value, or an earlier one again.                     *)
(***************************************************************************)
EXTENDS Integers, FiniteSets

CONSTANTS
    Packages,
    Deps,        \* [Packages -> packages it depends on, in the repository or not]
    Core,        \* packages cut from the staged system and the kernel
    Modules,     \* ports of kernel modules: *-kmod, or of category kld
    Stamped,     \* ports that take their version from the product version
    Versions

VARIABLES
    trees,       \* what would be built now
    repository,  \* [Packages -> what the published package was made from]
    recorded,    \* the provenance document published with it
    seed         \* packages that this build seeds Poudriere with, or NoBuild

vars == <<trees, repository, recorded, seed>>

\* system: the source, the kernel and the overlay that core packages are cut from.
Trees ==
    [port : [Packages \ Core -> Versions], system : Versions,
     config : Versions, product : Versions, pin : Versions]
NoBuild == {"no build"}

Inventory(n) == Deps[n] \cap Packages

-----------------------------------------------------------------------------
(* A package stands for its own inputs and for those of its dependencies.       *)
Over(own) ==
    LET whole[n \in Packages] == [own |-> own[n], deps |-> [d \in Inventory(n) |-> whole[d]]]
    IN whole

(* The origin of a core package is in no tree: the system it is cut from       *)
(* stands for its port.                                                     *)
Source(t, n) == IF n \in Core THEN t.system ELSE t.port[n]

(* What a build from these trees makes: a module is built against the kernel.  *)
(* Nothing else is known of a package.                                       *)
Made(t) ==
    Over([n \in Packages |->
        [port |-> Source(t, n), config |-> t.config, pin |-> t.pin,
         kernel |-> IF n \in Modules THEN <<t.system>> ELSE <<>>,
         version |-> IF n \in Stamped THEN <<t.product>> ELSE <<>>]])

-----------------------------------------------------------------------------
(* build: digests over a package's own inputs and the digests of its          *)
(* dependencies; one that the repository does not hold is "external".  The     *)
(* legacy digest of make.conf still has its product version.                  *)

Styles == {"current", "legacy"}
\* Mutant: the digest of make.conf always has the product version.
MakeConfigStamped(t, style) == <<t.config, t.product>>

MakeConfig(t, style) == IF style = "legacy" THEN <<t.config, t.product>> ELSE <<t.config>>

(* A module's record says that it is one, and not of which kernel.           *)
Inputs(t, style, n) ==
    [port |-> Source(t, n), config |-> MakeConfig(t, style),
     kernel |-> n \in Core \cup Modules, external |-> Deps[n] \ Packages]

\* Mutant: a package's digest is over its own inputs only.
ProvenanceAlone(t, style) ==
    [style |-> style, pin |-> t.pin,
     of |-> [n \in Packages |-> [own |-> Inputs(t, style, n), deps |-> Inventory(n)]]]

Provenance(t, style) ==
    [style |-> style, pin |-> t.pin, of |-> Over([n \in Packages |-> Inputs(t, style, n)])]

(* reusable: nothing that is coupled to a kernel, nothing that changed.       *)
Reusable(n, now) == ~ now.of[n].own.kernel /\ recorded.of[n] = now.of[n]

(* previous_seed: a repository on another pin is not offered at all.          *)
OfPin(pin) == recorded.pin = pin

Accepted(t) == {n \in Packages : OfPin(t.pin) /\ \E style \in Styles : Reusable(n, Provenance(t, style))}

-----------------------------------------------------------------------------
(* The build *)

SelectSeed ==
    /\ seed = NoBuild
    /\ seed' = Accepted(trees)
    /\ UNCHANGED <<trees, repository, recorded>>

(* Poudriere builds again what has another version than its port and what      *)
(* depends on a package it builds.                                          *)
CurrentVersion(n) == repository[n].own.version = Made(trees)[n].own.version
Kept ==
    CHOOSE K \in SUBSET seed :
        /\ \A n \in K : CurrentVersion(n) /\ Inventory(n) \subseteq K \cup Core
        /\ \A L \in SUBSET seed :
               (\A n \in L : CurrentVersion(n) /\ Inventory(n) \subseteq L \cup Core) => L \subseteq K

(* The provenance of the whole repository is recorded against today's trees.  *)
BuildRepository ==
    /\ seed # NoBuild
    /\ repository' = [n \in Packages |-> IF n \in Kept THEN repository[n] ELSE Made(trees)[n]]
    /\ recorded' = Provenance(trees, "current")
    /\ seed' = NoBuild
    /\ UNCHANGED trees

BuildFails ==
    /\ seed # NoBuild
    /\ seed' = NoBuild
    /\ UNCHANGED <<trees, repository, recorded>>

(* A build runs from the commits that it checked out.                        *)
Edit ==
    /\ seed = NoBuild
    /\ \E v \in Versions :
        \/ \E n \in Packages \ Core : trees' = [trees EXCEPT !.port[n] = v]
        \/ trees' = [trees EXCEPT !.system = v]
        \/ trees' = [trees EXCEPT !.config = v]
        \/ trees' = [trees EXCEPT !.product = v]
        \/ trees' = [trees EXCEPT !.pin = v]
    /\ UNCHANGED <<repository, recorded, seed>>

Init ==
    /\ trees \in Trees
    /\ repository = Made(trees)
    /\ recorded \in {Provenance(trees, style) : style \in Styles}
    /\ seed = NoBuild

Next == SelectSeed \/ BuildRepository \/ BuildFails \/ Edit

Spec == Init /\ [][Next]_vars

-----------------------------------------------------------------------------
(* Properties *)

(* "A package whose digest still equals the recorded one was built from exactly  *)
(* what would be built now": whatever was changed and changed back, and however   *)
(* many builds a package came through, the repository that a seeded build          *)
(* publishes is the one that a build without a seed would have made.              *)
FreshBuild == seed # NoBuild /\ repository' # repository => repository' = Made(trees)
RepositoryIsFresh == [][FreshBuild]_vars

(* And nothing is built again without a reason, a release least of all: a package   *)
(* is kept unless something that it is made from differs, down to the last, its      *)
(* version is not its port's, it is coupled to a kernel, or it depends on one that    *)
(* is built again (package_provenance.py:40-47, freesense_reuse.py:42-49).          *)
Unstamped(own) == [own EXCEPT !.version = <<>>]
Same(n) == Unstamped(repository[n].own) = Unstamped(Made(trees)[n].own)
Unchanged == UNION {K \in SUBSET Packages : \A n \in K : Same(n) /\ Inventory(n) \subseteq K}
Stays ==
    UNION {K \in SUBSET (Unchanged \ (Core \cup Modules)) :
              \A n \in K : CurrentVersion(n) /\ Inventory(n) \subseteq K \cup Core}
NothingRebuiltForARelease == seed # NoBuild /\ recorded.style = "current" => Stays \subseteq Kept

=============================================================================
