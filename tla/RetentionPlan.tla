--------------------------- MODULE RetentionPlan ---------------------------
(***************************************************************************)
(* scripts/r2_retention.py: which objects of the two buckets may be        *)
(* deleted.  `plan` computes, from one inventory, what is protected and     *)
(* which groups of objects are candidates; `confirm` compares the          *)
(* candidates with the recorded observation.                               *)
(*                                                                         *)
(* Objects come in groups: an artifact prefix holds the artifact's files    *)
(* and its completion marker, every other group is one object.  What a      *)
(* marker says follows from the artifact's fingerprint, so it is a          *)
(* constant, except for the System that Packages were built against, which   *)
(* their fingerprint leaves out.                                            *)
(*                                                                         *)
(* Groups are numbers; their order is that of bucket and prefix.            *)
(***************************************************************************)
EXTENDS Integers, FiniteSets

CONSTANTS
    Groups,       \* every group of objects there can be
    About,        \* what is known of a group from its key and its marker
    StableTrain, DevelopmentTrain,
    KeepDevelopment, KeepMirrors, KeepSmoke,
    OrphanGrace, CompletedGrace, MinimumInterval,
    MaxObjects    \* objects per bucket that one run may delete

ASSUME GroupsAreNumbers == Groups \subseteq Nat
ASSUME TrainsDiffer == StableTrain # DevelopmentTrain
ASSUME SomeAreKept == KeepDevelopment \in Nat \ {0}
ASSUME TimesAreNumbers == {OrphanGrace, CompletedGrace, MinimumInterval} \subseteq Nat

Components == {"system", "packages"}
ReleaseImages == {"iso", "cloud", "appliance"}
Artifacts == {g \in Groups : About[g].kind \in Components \cup ReleaseImages \cup {"mirror"}}
OfKind(kinds) == {g \in Groups : About[g].kind \in kinds}

ASSUME ArtifactsAreInBuild == \A g \in Artifacts : About[g].bucket = "build"

(* An artifact is uploaded file by file, the completion marker last.        *)
Keys(g) == IF g \in Artifacts THEN {<<g, "data">>, <<g, "complete">>} ELSE {<<g, "data">>}
NoGroup == -1   \* stands for a missing reference

-----------------------------------------------------------------------------
(* An inventory: the listed objects with their times, and the documents     *)
(* that were read.                                                          *)

Listed(inv, g) == Keys(g) \cap DOMAIN inv.objects
Present(inv) == {g \in Groups : Listed(inv, g) # {}}
Markers(inv) == {g \in Artifacts : <<g, "complete">> \in DOMAIN inv.objects}
NewestTime(inv, g) ==
    CHOOSE t \in {inv.objects[k] : k \in Listed(inv, g)} :
        \A k \in Listed(inv, g) : inv.objects[k] <= t

Precedes(g, h) ==   \* in the order of (generation, prefix)
    \/ About[g].generation < About[h].generation
    \/ About[g].generation = About[h].generation /\ g < h

(* keep_newest_per_architecture, and the mirrors' copy of it.               *)
NewestPerArchitecture(S, keep) ==
    {g \in S : Cardinality({h \in S : About[h].arch = About[g].arch /\ Precedes(g, h)}) < keep}

-----------------------------------------------------------------------------
(* The roots: what is protected for its own sake.                           *)

(* An unfinished or finished cycle, not a superseded one.                   *)
CycleRoots(inv) == IF inv.cycle.superseded THEN {} ELSE inv.cycle.components

(* System and Packages of a train that carry a release lock's commits.      *)
IsLocked(g, locks) == About[g].train = StableTrain /\ About[g].commits \in locks
OfTrain(inv, kind, train) == {g \in Markers(inv) \cap OfKind({kind}) : About[g].train = train}
RollingOnStable(inv, kind, locks) == {g \in OfTrain(inv, kind, StableTrain) : ~ IsLocked(g, locks)}

ReleaseRoots(inv, locks) ==
    {g \in Markers(inv) \cap OfKind(Components) : IsLocked(g, locks)}

\* Mutant: a train that this checkout does not know is not protected.
NoForeignRoots(inv) == {}

(* Frozen older trains, and trains this checkout does not know.             *)
ForeignRoots(inv) ==
    {g \in Markers(inv) \cap OfKind(Components) :
        About[g].train \notin {StableTrain, DevelopmentTrain}}

StableImages(inv) ==
    {g \in Markers(inv) \cap OfKind(ReleaseImages) : About[g].channel = "stable"}

\* Mutant: only Development keeps its newest, Testing on the Stable train does not.
DevelopmentRoots(inv, locks) ==
    UNION {NewestPerArchitecture(OfTrain(inv, kind, DevelopmentTrain), KeepDevelopment) : kind \in Components}

RollingRoots(inv, locks) ==
    UNION {NewestPerArchitecture(OfTrain(inv, kind, DevelopmentTrain), KeepDevelopment)
           \cup NewestPerArchitecture(RollingOnStable(inv, kind, locks), KeepDevelopment)
           : kind \in Components}

MirrorRoots(inv) == NewestPerArchitecture(Markers(inv) \cap OfKind({"mirror"}), KeepMirrors)

(* Images are kept by release bundle: installer, cloud and appliances.      *)
DevelopmentImages(inv) == (Markers(inv) \cap OfKind(ReleaseImages)) \ StableImages(inv)
BundleRoots(inv) ==
    LET images == DevelopmentImages(inv)
        Mates(g) == {h \in images : About[h].bundle = About[g].bundle}
        Above(g, h) == \E i \in Mates(h) : \A j \in Mates(g) : Precedes(j, i)
        Newer(g) == {About[h].bundle : h \in {i \in images \ Mates(g) : Above(g, i)}}
    IN {g \in images : Cardinality(Newer(g)) < KeepDevelopment}

\* Mutant: the aggregate release is taken to name what the manifests name.
ChannelRoots(inv) == inv.channels

(* What the signed manifests and the aggregate release name.                *)
PublishedRoots(inv) == inv.channels \cup inv.completion

Roots(inv, locks) ==
    UNION {CycleRoots(inv), ReleaseRoots(inv, locks), ForeignRoots(inv), StableImages(inv),
           RollingRoots(inv, locks), MirrorRoots(inv), BundleRoots(inv), PublishedRoots(inv)}

-----------------------------------------------------------------------------
(* What the roots need.  A reference counts only if the marker that makes    *)
(* it was read.                                                             *)

(* A retained Development installer protects its Packages; one from before   *)
(* they were recorded protects every Development Packages there is.         *)
RetainedISOs(inv, P) == {g \in P \cap Markers(inv) \cap OfKind({"iso"}) : About[g].channel = "devel"}
ISORoots(inv, P) ==
    ({About[g].packages : g \in RetainedISOs(inv, P)} \ {NoGroup})
    \cup (IF \E g \in RetainedISOs(inv, P) : About[g].packages = NoGroup
          THEN OfTrain(inv, "packages", DevelopmentTrain) ELSE {})

References(built, g) ==
    IF About[g].kind \in ReleaseImages THEN {About[g].system, About[g].packages} \ {NoGroup}
    ELSE IF About[g].kind = "packages" THEN {built[g]} \ {NoGroup}
    ELSE {}

AddReferences(inv, P) ==
    P \cup UNION {References(inv.built_against, g) : g \in P \cap Markers(inv)}

(* The loop ends after two rounds that add something: images refer to       *)
(* System and Packages, Packages to System, System to nothing.              *)
Closure(inv, P) == AddReferences(inv, AddReferences(inv, P))

Protected(inv, locks) ==
    LET P == Roots(inv, locks) IN Closure(inv, P \cup ISORoots(inv, P))

ProtectedInputs(inv, P, pinned) ==
    pinned \cup UNION {About[g].inputs : g \in P \cap Markers(inv)}

(* Downloads: the newest of the current train and what a release document   *)
(* names.  Downloads of Stable are never grouped.                           *)
Downloads(inv) == Present(inv) \cap OfKind({"download"})
ProtectedDownloads(inv) ==
    {g \in Downloads(inv) :
        /\ About[g].train = DevelopmentTrain
        /\ Cardinality({h \in Downloads(inv) : About[h].train = DevelopmentTrain /\ Precedes(g, h)})
               < KeepDevelopment}
    \cup inv.releases

Smoke(inv, bucket) == {g \in Present(inv) \cap OfKind({"smoke"}) : About[g].bucket = bucket}
Later(inv, g, h) ==
    \/ NewestTime(inv, g) < NewestTime(inv, h)
    \/ NewestTime(inv, g) = NewestTime(inv, h) /\ g < h
ProtectedSmoke(inv) ==
    {g \in Present(inv) \cap OfKind({"smoke"}) :
        Cardinality({h \in Smoke(inv, About[g].bucket) : Later(inv, g, h)}) < KeepSmoke}

-----------------------------------------------------------------------------
(* The candidates, and the batch of them that this run is about.            *)

OldEnough(inv, g, now, grace) == NewestTime(inv, g) <= now - grace

Eligible(inv, P, pinned, now) ==
    {g \in (Present(inv) \cap Artifacts) \ P :
        OldEnough(inv, g, now, IF g \in Markers(inv) THEN CompletedGrace ELSE OrphanGrace)}
    \cup {g \in (Present(inv) \cap OfKind({"input"})) \ ProtectedInputs(inv, P, pinned) :
        OldEnough(inv, g, now, OrphanGrace)}
    \cup {g \in Downloads(inv) \ ProtectedDownloads(inv) : OldEnough(inv, g, now, CompletedGrace)}
    \cup {g \in (Present(inv) \cap OfKind({"smoke"})) \ ProtectedSmoke(inv) :
        OldEnough(inv, g, now, CompletedGrace)}

(* A candidate is identified by its keys, not by what is stored under them.  *)
Candidate(inv, g) == [group |-> g, keys |-> Listed(inv, g)]
KeysOf(C) == UNION {c.keys : c \in C}

TooLarge(inv, E) == \E g \in E : Cardinality(Listed(inv, g)) > MaxObjects

(* Oldest first; once a group does not fit, its bucket is full.             *)
NotAfter(inv, g, h) == ~ Later(inv, h, g)
OldestThatFit(inv, E) ==
    {g \in E : Cardinality(UNION {Listed(inv, h) : h \in
                   {i \in E : About[i].bucket = About[g].bucket /\ NotAfter(inv, i, g)}}) <= MaxObjects}

(* A batch that was observed before is kept while all of it is eligible.    *)
Batch(inv, E, previous) ==
    LET C == {Candidate(inv, g) : g \in E} IN
    IF previous # {} /\ previous \subseteq C
    THEN previous
    ELSE {Candidate(inv, g) : g \in OldestThatFit(inv, E)}

-----------------------------------------------------------------------------
(* The confirmation.  An observation is what v1/state/retention.json holds.  *)

NoObservation == [keys |-> {}, batch |-> {}, count |-> 0, last |-> 0]

(* The digest is over the keys.                                             *)
Confirm(batch, previous, now) ==
    IF previous.count > 0 /\ previous.keys = KeysOf(batch)
    THEN IF now - previous.last >= MinimumInterval
         THEN [keys |-> previous.keys, batch |-> batch, count |-> previous.count + 1, last |-> now]
         ELSE [previous EXCEPT !.batch = batch]
    ELSE [keys |-> KeysOf(batch), batch |-> batch, count |-> 1, last |-> now]

\* Mutant: any observation confirms, whatever was observed.
ReadyAnyway(batch, previous, now) ==
    previous.count > 0 /\ now - previous.last >= MinimumInterval /\ batch # {}

Ready(batch, previous, now) ==
    /\ previous.count > 0 /\ previous.keys = KeysOf(batch)
    /\ now - previous.last >= MinimumInterval
    /\ batch # {}

=============================================================================
