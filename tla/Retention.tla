----------------------------- MODULE Retention -----------------------------
(***************************************************************************)
(* The daily retention run (.github/workflows/retention.yml) next to the    *)
(* runs that build and publish.  Retention lists the buckets, reads the     *)
(* documents, plans, and deletes in later steps, while a run may begin a     *)
(* cycle, find a stored artifact it can use again, or publish.  No lock      *)
(* relates the two: what a plan may delete was decided from a past state.    *)
(*                                                                         *)
(* A job may die between any two steps and a retention run may fail at any   *)
(* step, in the middle of a deletion too.                                   *)
(***************************************************************************)
EXTENDS RetentionPlan, FiniteSetsExt

CONSTANTS
    Releases,      \* what the publishing runs may build, in the order of their numbers
    Contents,      \* [Releases -> [line, system, packages, image, download, pin]]
    Pins,          \* inputs of a pin rotation that is not merged
    BatchSize,     \* keys of one delete-objects request
    FirstReleases, \* [Lines -> release published when the behaviour starts]
    FirstObjects,  \* the objects there are then, all written at time 0
    FirstBuilt,    \* [Groups -> System that the Packages there are then were built against]
    Locks,         \* commits that a release lock names
    MaxRuns,       \* bound on the publishing runs that are started
    MaxTime        \* bound on the clock

ASSUME LimitsArePositive ==
    /\ BatchSize \in Nat \ {0} /\ MaxTime \in Nat /\ MaxRuns \in Nat
    /\ Releases \subseteq Nat \ {0}

Lines == {"devel", "testing"}
None == 0   \* no release

VARIABLES
    objects,      \* [keys that exist -> time of the last write]
    built_against, \* [Groups -> System named by the last marker of these Packages]
    cycle,        \* state/development-cycle.json
    channels,     \* [Lines -> release in the signed manifest]
    images,       \* release whose images releases/devel.*.json names
    job,          \* the run that builds and publishes
    last,         \* [Lines -> newest release a run was started for]
    runs,         \* publishing runs started
    pinned,       \* inputs that the merged configuration pins
    clock,
    observation,  \* state/retention.json
    sweep,        \* the retention run
    recorded      \* history: when a key was first recorded as that of a candidate

vars == <<objects, built_against, cycle, channels, images, job, last, runs, pinned, clock, observation, sweep, recorded>>
publishing == <<cycle, channels, images, job, last, runs>>
retaining == <<observation, sweep, recorded>>

NoJob == [release |-> None, stage |-> "idle"]
NoSweep == [stage |-> "idle", listed |-> <<>>, batch |-> {}, left |-> {}]

ComponentsOf(r) == IF r = None THEN {} ELSE {Contents[r].system, Contents[r].packages}
ImagesOf(r) == IF r = None THEN {} ELSE {Contents[r].image}
Serving(live) == UNION {ComponentsOf(live[line]) : line \in Lines}
DownloadOf(r) == IF r = None THEN {} ELSE {Contents[r].download}
Whole(g) == Keys(g) \subseteq DOMAIN objects
IsComplete(g) == <<g, "complete">> \in DOMAIN objects

Put(k) == [x \in DOMAIN objects \cup {k} |-> IF x \in DOMAIN objects THEN objects[x] ELSE clock]
Drop(K) == [x \in DOMAIN objects \ K |-> objects[x]]

-----------------------------------------------------------------------------
(* The publishing runs.  A stage builds one artifact or publishes: devices    *)
(* get the repositories first, images follow when they are due.              *)

Line(r) == Contents[r].line
Stages == <<"system", "packages", "sign", "commit", "image", "images">>

Goto(stage) == job' = [job EXCEPT !.stage = stage]
Proceed == \E i \in 1..5 : Stages[i] = job.stage /\ Goto(Stages[i + 1])

(* images_due.py: the live images were built on another FreeBSD pin, or a      *)
(* dispatch says so.                                                         *)
Modes == {"auto", "force", "skip"}
released_pin == IF images = None THEN None ELSE Contents[images].pin
decide(mode) == mode = "force" \/ (mode = "auto" /\ released_pin # Contents[job.release].pin)
ImagesDue == Line(job.release) = "devel" /\ \E mode \in Modes : decide(mode)
NoImagesDue == Line(job.release) = "testing" \/ \E mode \in Modes : ~ decide(mode)

Published(r) == channels[Line(r)] = r /\ (Line(r) = "devel" => images = r)

(* Development and Testing share a concurrency group, so one run at a time.   *)
(* Sources move forward; a release is started again only as long as it is the *)
(* newest.  A Development run freezes its pair in the cycle document before    *)
(* it looks for stored artifacts.                                            *)
Begin(r) ==
    /\ job = NoJob /\ r >= last[Line(r)] /\ ~ Published(r)
    /\ runs < MaxRuns
    /\ runs' = runs + 1
    /\ job' = [release |-> r, stage |-> "system"]
    /\ last' = [last EXCEPT ![Line(r)] = r]
    /\ cycle' = IF Line(r) = "devel" THEN [superseded |-> FALSE, components |-> ComponentsOf(r)] ELSE cycle
    /\ UNCHANGED <<objects, built_against, channels, images, pinned, clock, retaining>>

(* A run whose sources moved supersedes an unfinished cycle, a run that was   *)
(* asked to any cycle.                                                       *)
Supersede ==
    /\ job = NoJob /\ ~ cycle.superseded
    /\ cycle' = [cycle EXCEPT !.superseded = TRUE]
    /\ UNCHANGED <<objects, built_against, channels, images, job, last, runs, pinned, clock, retaining>>

Building == job.stage \in {"system", "packages", "image"}
Target ==
    CASE job.stage = "system" -> Contents[job.release].system
      [] job.stage = "packages" -> Contents[job.release].packages
      [] job.stage = "image" -> Contents[job.release].image
Stored(k) == <<Target, k>> \in DOMAIN objects

(* `fsbuild result check`: a completion marker is enough to reuse.          *)
Reuse ==
    /\ Building /\ Stored("complete")
    /\ Proceed
    /\ UNCHANGED <<objects, built_against, cycle, channels, images, last, runs, pinned, clock, retaining>>

(* What a worker fetches before it builds.                                  *)
Fetched ==
    CASE job.stage = "system" -> {}
      [] job.stage = "packages" -> {Contents[job.release].system}
      [] job.stage = "image" -> ComponentsOf(job.release)

UploadData ==
    /\ Building /\ ~ Stored("complete") /\ ~ Stored("data")
    /\ \A h \in Fetched : Whole(h)
    /\ objects' = Put(<<Target, "data">>)
    /\ UNCHANGED <<built_against, publishing, pinned, clock, retaining>>

(* rclone --immutable leaves an object that is already there as it is. What   *)
(* an abandoned run left behind is completed within the grace period.  The   *)
(* marker of Packages names the System of the run that uploads it.          *)
UploadMarker ==
    /\ Building /\ ~ Stored("complete") /\ Stored("data")
    /\ clock - objects[<<Target, "data">>] < OrphanGrace
    /\ objects' = Put(<<Target, "complete">>)
    /\ built_against' = IF job.stage = "packages"
                        THEN [built_against EXCEPT ![Target] = Contents[job.release].system]
                        ELSE built_against
    /\ Proceed
    /\ UNCHANGED <<cycle, channels, images, last, runs, pinned, clock, retaining>>

(* The manifest is signed over both completion markers, fetched again.      *)
Sign ==
    /\ job.stage = "sign"
    /\ \A g \in ComponentsOf(job.release) : IsComplete(g)
    /\ Proceed
    /\ UNCHANGED <<objects, built_against, cycle, channels, images, last, runs, pinned, clock, retaining>>

CommitChannel ==
    /\ job.stage = "commit"
    /\ channels' = [channels EXCEPT ![Line(job.release)] = job.release]
    /\ (ImagesDue /\ Proceed) \/ (NoImagesDue /\ job' = NoJob)
    /\ UNCHANGED <<objects, built_against, cycle, images, last, runs, pinned, clock, retaining>>

(* Download files, then the release documents and the aggregate release.    *)
PublishImages ==
    /\ job.stage = "images"
    /\ IsComplete(Contents[job.release].image)
    /\ objects' = Put(<<Contents[job.release].download, "data">>)
    /\ images' = job.release
    /\ job' = NoJob
    /\ UNCHANGED <<built_against, cycle, channels, last, runs, pinned, clock, retaining>>

Abandon ==
    /\ job # NoJob
    /\ job' = NoJob
    /\ UNCHANGED <<objects, built_against, cycle, channels, images, last, runs, pinned, clock, retaining>>

(* A pin rotation uploaded the input when it opened a pull request; merging   *)
(* pins it.  It is merged within the grace period, or closed.               *)
MergePin(g) ==
    /\ g \notin pinned /\ <<g, "data">> \in DOMAIN objects
    /\ clock - objects[<<g, "data">>] < OrphanGrace
    /\ pinned' = pinned \cup {g}
    /\ UNCHANGED <<objects, built_against, publishing, clock, observation, sweep, recorded>>

-----------------------------------------------------------------------------
(* The retention run.  It is alone (group r2-retention) and takes less than   *)
(* one tick.                                                                *)

(* list-objects-v2 of the build bucket.                                     *)
ListBuild ==
    /\ sweep.stage = "idle"
    /\ LET build == {k \in DOMAIN objects : About[k[1]].bucket = "build"} IN
        sweep' = [NoSweep EXCEPT !.stage = "listed", !.listed = [k \in build |-> objects[k]]]
    /\ UNCHANGED <<objects, built_against, publishing, pinned, clock, observation, recorded>>

(* get-object of the documents and of the listed completion markers, the      *)
(* list of the downloads bucket, then `plan` and `confirm`.                  *)
Inventory ==
    LET downloads == {k \in DOMAIN objects : About[k[1]].bucket = "downloads"} IN
    [built_against |-> built_against,
     objects |-> [k \in DOMAIN sweep.listed \cup downloads |->
                     IF k \in downloads THEN objects[k] ELSE sweep.listed[k]],
     cycle |-> cycle,
     channels |-> Serving(channels),
     completion |-> ComponentsOf(images) \cup ImagesOf(images),
     releases |-> DownloadOf(images)]

(* The batch, unless one group alone exceeds the cap: then the run fails.    *)
Candidates(inv) == {Eligible(inv, P, pinned, clock) : P \in {Protected(inv, Locks)}}
Batches ==
    UNION {{Batch(inv, E, observation.batch) : E \in {X \in Candidates(inv) : ~ TooLarge(inv, X)}}
           : inv \in {Inventory}}

RecordObservation(batch) ==
    /\ observation' = Confirm(batch, observation, clock)
    /\ recorded' = [k \in DOMAIN recorded \cup KeysOf(batch) |->
                        IF k \in DOMAIN recorded THEN recorded[k] ELSE clock]

(* Not ready: the run only records what it observed. A dry run does not.     *)
Observe(batch) ==
    /\ ~ Ready(batch, observation, clock)
    /\ RecordObservation(batch)
    /\ sweep' = NoSweep

Plan(batch) ==
    /\ Ready(batch, observation, clock)
    /\ sweep' = [NoSweep EXCEPT !.stage = "planned", !.batch = batch, !.left = KeysOf(batch)]
    /\ UNCHANGED <<observation, recorded>>

PlanAndConfirm ==
    /\ sweep.stage = "listed"
    /\ \E batch \in Batches : Observe(batch) \/ Plan(batch)
    /\ UNCHANGED <<objects, built_against, publishing, pinned, clock>>

(* Keys are deleted in sorted order, the build bucket first.  An artifact's   *)
(* files sort before its completion marker.                                 *)
Before(k, l) ==
    IF About[k[1]].bucket # About[l[1]].bucket THEN About[k[1]].bucket = "build"
    ELSE IF k[1] # l[1] THEN k[1] < l[1]
    ELSE k[2] = "data" /\ l[2] = "complete"
Request ==
    {k \in sweep.left :
        /\ Cardinality({l \in sweep.left : Before(l, k)}) < BatchSize
        /\ \A l \in sweep.left : Before(l, k) => About[l[1]].bucket = About[k[1]].bucket}

Delete ==
    /\ sweep.stage = "planned" /\ sweep.left # {}
    /\ objects' = Drop(Request)
    /\ sweep' = [sweep EXCEPT !.left = @ \ Request]
    /\ UNCHANGED <<built_against, publishing, pinned, clock, observation, recorded>>

(* The run fails unless R2 confirms exactly the request.                     *)
DeleteFails ==
    /\ sweep.stage = "planned" /\ sweep.left # {}
    /\ \E gone \in SUBSET Request : gone # Request /\ objects' = Drop(gone)
    /\ sweep' = NoSweep
    /\ UNCHANGED <<built_against, publishing, pinned, clock, observation, recorded>>

(* Only after every deletion; a dry run stops before.                        *)
Record ==
    /\ sweep.stage = "planned" /\ sweep.left = {}
    /\ RecordObservation(sweep.batch)
    /\ sweep' = NoSweep
    /\ UNCHANGED <<objects, built_against, publishing, pinned, clock>>

(* A run that fails before it has planned has changed nothing.               *)
SweepFails ==
    /\ sweep.stage = "planned"
    /\ sweep' = NoSweep
    /\ UNCHANGED <<objects, built_against, publishing, pinned, clock, observation, recorded>>

(* An upload, from its first file to its marker, takes less than one tick.   *)
Tick ==
    /\ clock < MaxTime /\ sweep.stage = "idle"
    /\ ~ (Building /\ Stored("data") /\ ~ Stored("complete"))
    /\ clock' = clock + 1
    /\ UNCHANGED <<objects, built_against, publishing, pinned, retaining>>

-----------------------------------------------------------------------------

Init ==
    /\ objects = [k \in FirstObjects |-> 0]
    /\ built_against = FirstBuilt
    /\ cycle = [superseded |-> FALSE, components |-> ComponentsOf(FirstReleases["devel"])]
    /\ channels = FirstReleases /\ images = FirstReleases["devel"]
    /\ job = NoJob /\ last = FirstReleases /\ runs = 0
    /\ pinned = {} /\ clock = 0
    /\ observation = NoObservation /\ sweep = NoSweep
    /\ recorded = <<>>

Publish ==
    \/ \E r \in Releases : Begin(r)
    \/ Supersede \/ Reuse \/ UploadData \/ UploadMarker
    \/ Sign \/ CommitChannel \/ PublishImages \/ Abandon

Sweep ==
    \/ ListBuild \/ PlanAndConfirm
    \/ Delete \/ DeleteFails \/ Record \/ SweepFails

Next ==
    \/ Publish
    \/ \E g \in Pins : MergePin(g)
    \/ Sweep
    \/ Tick

Spec == Init /\ [][Next]_vars

-----------------------------------------------------------------------------
(* What the releases are assumed to be. *)

TrainOf(line) == IF line = "devel" THEN DevelopmentTrain ELSE StableTrain

IsRelease(r) ==
    /\ \A kind \in Components :
           /\ Contents[r][kind] \in OfKind({kind})
           /\ About[Contents[r][kind]].train = TrainOf(Line(r))
    /\ Line(r) = "devel" =>
           /\ Contents[r].image \in OfKind(ReleaseImages)
           /\ About[Contents[r].image].system = Contents[r].system
           /\ About[Contents[r].image].packages = Contents[r].packages
           /\ Contents[r].download \in OfKind({"download"})
           /\ About[Contents[r].download].train = DevelopmentTrain

ASSUME ReleasesAreReleases ==
    /\ \A r \in Releases : Line(r) \in Lines /\ IsRelease(r)
    /\ FirstReleases \in [Lines -> Nat]
    /\ \A line \in Lines :
           FirstReleases[line] # None => Line(FirstReleases[line]) = line /\ IsRelease(FirstReleases[line])
    /\ Pins \subseteq OfKind({"input"})

(* Sources move forward: a later release of a line has no older artifact.     *)
ASSUME SourcesMoveForward ==
    \A r, s \in Releases : Line(r) = Line(s) /\ r <= s =>
        /\ \A kind \in Components : ~ Precedes(Contents[s][kind], Contents[r][kind])
        /\ Line(r) = "devel" =>
               /\ ~ Precedes(Contents[s].image, Contents[r].image)
               /\ ~ Precedes(Contents[s].download, Contents[r].download)

(* No artifact that is stored under the keys K is newer than those of release r. *)
IsNewest(r, K) ==
    /\ \A kind \in Components : \A g \in OfKind({kind}) :
           /\ <<g, "complete">> \in K
           /\ About[g].train = TrainOf(Line(r)) /\ About[g].arch = About[Contents[r][kind]].arch
           => ~ Precedes(Contents[r][kind], g)
    /\ Line(r) = "devel" =>
           /\ \A g \in OfKind(ReleaseImages) :
                  <<g, "complete">> \in K /\ About[g].channel # "stable" => ~ Precedes(Contents[r].image, g)
           /\ \A g \in OfKind({"download"}) :
                  <<g, "data">> \in K /\ About[g].train = DevelopmentTrain => ~ Precedes(Contents[r].download, g)

(* Artifacts, and what they were built against.                             *)
WithNeeds(built, A) == A \cup UNION {References(built, g) : g \in A}

ArtifactsOf(r) == ComponentsOf(r) \cup (IF Line(r) = "devel" THEN {Contents[r].image} ELSE {})
Startable(newest) == {r \in Releases : r >= newest[Line(r)]}

(* What a run that starts now would find stored and use again.               *)
Found(newest, K) == {g \in UNION {ArtifactsOf(r) : r \in Startable(newest)} : <<g, "complete">> \in K}

(* What the manifests and the aggregate release name.                        *)
Named(live, released) == Serving(live) \cup ImagesOf(released)

(* The behaviour starts with everything that it needs.                       *)
ASSUME FirstIsWhole ==
    /\ FirstBuilt \in [Groups -> OfKind({"system"}) \cup {NoGroup}]
    /\ \A r \in Startable(FirstReleases) : IsNewest(r, FirstObjects)
    /\ \A g \in WithNeeds(FirstBuilt, Found(FirstReleases, FirstObjects)
                                     \cup Named(FirstReleases, FirstReleases["devel"]))
               \cup DownloadOf(FirstReleases["devel"]) : Keys(g) \subseteq FirstObjects

-----------------------------------------------------------------------------
(* Properties *)

(* Everything devices and the next build can reach is whole: the System and    *)
(* Packages of each channel, the published images, what these were built      *)
(* against, the download files, and the inputs of a merged pin.  Candidates    *)
(* are computed from documents that were read before the publication or the    *)
(* merge that names them.                                                   *)
Live == WithNeeds(built_against, Named(channels, images)) \cup DownloadOf(images) \cup pinned
LiveIsWhole == \A g \in Live : Whole(g)

(* A run that found or uploaded an artifact still has it when it publishes.  *)
(* Nothing names the artifact before that, apart from the frozen cycle.       *)
Finished ==
    LET r == job.release IN
    CASE job.stage \in {"idle", "system"} -> {}
      [] job.stage = "packages" -> {Contents[r].system}
      [] job.stage = "images" -> ComponentsOf(r) \cup ImagesOf(r)
      [] OTHER -> ComponentsOf(r)
RunsKeepTheirArtifacts == \A g \in Finished : Whole(g)

(* "Every Stable artifact remains permanent": what a lock names, images of    *)
(* Stable, and the artifacts of earlier trains, though nothing refers to them, *)
(* from the moment its marker is there: a sweep may have listed it without.    *)
Permanent(g) ==
    \/ About[g].kind \in Components /\ (IsLocked(g, Locks) \/ About[g].train \notin {StableTrain, DevelopmentTrain})
    \/ About[g].kind \in ReleaseImages /\ About[g].channel = "stable"
StableIsPermanent ==
    [][\A k \in DOMAIN objects : Permanent(k[1]) /\ IsComplete(k[1]) => k \in DOMAIN objects']_vars

(* No key goes that a run has not recorded as that of a candidate             *)
(* MinimumInterval earlier, whatever became of the runs in between.          *)
NothingGoesUnannounced ==
    [][\A k \in DOMAIN objects \ DOMAIN objects' :
          k \in DOMAIN recorded /\ clock - recorded[k] >= MinimumInterval]_vars

(* Newer garbage does not restart the confirmation of a batch: while nothing   *)
(* of the recorded batch is protected or gone, the observation stands.        *)
BatchIsPinned ==
    [][observation' # observation /\ observation.batch # {}
         /\ observation.batch \subseteq observation'.batch
       => observation'.batch = observation.batch /\ observation'.count >= observation.count]_vars

=============================================================================
