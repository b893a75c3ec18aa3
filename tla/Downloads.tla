----------------------------- MODULE Downloads -----------------------------
(***************************************************************************)
(* The images of one channel and architecture, and the document that names    *)
(* them for the website and for devices (scripts/publish_download.py,          *)
(* publish_iso.sh, and the jobs of release.yml, publish-qualified-             *)
(* development.yml and development-multiarch-publish.yml that call them).        *)
(*                                                                         *)
(* A bundle is a set of images of one System/Packages pair.  Its images are      *)
(* built once per fingerprint and named after the release they were first built  *)
(* for.  A document is prepared against the live one, its images are uploaded     *)
(* to names that must not hold anything else, and only then it goes live: by a   *)
(* forward-only swap in a Development run, by a plain copy in release.yml.        *)
(***************************************************************************)
EXTENDS Naturals, Sequences, FiniteSets

CONSTANTS
    Bundles,    \* [channel, version, generation: of the pair, day: of the commit,
                \*  images: fingerprints, the installer first]
    MaxJobs     \* bound: jobs that are started

VARIABLES
    channel,    \* "stable" or "devel": nothing is shared between the two
    device,     \* the pair of the live manifest, by its generation
    release,    \* releases/<channel>.amd64.json
    alias,      \* releases/<channel>.json
    objects,    \* the downloads bucket: URL -> the image stored there
    reserved,   \* bundle -> the generation reserved for it
    built,      \* image -> the label its file names carry
    lane,       \* the running job of each group
    kept,       \* documents that Development runs keep as artifacts
    published,  \* those whose publish job succeeded
    jobs,
    beside      \* history: a recovery ran beside a Development run's publish job

vars == <<channel, device, release, alias, objects, reserved, built, lane, kept, published, jobs, beside>>

None == [generation |-> 0, images |-> <<>>]
Idle == [step |-> "idle"]
Lanes == {"control", "publish", "aggregate"}

Goto(l, step) == lane' = [lane EXCEPT ![l].step = step]
End(l) == lane' = [lane EXCEPT ![l] = Idle]

-----------------------------------------------------------------------------
(* Documents.                                                                *)

\* release_file_prefix: how the files of an image are named when it is built.
release_file_prefix(b, generation) ==
    IF b.channel = "stable" THEN <<b.version>> ELSE <<b.version, b.day, generation>>

\* development_identity: the label of the installer, if it is of this release.
release_id(b, generation) ==
    LET label == built[b.images[1]]
    IN  CASE b.channel = "stable" -> <<b.version>>
          [] b.channel = "devel" /\ label[1] = b.version /\ label[3] = generation -> label
          [] OTHER -> <<b.version, generation>>

\* public_artifact_url: a release's directory, then the image's own file name.
Url(document, image) == <<document.id, image[1], built[image]>>

\* Mutant: the version of the live release is not compared.
RefusedRewrites(b, generation, existing) ==
    /\ existing # None
    /\ existing.version = b.version
    /\ \/ b.channel = "stable" /\ existing.images # b.images
       \/ b.channel = "devel" /\ generation < existing.generation
       \/ /\ b.channel = "devel" /\ generation = existing.generation
          /\ existing.images # b.images /\ existing.pair # b.generation

\* Why main gives up on the live release.
Refused(b, generation, existing) ==
    /\ existing # None
    /\ \/ b.version < existing.version
       \/ /\ existing.version = b.version
          /\ \/ b.channel = "stable" /\ existing.images # b.images
             \/ b.channel = "devel" /\ generation < existing.generation
             \/ /\ b.channel = "devel" /\ generation = existing.generation
                /\ existing.images # b.images /\ existing.pair # b.generation

\* A later cycle of a pair that is live at this generation: its first images stand.
FirstImagesStand(b, generation, existing) ==
    /\ existing # None /\ b.channel = "devel"
    /\ existing.version = b.version /\ existing.generation = generation
    /\ existing.images # b.images /\ existing.pair = b.generation

Document(b, generation, existing) ==
    IF FirstImagesStand(b, generation, existing) THEN existing
    ELSE [version |-> b.version, generation |-> generation, pair |-> b.generation,
          id |-> release_id(b, generation), images |-> b.images]

-----------------------------------------------------------------------------
Init ==
    /\ channel \in {b.channel : b \in Bundles}
    /\ device = 0 /\ release = None /\ alias = None
    /\ objects = <<>> /\ reserved = <<>> /\ built = <<>>
    /\ lane = [l \in Lanes |-> Idle]
    /\ kept = {} /\ published = {} /\ jobs = 0 /\ beside = FALSE

\* The run number is far below any generation of a pair.
Proposed(b, direct) ==
    LET number == IF direct /\ channel = "devel" THEN 1 ELSE b.generation
    IN  IF release.generation >= number THEN release.generation + 1 ELSE number

\* A Development run keeps its group from its plan to its publish jobs.
DevelopmentBusy ==
    \/ lane["publish"] # Idle
    \/ lane["control"] # Idle /\ ~lane["control"].direct

Start(l, job) ==
    /\ lane[l] = Idle /\ jobs < MaxJobs
    /\ jobs' = jobs + 1
    /\ lane' = [lane EXCEPT ![l] = job]

\* iso-plan: by a Development run, whose pair devices have by then or refuse,
\* or directly, for a sealed Stable release or to recover the images of the live pair.
Plan(b, direct) ==
    /\ b.channel = channel
    /\ channel = "stable" => direct
    /\ IF direct THEN channel = "devel" => b.generation = device ELSE ~DevelopmentBusy
    /\ Start("control", [step |-> "images", bundle |-> b, direct |-> direct, next |-> 1])
    /\ device' = IF b.generation > device THEN b.generation ELSE device
    /\ beside' = (beside \/ (direct /\ lane["publish"] # Idle))
    /\ reserved' = [x \in DOMAIN reserved \cup {b} |->
                       IF x \in DOMAIN reserved THEN reserved[x] ELSE Proposed(b, direct)]
    /\ UNCHANGED <<channel, release, alias, objects, built, kept, published>>

\* An image that has a completion marker is not built again.
Build ==
    /\ lane["control"].step = "images"
    /\ LET job == lane["control"]
           image == job.bundle.images[job.next]
           label == release_file_prefix(job.bundle, reserved[job.bundle])
       IN  /\ built' = [x \in DOMAIN built \cup {image} |-> IF x \in DOMAIN built THEN built[x] ELSE label]
           /\ lane' = [lane EXCEPT !["control"] =
                  IF job.next = Len(job.bundle.images) THEN [job EXCEPT !.step = "prepare"]
                  ELSE [job EXCEPT !.next = job.next + 1]]
    /\ UNCHANGED <<channel, device, release, alias, objects, reserved, kept, published, jobs, beside>>

\* A Stable release and a Development run name the pair's generation, a recovery
\* the one reserved for the bundle.
Generation(job) ==
    IF job.direct /\ channel = "devel" THEN reserved[job.bundle] ELSE job.bundle.generation

Upload(document, direct) ==
    [step |-> "upload", document |-> document, direct |-> direct, next |-> 1]

\* publish-download: the document is uploaded at once, or kept for the run's
\* publish job.
Prepare ==
    /\ lane["control"].step = "prepare"
    /\ LET job == lane["control"]
           document == Document(job.bundle, Generation(job), release)
       IN  IF Refused(job.bundle, Generation(job), release)
           THEN End("control") /\ UNCHANGED kept
           ELSE IF job.direct
           THEN lane' = [lane EXCEPT !["control"] = Upload(document, TRUE)] /\ UNCHANGED kept
           ELSE End("control") /\ kept' = kept \cup {document}
    /\ UNCHANGED <<channel, device, release, alias, objects, reserved, built, published, jobs, beside>>

\* The publish job of a Development run, or that job again for an older run.
Publish(document) ==
    /\ document \in kept /\ ~DevelopmentBusy
    /\ Start("publish", Upload(document, FALSE))
    /\ beside' = (beside \/ lane["control"] # Idle)
    /\ UNCHANGED <<channel, device, release, alias, objects, reserved, built, kept, published>>

\* The aggregate publication follows a run that succeeded.
Aggregate(document) ==
    /\ document \in published
    /\ Start("aggregate", Upload(document, FALSE))
    /\ UNCHANGED <<channel, device, release, alias, objects, reserved, built, kept, published, beside>>

-----------------------------------------------------------------------------
(* publish_iso.sh                                                             *)

Image(l) == lane[l].document.images[lane[l].next]

\* Mutant: whatever is stored under the name is taken for the image.
AnythingMatches(l) == Url(lane[l].document, Image(l)) \in DOMAIN objects

\* The stored object has the size and the SHA-256 of the image.
Matches(l) ==
    /\ Url(lane[l].document, Image(l)) \in DOMAIN objects
    /\ objects[Url(lane[l].document, Image(l))] = Image(l)

Uploaded(l) ==
    LET job == lane[l] IN
    lane' = [lane EXCEPT ![l] =
        IF job.next < Len(job.document.images)
        THEN [job EXCEPT !.step = "upload", !.next = job.next + 1]
        ELSE [job EXCEPT !.step = "commit"]]

\* head-object; an object that does not match ends the job.
HeadObject(l) ==
    /\ lane[l].step = "upload"
    /\ IF Matches(l) THEN Uploaded(l)
       ELSE IF Url(lane[l].document, Image(l)) \in DOMAIN objects THEN End(l)
       ELSE Goto(l, "put")
    /\ UNCHANGED <<channel, device, release, alias, objects, reserved, built, kept, published, jobs, beside>>

\* put-object has no condition.
PutObject(l) ==
    /\ lane[l].step = "put"
    /\ LET url == Url(lane[l].document, Image(l)) IN
       objects' = [u \in DOMAIN objects \cup {url} |-> IF u = url THEN Image(l) ELSE objects[u]]
    /\ Uploaded(l)
    /\ UNCHANGED <<channel, device, release, alias, reserved, built, kept, published, jobs, beside>>

-----------------------------------------------------------------------------
(* The commit.                                                               *)

\* putQualifiedDocument of a release: forward, or the pair that is there.
Refuses(live, document) ==
    \/ document.generation < live.generation
    \/ document.generation = live.generation /\ document.pair # live.pair

Replaced(live, document) == IF document.generation > live.generation THEN document ELSE live

\* The manifest of the document's pair is put last; devices that are past the pair
\* have the job fail, although the release was replaced.
CommitQualified ==
    /\ lane["publish"].step = "commit"
    /\ LET document == lane["publish"].document
       IN  IF Refuses(release, document) THEN UNCHANGED <<release, published>>
           ELSE /\ release' = Replaced(release, document)
                /\ published' = published \cup {d \in {document} : d.pair >= device}
    /\ End("publish")
    /\ UNCHANGED <<channel, device, alias, objects, reserved, built, kept, jobs, beside>>

CommitLegacy ==
    /\ lane["aggregate"].step = "commit"
    /\ LET document == lane["aggregate"].document
       IN  alias' = IF Refuses(alias, document) THEN alias ELSE Replaced(alias, document)
    /\ End("aggregate")
    /\ UNCHANGED <<channel, device, release, objects, reserved, built, kept, published, jobs, beside>>

\* aws s3 cp, first of the architecture's document, then of the legacy one.
Copy ==
    /\ lane["control"].step = "commit"
    /\ release' = lane["control"].document
    /\ Goto("control", "copy alias")
    /\ UNCHANGED <<channel, device, alias, objects, reserved, built, kept, published, jobs, beside>>

CopyAlias ==
    /\ lane["control"].step = "copy alias"
    /\ alias' = lane["control"].document
    /\ End("control")
    /\ UNCHANGED <<channel, device, release, objects, reserved, built, kept, published, jobs, beside>>

\* A job is cancelled or loses its runner.
Fail(l) ==
    /\ lane[l] # Idle
    /\ End(l)
    /\ UNCHANGED <<channel, device, release, alias, objects, reserved, built, kept, published, jobs, beside>>

Next ==
    \/ \E b \in Bundles, direct \in BOOLEAN : Plan(b, direct)
    \/ Build \/ Prepare
    \/ \E document \in kept : Publish(document)
    \/ \E document \in published : Aggregate(document)
    \/ \E l \in Lanes : HeadObject(l) \/ PutObject(l) \/ Fail(l)
    \/ CommitQualified \/ CommitLegacy \/ Copy \/ CopyAlias

Spec == Init /\ [][Next]_vars

-----------------------------------------------------------------------------
(* Whatever a live document names can be downloaded and is what it names,        *)
(* although bundles of one pair share names and a killed job leaves half of its  *)
(* images behind (the order of release.yml, and head-object in publish_iso.sh),  *)
(* unless a recovery runs beside a publish job: head-object and put-object are    *)
(* two requests.                                                             *)
DownloadsHoldTheRelease ==
    beside \/ \A document \in {release, alias} \ {None} : \A n \in 1..Len(document.images) :
        LET image == document.images[n]
        IN  /\ Url(document, image) \in DOMAIN objects
            /\ objects[Url(document, image)] = image

Advances(old, new) ==
    \/ old = None
    \/ new.version > old.version
    \/ /\ new.version = old.version
       /\ \/ new.images = old.images /\ (channel = "devel" => new.generation >= old.generation)
          \/ channel = "devel" /\ new.generation > old.generation

\* A recovery is numbered by its run or after what was live (release.yml:336), and
\* may leave the live release a generation below the one of its own pair.
Misnumbered == release # None /\ release.generation < release.pair

(* A published release is never taken back to an earlier one nor given other      *)
(* images (the checks of publish_download.py and putQualifiedDocument), unless a  *)
(* recovery, which copies without a condition, runs beside a publish job, or a     *)
(* pair no later than that of a misnumbered release is published over it.          *)
Forward ==
    \/ release' = release \/ Advances(release, release') \/ beside'
    \/ Misnumbered /\ release'.pair <= release.pair

ReleasesOnlyAdvance == [][Forward]_vars
=============================================================================
