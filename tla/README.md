# Verification of the FreeSense build and publication system

This directory holds a TLA+ model of `freesense-os-base`: of the parts that
several processes change at the same time (the object store that every job
shares, the signed channel manifests that devices read, the Development cycle,
the downloads, the retention that deletes), and of the decisions whose results
one job hands the next (what is built, what is reused, what is sealed and
released). TLC checks the models on small instances; TLAPS proves the central
safety properties for every value of the constants.

| Part | Modules |
|---|---|
| A storage backend's promise, and the two backends that keep it | `ConditionalStore`, `S3Client`, `LocalStore` |
| Publication of manifests | `Manifest`, `Channels` |
| The frozen Development cycle | `DevelopmentCycle` |
| What may be deleted, and the deletion beside publishing runs | `RetentionPlan`, `Retention` |
| What is taken from the mirror and what is built | `DeltaLayers` |
| Which packages of the last repository are used again | `PackageReuse` |
| Sharded builds and their checkpoints | `Farm` |
| Which components and images stand for which sources | `ComponentIdentity` |
| From a release lock to a live Stable release | `StableTrain` |
| Images and the documents that name them | `Downloads` |
| Proofs | `LocalStoreProofs`, `S3ClientProofs`, `ChannelsProofs`, `DevelopmentCycleProofs`, `RetentionProofs`, `ComponentIdentityProofs`, `StableTrainProofs`, `PlanningProofs` |
| Instances for TLC | `MC*` |

## 1. The system

FreeSense builds two components, System (the FreeBSD base and kernel) and
Packages, for amd64 and arm64. A *pair* of them is identified by a fingerprint
of its sources and gets one *generation*, a number that only the first builder
of that fingerprint reserves. GitHub workflows plan, build, verify and publish;
the Go program `fsbuild` does every step that changes shared state, through a
bucket of an S3-compatible store (Cloudflare R2), or a directory in tests and on
one host. Devices poll a signed *manifest* whose *channels* (devel, testing,
stable) name the System and the Packages to install, and refuse one whose
generation drops.

No process talks to another directly. Everything goes through objects in the
store, changed by two primitives: create an object if it is absent, and replace
it if it still has the ETag that was read. Artifacts and downloads are uploaded to
names whose content must never change, unconditionally after a look. Two writers
go without either: `release.yml` copies its document, and retention deletes by
name.

### Components

| Component | State | Operations | What is hard | Must hold |
|---|---|---|---|---|
| Backend interface (`internal/store/store.go`) | objects | Get, Head, PutIfAbsent, CompareAndSwap | concurrent callers | a conditional write is atomic; its answer is true |
| S3 client (`s3.go`) | attempt, unresolved create | signed requests, replays, HEAD probes | lost answers, late requests, conflicts | applied at most once; one creator; swaps are settled on return |
| Directory backend (`local.go`) | files, lock files | lock, read, rename, unlock | death of the holder, breaking stale locks | sections exclude each other; callers return |
| Manifests (`internal/control/control.go`) | channels of a manifest | SealStable, PublishTesting, Update, PreserveStable, ValidateDevelopmentPair | one document, three publishers | Stable immutable; Testing forward; one default |
| `fsbuild channel` (`cmd/fsbuild/main.go`) | manifest | get, mutate, swap, up to five times | races with Development commits | no lost update |
| Qualified publication (`qualified.go`) | manifest and release per architecture, legacy aliases | CommitRepositories, CommitQualified, CommitLegacyAMD64 | manifests signed hours before their commit | retained channels kept; generations forward |
| Aggregate commit (`multiarch.go`, `multiarch_prepare.go`) | `releases/devel.multiarch.json` | CommitMultiarch | runs after the two architectures | authoritative before its aliases |
| Development cycle (`development_cycle.go`, `development-multiarch.yml`) | `state/development-cycle.json` | resume, supersede, begin, mark | killed runs, racing marks, re-run jobs | frozen until complete; published means published |
| Generation reservation (`control.go`) | one object per fingerprint | ReserveGeneration | two reservers | first writer wins |
| Results (`cmd/fsbuild/main.go`) | `assembled.json`, `complete.json` | result check, result promote | crash between boot smoke and promotion | only smoked images are complete |
| Credential broker (`broker/src/index.js`) and client | cached keys | verify a token, sign credentials | overlapping key fetches | role matches workflow |
| Retention (`scripts/r2_retention.py`) | observation state | inventory, plan, confirm, delete, record | publication between inventory and deletion; half deletions | nothing live or in use is deleted; nothing unannounced |
| Planning (`scripts/*plan*.py`, `channel.py`) | completion markers | fingerprints, plans, selection | inputs that change and change back | what is reused is what would be built |
| Stable train (`stable_*.py`, `release_lock.py`, `stable.yml`) | locks, withdrawals, tags | refresh, gate, approve, seal, tag | time between gate and seal; re-run jobs | what is live is what its lock says, built as a candidate, soaked |
| Pin rotation and mirrors (`pin*.yml`, `mirror*.py`) | candidates, catalogues | collect, seal, fetch | partial sets of targets | one coherent pin; no package in neither layer |
| Delta closure, seeds, provenance (`delta_closure.py`, ...) | a repository and its provenance | graph closure, reuse | chains of dependents; reuse over many builds | least closed set; reuse is exact |
| Component farm (`component_farm.py`, `batch_checkpoint.py`) | checkpoints | shard, build, checkpoint, resume, collect | killed jobs, retries on other hosts | checkpoints are cumulative; nothing is missing from the merge |
| Image publication (`images_due.py`, `publish_download.py`, `publish_iso.sh`, `release.yml`) | release documents, downloads | due?, prepare, upload, swap or copy | half uploads, shared names, two writers | what a document names is there; releases go forward |
| VM runner (`scripts/runner/`) | one virtual machine, checkpoints | stages, smokes, upload, resume | killed anywhere | see the farm; the build itself is outside the model |

`PROJECT.json` lists the same components with their status, and every hazard we
know at the line where it bites.

### How the parts interact

    development-multiarch.yml                 stable.yml, testing.yml
      prepare: resume/supersede/begin cycle     seal-stable / publish-testing
      build, verify, sign manifest  ............ (live manifest is read here)
      publish repositories ----+                    |
      publish images ----------+--> repos.<arch>.manifest.json, releases/devel.<arch>.json
      cycle: mark published --> state/development-cycle.json
      component-farm.yml: shards --> checkpoints --> merged artifact, complete.json
    release.yml: images --> download files --> releases/<channel>*.json
    development-multiarch-publish.yml
      commit pair --> releases/devel.multiarch.json --> legacy aliases

Concurrency groups serialise jobs of one kind: `development-multiarch`
(Development runs and Testing), `release-control` (Stable candidates and seals),
`development-multiarch-publication` (the aggregate), `development-cycle-commit`
(marks), `r2-retention` (one retention run at a time). Jobs of different groups
interleave at every request. Any job can be cancelled, lose its runner, or be run
again.

## 2. The modules

### ConditionalStore

One object, and conditional writes that each take effect at most once, at one
moment, and only while their precondition holds. `Return` may answer only what
was true at some moment of the call: *created* says the object held the caller's
bytes while the call was open, *exists* that there was an object, *swapped* that
this call replaced it, *refused* that it did not. A call that failed promises
nothing; it may still take effect later. This last point is not an invention of
the model: a request whose connection broke may reach the service afterwards,
and the callers have to live with it.

### S3Client (`internal/store/s3.go`)

Each call is one `PutIfAbsent` or `CompareAndSwap`. `Send` puts a request on the
wire; the service applies it or declines it at any later moment (`Apply`,
`Decline`), and independently of that the client gets an answer or none
(`PossibleAnswers`). `Failed` is the error half of `doQuery`: a create is probed
when its answer is ambiguous or an earlier one still is (`Probe`, the HEAD of
`reconcileConditionalCreate`), otherwise sent again or given up (`Continue`,
`GiveUp`). `AllowedAttempts` is `s3ReplaySafe`. `Cancel` covers the end of the
context and the death of the process.

Abstractions: a read is one step with one answer, because its own retries change
nothing. An ETag stands for the content it was computed from. Status codes are
five classes: transport error, transient status, conflict (409), precondition
failed (412), rejected.

One behaviour deserves a note. `reconcileConditionalCreate` takes any object
with the requested bytes for its own, so two processes that create *equal* bytes
can both be told `created=true`. The comment at s3.go:452-455 says the probe
"keeps PutIfAbsent's created=true lease semantics". The code's callers write
bytes that identify what they mean (a generation record, a marker), for which it
is harmless; a caller that used an object as a lock would need bytes of its own.
The abstract store therefore promises only that the object held those bytes.

### LocalStore (`internal/store/local.go`)

`Acquire`, `Contend`, `StatStale`/`StatFresh`, `Break`, `Poll` are the loop of
`lock`; `Proceed`, `Conflict`, `Write`, `WriteError`, `Unlock` the body of the
two conditional writes. The rename is the only visible change. `Crash` kills a
process anywhere; `Age` turns the lock file of a *dead* process stale. A live
holder keeps the lock for one read and one rename, far below the hour after which
a lock is broken; a process suspended for an hour is not modelled.

### Manifest (`internal/control/control.go`, `qualified.go`)

The operations on a manifest as operators, without state: `SealStable`,
`PublishTesting`, `PreserveStable` (what is signed) and `MayReplace` (what
`putQualifiedDocument` accepts), each with its guard and with the case in which
the code finds its work already done (`SealIsRerun`, ...). A component is
represented by its generation, since one generation is reserved per fingerprint;
URLs, ABIs and timestamps follow from it. Old-schema manifests carry no Stable
and no Testing channel. Two manifests that differ only in timestamps or
signature are equal records; `CommitMultiarch` refuses a same-generation
document with other bytes, and the publication workflow skips such a pair before
it gets there (`StartAliases`).

### Channels

The publication jobs of amd64 over five documents. `lane` holds the running job
of each concurrency group; `Puts` is the order in which each kind of job writes
its documents. Each put is the loop every `fsbuild` command shares: `Get` (which
decides between done, refused and a swap), `Swap`, `Retry` when the document
changed meanwhile. A Development run signs its manifest in `StartCycle` or
`SignAgain`, next to the Stable and Testing channels that are live *then*, and
commits it in a later job. `Fail` cancels a job anywhere; a swap it had already
sent can land afterwards (`LateSwap`), exactly as `ConditionalStore` lets a
failed call take effect later. `StaleReruns` allows the image job of an older
run to be run again while its artifacts are kept.

`Channels` uses `CompareAndSwap` and `PutIfAbsent` as atomic steps. That is what
the refinements of the two backends justify.

arm64 runs the same jobs without legacy documents, so it adds no interleaving
that amd64 has not.

### DevelopmentCycle (`development_cycle.go`, `development-multiarch.yml`, `publish-qualified-development.yml`)

A run looks at the cycle document, supersedes it if it was planned at another
revision or on request, resumes it if it is unfinished, and otherwise plans and
begins a new one (`Supersede`, `Resume`, `Begin`). Its publish jobs succeed or
fail (`Publish`), and each successful one is followed by a cycle job that reads
the document, sets the flags of its architecture with jq and calls
`CommitDevelopmentCycle` (`Mark`, then `Get`/`Swap`/`Retry`). `Refused`,
`ReplanComplete`, `Resumes` and `Merged` are the decisions of that function.
System, Packages and Published are always set together, so one flag stands for
the three. `RerunMark` is GitHub's "re-run failed jobs" on an older run.

`clock` gives every reservation a proposal of its own: `date +%s` with runs
serialised. `StartRun` drops requests that are still on the way. This is an
assumption: a run takes longer to reach its first mark than the 30 minutes after
which the client of a killed job gives up (s3.go:77). It matters: without it
`NoMarkLost` fails, by a killed replan of a *completed* cycle that lands after
the next run, of the unchanged plan, found its marks in place;
`FrozenUntilComplete` and `CycleNeverBackwards` hold without it as well.

### RetentionPlan and Retention (`scripts/r2_retention.py`, `images_due.py`, `retention.yml`)

`RetentionPlan` holds `plan_retention` and `confirmation` as operators over an
inventory. `Roots` is the union of what is protected for its own sake (the live
cycle, releases with a lock, unknown trains, Stable images, the newest of each
rolling line, mirrors, bundles, everything a signed document names); `Protected`
adds what these were built against, `Eligible` is what is old enough and not
protected, `Batch` the part of it that one run is about, `Confirm` and `Ready`
the two observations.

`Retention` runs it: `ListBuild` lists the build bucket; `PlanAndConfirm` reads
documents and the downloads later and decides (`Observe` or `Plan`); `Delete` sends one request
of `BatchSize` keys in key order; `Record` writes the observation only at the
end; `DeleteFails` and `SweepFails` stop anywhere, a request half done included.
Beside it a Development and a Testing line begin cycles, find or upload an
artifact file by file, sign, commit, publish images if these are due, or are
abandoned. A pin rotation's archives are uploaded before its pull request is
merged (`MergePin`). Packages are stored under a fingerprint that does not contain the
System they were built against, so a later run uses them again beside another System;
their marker names the first (`built_against_system`, worker-common.sh:1114), which
retention keeps as long as it keeps them. The variable `built_against` is that field.

What the model assumes and the code does not enforce: a run, from listing to its
last deletion, takes less than one tick of the clock, and so does an upload from
first file to marker; an artifact an abandoned run left half uploaded is
completed, and a pin merged, within the orphan grace period, or not at all.
Release locks do not change (a withdrawal only removes a reason to keep). The
constants are assumed to describe releases (`ReleasesAreReleases`): of the train of
their line, with an image of their own System and Packages. A later release of a line
has no older artifact (`SourcesMoveForward`), and the behaviour starts with everything
that it needs and nothing stored that is newer than the releases to come
(`FirstIsWhole`).

What we met while modelling it:

* A half-uploaded artifact that is resumed *after* its grace period can lose its
  files to a sweep that planned before, and then get its marker.
  docs/credential-broker.md:47-48 calls failed partial uploads safe "because
  `complete.json` is always last"; here it is the late marker that lies.
* The confirmation compares keys (credential-broker.md:60), so an artifact that
  was deleted and built again is a candidate whose first observation is that of
  its predecessor. `NothingGoesUnannounced` is about keys for this reason, and
  `CompletedGrace` protects the new one in practice.
* A request that fails half way can leave `complete.json` without data. Keys are
  sorted, the marker of an artifact is behind its files; with one request per
  bucket the failure has to be R2's. `LiveIsWhole` holds all the same, because
  what is deleted is not live and the group stays a candidate.
* Sources that go back reuse components that retention has every reason to
  delete. Release 6 of `MCRetention` is such a release; the run leaves it out, and
  `SourcesMoveForward` excludes it. Only
  the cycle document protects what it uses ("Retention protects ...
  incomplete-cycle component and checkpoint namespaces",
  docs/development-multiarch.md:110-112), and a sweep that planned before that
  document was written deletes it afterwards: with 3 and 6 in `Releases` and without
  that assumption, `RunsKeepTheirArtifacts` fails.
* `document_hashes`, compared in r2_retention.py:804-817, is never filled by
  `snapshot`, so the comparison there never rejects anything. Bundles are counted
  per release but images are stored per architecture, so `keep` counts across
  architectures. README.md:85 says
  that four Development builds are kept; the workflow passes `--keep-devel 3`.

### DeltaLayers (`package_requirements.py`, `delta_closure.py`, `binary_seed.py`, `mirror_plan.py`)

Evaluating the ports tree (`Visit`), classifying what must be built for its own
sake (`Classify`), closing it under dependents (`Pop`), selecting the official
packages of the older binary seed (`Select`, `Reject`) and sealing the mirror
plan (`Seal`); then what a worker builds from the sealed plan (`Assemble`). Work lists
are sets taken in any order. The input is a ports tree
with a catalogue; `MCLayers` enumerates trees of four ports with every mix of
ways a port can differ from upstream, be ambiguous or share a path.

A bulk list names paths, and a path without a flavor builds its default flavor:
`Listed` (`write_delta_bulk`) maps each path to the port that it *builds*, which need not
be the package that the plan took out of the mirror. `Queue` is what Poudriere, an
external part, resolves from that list: what a port needs, or only what it links if the
mirror or the System repository has its package (`Fetched`; a package of another version
is built again). `Verified` is `verify_delta_build`. An empty list, or a package that is in
neither list of the plan, fails the build and leaves nothing. `Available` is what there is
for the Packages component in the end, the System's repository included.

`NothingIsLost` says that what a component reaches is then there, and names the one way
in which it is not: a package of another flavor than its path's default, when the
default flavor's package is one that the plan allows and no root itself. The code
refuses the case in which two packages of a component share a path; it does not see the case of a lone one
(see "Disagreements found"). Left out here: the check of the finished repository (packages.sh:190-203
compares names and versions of dependencies; a missing package that nothing links passes
it), ports that the architecture policy leaves out, the source-only exceptions of
single ports (net/norm, libzmq4), and the renaming of packages (delta_suffix.py).

`SeedIsSound` has an exception that the code's comment does not: the seed
compares OPTIONS, the delta the fact that make.conf sets them. A port whose
override equals upstream's default is taken by the seed and built by the delta
(runner/stages/system.sh:186-189, "It is a superset computed from the same
signed catalogue").

### PackageReuse (`package_provenance.py`, `freesense_reuse.py`)

A repository, the provenance recorded with it, and the trees that change below:
`Edit`, `SelectSeed`, `BuildRepository`. `Provenance` is the digest a package is
compared by, `Made` what a build of the trees gives, both over the whole of what a
package stands on (`Over`). What a kernel module is built against is part of
`Made` and not of its digest, which only says that it is one (`Modules`: the name ends in -kmod, or
the category is kld; package_provenance.py:115). That a stale one is never published therefore
rests on `Reusable` refusing it. Poudriere's own check (it
drops a seeded package of another version and whatever needs it) is external; `Kept` is
the largest part of the seed that survives it.

`NothingRebuiltForARelease` states when a package must be kept; a *patched* one is no
exception. docs/development-multiarch.md:30-32 says that it is; the comment at
freesense_reuse.py:43-49 says why it is not.
package_requirements.py:137 knows a kernel module by `USES=kmod` instead; a port with that and
neither name nor category is a module to the delta and none to the reuse. `Modules` takes
the reuse's definition to be right.

### Farm (`component_farm.py`, `partition_roots.py`, `batch_checkpoint.py`, `worker-common.sh`)

`Partition` and `Batches` divide the roots; each job then works through its
batches: `Start` (resume from the latest checkpoint), `Build`, `Verify` against
the checkpoint before, `Upload` package by package, `Complete` with the marker;
`Kill` anywhere. `Finalize` merges the latest checkpoint of every job. A package
that is built again has other bytes. Batches are numbered from 1 (from 0 in the
code) and are the sets of their roots: every attempt of a job computes the same plan, in the
same order. `RootsGiven` says what `partition` and `batches` accept.

### ComponentIdentity (`plan.py`, `multiarch_plan.py`, `channel.py`, `staged_system_closure.py`, `runner-build.yml`)

A fingerprint is the record that is hashed: `PinId`, `PlatformId`, `SystemId`,
`PackagesId`. `SystemReads` and `PackagesReads` are what the workers read
(worker-common.sh, stages/*.sh), written down independently of the fingerprints;
`ReuseIsExact` relates the two. Images select their components from a channel
(`Selected`) or by name (`Staged`).

One input is outside the comparison on purpose: Development fingerprints do not
name `development_version` (plan.py:441-451), although worker-common.sh:216
writes it into the sources. `SystemReads` says "rolling" for it. That Packages
are independent of the System they were built against is by design: `Publish`
pairs them with any.

### StableTrain (`release_lock.py`, `stable_refresh.py`, `stable_gate.py`, `stable_farm_plan.py`, `tag_release.py`, `stable.yml`)

`main` is the sequence of commits with their locks, withdrawals, pin and recipe.
`Merge` is any pull request, a hand written lock included; `Refresh` and
`MergeProposal` the scheduled one. A pull request is opened from *some* commit of main,
`CheckSet` and `CheckChange` compare its tree with that one, and what reaches main is
what git merges of it and the newest commit (`Merged`; `Conflict` is refused). The check
that runs once more after the push to main only reports, and is left out. `Plan` is
the gate of a candidate or seal run at *some* commit of main; `BuildSystem`,
`BuildPackages` complete candidates, `BuildTesting` a nightly of the same
sources; `Approve` and `Seal` come any time later, `RunAgain` re-runs the failed
jobs of the last approved run; `Tag` tags one repository at a time. A run that is
cancelled can leave the swap of its seal on the way (`EndRun`), which is applied
over what it had read or not at all (`LateSwap`), at the latest when the next run ends: a
run lasts longer than the client's requests (s3.go:77).

`SoakBetweenSeals` has three exceptions. A lock may carry an override; the gate
runs once per run, so re-run jobs seal without it; and the swap of a cancelled seal may
put the earlier release there after the later one's gate had looked (`unseen`), which the gate has no way
to see (without this exception TLC finds it). Beyond the property: the soak
is counted between manifests of one kind (a seal that reached the legacy manifest
and died leaves the qualified one as old as it was; arm64 is sealed by its own
job); a release that is withdrawn while its seal waits for approval is sealed
all the same; a proposal that was superseded is never raised again even if it is
right again.

### Downloads (`publish_download.py`, `publish_iso.sh`, `release.yml`)

The images of one channel on amd64. `Plan` reserves a generation for a bundle,
`Build` builds or finds its images, `Prepare` makes the document against the live
one; then a direct run of `release.yml` uploads and copies (`HeadObject`,
`PutObject`, `Copy`, `CopyAlias`), while a Development run keeps the document and
a later job uploads and swaps it (`Publish`, `CommitQualified`), followed by the
aggregate's alias (`Aggregate`, `CommitLegacy`). File names carry the release an
image was first built for, so bundles of one pair share names.

`release-control` serialises direct runs; a Development run's publish job is in
`development-multiarch`. A dispatched recovery can therefore run beside it, and
then both properties fail (we checked): `head-object` and `put-object` are two
requests ("refusing to overwrite a conflicting downloads object",
publish_iso.sh:50), and the copy has no condition ("development download
generation cannot move backwards", publish_download.py:702, was checked earlier).
The history variable `beside` exempts exactly those behaviours. A recovery is
numbered by its run, or one above the live release, and so leaves the live release
with a generation below its pair's (`Misnumbered`); publishing an earlier run's
document over it, by its publish job run again, is the other exception. It takes
the release back a version: the run of an earlier pair keeps its document and its
publish job fails; the images of the next pair, of the next version, fail and are
recovered under number 1; the earlier job, run again, has the higher generation and
no version is compared any more (qualified.go:145; "download cannot move backwards",
publish_download.py:694, is asked when a document is prepared). Without the
exception TLC finds this. `CommitQualified` puts the release document first and
the manifest last, so that job fails on the manifest with the release already
replaced. Further: a run
killed after part of its upload blocks a later bundle of the same pair, day and
generation until the old job is run again. Requests of a killed job are assumed
not to outlive the next job's upload.


## 3. What is checked

Each row is a run of `PROJECT.json`; every property has a mutant there, a
plausible bug in the code under which the run fails. Deadlock checking is off in
all of them because the modelled systems really stop: every call has been made,
every job started, or every bounded counter used up.

| Run | Instance | Properties |
|---|---|---|
| `s3_client` | 2 calls, 2 contents, 2 attempts, all requests, answers and delays | AppliedAtMostOnce, OneCreator, SettledBeforeReturn, ImplementsConditionalStore, EveryCallReturns |
| `local_store` | 3 processes that do not die, 2 contents | ExclusiveSection, PutIfAbsentAtomic, ImplementsConditionalStore |
| `local_crash` | 3 processes that may die | EveryCallReturns |
| `channels_stable` | 2 Stable versions and a rewrite of the first, 1 cycle, a killed job, re-run image jobs | SealedStaysSealed, AliasesFollowCommit, StableOnlyAdvances |
| `channels_testing` | 2 nightlies, 1 seal, 1 cycle for a new or an older pair, four manifests live at the start | ManifestsAgree, AtMostOneDefault, TestingOnlyAdvances, QualifiedDevelAdvances |
| `cycle` | 3 runs, 2 pairs, 2 revisions, 2 attempts, a kill, re-run cycle jobs | PublishedUnlessRerun, NoMarkLost, FrozenUntilComplete, CycleNeverBackwards |
| `retention` | 2 runs of 5 releases on 2 lines, 3 ticks, requests of 2 keys, batches of 4 | LiveIsWhole, RunsKeepTheirArtifacts, StableIsPermanent, NothingGoesUnannounced |
| `planning` | see below | 16 properties of six modules |

**S3 client.** `AppliedAtMostOnce`: however often a create is sent, the service
applies one copy. `OneCreator`: of all creates of a key, one takes effect.
`SettledBeforeReturn`: a swap that was answered, won or lost, has nothing left
on the way that could change the manifest behind its caller's back.
`ImplementsConditionalStore`: the whole client is a `ConditionalStore`, so a
probe never lies. `EveryCallReturns`: no combination of ambiguous answers and
failing probes keeps a call going.

**Directory backend.** `ExclusiveSection` and `PutIfAbsentAtomic` are the lock's
purpose, `ImplementsConditionalStore` what a caller sees of it, and
`EveryCallReturns` says a dead process's lock file does not stop the others.

**Channels.** `StableOnlyAdvances` and `TestingOnlyAdvances` say of every single
write, by whatever job and signed against whatever it had read, that a published
Stable version is neither rewritten nor dropped and Testing is not rolled back.
`SealedStaysSealed` says it of the result: what a successful seal published is
in both manifests until a newer version is. `ManifestsAgree`: with no job
running and none that failed, the two manifests amd64 devices read agree.
`AliasesFollowCommit`: the legacy aliases are never ahead of the aggregate commit
point. `AtMostOneDefault`: a device never has a choice of defaults.
`QualifiedDevelAdvances`: even for sources that return to an earlier pair, the
qualified manifest's Development generation does not drop.

**Cycle.** `PublishedUnlessRerun`: a cycle claims only what was committed for
devices under its generation, unless the cycle job of an older run was run again
(`cycle_rerun` shows what that does). `NoMarkLost`: a cycle job that reported
success is visible to its run, although two architectures and a killed job's
late request write whole copies of the document. `FrozenUntilComplete`: nothing
but completion or supersession changes an unfinished cycle's inputs or takes a
status back. `CycleNeverBackwards`: its generation never drops.

**Retention.** `LiveIsWhole`: whatever manifests, release documents and merged
pins name, and what that was built against, is there with every file, although
candidates were computed from documents read before the last publication.
`RunsKeepTheirArtifacts`: a run that found or uploaded an artifact still has it
when it publishes, while nothing public names it. `StableIsPermanent` ("Every
Stable artifact remains permanent", README.md:84): releases with a lock, Stable
images and frozen trains outlive everything that referred to them.
`NothingGoesUnannounced`: no key goes that was not recorded as a candidate
`MinimumInterval` before, whatever failed in between. That newer garbage does not restart the
confirmation of a recorded batch (`BatchIsPinned`) is proved and is in no run.

**Planning.** Six machines that hand each other files only and share no variable.
`MCPlanning` puts them side by side, a behaviour being one of a single machine; what
each promises is stated in its module. It extends `StableTrain`, so that the assumptions of that module are evaluated,
instantiates the others, and has `MCInit`, `MCNext` and `MCSpec`.

| Machine | Instance | Properties |
|---|---|---|
| `DeltaLayers` | every tree of `MCLayers`: 4 ports in up to 8 ways each, 12 link graphs, shared paths of either default, ceilings that some pass | LayersAreExact, SeedIsSound, NothingIsLost |
| `PackageReuse` | a core package, a library, a tool, a port with the product's version and a kernel module; two values of everything | RepositoryIsFresh, NothingRebuiltForARelease |
| `Farm` | 3 roots on 2 shards with every sharing of two ports, with jobs of 2 attempts where they are built | ShardsAreBalanced, CheckpointsAreCumulative, CollectionIsComplete |
| `StableTrain` | 2 releases, up to two merges to main from any commit there is, one more commit of a source, 2 times, soak 1, one nightly; at most three of these and of completed pairs | TagsNameWhatIsLive, SealsAreCandidates, SoakBetweenSeals, MainIsAppendOnly |
| `ComponentIdentity` | 2 edits of any of 10 inputs, 3 stored components, 3 lines, 2 architectures | ReuseIsExact, ImagesAreOneBase |
| `Downloads` | 3 Stable and 5 Development bundles that share pairs, images or names, of 2 versions, 4 jobs | DownloadsHoldTheRelease, ReleasesOnlyAdvance |

`LayersAreExact`: what is built is the *least* set closed under dependents of what
must be, in any order of the work lists. `SeedIsSound`: the older seed is complete
by itself and never takes what the delta builds. `NothingIsLost`: once a component is
built, a package falls between the layers only where the default flavor of its path was
built in its place. `RepositoryIsFresh`: a
build that starts from a seed publishes what a build from nothing would have,
however old the seeded packages are, and kernel modules for its kernel;
`NothingRebuiltForARelease`: and a package is built again for a reason only: something that it is
made from differs, down to the last, or its version is not its port's, or it is coupled to
a kernel, or it depends on one that is built again. `ShardsAreBalanced`: related roots stay
together, heavy ones alone, no shard is ahead by more than cannot be divided.
`CheckpointsAreCumulative` and `CollectionIsComplete`: whatever is killed and
rebuilt with other bytes, later checkpoints keep the earlier ones, and what the
finalizer merges has every root once. `TagsNameWhatIsLive`: locks, tags and live
manifests of one number agree for ever; `SealsAreCandidates`: nothing goes live
that the candidates of its release did not complete; `SoakBetweenSeals`: two
releases in the qualified manifest are the soak time apart; `MainIsAppendOnly`: whatever
pull requests are merged, each checked against the commit it came from, main never loses a
lock or a withdrawal, its patch numbers have no gap, and what is withdrawn has a lock.
`ReuseIsExact`: a
component whose fingerprint is stored was made from what a build now would read;
`ImagesAreOneBase`: an image never joins components of two bases, mirrors, trains
or architectures. `DownloadsHoldTheRelease`: what a live document names is stored
under its URL; `ReleasesOnlyAdvance`: a release is not taken back nor given other
images.

### Disagreements found

Four runs end in a counterexample and are listed under "findings". Each checks
one statement that a comment or document of the repository makes.

* `local_stale`: two waiters that both found a dead process's lock stale. The
  first removes it and takes the lock; the second removes *that* lock and takes
  it as well. Both find the object absent, and both create it. The check for
  staleness and the removal are two steps (local.go:209-210).
* `channels_devel`: an architecture's release carries its cycle's generation,
  its manifest the generations of its components. `CommitLegacyAMD64` compares
  the former with the latter (qualified.go:145), so after sources returned to an
  earlier pair the alias `repos.manifest.json` moves below what devices have.
* `cycle_rerun`: the cycle job marks whichever cycle is live. Run again after a
  newer cycle began, it claims a publication that did not happen.
* `farm_rerun`: a job killed between the first package of a batch and its marker.
  The next attempt lists the directory as the latest batch, finds no marker and
  stops, with a completed batch before it in the store
  (worker-common.sh:582; docs/development-multiarch.md:166).

Others are visible in the models without a run of their own:

* Sealing a second version of a manifest with no Development channel leaves no
  default, because the Stable channel being replaced counts as the default that
  stands (control.go:141; "Devices need exactly one default channel",
  control.go:188). `AtMostOneDefault` is the half that holds.
* An earlier pair reserves its old generation again, and the new cycle is refused
  as moving backwards though the live one is finished (development_cycle.go:114
  against 83-85). Every later run of those sources is refused too.
* A manifest created by a first Stable seal has no devel channel and refuses every
  Development pair (`MayReplace`; qualified.go:127-130), while control.go:538-539
  expects devel to become the default "as soon as rolling development is
  published".
* A root that is a flavor of its port, built by FreeSense, and linked by
  no package that is built, is listed by its port's path, whose default flavor is built;
  where the plan allows that flavor's package (otherwise `verify_delta_build` fails loudly),
  the build is accepted, and the root is in neither layer: the exception of `NothingIsLost`,
  without which TLC finds it. component_roots looks for two packages on one path only
  (mirror_plan.py:121-126), while mirror_plan.py:4-6 promises "every package in FreeSense's
  dependency closure that FreeSense does not build itself". With the DEFAULT_VERSIONS of today
  the one such root (security/phpseclib@php85, config/multiarch-shards.json:20) is the default.
* A port that has files/ is seeded when nothing of it changed (freesense_reuse.py:42-52),
  while docs/development-multiarch.md:30-32 says "Patched, kernel-sensitive, changed, or
  transitively affected packages rebuild". The document is behind: the code's comment
  explains why such a port needs no rule. `NothingRebuiltForARelease` states what the code does.
* Those named under Retention, DeltaLayers, StableTrain and Downloads above.

### Bounds, and why they are enough

* *Attempts*: 5 in the code, 1 to 2 here. One replay is enough to have a late
  first request, a probe that is wrong by then and a second answer; more attempts
  repeat the same states. The proofs hold for every number.
* *Calls and processes*: two racing writers show every pairwise race; breaking a
  stale lock takes three (one dead, two waiting). The proofs hold for any number.
* *Contents*: two, so that a probe can find its own and another's bytes.
* *Generations*: one cycle beyond what is live, two where sources must go forward
  and back (`channels_devel`). Live manifests at the start stand for the history
  before.
* *Runs* of a cycle: three, for a cycle that is begun, superseded or completed,
  followed by one of another pair, followed by the first pair again.
* *Failures*: one, which leaves at most one late request. `Retention`, `Farm` and
  `Downloads` may fail at every step without a bound.
* *Retention*: two runs, so that one ends and another begins inside a sweep; three
  times, so that a batch is observed, confirmed and followed by another sweep;
  requests of 2 keys so that a batch of 4 takes two; every `keep` is 1, so
  that one publication makes garbage. One of the releases uses Packages again that
  another built against a System of its own.
* *Farm*: shards of one and two batches; two attempts, so that one can be killed in
  any state the other left.
* *StableTrain*: the release that is locked at the start and one more, so that both
  are live one after the other. Two merges to main are enough to have a pull request merged
  into another commit than it was checked on, one to add a lock, withdraw, rotate the pin or
  change the recipe between plan and seal. What happens around the train is bounded together
  (`Within` of `MCPlanning`); the proofs hold without it.
* *ComponentIdentity*: two edits, so that an input goes and comes back, or two
  differ at once.
* *Downloads*: four jobs: prepare a release, publish it, prepare another and
  publish or recover it. Five hold as well.

Symmetry is used for pairs and revisions in the cycle runs, which check no
liveness; nowhere else. `planning` has 1.8 million states and takes three minutes,
`retention` 0.6 million and takes one to two; the others take up to two minutes.

### Fairness

`S3Client`: weak fairness of each call's own steps only. The service is not
assumed to answer, for the client's `await` can always end in a transport error:
`http.Client` has a timeout (s3.go:77). `LocalStore`: weak fairness of each process and of
the clock. The lock loop polls, so a waiter is not guaranteed the lock against
an unbounded stream of newcomers; each call is made once, hence finitely many
get ahead of it. No other module claims liveness: nothing in the code guarantees
that a job is ever run, or run again.

## 4. What is proved

All theorems hold for every value of the constants that the named assumptions
allow: the sentinel for an absent object is not a content, attempts are at least
one, requests name existing versions and pairs.

**LocalStoreProofs.** `Exclusion`, `Atomicity` and `Refinement` for any number of
processes, assuming no process dies (`~MayCrash`; `local_stale` shows that the
assumption is needed), and `TypeCorrect` without it. The inductive invariant is

* `LockInv`: exactly one call is inside when there is a lock file, none
  otherwise, and no lock file is stale, so nobody is about to break one;
* `DataInv`: a call that is about to write still sees the object it compared;
* `CallInv`: the result a call carries to its unlock is true.

Exclusion alone is not inductive: it needs that only the holder removes the lock
file. The refinement maps `Write` to `TakeEffect`, the unlock to `Return`, and
everything else to a stutter.

**S3ClientProofs.** `AtMostOnce`, `Atomicity` (`OneCreator`), `Settled`,
`TypeCorrect` and `Refinement`, for any number of calls and attempts. The inductive
invariant is

* `WireInv`: requests are sent in order and only as many as the kind allows, so
  a swap has one;
* `ObjectInv`: an object that a create made never becomes absent again, which is
  why a second copy or a second creator finds its precondition gone;
* `AnswerInv`: an answered swap has a request that was applied or declined.

`AppliedAtMostOnce` for creates and `OneCreator` need each other and `ObjectInv`.
The refinement adds `SeenInv`: an open call has seen the object as it is, and its own
bytes once one of its requests was applied, so that no probe, HEAD or answer makes it
say what is not so (`ClientAnswers`). The service's `Apply` is the abstract
`TakeEffect`, the client's last step is `Return`, everything else a stutter.
The type invariants of both backends are proved and not run.

**ChannelsProofs.** Two invariants. `IInv` gives `StableImmutable` and
`TestingForward`, for any requests, pairs, attempts, cancelled jobs and re-runs:
every pending swap is *sound*, the document it would put in advances the document
it read (`SwapInv`, for running jobs and for swaps of dead ones), and a swap is
applied only to the document it read. `ReplacementSound` proves the first half
from `keepRetained`, `SealStable` and `PublishTesting`; `DocsAdvance` the second.

`RInv` (`Retained`) is about the results of jobs:

* `SealInv`, `RetainInv`: what a successful seal published is in the manifest, and
  whatever a job, a signed document or a late swap would put there has it too.
  A publication signed before the seal is not an exception: it is refused, because
  it would drop what is live. Gives `SealedIsPermanent`.
* `AgreeInv`: as long as no Stable or Testing job failed, the two manifests differ
  in at most what the running job has not written yet. Gives
  `ManifestsStayInAgreement`.
* `AliasInv`: only an aggregate job that committed goes on to the aliases. Gives
  `AliasesAfterCommit`.
* `ProperInv`: a channel that is not in a manifest has no pair. This is why
  `ChannelsAssumption` asks it (`Proper`) of the manifests at the start: it says how
  the record represents a missing map entry, not what may be live.

`DefaultStaysUnique` has as hypothesis that the manifests at the start have one
default at most. `QualifiedDevelForward` has the hypothesis of its run: no job is
cancelled and none of an older run is run again. Without it the property fails:
the late swap of a dead repositories job of a newer cycle can land after the
repositories of the cycle that took over, whose image job then takes the
generation back.

**DevelopmentCycleProofs.** `NeverBackwards`, `Frozen`, `PublishedMeansCommitted`,
`MarksStay`, for any number of runs, pairs, revisions, attempts and killed jobs.
Every running or late swap leads forward from the document it read (`SwapInv`), and
a swap is applied only to that document. A status, in the document or in a copy on
the way, stands for a publication under its generation (`ClaimInv`, `JobInv`). Unless
a job of an older run is run again, the document and all copies on the way are of
the going run's cycle and keep every status they read (`PrepareInv`, `WorkInv`), so
a mark whose job reported success is in the document (`MarkInv`).
`MarksStay` is the hard one: both
architectures write the whole document, and what saves the other's mark is that the
swap fails and the retry reads again.

**RetentionProofs.** `PermanentStays`, `Announced`, `Pinned`, `ReachableStays`,
`RunsKeep`, for any objects,
releases, locks, numbers to keep and grace periods, and any interleaving with the
publishing runs. A sweep works from a list that is old; the invariant says how old
knowledge relates to what is there (`ListedInv`): a listed object is unchanged, and
a marker that was not listed was put beside a file younger than the orphan grace
period. A permanent artifact is a root as soon as its marker is listed
(`MarkedIsProtected`), so it can be a candidate only as a single old file without
marker (`CandidateIsOrphan`), which nobody completes any more (`LeftInv`). The
assumptions stated for `Retention` in section 2 enter here: a sweep takes less than
a tick, and what is older than the grace period is not completed.

`ReachableStays` and `RunsKeep` are `LiveIsWhole` and `RunsKeepTheirArtifacts`. Neither
is inductive: a run may publish what it found stored and never built, so what has to
be whole is everything live *and* everything the next run would use again, each with
what it was built against (`Reachable`, `ReachableInv`). A sweep spares that although
its list is old (`SparedInv`), for three reasons. What the manifests, the aggregate
release or the cycle name is a root. What a release still to come would use again is
the newest of its kind (`NewestInv`), because sources move forward, and the newest of
a kind is kept whatever the number to keep. And a marker that the list lacks stands
beside a file too young to be a candidate; the System that such Packages were built
against is not superseded by anything listed (`UnlistedInv`), so it is kept as the
newest System, although the sweep did not see who refers to it. The assumptions on
the releases enter here; without `SourcesMoveForward` the second property is false,
as section 2 says.

The attempt to prove an earlier form of `NothingGoesUnannounced`, about artifacts,
failed, and TLC then found the behaviour at other bounds: an artifact that is
deleted and at once built again goes on its predecessor's observation. The digest
is over keys; so is the property now.

**ComponentIdentityProofs.** `ReusedAsPlanned`, `OneBase`, for any architectures,
any number of edits and any size of the store. Every completion marker was written
by a plan and says what it read (`MarkerInv`); two plans with one fingerprint read
the same, since the fingerprint contains or determines everything the build reads
(`SystemIdTells`, `PackagesIdTells`); so it does not matter which plan stored it.

**StableTrainProofs.** `TagsNameTheRelease`, `SealsHaveCandidates`, `Soaks`, `MainAppends`, for any
number of repositories, releases, commits and runs and any soak time, under
`TrainAssumption` (os-base is tagged apart from the repositories of a lock). What a
run read stays true however long it waits for approval: main is only appended to
and no commit changes a lock that is there (`MainInv`), so the lock of a run's own
commit is the lock of the newest (`RunInv`); candidates are not taken away; what is
live was sealed by such a run (`LiveInv`), and what is tagged is what its lock says
(`TagInv`). That no merge changes a lock holds although the check compares with an older
commit: the locks of that commit are among those of the newest, and git takes a file that
the pull request did not touch from the newest (`MergedIs`). Likewise the newest numbers
have no gap: the pull request's set has none by itself, so it can add the first number that its own
commit lacks only. For the soak (`SoakInv`): between a run's gate and its end
only the run itself seals, or a swap of the run before it is applied, which
`unseen` remembers; what such a swap would put there passed the gate of its own run, over the
manifest that it still needs to find.

**PlanningProofs.** The theorems of `ComponentIdentityProofs` for the composition that TLC runs.
A step of `MCPlanning` is a step of one machine and leaves the variables of the
others alone, so an invariant of a machine is one of the composition; `MCPlanning`
instantiates that module of proofs, so that its lemmas can be cited. Besides, for
the other machines, whose constants are constants of `MCPlanning`:

* `LeastClosure`, `SeedIsComplete`, `LossesAreFlavors`, for any ports trees in
  which a port needs what it links (`LinksAssumption`: DEPENDENCY_FIELDS contains the
  two that are links) and a path builds one of its own ports (`DefaultsAssumption`), and
  any ceilings. A linked name is that of a port that was or
  will be visited (`RequirementsInv`); the closure lacks no dependents but those of
  packages on the stack, and lies in every set that is closed under dependents
  (`ClosureInv`). That the mirror holds what the seed holds needs no induction over
  paths: the accepted packages that reach no overridden one can be left out of a set
  that is closed under dependents, and so are not in the least. For `LossesAreFlavors`:
  a member that is not taken is listed by its path; no other root has that path, since the
  plan was sealed; the port that the path builds is in the queue, and its name is one
  that the plan allows, since the build was accepted (`AssembledInv`). Either it is the member's
  own package, or it is the supplanting one that the property names.
* `BuildsAreFresh`, `RebuildsHaveReasons`, for any packages without a cycle
  (`AcyclicAssumption`: package_provenance.py:124 refuses one) under
  `CoreAssumption`: a core package that something depends on does not take the
  product's version. Nothing that Poudriere builds depends on a core package, which
  is no port; test_package_provenance.py:140 makes one up. The published repository
  always is what *some* trees make, recorded as that (`ReuseInv`). Digest and content
  are one recursion, `Over`, on different inputs: `WholeExists` shows that it has a
  solution, `WholeUnique` that equal inputs give equal wholes, both from a
  counterexample none of whose dependencies is one (`Smallest`), since induction
  theorems cannot be instantiated. The kept packages and the core packages below them
  have equal inputs, versions included, because Poudriere drops what is out of date.
* `CheckpointsKeepPackages`, for any policies and any number of attempts. The
  checkpoints of a job have no gap and each keeps what every earlier one has
  (`MarkersInv`); a job that uploads was compared with the checkpoint before, and
  that one stands (`UploadsInv`). A job that was killed and resumes from the latest
  directory cannot write behind a checkpoint that is there, since a marker is never
  replaced.
* `ShardsBalance`, for any roots, any closures and any costs that are not negative
  (`PoliciesAssumption`, which is what `partition` and `batches` accept). The folds of
  the community modules are recursive functions chosen by their equation: `FoldExists`
  shows that there is one, by induction over the size of a finite set (`Induct` and
  `SubsetInduct` take a set instead of a predicate, so they can be cited), and
  `PrefixFold` that it takes a sequence in its order; likewise a sort is chosen among
  sequences, and `EnumerationExists` shows that there is one. After each root the
  groups share nothing with each other and cannot be divided further
  (`Grouped`), whatever the order; at the end they are the classes of related roots
  (`RelatedIsGroup`). After each group a shard is ahead of any other by no more than
  the cost of any group on it (`Balanced`): a group goes where there is least, and
  none that was placed before it costs less (`InOrder`). With the groups taken in
  another order, or dealt out in turn, this is not inductive, and not true.
* `CollectionCompletes`, under the same assumption. What `Cut` keeps open and what it
  has closed are together the roots it has seen (`CuttingHolds`), so the last batch of
  a job is all that it is to build (`PlanIs`), and the jobs are to build every root
  once (`MembersAre`). A job holds what its batch is to have, a marker and an uploaded
  package are of a batch of the plan, and a job is done only with the marker of
  its last batch (`Owed`, `PlannedInv`): the latest directory that the finalizer finds
  is that one, although directories of later runs and of killed ones lie beside it.
* `LiveImagesAreStored`, for any number of jobs and any bundles with an image
  (`BundlesAssumption`; publish_download.py:522 wants an installer first). `JobsInv`: every
  image of a document was built, so its name is final. `HeldInv`: what a job has
  uploaded so far is stored, what it is about to put has a name that nothing has, of
  the two groups that may put one runs at a time, and the aggregate publication finds
  everything stored. Hence no put overwrites an object (`PutObjectKeeps`), although
  `put-object` has no condition. A recovery beside a publish job breaks the third
  part, which is why the property excepts it.
* `ReleasesAdvance`, under `VersionsAssumption`: of two pairs the later one has
  sources whose version is no lower, since the generation of a pair is the second in
  which it was first planned (development-multiarch.yml:206). Every document of a
  Development run has the generation of its pair (`OfRun`), a live one the version
  and pair of some bundle (`Named`), and what a direct job is about to copy was newer
  than the live release when it was prepared and still is (`Newer`), because nobody
  else may commit meanwhile. The attempt found the exception: for a live release
  numbered below its pair a higher generation says nothing about the pair.

### Only model-checked

* `EveryCallReturns`: liveness is out of the prover's reach.

## 5. Not modelled

* Signatures, hashes, URLs, ABIs and timestamps: carried along, never decided on
  in a way the properties could see. A document that fails verification stops its
  job, which `Fail` covers.
* `channel update` and `verify` of the single-architecture manifest; `blob` and
  `credentials`: one step each on immutable data, or none on shared state.
* Promotion of results (`assembled.json`, smoke, `complete.json`) and the broker's
  key cache: small machines, next in the plan.
* Pin rotation up to its merge, the cutting and fetching of mirrors, observation of
  catalogues: one job each, whose content is what an external service serves. The
  overlays that `pin-mirrors.yml` records are those of its own start, the mirror
  is cut from those of a later run; a hazard, but not a state of this model.
* `migrate_downloads.py` (done once), the hardware-verified profile (no workflow
  passes it), release notes, the validation of single document fields.
* The second architecture of the aggregate commit, and the retry of an alias
  refresh that died after the commit point: the next run skips the pair as
  committed (development-multiarch-publish.yml:98-103), so the aliases stay
  behind until a newer pair.
* The build itself, the virtual machine it runs in, and static validation of the
  repository's own files.

## 6. Plan

1. `ConditionalStore`, the two backends, their refinement and proofs (done).
2. `Manifest`, `Channels`, `DevelopmentCycle`, first proofs (done).
3. `RetentionPlan`, `Retention` (done).
4. `DeltaLayers`, `PackageReuse`, `Farm`, `ComponentIdentity` (done).
5. `StableTrain`, `Downloads` (done).
6. Proofs of the cycle, the channels, the Stable train, component identity, the
   retention, the refinement of the S3 client, the layers, the reuse of
   packages, the farm's shards, checkpoints and collections, the images and the order
   of releases (done).
   These modules declare no recursive operator for that reason.
7. Promotion of results over `ConditionalStore`; the broker's key cache; the
   overlays of a mirror; both architectures of the aggregate release.

## 7. Running it

    tlc -workers 2 -config MCS3Client.cfg MCS3Client     # any run of PROJECT.json
    tlapm LocalStoreProofs.tla                           # any module of proofs
