------------------------------ MODULE Channels ------------------------------
(***************************************************************************)
(* Publication of one architecture (amd64): Stable seals, Testing          *)
(* nightlies, Development repository and image publication and the legacy  *)
(* aliases, all writing the same mutable documents with get and            *)
(* compare-and-swap.  The workflows serialise jobs by concurrency group;   *)
(* jobs of different groups interleave at every read and every write, jobs *)
(* fail and are cancelled anywhere, and a swap a job gave up on may still  *)
(* land.                                                                   *)
(*                                                                         *)
(*   qualified      repos.amd64.manifest.json                              *)
(*   legacy         repos.manifest.json                                    *)
(*   release        releases/devel.amd64.json                              *)
(*   multiarch      releases/devel.multiarch.json, the aggregate commit    *)
(*   legacyRelease  releases/devel.json                                    *)
(*                                                                         *)
(* arm64 has no legacy documents and runs the same jobs without them.      *)
(***************************************************************************)
EXTENDS Manifest, Sequences

CONSTANTS Pairs,           \* the System/Packages pairs sources can resolve to
          FirstGeneration, \* generation of the newest cycle at the start
          MaxGeneration,   \* bound: the newest cycle started
          StableSeals,     \* Stable requests: [version, pair] records of release locks
          TestingBuilds,   \* Testing requests: [version, pair] records
          MaxAttempts,     \* attempts of a get / compare-and-swap loop (5 in the code)
          MaxFailures,     \* bound: jobs cancelled or killed midway
          StaleReruns,     \* whether the image job of an older run may be run again
          LiveManifests    \* manifests that can be live at the start

Request(r) == DOMAIN r = {"version", "pair"} /\ r.version \in Nat \ {0} /\ r.pair \in Pair

\* Before the current schema there was only the Development channel.
CanBeLive(m) ==
    /\ m \in ManifestType
    /\ m.schema = "v2" => ~HasStable(m) /\ ~HasTesting(m)

\* What is not in a manifest has no pair.
Proper(m) ==
    /\ ~HasStable(m) => m.stable = NoPair
    /\ ~HasTesting(m) => m.testing = NoPair

ASSUME ChannelsAssumption ==
    /\ MaxGeneration \in Nat /\ FirstGeneration \in Nat
    /\ MaxAttempts \in Nat \ {0} /\ MaxFailures \in Nat
    /\ StaleReruns \in BOOLEAN
    /\ \A p \in Pairs : p \in Pair /\ p.system # 0 /\ p.packages # 0
    /\ \A r \in StableSeals \cup TestingBuilds : Request(r)
    /\ \A m \in LiveManifests : CanBeLive(m) /\ Proper(m) /\ pairGeneration(m.devel) <= FirstGeneration

VARIABLES docs,         \* the mutable documents
          generation,   \* generation of the newest Development cycle
          signed,       \* documents signed by Development runs (run artifacts)
          committed,    \* those whose repositories job succeeded
          released,     \* those whose image job succeeded
          lane,         \* the job each concurrency group is running
          stray,        \* swaps of dead jobs that may still be applied
          failures,     \* jobs cancelled so far
          sealed,       \* history: requests of Stable jobs that succeeded
          broken        \* history: a Stable or Testing job ended without success

runVars == <<generation, signed, committed, released>>
results == <<committed, released, sealed, broken>>
vars == <<docs, runVars, lane, stray, failures, sealed, broken>>

Manifests == {"qualified", "legacy"}
Releases  == {"release", "multiarch", "legacyRelease"}

Release == [generation : Nat, pair : Pair]
NoRelease == [generation |-> 0, pair |-> NoPair]

\* A signed Development manifest and the generation of the cycle it is for.
Signed == [manifest : ManifestType, generation : Nat]
NoSigned == [manifest |-> EmptyManifest, generation |-> 0]

\* The concurrency groups: development-multiarch (Development runs and Testing),
\* release-control, and development-multiarch-publication.
Lanes == {"development", "releaseControl", "publication"}

Group(kind) ==
    CASE kind \in {"repositories", "images", "testing"} -> "development"
      [] kind = "stable"  -> "releaseControl"
      [] kind = "aliases" -> "publication"

\* Mutants: the aliases go before the commit point; the loop over both manifests
\* does one.
AliasesFirst(kind) ==
    CASE kind \in {"stable", "testing"} -> <<"legacy", "qualified">>
      [] kind = "repositories"          -> <<"qualified", "legacy">>
      [] kind = "images"                -> <<"release", "qualified">>
      [] kind = "aliases"               -> <<"legacyRelease", "legacy", "multiarch">>

LegacyOnly(kind) ==
    CASE kind \in {"stable", "testing"} -> <<"legacy">>
      [] kind = "repositories"          -> <<"qualified", "legacy">>
      [] kind = "images"                -> <<"release", "qualified">>
      [] kind = "aliases"               -> <<"multiarch", "legacyRelease", "legacy">>

\* The documents a job puts, in order.
Puts(kind) ==
    CASE kind \in {"stable", "testing"} -> <<"legacy", "qualified">>
      [] kind = "repositories"          -> <<"qualified", "legacy">>
      [] kind = "images"                -> <<"release", "qualified">>
      [] kind = "aliases"               -> <<"multiarch", "legacyRelease", "legacy">>

Kinds == {"stable", "testing", "repositories", "images", "aliases"}

NoRequest == [version |-> 0, pair |-> NoPair]

Idle ==
    [kind |-> "idle", request |-> NoRequest, signed |-> NoSigned, step |-> 0,
     phase |-> "read", attempt |-> 0, read |-> NoRelease, next |-> NoRelease]

Doc(l) == Puts(lane[l].kind)[lane[l].step]

\* The generation a Development job publishes its manifest with: CommitRepositories
\* takes it from the components, CommitQualified from the release document.
PutGeneration(job) ==
    IF job.kind = "repositories" THEN pairGeneration(job.signed.manifest.devel)
    ELSE job.signed.generation

ReleaseOf(job) ==
    [generation |-> job.signed.generation, pair |-> job.signed.manifest.devel]

(***************************************************************************)
(* What a job makes of the document it has read                            *)
(***************************************************************************)
\* The document already is what the job publishes.
Unchanged(job, d, old) ==
    CASE job.kind = "stable"  -> SealIsRerun(old, job.request.version, job.request.pair)
      [] job.kind = "testing" -> TestingIsRerun(old, job.request.version, job.request.pair)
      [] d \in Releases -> old = ReleaseOf(job)
      [] OTHER -> \/ old = job.signed.manifest
                  \/ ReplaceIsRerun(old, job.signed.manifest, PutGeneration(job))

\* The job may replace it.
Permitted(job, d, old) ==
    CASE job.kind = "stable"  -> MaySealStable(old, job.request.version)
      [] job.kind = "testing" -> MayPublishTesting(old, job.request.version, job.request.pair)
      [] d \in Releases -> job.signed.generation > old.generation
      [] OTHER -> MayReplace(old, job.signed.manifest, PutGeneration(job))

Replacement(job, d, old) ==
    CASE job.kind = "stable"  -> SealStable(old, job.request.version, job.request.pair)
      [] job.kind = "testing" -> PublishTesting(old, job.request.version, job.request.pair)
      [] d \in Releases -> ReleaseOf(job)
      [] OTHER -> job.signed.manifest

(***************************************************************************)
(* Starting a job                                                          *)
(***************************************************************************)
Init ==
    /\ \E m \in LiveManifests :
          docs = [d \in Manifests \cup Releases |-> IF d \in Manifests THEN m ELSE NoRelease]
    /\ generation = FirstGeneration
    /\ signed = {} /\ committed = {} /\ released = {}
    /\ lane = [l \in Lanes |-> Idle]
    /\ stray = {}
    /\ failures = 0
    /\ sealed = {}
    /\ broken = FALSE

Begin(kind, request, s) ==
    /\ lane[Group(kind)] = Idle
    /\ lane' = [lane EXCEPT ![Group(kind)] =
                   [Idle EXCEPT !.kind = kind, !.request = request, !.signed = s, !.step = 1]]
    /\ UNCHANGED <<docs, runVars, stray, failures, sealed, broken>>

StartStable == \E r \in StableSeals : Begin("stable", r, NoSigned)

StartTesting == \E r \in TestingBuilds : Begin("testing", r, NoSigned)

\* A Development run of a new cycle.  Each component was first built by it or,
\* where the sources went back to an earlier fingerprint, by an earlier cycle.
\* Its job signs the pair next to what the live manifest holds at that moment.
Sign(pair, g) == [manifest |-> PreserveStable(docs["qualified"], pair), generation |-> g]

StartCycle ==
    /\ generation < MaxGeneration
    /\ lane["development"] = Idle
    /\ generation' = generation + 1
    /\ \E pair \in Pairs :
          /\ pairGeneration(pair) <= generation'
          /\ signed' = signed \cup {Sign(pair, generation')}
    /\ UNCHANGED <<docs, committed, released, lane, stray, failures, sealed, broken>>

\* The current cycle run again signs its pair next to what is live now.
SignAgain ==
    /\ lane["development"] = Idle
    /\ \E s \in signed :
          /\ s.generation = generation
          /\ signed' = signed \cup {Sign(s.manifest.devel, generation)}
    /\ UNCHANGED <<docs, generation, committed, released, lane, stray, failures, sealed, broken>>

StartRepositories ==
    \E s \in signed : s.generation = generation /\ Begin("repositories", NoRequest, s)

\* Images follow the repositories of their run.  A failed image job can be run
\* again while the artifacts of its run are kept.
StartImages ==
    \E s \in committed :
        /\ s.generation = generation \/ StaleReruns
        /\ Begin("images", NoRequest, s)

\* After a successful run with images, unless its pair is the commit point
\* already: the live documents must be that run's before the aggregate commit.
StartAliases ==
    \E s \in released :
        /\ docs["multiarch"] # [generation |-> s.generation, pair |-> s.manifest.devel]
        /\ docs["qualified"] = s.manifest
        /\ docs["release"] = [generation |-> s.generation, pair |-> s.manifest.devel]
        /\ Begin("aliases", NoRequest, s)

(***************************************************************************)
(* The get / compare-and-swap loop of each put                             *)
(***************************************************************************)
With(set, element, condition) == IF condition THEN set \cup {element} ELSE set

Done(l, ok) ==
    /\ lane' = [lane EXCEPT ![l] = Idle]
    /\ committed' = With(committed, lane[l].signed, ok /\ lane[l].kind = "repositories")
    /\ released' = With(released, lane[l].signed, ok /\ lane[l].kind = "images")
    /\ sealed' = With(sealed, lane[l].request, ok /\ lane[l].kind = "stable")
    /\ broken' = (broken \/ (~ok /\ lane[l].kind \in {"stable", "testing"}))

\* The put is done: go on to the next document, or end.
Advance(l) ==
    IF lane[l].step < Len(Puts(lane[l].kind))
    THEN /\ lane' = [lane EXCEPT ![l].step = @ + 1, ![l].phase = "read", ![l].attempt = 0,
                                 ![l].read = NoRelease, ![l].next = NoRelease]
         /\ UNCHANGED results
    ELSE Done(l, TRUE)

Get(l) ==
    LET old == docs[Doc(l)] IN
    /\ lane[l] # Idle
    /\ lane[l].phase = "read"
    /\ CASE Unchanged(lane[l], Doc(l), old) -> Advance(l)
         [] ~Unchanged(lane[l], Doc(l), old) /\ Permitted(lane[l], Doc(l), old) ->
               /\ lane' = [lane EXCEPT
                     ![l].phase = "write", ![l].attempt = @ + 1,
                     ![l].read = old, ![l].next = Replacement(lane[l], Doc(l), old)]
               /\ UNCHANGED results
         [] OTHER -> Done(l, FALSE)
    /\ UNCHANGED <<docs, generation, signed, stray, failures>>

\* Mutant: a put without If-Match.
Overwrite(l) ==
    /\ lane[l] # Idle
    /\ lane[l].phase = "write"
    /\ docs' = [docs EXCEPT ![Doc(l)] = lane[l].next]
    /\ Advance(l)
    /\ UNCHANGED <<generation, signed, stray, failures>>

\* PutIfAbsent, or CompareAndSwap with the ETag that was read.
Swap(l) ==
    /\ lane[l] # Idle
    /\ lane[l].phase = "write"
    /\ docs[Doc(l)] = lane[l].read
    /\ docs' = [docs EXCEPT ![Doc(l)] = lane[l].next]
    /\ Advance(l)
    /\ UNCHANGED <<generation, signed, stray, failures>>

\* ErrPrecondition: look again, up to a bound ("refusing a lost update").
Retry(l) ==
    /\ lane[l] # Idle
    /\ lane[l].phase = "write"
    /\ docs[Doc(l)] # lane[l].read
    /\ IF lane[l].attempt < MaxAttempts
       THEN /\ lane' = [lane EXCEPT ![l].phase = "read",
                                    ![l].read = NoRelease, ![l].next = NoRelease]
            /\ UNCHANGED results
       ELSE Done(l, FALSE)
    /\ UNCHANGED <<docs, generation, signed, stray, failures>>

(***************************************************************************)
(* Failures                                                                *)
(***************************************************************************)
\* The job is cancelled or its runner dies; a swap on its way is not recalled.
Fail(l) ==
    /\ lane[l] # Idle
    /\ failures < MaxFailures
    /\ failures' = failures + 1
    /\ \/ UNCHANGED stray
       \/ /\ lane[l].phase = "write"
          /\ stray' = stray \cup
                {[doc |-> Doc(l), read |-> lane[l].read, next |-> lane[l].next]}
    /\ Done(l, FALSE)
    /\ UNCHANGED <<docs, generation, signed>>

\* It is applied only if the document still has the ETag it names.
LateSwap ==
    \E w \in stray :
        /\ docs[w.doc] = w.read
        /\ docs' = [docs EXCEPT ![w.doc] = w.next]
        /\ stray' = stray \ {w}
        /\ UNCHANGED <<runVars, lane, failures, sealed, broken>>

Next ==
    \/ StartStable
    \/ StartTesting
    \/ StartCycle
    \/ SignAgain
    \/ StartRepositories
    \/ StartImages
    \/ StartAliases
    \/ \E l \in Lanes : Get(l) \/ Swap(l) \/ Retry(l) \/ Fail(l)
    \/ LateSwap

Spec == Init /\ [][Next]_vars

(***************************************************************************)
(* Properties                                                              *)
(***************************************************************************)
\* A published Stable version is never rewritten, dropped or moved backwards, by
\* any job, however its signing and its swap interleave with a seal
\* (SealStable, keepStable).
StableOnlyAdvances ==
    [][\A d \in Manifests : StableAdvances(docs[d], docs'[d])]_docs

\* Neither is Testing: a Development manifest signed before a nightly was
\* published and committed after it must not roll the nightly back (keepRetained).
TestingOnlyAdvances ==
    [][\A d \in Manifests : TestingAdvances(docs[d], docs'[d])]_docs

\* The Development pair amd64 devices update from never loses a generation, as
\* long as jobs run to their end and no image job of an older run is run again:
\* the repositories of a run are ahead of its images (putQualifiedDocument).
QualifiedDevelAdvances ==
    [][DevelAdvances(docs["qualified"], docs'["qualified"])]_docs

\* control.go:159-162, devices "refuse a selected channel whose generation
\* drops": so it drops in neither manifest a device can read.
DevelopmentAdvances ==
    [][\A d \in Manifests : DevelAdvances(docs[d], docs'[d])]_docs

\* What a successful Stable job sealed stays sealed, in both manifests, until a
\* newer version is.
SealedStaysSealed ==
    \A r \in sealed : \A d \in Manifests :
        \/ docs[d].stableVersion > r.version
        \/ docs[d].stableVersion = r.version /\ docs[d].stable = r.pair

\* The two manifests amd64 devices read ("seal both identically") agree on Stable
\* and Testing whenever no job is writing them and no such job has failed.
ManifestsAgree ==
    (\A l \in Lanes : lane[l] = Idle) /\ ~broken =>
        /\ docs["legacy"].stableVersion = docs["qualified"].stableVersion
        /\ docs["legacy"].stable = docs["qualified"].stable
        /\ docs["legacy"].testingVersion = docs["qualified"].testingVersion
        /\ docs["legacy"].testing = docs["qualified"].testing

\* CommitLegacyAMD64 "advances the compatibility aliases only after the caller
\* has committed the aggregate pair".
AliasesFollowCommit ==
    docs["legacyRelease"].generation <= docs["multiarch"].generation

\* A device never finds two default channels, and never Testing by default.
AtMostOneDefault ==
    \A d \in Manifests :
        /\ "testing" \notin docs[d].default
        /\ ~{"devel", "stable"} \subseteq docs[d].default
=============================================================================
