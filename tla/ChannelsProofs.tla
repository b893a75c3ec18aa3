--------------------------- MODULE ChannelsProofs ---------------------------
(***************************************************************************)
(* Proofs about Channels, for every set of pairs and requests and however  *)
(* jobs of different groups interleave, fail and leave swaps behind.       *)
(***************************************************************************)
EXTENDS Channels, TLAPS

DocNames == Manifests \cup Releases
DocType  == ManifestType \cup Release

\* What a run artifact, or the empty one, holds.
Artifacts == {s \in Signed : s.manifest.schema = "v3"}

JobType ==
    [kind : Kinds \cup {"idle"}, request : StableSeals \cup TestingBuilds \cup {NoRequest},
     signed : Artifacts, step : 0..3, phase : {"read", "write"}, attempt : Nat,
     read : DocType, next : DocType]

DocTyping ==
    /\ docs \in [DocNames -> DocType]
    /\ \A d \in Manifests : CanBeLive(docs[d])
    /\ \A d \in Releases : docs[d] \in Release
    /\ generation \in Nat
    /\ signed \subseteq Artifacts

LaneTyping ==
    /\ lane \in [Lanes -> JobType]
    /\ committed \subseteq Artifacts /\ released \subseteq Artifacts
    /\ \A l \in Lanes : lane[l] # Idle =>
          /\ lane[l].kind \in Kinds
          /\ lane[l].kind \in {"stable", "testing"} => lane[l].request \in StableSeals \cup TestingBuilds
          /\ lane[l].step \in 1..Len(Puts(lane[l].kind))

\* A swap that is applied to what it read only advances the document.
Sound(d, read, next) ==
    /\ d \in Manifests =>
          /\ read \in ManifestType /\ next \in ManifestType
          /\ next.schema = "v3"
          /\ StableAdvances(read, next)
          /\ TestingAdvances(read, next)
    /\ d \in Releases =>
          /\ read \in Release /\ next \in Release
          /\ next.generation > read.generation

SwapInv ==
    /\ \A l \in Lanes :
          lane[l] # Idle /\ lane[l].phase = "write" => Sound(Doc(l), lane[l].read, lane[l].next)
    /\ \A w \in stray : w.doc \in DocNames /\ Sound(w.doc, w.read, w.next)

\* What the steps of a job make of its record.
LEMMA JobGoesOn ==
    ASSUME NEW j \in JobType, NEW n \in 0..3, NEW x \in DocType
    PROVE  [j EXCEPT !.step = n, !.phase = "read", !.attempt = 0, !.read = x, !.next = x] \in JobType
<1> DEFINE j1 == [j EXCEPT !.step = n]
           j2 == [j1 EXCEPT !.phase = "read"]
           j3 == [j2 EXCEPT !.attempt = 0]
           j4 == [j3 EXCEPT !.read = x]
           j5 == [j4 EXCEPT !.next = x]
<1>1. j1 \in JobType
  BY DEF JobType
<1> HIDE DEF j1
<1>2. j2 \in JobType
  BY <1>1 DEF JobType
<1> HIDE DEF j2
<1>3. j3 \in JobType
  BY <1>2 DEF JobType
<1> HIDE DEF j3
<1>4. j4 \in JobType
  BY <1>3 DEF JobType
<1> HIDE DEF j4
<1>5. j5 \in JobType
  BY <1>4 DEF JobType
<1> QED
  BY <1>5 DEF j1, j2, j3, j4

\* What starting a job makes of an idle group.
LEMMA JobBegins ==
    ASSUME NEW j \in JobType, NEW kind \in Kinds, NEW s \in Artifacts,
           NEW r \in StableSeals \cup TestingBuilds \cup {NoRequest}
    PROVE  [j EXCEPT !.kind = kind, !.request = r, !.signed = s, !.step = 1] \in JobType
<1> DEFINE j1 == [j EXCEPT !.kind = kind]
           j2 == [j1 EXCEPT !.request = r]
           j3 == [j2 EXCEPT !.signed = s]
           j4 == [j3 EXCEPT !.step = 1]
<1>1. j1 \in JobType
  BY DEF JobType
<1> HIDE DEF j1
<1>2. j2 \in JobType
  BY <1>1 DEF JobType
<1> HIDE DEF j2
<1>3. j3 \in JobType
  BY <1>2 DEF JobType
<1> HIDE DEF j3
<1>4. j4 \in JobType
  BY <1>3 DEF JobType
<1> QED
  BY <1>4 DEF j1, j2, j3

\* What a read makes of a job.
LEMMA JobReads ==
    ASSUME NEW j \in JobType, NEW n \in Nat, NEW x \in DocType, NEW y \in DocType
    PROVE  [j EXCEPT !.phase = "write", !.attempt = n, !.read = x, !.next = y] \in JobType
<1> DEFINE j1 == [j EXCEPT !.phase = "write"]
           j2 == [j1 EXCEPT !.attempt = n]
           j3 == [j2 EXCEPT !.read = x]
           j4 == [j3 EXCEPT !.next = y]
<1>1. j1 \in JobType
  BY DEF JobType
<1> HIDE DEF j1
<1>2. j2 \in JobType
  BY <1>1 DEF JobType
<1> HIDE DEF j2
<1>3. j3 \in JobType
  BY <1>2 DEF JobType
<1> HIDE DEF j3
<1>4. j4 \in JobType
  BY <1>3 DEF JobType
<1> QED
  BY <1>4 DEF j1, j2, j3

\* What a failed swap makes of a job.
LEMMA JobRetries ==
    ASSUME NEW j \in JobType, NEW x \in DocType
    PROVE  [j EXCEPT !.phase = "read", !.read = x, !.next = x] \in JobType
<1> DEFINE j1 == [j EXCEPT !.phase = "read"]
           j2 == [j1 EXCEPT !.read = x]
           j3 == [j2 EXCEPT !.next = x]
<1>1. j1 \in JobType
  BY DEF JobType
<1> HIDE DEF j1
<1>2. j2 \in JobType
  BY <1>1 DEF JobType
<1> HIDE DEF j2
<1>3. j3 \in JobType
  BY <1>2 DEF JobType
<1> QED
  BY <1>3 DEF j1, j2

(***************************************************************************)
(* Lemmas about the operators                                              *)
(***************************************************************************)
\* Which documents a job puts.
LEMMA PutsFacts ==
    \A kind \in Kinds :
        /\ Len(Puts(kind)) \in 1..3
        /\ \A i \in 1..Len(Puts(kind)) :
              /\ Puts(kind)[i] \in DocNames
              /\ kind \in {"stable", "testing"} => Puts(kind)[i] \in Manifests
BY DEF Puts, Kinds, DocNames, Manifests, Releases

\* No document is both a manifest and a release.
LEMMA DocsDiffer == Manifests \cap Releases = {}
BY DEF Manifests, Releases

\* The generation of a pair is a number.
LEMMA GenerationIsNat == \A p \in Pair : pairGeneration(p) \in Nat
BY DEF Pair, pairGeneration

\* The empty records have the types of the records they stand for.
LEMMA EmptyTypes ==
    /\ EmptyManifest \in ManifestType /\ NoPair \in Pair /\ NoRelease \in Release
    /\ NoSigned \in Artifacts
    /\ Idle \in JobType
BY DEF EmptyManifest, ManifestType, NoPair, Pair, ChannelNames, NoRelease, Release, NoSigned,
    Artifacts, Signed, Idle, JobType, DocType

\* A request names a release that exists, and typed components.
LEMMA RequestFields ==
    \A r \in StableSeals \cup TestingBuilds : r.version \in Nat \ {0} /\ r.pair \in Pair
BY ChannelsAssumption DEF Request

\* SealStable, PublishTesting and PreserveStable make manifests of this schema.
LEMMA SealTypes ==
    ASSUME NEW m \in ManifestType, NEW v \in Nat, NEW p \in Pair
    PROVE  /\ SealStable(m, v, p) \in ManifestType
           /\ SealStable(m, v, p).schema = "v3"
           /\ SealStable(m, v, p).stableVersion = v
           /\ SealStable(m, v, p).stable = p
           /\ SealStable(m, v, p).testingVersion = Migrated(m).testingVersion
           /\ SealStable(m, v, p).testing = Migrated(m).testing
BY EmptyTypes DEF SealStable, Migrated, ManifestType, ChannelNames, EmptyManifest

\* What PublishTesting makes of a manifest, and keeps of it.
LEMMA TestingTypes ==
    ASSUME NEW m \in ManifestType, NEW v \in Nat, NEW p \in Pair
    PROVE  /\ PublishTesting(m, v, p) \in ManifestType
           /\ PublishTesting(m, v, p).schema = "v3"
           /\ PublishTesting(m, v, p).testingVersion = v
           /\ PublishTesting(m, v, p).testing = p
           /\ PublishTesting(m, v, p).stableVersion = Migrated(m).stableVersion
           /\ PublishTesting(m, v, p).stable = Migrated(m).stable
BY EmptyTypes DEF PublishTesting, Migrated, ManifestType, ChannelNames, EmptyManifest

\* Signing next to a live manifest makes a manifest.
LEMMA SignTypes ==
    ASSUME NEW m \in ManifestType, NEW p \in Pair
    PROVE  PreserveStable(m, p) \in ManifestType /\ PreserveStable(m, p).schema = "v3"
BY DEF PreserveStable, ManifestType, ChannelNames

\* What a job swaps in only advances what it read.
LEMMA ReplacementSound ==
    ASSUME NEW job \in JobType, NEW d \in DocNames, NEW old,
           job.kind \in Kinds,
           job.kind \in {"stable", "testing"} =>
              d \in Manifests /\ job.request \in StableSeals \cup TestingBuilds,
           d \in Manifests => CanBeLive(old),
           d \in Releases => old \in Release,
           Permitted(job, d, old)
    PROVE  Sound(d, old, Replacement(job, d, old))
<1> DEFINE new == Replacement(job, d, old)
<1>1. CASE job.kind = "stable"
  <2>1. new = SealStable(old, job.request.version, job.request.pair)
    BY <1>1, DocsDiffer DEF Replacement
  <2>2. job.request.version > Migrated(old).stableVersion
    BY <1>1, DocsDiffer DEF Permitted, MaySealStable
  <2>3. job.request.version \in Nat /\ job.request.pair \in Pair /\ old \in ManifestType
    BY <1>1, RequestFields DEF CanBeLive
  <2>4. TestingAdvances(old, new)
    BY <1>1, <2>1, <2>3, SealTypes, GenerationIsNat
       DEF CanBeLive, TestingAdvances, Migrated, ManifestType, HasTesting
  <2>5. StableAdvances(old, new)
    BY <1>1, <2>1, <2>2, <2>3, SealTypes DEF CanBeLive, StableAdvances, Migrated, HasStable
  <2> QED
    BY <1>1, <2>1, <2>3, <2>4, <2>5, SealTypes, DocsDiffer DEF Sound
<1>2. CASE job.kind = "testing"
  <2>1. new = PublishTesting(old, job.request.version, job.request.pair)
    BY <1>2, DocsDiffer DEF Replacement
  <2>2. ~TestingIsOlder(Migrated(old), job.request.version, job.request.pair)
    BY <1>2, DocsDiffer DEF Permitted, MayPublishTesting
  <2>3. job.request.version \in Nat /\ job.request.pair \in Pair /\ old \in ManifestType
    BY <1>2, RequestFields DEF CanBeLive
  <2>4. TestingAdvances(old, new)
    BY <1>2, <2>1, <2>2, <2>3, TestingTypes, GenerationIsNat
       DEF CanBeLive, TestingAdvances, Migrated, ManifestType, HasTesting, TestingIsOlder
  <2>5. StableAdvances(old, new)
    BY <1>2, <2>1, <2>3, TestingTypes DEF CanBeLive, StableAdvances, Migrated, HasStable
  <2> QED
    BY <1>2, <2>1, <2>3, <2>4, <2>5, TestingTypes, DocsDiffer DEF Sound
<1>3. CASE job.kind \notin {"stable", "testing"} /\ d \in Releases
  <2>1. new = ReleaseOf(job) /\ job.signed.generation > old.generation
    BY <1>3 DEF Replacement, Permitted
  <2>2. ReleaseOf(job) \in Release /\ ReleaseOf(job).generation = job.signed.generation
    BY DEF ReleaseOf, Release, JobType, Artifacts, Signed, ManifestType
  <2> QED
    BY <1>3, <2>1, <2>2, DocsDiffer DEF Sound
<1>4. CASE job.kind \notin {"stable", "testing"} /\ d \in Manifests
  <2>1. new = job.signed.manifest /\ MayReplace(old, new, PutGeneration(job))
    BY <1>4, DocsDiffer DEF Replacement, Permitted
  <2>2. new \in ManifestType /\ new.schema = "v3" /\ old \in ManifestType
    BY <1>4, <2>1 DEF JobType, Artifacts, Signed, CanBeLive
  <2>3. StableAdvances(old, new) /\ TestingAdvances(old, new)
    BY <2>1, <2>2, GenerationIsNat DEF MayReplace, KeepsRetained, KeepsStable, StableAdvances,
        TestingAdvances, HasStable, HasTesting, EmptyManifest, ManifestType
  <2> QED
    BY <1>4, <2>2, <2>3, DocsDiffer DEF Sound
<1> QED
  BY <1>1, <1>2, <1>3, <1>4 DEF DocNames

(***************************************************************************)
(* The steps of a job                                                      *)
(***************************************************************************)
\* A job that is cancelled, fails or ends leaves its group idle.
LEMMA DoneStep ==
    ASSUME LaneTyping, SwapInv, NEW l \in Lanes, NEW ok \in BOOLEAN, Done(l, ok)
    PROVE  /\ LaneTyping'
           /\ \A k \in Lanes : lane'[k] = IF k = l THEN Idle ELSE lane[k]
<1>1. \A k \in Lanes : lane'[k] = IF k = l THEN Idle ELSE lane[k]
  BY DEF LaneTyping, Done
<1>2. lane' \in [Lanes -> JobType]
  BY EmptyTypes DEF LaneTyping, Done
<1>3. lane[l].signed \in Artifacts
  BY DEF LaneTyping, JobType
<1>4. committed' \subseteq Artifacts /\ released' \subseteq Artifacts
  BY <1>3 DEF LaneTyping, Done, With
<1> QED
  BY <1>1, <1>2, <1>4 DEF LaneTyping

\* Arithmetic of the position of a job in its list of documents.
LEMMA NextStep == \A m \in 0..3, n \in 1..3 : m < n => m + 1 \in 0..3 /\ m + 1 \in 1..n
OBVIOUS

\* After a put the job goes on with the next document, or ends.
LEMMA AdvanceStep ==
    ASSUME LaneTyping, SwapInv, NEW l \in Lanes, lane[l] # Idle, Advance(l)
    PROVE  /\ LaneTyping'
           /\ \A k \in Lanes \ {l} : lane'[k] = lane[k]
           /\ lane'[l] = Idle \/ lane'[l].phase = "read"
<1>1. CASE lane[l].step < Len(Puts(lane[l].kind))
  <2> DEFINE job == [lane[l] EXCEPT !.step = @ + 1, !.phase = "read", !.attempt = 0,
                                    !.read = NoRelease, !.next = NoRelease]
  <2>1. lane' = [lane EXCEPT ![l] = job] /\ UNCHANGED results
    BY <1>1 DEF Advance
  <2>2. lane[l] \in JobType /\ lane[l].kind \in Kinds
    BY DEF LaneTyping
  <2>3. PICK n \in 1..3 : n = Len(Puts(lane[l].kind))
    BY <2>2, PutsFacts
  <2>4. /\ job \in JobType /\ job.kind = lane[l].kind /\ job.request = lane[l].request
        /\ job.step = lane[l].step + 1 /\ job.phase = "read"
    <3>1. NoRelease \in DocType
      BY EmptyTypes DEF DocType
    <3>2. lane[l].step \in 0..3
      BY <2>2 DEF JobType
    <3>3. lane[l].step < n
      BY <1>1, <2>3
    <3>5. lane[l].step + 1 \in 0..3
      BY <2>3, <3>2, <3>3, NextStep
    <3>4. job \in JobType
      BY <2>2, <3>1, <3>5, JobGoesOn
    <3> QED
      BY <2>2, <3>4 DEF JobType
  <2>5. job.step \in 1..Len(Puts(job.kind))
    BY <1>1, <2>2, <2>3, <2>4 DEF JobType
  <2> QED
    BY <2>1, <2>4, <2>5 DEF LaneTyping, results
<1>2. CASE ~(lane[l].step < Len(Puts(lane[l].kind)))
  BY <1>2, DoneStep DEF Advance
<1> QED
  BY <1>1, <1>2

\* A group that starts a job keeps the invariant.
LEMMA BeginStep ==
    ASSUME LaneTyping, SwapInv, NEW kind \in Kinds, NEW s \in Artifacts,
           NEW r \in StableSeals \cup TestingBuilds \cup {NoRequest},
           kind \in {"stable", "testing"} => r \in StableSeals \cup TestingBuilds,
           Begin(kind, r, s)
    PROVE  LaneTyping' /\ SwapInv'
<1> DEFINE job == [Idle EXCEPT !.kind = kind, !.request = r, !.signed = s, !.step = 1]
<1>1. Group(kind) \in Lanes
  BY DEF Group, Lanes, Kinds
<1>2. lane' = [lane EXCEPT ![Group(kind)] = job]
  BY DEF Begin
<1>3. job \in JobType /\ job.kind = kind /\ job.request = r /\ job.step = 1 /\ job.phase = "read"
  <2>1. job \in JobType
    BY EmptyTypes, JobBegins
  <2> QED
    BY <2>1 DEF Idle
<1>4. 1 \in 1..Len(Puts(kind))
  BY PutsFacts
<1>5. LaneTyping'
  BY <1>1, <1>2, <1>3, <1>4 DEF LaneTyping, Begin, runVars
<1>6. SwapInv'
  BY <1>1, <1>2, <1>3 DEF SwapInv, LaneTyping, Begin, Doc
<1> QED
  BY <1>5, <1>6

\* The document a job works on is one of the mutable documents.
LEMMA DocFacts ==
    ASSUME LaneTyping, NEW l \in Lanes, lane[l] # Idle
    PROVE  /\ Doc(l) \in DocNames
           /\ lane[l].kind \in {"stable", "testing"} => Doc(l) \in Manifests
BY PutsFacts DEF LaneTyping, Doc

\* Whoever changes a document, a job or a late swap, only advances it.
LEMMA DocsAdvance ==
    ASSUME DocTyping, LaneTyping, SwapInv, [Next]_vars
    PROVE  /\ docs' \in [DocNames -> DocType]
           /\ \A d \in DocNames : docs'[d] = docs[d] \/ Sound(d, docs[d], docs'[d])
<1>1. ASSUME NEW l \in Lanes, Swap(l)
      PROVE  /\ docs' \in [DocNames -> DocType]
             /\ \A d \in DocNames : docs'[d] = docs[d] \/ Sound(d, docs[d], docs'[d])
  <2>1. Doc(l) \in DocNames /\ Sound(Doc(l), docs[Doc(l)], lane[l].next)
    BY <1>1, DocFacts DEF Swap, SwapInv
  <2>2. lane[l].next \in DocType
    BY DEF LaneTyping, JobType
  <2> QED
    BY <1>1, <2>1, <2>2 DEF Swap, DocTyping
<1>2. ASSUME LateSwap
      PROVE  /\ docs' \in [DocNames -> DocType]
             /\ \A d \in DocNames : docs'[d] = docs[d] \/ Sound(d, docs[d], docs'[d])
  <2>1. PICK w \in stray : docs[w.doc] = w.read /\ docs' = [docs EXCEPT ![w.doc] = w.next]
    BY <1>2 DEF LateSwap
  <2>2. w.doc \in DocNames /\ Sound(w.doc, docs[w.doc], w.next)
    BY <2>1 DEF SwapInv
  <2>3. w.next \in DocType
    BY <2>2 DEF Sound, DocNames, DocType
  <2> QED
    BY <2>1, <2>2, <2>3 DEF DocTyping
<1>3. CASE UNCHANGED docs
  BY <1>3 DEF DocTyping
<1> QED
  BY <1>1, <1>2, <1>3 DEF Next, vars, StartStable, StartTesting, StartCycle, SignAgain, StartRepositories,
      StartImages, StartAliases, Begin, Get, Retry, Fail

\* The pairs sources resolve to are pairs.
LEMMA PairTypes == \A p \in Pairs : p \in Pair
BY ChannelsAssumption

\* Every step keeps the types of the documents.
LEMMA DocTypingStep ==
    ASSUME DocTyping, LaneTyping, SwapInv, [Next]_vars
    PROVE  DocTyping'
<1>1. docs' \in [DocNames -> DocType]
  BY DocsAdvance
<1>2. \A d \in Manifests : CanBeLive(docs'[d])
  BY DocsAdvance DEF DocNames, DocTyping, Sound, CanBeLive
<1>3. \A d \in Releases : docs'[d] \in Release
  BY DocsAdvance DEF DocNames, DocTyping, Sound
<1>4. \A p \in Pair, g \in Nat : Sign(p, g) \in Artifacts
  BY SignTypes DEF Sign, Artifacts, Signed, DocTyping, CanBeLive, Manifests
<1>5. generation' \in Nat /\ signed' \subseteq Artifacts
  <2>1. CASE StartCycle
    BY <1>4, <2>1, PairTypes DEF StartCycle, DocTyping
  <2>2. CASE SignAgain
    <3>1. PICK s \in signed : s.generation = generation
                               /\ signed' = signed \cup {Sign(s.manifest.devel, generation)}
      BY <2>2 DEF SignAgain
    <3>2. s.manifest.devel \in Pair
      BY <3>1 DEF DocTyping, Artifacts, Signed, ManifestType
    <3> QED
      BY <1>4, <2>2, <3>1, <3>2 DEF SignAgain, DocTyping
  <2>3. CASE UNCHANGED <<generation, signed>>
    BY <2>3 DEF DocTyping
  <2> QED
    BY <2>1, <2>2, <2>3 DEF Next, vars, runVars, StartStable, StartTesting, StartRepositories, StartImages,
        StartAliases, Begin, Get, Swap, Retry, Fail, LateSwap
<1> QED
  BY <1>1, <1>2, <1>3, <1>5 DEF DocTyping

\* A read keeps the invariant of its group.
LEMMA GetStep ==
    ASSUME DocTyping, LaneTyping, SwapInv, NEW l \in Lanes, Get(l)
    PROVE  LaneTyping' /\ SwapInv'
<1> DEFINE old == docs[Doc(l)]
<1>0. lane[l] # Idle /\ UNCHANGED stray
  BY DEF Get
<1>1. CASE Advance(l)
  BY <1>0, <1>1, AdvanceStep DEF SwapInv, Doc
<1>2. CASE Done(l, FALSE)
  BY <1>0, <1>2, DoneStep DEF SwapInv, Doc
<1>3. CASE /\ Permitted(lane[l], Doc(l), old)
           /\ lane' = [lane EXCEPT
                 ![l].phase = "write", ![l].attempt = @ + 1,
                 ![l].read = old, ![l].next = Replacement(lane[l], Doc(l), old)]
           /\ UNCHANGED results
  <2> DEFINE new == Replacement(lane[l], Doc(l), old)
             job == [lane[l] EXCEPT !.phase = "write", !.attempt = @ + 1,
                                    !.read = old, !.next = new]
  <2>1. Doc(l) \in DocNames /\ old \in DocType /\ lane[l] \in JobType /\ lane[l].kind \in Kinds
    BY <1>0, DocFacts DEF DocTyping, LaneTyping
  <2>2. Sound(Doc(l), old, new)
    BY <1>0, <1>3, <2>1, DocFacts, ReplacementSound DEF DocTyping, LaneTyping
  <2>3. new \in DocType
    BY <2>1, <2>2 DEF Sound, DocNames, DocType
  <2>4. lane[l].attempt + 1 \in Nat
    BY <2>1 DEF JobType
  <2>5. job \in JobType
    BY <2>1, <2>3, <2>4, JobReads
  <2>6. /\ job.kind = lane[l].kind /\ job.request = lane[l].request /\ job.step = lane[l].step
        /\ job.read = old /\ job.next = new
    BY <2>1 DEF JobType
  <2>7. lane' = [lane EXCEPT ![l] = job]
    BY <1>3
  <2>8. Doc(l)' = Doc(l)
    BY <2>6, <2>7 DEF LaneTyping, Doc
  <2>9. LaneTyping'
    BY <1>0, <1>3, <2>5, <2>6, <2>7 DEF LaneTyping, results
  <2> QED
    BY <1>0, <2>2, <2>6, <2>7, <2>8, <2>9 DEF LaneTyping, SwapInv, Doc
<1> QED
  BY <1>1, <1>2, <1>3 DEF Get

\* So does a swap that found another document,
LEMMA RetryStep ==
    ASSUME LaneTyping, SwapInv, NEW l \in Lanes, Retry(l)
    PROVE  LaneTyping' /\ SwapInv'
<1>0. lane[l] # Idle /\ UNCHANGED stray
  BY DEF Retry
<1>1. CASE Done(l, FALSE)
  BY <1>0, <1>1, DoneStep DEF SwapInv, Doc
<1>2. CASE /\ lane' = [lane EXCEPT ![l].phase = "read", ![l].read = NoRelease, ![l].next = NoRelease]
           /\ UNCHANGED results
  <2> DEFINE job == [lane[l] EXCEPT !.phase = "read", !.read = NoRelease, !.next = NoRelease]
  <2>1. lane[l] \in JobType /\ NoRelease \in DocType
    BY EmptyTypes DEF LaneTyping, DocType
  <2>2. job \in JobType
    BY <2>1, JobRetries
  <2>3. /\ job.kind = lane[l].kind /\ job.request = lane[l].request /\ job.step = lane[l].step
        /\ job.phase = "read"
    BY <2>1 DEF JobType
  <2>4. lane' = [lane EXCEPT ![l] = job]
    BY <1>2
  <2> QED
    BY <1>0, <1>2, <2>2, <2>3, <2>4 DEF LaneTyping, SwapInv, Doc, results
<1> QED
  BY <1>1, <1>2 DEF Retry

\* and a job that is killed.
LEMMA FailStep ==
    ASSUME LaneTyping, SwapInv, NEW l \in Lanes, Fail(l)
    PROVE  LaneTyping' /\ SwapInv'
<1>1. LaneTyping' /\ \A k \in Lanes : lane'[k] = IF k = l THEN Idle ELSE lane[k]
  BY DoneStep DEF Fail
<1>2. ASSUME NEW w \in stray' PROVE w.doc \in DocNames /\ Sound(w.doc, w.read, w.next)
  BY <1>2, DocFacts DEF Fail, SwapInv
<1> QED
  BY <1>1, <1>2 DEF SwapInv, Doc

\* Every step keeps the invariant of the groups and of the swaps on their way.
LEMMA LaneStep ==
    ASSUME DocTyping, LaneTyping, SwapInv, [Next]_vars
    PROVE  LaneTyping' /\ SwapInv'
<1>1. CASE StartStable
  BY <1>1, BeginStep, EmptyTypes DEF StartStable, Kinds
<1>2. CASE StartTesting
  BY <1>2, BeginStep, EmptyTypes DEF StartTesting, Kinds
<1>3. CASE StartRepositories \/ StartImages \/ StartAliases
  <2>1. PICK kind \in {"repositories", "images", "aliases"}, s \in Artifacts :
           Begin(kind, NoRequest, s)
    BY <1>3 DEF StartRepositories, StartImages, StartAliases, DocTyping, LaneTyping
  <2> QED
    BY <2>1, BeginStep DEF Kinds
<1>4. CASE StartCycle \/ SignAgain \/ UNCHANGED vars
  BY <1>4 DEF StartCycle, SignAgain, vars, runVars, LaneTyping, SwapInv, Doc
<1>5. CASE LateSwap
  BY <1>5 DEF LateSwap, runVars, LaneTyping, SwapInv, Doc
<1>6. ASSUME NEW l \in Lanes, Swap(l) PROVE LaneTyping' /\ SwapInv'
  <2>1. lane[l] # Idle /\ Advance(l) /\ UNCHANGED stray
    BY <1>6 DEF Swap
  <2> QED
    BY <2>1, AdvanceStep DEF SwapInv, Doc
<1> QED
  BY <1>1, <1>2, <1>3, <1>4, <1>5, <1>6, GetStep, RetryStep, FailStep DEF Next

(***************************************************************************)
(* Theorems                                                                *)
(***************************************************************************)
IInv == DocTyping /\ LaneTyping /\ SwapInv

\* The inductive invariant holds of every manifest that can be live at the start.
LEMMA InitInv == Init => IInv
<1> SUFFICES ASSUME Init PROVE IInv
    OBVIOUS
<1>1. PICK m \in LiveManifests :
         docs = [d \in Manifests \cup Releases |-> IF d \in Manifests THEN m ELSE NoRelease]
  BY DEF Init
<1>2. CanBeLive(m) /\ m \in ManifestType
  BY ChannelsAssumption DEF CanBeLive
<1>3. DocTyping
  BY <1>1, <1>2, ChannelsAssumption, EmptyTypes, DocsDiffer DEF Init, DocTyping, DocNames, DocType
<1>4. LaneTyping /\ SwapInv
  BY EmptyTypes DEF Init, LaneTyping, SwapInv
<1> QED
  BY <1>3, <1>4 DEF IInv

\* Every publication keeps the inductive invariant: what a job is about to swap in
\* advances what it has read (putQualifiedDocument, commandChannel).
THEOREM Invariance == Spec => []IInv
<1>1. IInv /\ [Next]_vars => IInv'
  BY DocTypingStep, LaneStep DEF IInv
<1> QED
  BY InitInv, <1>1, PTL DEF Spec

\* A step that leaves the documents alone advances them.
LEMMA NothingMoves ==
    \A m \in ManifestType : StableAdvances(m, m) /\ TestingAdvances(m, m)
BY GenerationIsNat DEF StableAdvances, TestingAdvances, ManifestType

\* A published Stable version is never rewritten, dropped or moved backwards, for
\* any requests, attempts and failures.
THEOREM StableImmutable == Spec => StableOnlyAdvances
<1>1. IInv /\ [Next]_vars => [\A d \in Manifests : StableAdvances(docs[d], docs'[d])]_docs
  BY DocsAdvance, NothingMoves DEF IInv, DocTyping, CanBeLive, Sound, DocNames
<1> QED
  BY Invariance, <1>1, PTL DEF Spec, StableOnlyAdvances

\* No publication rolls a Testing nightly back.
THEOREM TestingForward == Spec => TestingOnlyAdvances
<1>1. IInv /\ [Next]_vars => [\A d \in Manifests : TestingAdvances(docs[d], docs'[d])]_docs
  BY DocsAdvance, NothingMoves DEF IInv, DocTyping, CanBeLive, Sound, DocNames
<1> QED
  BY Invariance, <1>1, PTL DEF Spec, TestingOnlyAdvances

(***************************************************************************)
(* What one step does, job by job and document by document                 *)
(***************************************************************************)
\* Each group runs its own kinds of jobs, on the artifacts of Development runs.
KindInv ==
    /\ \A l \in Lanes : lane[l] # Idle =>
          /\ Group(lane[l].kind) = l
          /\ lane[l].kind = "stable" => lane[l].request \in StableSeals
          /\ lane[l].kind \in {"repositories", "images", "aliases"} => lane[l].signed \in signed
    /\ committed \subseteq signed /\ released \subseteq signed

Writing(l) == lane[l] # Idle /\ lane[l].phase = "write"

\* A job that is about to swap was permitted to replace what it has read.
WriteInv ==
    \A l \in Lanes : Writing(l) =>
        /\ Permitted(lane[l], Doc(l), lane[l].read)
        /\ lane[l].next = Replacement(lane[l], Doc(l), lane[l].read)

JobsInv == KindInv /\ WriteInv

\* The document says what the job publishes.
Published(job, d, m) ==
    /\ job.kind = "stable" =>
          m.stableVersion = job.request.version /\ m.stable = job.request.pair
    /\ job.kind = "testing" =>
          m.testingVersion = job.request.version /\ m.testing = job.request.pair
    /\ job.kind \notin {"stable", "testing"} =>
          /\ d \in Releases => m = ReleaseOf(job)
          /\ d \in Manifests => m.devel = job.signed.manifest.devel

\* The steps of the job of a group.
SameJob(l) ==
    /\ lane[l] # Idle /\ lane'[l] # Idle
    /\ lane'[l].kind = lane[l].kind /\ lane'[l].request = lane[l].request
    /\ lane'[l].signed = lane[l].signed

Starts(l) == lane[l] = Idle /\ lane'[l] # Idle /\ lane'[l].step = 1 /\ lane'[l].phase = "read"

Looks(l) == SameJob(l) /\ lane'[l].step = lane[l].step /\ lane'[l].phase = "read" /\ docs' = docs

Decides(l) ==
    /\ SameJob(l) /\ lane'[l].step = lane[l].step /\ lane'[l].phase = "write"
    /\ docs' = docs /\ lane'[l].read = docs[Doc(l)]
    /\ Permitted(lane[l], Doc(l), docs[Doc(l)])
    /\ lane'[l].next = Replacement(lane[l], Doc(l), docs[Doc(l)])

GoesOn(l) ==
    /\ SameJob(l) /\ lane'[l].step = lane[l].step + 1 /\ lane'[l].phase = "read"
    /\ lane[l].step < Len(Puts(lane[l].kind))
    /\ Published(lane[l], Doc(l), docs'[Doc(l)])

Succeeds(l) ==
    /\ lane[l] # Idle /\ lane'[l] = Idle
    /\ lane[l].step = Len(Puts(lane[l].kind))
    /\ Published(lane[l], Doc(l), docs'[Doc(l)])

Breaks(l) ==
    /\ lane[l] # Idle /\ lane'[l] = Idle /\ docs' = docs
    /\ lane[l].kind \in {"stable", "testing"} => broken'

Moves(l) ==
    \/ lane'[l] = lane[l]
    \/ Starts(l) \/ Looks(l) \/ Decides(l) \/ GoesOn(l) \/ Succeeds(l) \/ Breaks(l)

\* A document is as it was, or what a job or a late swap makes of it.
DocMoves(d) ==
    \/ docs'[d] = docs[d]
    \/ \E l \in Lanes :
          /\ Writing(l) /\ Doc(l) = d /\ docs[d] = lane[l].read /\ docs'[d] = lane[l].next
          /\ GoesOn(l) \/ Succeeds(l)
    \/ \E w \in stray : w.doc = d /\ docs[d] = w.read /\ docs'[d] = w.next

StrayMoves ==
    \A w \in stray' :
        \/ w \in stray
        \/ /\ docs' = docs
           /\ \E l \in Lanes :
                 /\ Writing(l) /\ w.doc = Doc(l) /\ w.read = lane[l].read /\ w.next = lane[l].next
                 /\ lane[l].kind \in {"stable", "testing"} => broken'

ResultMoves ==
    /\ broken => broken'
    /\ \A r \in sealed' : r \in sealed \/ \E l \in Lanes :
          Succeeds(l) /\ lane[l].kind = "stable" /\ r = lane[l].request
    /\ \A s \in committed' : s \in committed \/ \E l \in Lanes :
          Succeeds(l) /\ lane[l].kind = "repositories" /\ s = lane[l].signed
    /\ \A s \in released' : s \in released \/ \E l \in Lanes :
          Succeeds(l) /\ lane[l].kind = "images" /\ s = lane[l].signed

\* A signed document is preserved, or signed next to the live manifest.
SignedMoves ==
    /\ signed \subseteq signed'
    /\ \A s \in signed' : s \in signed \/
          /\ docs' = docs /\ lane' = lane
             /\ s.manifest = PreserveStable(docs["qualified"], s.manifest.devel)

Step ==
    /\ \A l \in Lanes : Moves(l)
    /\ \A d \in DocNames : DocMoves(d)
    /\ StrayMoves /\ ResultMoves /\ SignedMoves

(***************************************************************************)
(* Stable and Testing in the two manifests of amd64                        *)
(***************************************************************************)
\* A manifest has the request, or a newer version.
Held(m, r) ==
    m.stableVersion > r.version \/ (m.stableVersion = r.version /\ m.stable = r.pair)

\* Whatever Stable or Testing release m has, n has it or a later one.
Behind(m, n) == StableAdvances(m, n) /\ (HasTesting(m) => HasTesting(n))

SameStable(m, n)  == m.stableVersion = n.stableVersion /\ m.stable = n.stable
SameTesting(m, n) == m.testingVersion = n.testingVersion /\ m.testing = n.testing

\* What is sealed stays sealed.
SealInv ==
    /\ \A r \in sealed : r \in StableSeals /\ \A d \in Manifests : Held(docs[d], r)
    /\ \A l \in Lanes : lane[l] # Idle /\ lane[l].kind = "stable" /\ lane[l].step = 2 =>
          Held(docs["legacy"], lane[l].request)

\* The legacy manifest goes first, and nobody signs what is in neither.
RetainInv ==
    /\ Behind(docs["qualified"], docs["legacy"])
    /\ \A l \in Lanes : Writing(l) /\ Doc(l) = "qualified" => Behind(lane[l].next, docs["legacy"])
    /\ \A w \in stray : w.doc = "qualified" => Behind(w.next, docs["legacy"])
    /\ \A s \in signed, d \in Manifests : Behind(s.manifest, docs[d])
    /\ \A l \in Lanes : lane[l] # Idle /\ lane[l].kind = "testing" /\ lane[l].step = 2 =>
          HasTesting(docs["legacy"])

ProperInv ==
    /\ \A d \in Manifests : Proper(docs[d])
    /\ \A s \in signed : Proper(s.manifest)
    /\ \A l \in Lanes : Writing(l) /\ Doc(l) \in Manifests => Proper(lane[l].next)
    /\ \A w \in stray : w.doc \in Manifests => Proper(w.next)

AgreeInv ==
    ~broken =>
        /\ \A l \in Lanes : Writing(l) /\ Doc(l) \in Manifests =>
              /\ lane[l].kind # "stable" => SameStable(lane[l].read, lane[l].next)
              /\ lane[l].kind # "testing" => SameTesting(lane[l].read, lane[l].next)
        /\ \A w \in stray : w.doc \in Manifests => SameStable(w.read, w.next) /\ SameTesting(w.read, w.next)
        /\ LET job == lane["releaseControl"] IN
           IF job # Idle /\ job.step = 2
           THEN Published(job, "legacy", docs["legacy"])
           ELSE SameStable(docs["legacy"], docs["qualified"])
        /\ LET job == lane["development"] IN
           IF job # Idle /\ job.kind = "testing" /\ job.step = 2
           THEN Published(job, "legacy", docs["legacy"])
           ELSE SameTesting(docs["legacy"], docs["qualified"])

(***************************************************************************)
(* The aliases                                                             *)
(***************************************************************************)
AliasInv ==
    /\ docs["legacyRelease"].generation <= docs["multiarch"].generation
    /\ \A l \in Lanes : lane[l] # Idle /\ lane[l].kind = "aliases" /\ lane[l].step # 1 =>
          lane[l].signed.generation <= docs["multiarch"].generation
    /\ \A w \in stray : w.doc = "legacyRelease" => w.next.generation <= docs["multiarch"].generation

(***************************************************************************)
(* Defaults                                                                *)
(***************************************************************************)
OneDefault(m) == "testing" \notin m.default /\ ~{"devel", "stable"} \subseteq m.default

DefaultInv ==
    /\ \A d \in Manifests : OneDefault(docs[d])
    /\ \A s \in signed : OneDefault(s.manifest)
    /\ \A l \in Lanes : Writing(l) /\ Doc(l) \in Manifests => OneDefault(lane[l].next)
    /\ \A w \in stray : w.doc \in Manifests => OneDefault(w.next)

(***************************************************************************)
(* The Development pair of the qualified manifest                          *)
(***************************************************************************)
\* The pair is the one the current cycle publishes, or none.
Current(s) == s.generation = generation => docs["qualified"].devel \in {s.manifest.devel, NoPair}

DevelInv ==
    /\ stray = {} /\ failures = 0
    /\ \A s \in signed : s.generation <= generation
    /\ \A s, t \in signed :
          s.generation = generation /\ t.generation = generation => s.manifest.devel = t.manifest.devel
    /\ \A s \in committed : Current(s)
    /\ LET job == lane["development"] IN
       job # Idle /\ job.kind \in {"repositories", "images"} =>
          /\ job.signed.generation = generation
          /\ job.kind = "images" => job.signed \in committed
          /\ job.kind = "repositories" /\ job.step # 1 => Current(job.signed)

(***************************************************************************)
(* Every step is one of these                                              *)
(***************************************************************************)
\* A document that the job leaves unchanged, or makes, says what it publishes.
LEMMA PublishedFacts ==
    ASSUME NEW job \in JobType, NEW d \in DocNames, NEW m,
           job.kind \in {"stable", "testing"} =>
              d \in Manifests /\ job.request \in StableSeals \cup TestingBuilds,
           d \in Manifests => m \in ManifestType
    PROVE  /\ Unchanged(job, d, m) => Published(job, d, m)
           /\ \A new : new = Replacement(job, d, m) => Published(job, d, new)
<1> DEFINE v == job.request.version
           p == job.request.pair
<1>1. CASE job.kind \in {"stable", "testing"}
  <2>1. v \in Nat \ {0} /\ p \in Pair /\ m \in ManifestType
    BY <1>1, RequestFields
  <2>2. /\ SealIsRerun(m, v, p) => m.stableVersion = v /\ m.stable = p
        /\ TestingIsRerun(m, v, p) => m.testingVersion = v /\ m.testing = p
    BY <2>1 DEF SealIsRerun, TestingIsRerun, Migrated, EmptyManifest
  <2>3. /\ SealStable(m, v, p).stableVersion = v /\ SealStable(m, v, p).stable = p
        /\ PublishTesting(m, v, p).testingVersion = v /\ PublishTesting(m, v, p).testing = p
    BY <2>1, SealTypes, TestingTypes
  <2>4. CASE job.kind = "stable"
    BY <1>1, <2>2, <2>3, <2>4, DocsDiffer DEF Unchanged, Replacement, Published
  <2>5. CASE job.kind = "testing"
    BY <1>1, <2>2, <2>3, <2>5, DocsDiffer DEF Unchanged, Replacement, Published
  <2> QED
    BY <1>1, <2>4, <2>5
<1>2. CASE job.kind \notin {"stable", "testing"}
  BY <1>2, DocsDiffer DEF Unchanged, Replacement, Published, ReplaceIsRerun, DocNames
<1> QED
  BY <1>1, <1>2

\* A job that ends well adds to the results; its group is idle.
LEMMA EndsWell ==
    ASSUME LaneTyping, NEW l \in Lanes, lane[l] # Idle, Done(l, TRUE),
           lane[l].step = Len(Puts(lane[l].kind)), Published(lane[l], Doc(l), docs'[Doc(l)])
    PROVE  /\ Succeeds(l) /\ \A k \in Lanes \ {l} : lane'[k] = lane[k]
           /\ ResultMoves
<1>1. Succeeds(l) /\ \A k \in Lanes \ {l} : lane'[k] = lane[k]
  BY DEF Done, LaneTyping, Succeeds
<1>2. broken => broken'
  BY DEF Done
<1>3. /\ \A r \in sealed' : r \in sealed \/ (lane[l].kind = "stable" /\ r = lane[l].request)
      /\ \A s \in committed' : s \in committed \/ (lane[l].kind = "repositories" /\ s = lane[l].signed)
      /\ \A s \in released' : s \in released \/ (lane[l].kind = "images" /\ s = lane[l].signed)
  BY DEF Done, With
<1> QED
  BY <1>1, <1>2, <1>3 DEF ResultMoves

\* A job that ends otherwise adds nothing.
LEMMA EndsBadly ==
    ASSUME LaneTyping, NEW l \in Lanes, lane[l] # Idle, Done(l, FALSE), docs' = docs
    PROVE  /\ Breaks(l) /\ \A k \in Lanes \ {l} : lane'[k] = lane[k]
           /\ ResultMoves
<1>1. Breaks(l) /\ \A k \in Lanes \ {l} : lane'[k] = lane[k]
  BY DEF Done, LaneTyping, Breaks
<1>2. (broken => broken') /\ sealed' = sealed /\ committed' = committed /\ released' = released
  BY DEF Done, With
<1> QED
  BY <1>1, <1>2 DEF ResultMoves

\* Nor does a step that leaves them alone.
LEMMA SameResults == UNCHANGED results => ResultMoves
BY DEF results, ResultMoves

\* After a put the job goes on, or ends well.
LEMMA PutMoves ==
    ASSUME LaneTyping, NEW l \in Lanes, lane[l] # Idle, Advance(l),
           Published(lane[l], Doc(l), docs'[Doc(l)])
    PROVE  /\ GoesOn(l) \/ Succeeds(l)
           /\ \A k \in Lanes \ {l} : lane'[k] = lane[k]
           /\ ResultMoves
<1>1. lane[l] \in JobType /\ lane[l].kind \in Kinds /\ lane[l].step \in 1..Len(Puts(lane[l].kind))
      /\ Len(Puts(lane[l].kind)) \in 1..3
  BY PutsFacts DEF LaneTyping
<1>2. CASE lane[l].step < Len(Puts(lane[l].kind))
  <2> DEFINE n == lane[l].step + 1
             job == [lane[l] EXCEPT !.step = n, !.phase = "read", !.attempt = 0,
                                    !.read = NoRelease, !.next = NoRelease]
  <2>1. lane' = [lane EXCEPT ![l] = job] /\ UNCHANGED results
    BY <1>2 DEF Advance
  <2> HIDE DEF n
  <2>2. /\ job.kind = lane[l].kind /\ job.request = lane[l].request /\ job.signed = lane[l].signed
        /\ job.step = n /\ job.phase = "read" /\ job # Idle
    BY <1>1 DEF JobType, Kinds, Idle
  <2>3. lane'[l] = job /\ \A k \in Lanes \ {l} : lane'[k] = lane[k]
    BY <2>1 DEF LaneTyping
  <2> HIDE DEF job
  <2>4. GoesOn(l)
    BY <1>2, <2>2, <2>3 DEF GoesOn, SameJob, n
  <2> QED
    BY <2>1, <2>3, <2>4, SameResults
<1>3. CASE ~(lane[l].step < Len(Puts(lane[l].kind)))
  <2>1. Done(l, TRUE)
    BY <1>3 DEF Advance
  <2>2. PICK n \in 1..3 : n = Len(Puts(lane[l].kind))
    BY <1>1
  <2>3. lane[l].step = n
    BY <1>1, <1>3, <2>2
  <2> QED
    BY <2>1, <2>2, <2>3, EndsWell
<1> QED
  BY <1>2, <1>3

\* A read ends the job, moves it on, or makes it swap.
LEMMA GetMoves ==
    ASSUME DocTyping, LaneTyping, NEW l \in Lanes, Get(l)
    PROVE  /\ Moves(l) /\ \A k \in Lanes \ {l} : lane'[k] = lane[k]
           /\ ResultMoves /\ UNCHANGED <<docs, signed, stray>>
<1> DEFINE old == docs[Doc(l)]
<1>0. lane[l] # Idle /\ UNCHANGED <<docs, generation, signed, stray>>
  BY DEF Get
<1>1. /\ lane[l] \in JobType /\ lane[l].kind \in Kinds /\ Doc(l) \in DocNames
      /\ lane[l].kind \in {"stable", "testing"} =>
            Doc(l) \in Manifests /\ lane[l].request \in StableSeals \cup TestingBuilds
      /\ Doc(l) \in Manifests => old \in ManifestType
  BY <1>0, DocFacts DEF LaneTyping, DocTyping, CanBeLive
<1>2. CASE Unchanged(lane[l], Doc(l), old) /\ Advance(l)
  <2>1. Published(lane[l], Doc(l), docs'[Doc(l)])
    BY <1>0, <1>1, <1>2, PublishedFacts
  <2> QED
    BY <1>0, <1>2, <2>1, PutMoves DEF Moves
<1>3. CASE Done(l, FALSE)
  BY <1>0, <1>3, EndsBadly DEF Moves
<1>4. CASE /\ Permitted(lane[l], Doc(l), old)
           /\ lane' = [lane EXCEPT
                 ![l].phase = "write", ![l].attempt = @ + 1,
                 ![l].read = old, ![l].next = Replacement(lane[l], Doc(l), old)]
           /\ UNCHANGED results
  <2> DEFINE n == lane[l].attempt + 1
             new == Replacement(lane[l], Doc(l), old)
             job == [lane[l] EXCEPT !.phase = "write", !.attempt = n, !.read = old, !.next = new]
  <2>1. lane' = [lane EXCEPT ![l] = job]
    BY <1>4
  <2> HIDE DEF n, new
  <2>2. /\ job.kind = lane[l].kind /\ job.request = lane[l].request /\ job.signed = lane[l].signed
        /\ job.step = lane[l].step /\ job.phase = "write" /\ job.read = old /\ job.next = new
        /\ job # Idle
    BY <1>1 DEF JobType, Kinds, Idle
  <2>3. lane'[l] = job /\ \A k \in Lanes \ {l} : lane'[k] = lane[k]
    BY <2>1 DEF LaneTyping
  <2> HIDE DEF job
  <2>4. Decides(l)
    BY <1>0, <1>4, <2>2, <2>3 DEF Decides, SameJob, new
  <2> QED
    BY <1>0, <1>4, <2>3, <2>4, SameResults DEF Moves
<1> QED
  BY <1>2, <1>3, <1>4 DEF Get

\* A swap that finds another document looks again, or is given up.
LEMMA RetryMoves ==
    ASSUME LaneTyping, NEW l \in Lanes, Retry(l)
    PROVE  /\ Moves(l) /\ \A k \in Lanes \ {l} : lane'[k] = lane[k]
           /\ ResultMoves /\ UNCHANGED <<docs, signed, stray>>
<1>0. lane[l] # Idle /\ UNCHANGED <<docs, generation, signed, stray>>
  BY DEF Retry
<1>1. CASE Done(l, FALSE)
  BY <1>0, <1>1, EndsBadly DEF Moves
<1>2. CASE /\ lane' = [lane EXCEPT ![l].phase = "read", ![l].read = NoRelease, ![l].next = NoRelease]
           /\ UNCHANGED results
  <2> DEFINE job == [lane[l] EXCEPT !.phase = "read", !.read = NoRelease, !.next = NoRelease]
  <2>1. lane' = [lane EXCEPT ![l] = job] /\ lane[l] \in JobType /\ lane[l].kind \in Kinds
    BY <1>0, <1>2 DEF LaneTyping
  <2>2. /\ job.kind = lane[l].kind /\ job.request = lane[l].request /\ job.signed = lane[l].signed
        /\ job.step = lane[l].step /\ job.phase = "read" /\ job # Idle
    BY <2>1 DEF JobType, Kinds, Idle
  <2>3. lane'[l] = job /\ \A k \in Lanes \ {l} : lane'[k] = lane[k]
    BY <2>1 DEF LaneTyping
  <2> HIDE DEF job
  <2> QED
    BY <1>0, <1>2, <2>2, <2>3, SameResults DEF Moves, Looks, SameJob
<1> QED
  BY <1>1, <1>2 DEF Retry

\* A swap puts what the job publishes.
LEMMA SwapMoves ==
    ASSUME DocTyping, LaneTyping, SwapInv, WriteInv, NEW l \in Lanes, Swap(l)
    PROVE  /\ Moves(l) /\ \A k \in Lanes \ {l} : lane'[k] = lane[k]
           /\ \A d \in DocNames : DocMoves(d)
           /\ ResultMoves /\ UNCHANGED <<signed, stray>>
<1>0. /\ Writing(l) /\ docs[Doc(l)] = lane[l].read /\ docs' = [docs EXCEPT ![Doc(l)] = lane[l].next]
      /\ Advance(l) /\ UNCHANGED <<generation, signed, stray>> /\ lane[l] # Idle
  BY DEF Swap, Writing
<1>1. /\ lane[l] \in JobType /\ Doc(l) \in DocNames
      /\ lane[l].kind \in {"stable", "testing"} =>
            Doc(l) \in Manifests /\ lane[l].request \in StableSeals \cup TestingBuilds
      /\ Doc(l) \in Manifests => docs[Doc(l)] \in ManifestType
  BY <1>0, DocFacts DEF LaneTyping, DocTyping, CanBeLive
<1>2. docs'[Doc(l)] = lane[l].next /\ \A d \in DocNames \ {Doc(l)} : docs'[d] = docs[d]
  BY <1>0, <1>1 DEF DocTyping
<1>3. Published(lane[l], Doc(l), docs'[Doc(l)])
  BY <1>0, <1>1, <1>2, PublishedFacts DEF WriteInv
<1>4. /\ (GoesOn(l) \/ Succeeds(l)) /\ \A k \in Lanes \ {l} : lane'[k] = lane[k]
      /\ ResultMoves
  BY <1>0, <1>3, PutMoves
<1>5. \A d \in DocNames : DocMoves(d)
  BY <1>0, <1>2, <1>4 DEF DocMoves
<1> QED
  BY <1>0, <1>4, <1>5 DEF Moves

\* A job that dies may leave its swap behind.
LEMMA FailMoves ==
    ASSUME LaneTyping, NEW l \in Lanes, Fail(l)
    PROVE  /\ Moves(l) /\ \A k \in Lanes \ {l} : lane'[k] = lane[k]
           /\ StrayMoves /\ ResultMoves /\ UNCHANGED <<docs, signed>>
<1>0. lane[l] # Idle /\ UNCHANGED <<docs, generation, signed>> /\ Done(l, FALSE)
  BY DEF Fail
<1>1. Breaks(l) /\ (\A k \in Lanes \ {l} : lane'[k] = lane[k]) /\ ResultMoves
  BY <1>0, EndsBadly
<1>2. StrayMoves
  BY <1>0, <1>1 DEF Fail, StrayMoves, Writing, Breaks
<1> QED
  BY <1>0, <1>1, <1>2 DEF Moves

\* A job begins in a group that is idle.
LEMMA BeginMoves ==
    ASSUME LaneTyping, NEW kind \in Kinds, NEW r, NEW s, Begin(kind, r, s)
    PROVE  /\ Starts(Group(kind)) /\ \A k \in Lanes \ {Group(kind)} : lane'[k] = lane[k]
           /\ lane'[Group(kind)].kind = kind /\ lane'[Group(kind)].request = r
           /\ lane'[Group(kind)].signed = s
           /\ UNCHANGED <<docs, signed, committed, released, stray, sealed, broken, generation>>
<1> DEFINE job == [Idle EXCEPT !.kind = kind, !.request = r, !.signed = s, !.step = 1]
<1>1. Group(kind) \in Lanes
  BY DEF Group, Lanes, Kinds
<1>2. lane' = [lane EXCEPT ![Group(kind)] = job] /\ lane[Group(kind)] = Idle
  BY DEF Begin
<1>3. job.kind = kind /\ job.request = r /\ job.signed = s /\ job.step = 1 /\ job.phase = "read"
      /\ job # Idle
  BY DEF Idle, Kinds
<1>4. lane'[Group(kind)] = job /\ \A k \in Lanes \ {Group(kind)} : lane'[k] = lane[k]
  BY <1>1, <1>2 DEF LaneTyping
<1> QED
  BY <1>2, <1>3, <1>4 DEF Begin, runVars, Starts

\* The jobs and documents of groups that do nothing.
LEMMA Quiet ==
    ASSUME UNCHANGED <<docs, stray>>
    PROVE  (\A d \in DocNames : DocMoves(d)) /\ StrayMoves
BY DEF DocMoves, StrayMoves

LEMMA QuietSigned == UNCHANGED signed => SignedMoves
BY DEF SignedMoves

LEMMA QuietResults == UNCHANGED <<committed, released, sealed, broken>> => ResultMoves
BY DEF ResultMoves

\* A job is started by a request, or on the artifact of a run that may start it.
LEMMA StartFacts ==
    ASSUME KindInv, StartStable \/ StartTesting \/ StartRepositories \/ StartImages \/ StartAliases
    PROVE  \E kind \in Kinds, r \in StableSeals \cup TestingBuilds \cup {NoRequest}, s \in signed \cup {NoSigned} :
              /\ Begin(kind, r, s)
              /\ kind = "stable" => r \in StableSeals
              /\ kind \in {"repositories", "images", "aliases"} => s \in signed
              /\ kind \in {"repositories", "images"} => s.generation = generation \/ StaleReruns
              /\ kind = "images" => s \in committed
BY DEF KindInv, Kinds, StartStable, StartTesting, StartRepositories, StartImages, StartAliases

\* Whatever happens, jobs, documents, late swaps, results and artifacts change so.
LEMMA StepFacts ==
    ASSUME DocTyping, LaneTyping, SwapInv, JobsInv, [Next]_vars
    PROVE  Step
<1>1. CASE StartStable \/ StartTesting \/ StartRepositories \/ StartImages \/ StartAliases
  <2>1. PICK kind \in Kinds, r \in StableSeals \cup TestingBuilds \cup {NoRequest}, s \in signed \cup {NoSigned} :
           Begin(kind, r, s)
    BY <1>1, StartFacts DEF JobsInv
  <2>2. \A l \in Lanes : Moves(l)
    BY <2>1, BeginMoves DEF Moves
  <2> QED
    BY <2>1, <2>2, BeginMoves, Quiet, QuietSigned, QuietResults DEF Step
<1>2. CASE StartCycle \/ SignAgain
  <2>1. UNCHANGED <<docs, lane, committed, released, stray, sealed, broken>>
    BY <1>2 DEF StartCycle, SignAgain
  <2>2. ASSUME NEW p, NEW g PROVE Sign(p, g).manifest = PreserveStable(docs["qualified"], Sign(p, g).manifest.devel)
    BY EmptyTypes, SignTypes DEF Sign, PreserveStable, DocTyping, CanBeLive, Manifests, ManifestType
  <2>3. SignedMoves
    BY <1>2, <2>1, <2>2 DEF StartCycle, SignAgain, SignedMoves
  <2> QED
    BY <2>1, <2>3, Quiet, QuietResults DEF Step, Moves
<1>3. ASSUME NEW l \in Lanes, Get(l) PROVE Step
  BY <1>3, GetMoves, Quiet, QuietSigned DEF Step, Moves
<1>4. ASSUME NEW l \in Lanes, Retry(l) PROVE Step
  BY <1>4, RetryMoves, Quiet, QuietSigned DEF Step, Moves
<1>5. ASSUME NEW l \in Lanes, Swap(l) PROVE Step
  <2>1. StrayMoves
    BY <1>5 DEF Swap, StrayMoves
  <2> QED
    BY <1>5, <2>1, SwapMoves, QuietSigned DEF Step, Moves, JobsInv
<1>6. ASSUME NEW l \in Lanes, Fail(l) PROVE Step
  <2>1. \A d \in DocNames : DocMoves(d)
    BY <1>6 DEF Fail, DocMoves
  <2> QED
    BY <1>6, <2>1, FailMoves, QuietSigned DEF Step, Moves
<1>7. CASE LateSwap
  <2>1. PICK w \in stray :
           /\ docs[w.doc] = w.read /\ docs' = [docs EXCEPT ![w.doc] = w.next]
           /\ stray' = stray \ {w}
           /\ UNCHANGED <<runVars, lane, failures, sealed, broken>>
    BY <1>7 DEF LateSwap
  <2>2. \A d \in DocNames : DocMoves(d)
    BY <2>1 DEF DocMoves, DocTyping
  <2>3. StrayMoves
    BY <2>1 DEF StrayMoves
  <2> QED
    BY <2>1, <2>2, <2>3, QuietSigned, QuietResults DEF Step, Moves, runVars
<1>8. CASE UNCHANGED vars
  BY <1>8, Quiet, QuietSigned, QuietResults DEF vars, runVars, Step, Moves
<1> QED
  BY <1>1, <1>2, <1>3, <1>4, <1>5, <1>6, <1>7, <1>8 DEF Next

\* Jobs keep to their groups and to what they decided.
LEMMA JobsStep ==
    ASSUME DocTyping, LaneTyping, SwapInv, JobsInv, [Next]_vars
    PROVE  JobsInv'
<1>1. /\ \A l \in Lanes : Moves(l)
      /\ ResultMoves /\ signed \subseteq signed'
  BY StepFacts DEF Step, SignedMoves
<1>2. ASSUME NEW l \in Lanes, Starts(l)
      PROVE  /\ Group(lane'[l].kind) = l
             /\ lane'[l].kind = "stable" => lane'[l].request \in StableSeals
             /\ lane'[l].kind \in {"repositories", "images", "aliases"} => lane'[l].signed \in signed'
  <2>1. CASE StartStable \/ StartTesting \/ StartRepositories \/ StartImages \/ StartAliases
    <3>1. PICK kind \in Kinds, r \in StableSeals \cup TestingBuilds \cup {NoRequest}, s \in signed \cup {NoSigned} :
             /\ Begin(kind, r, s)
             /\ kind = "stable" => r \in StableSeals
             /\ kind \in {"repositories", "images", "aliases"} => s \in signed
      BY <2>1, StartFacts DEF JobsInv
    <3>2. /\ \A k \in Lanes \ {Group(kind)} : lane'[k] = lane[k]
          /\ lane'[Group(kind)].kind = kind /\ lane'[Group(kind)].request = r
          /\ lane'[Group(kind)].signed = s
      BY <3>1, BeginMoves
    <3>3. l = Group(kind)
      BY <1>2, <3>2 DEF Starts
    <3> QED
      BY <1>1, <3>1, <3>2, <3>3
  <2>2. CASE \E k \in Lanes : Get(k) \/ Swap(k) \/ Retry(k) \/ Fail(k)
    <3>1. PICK k \in Lanes : lane[k] # Idle /\ \A i \in Lanes \ {k} : lane'[i] = lane[i]
      BY <2>2, GetMoves, SwapMoves, RetryMoves, FailMoves DEF JobsInv, Get, Swap, Retry, Fail
    <3> QED
      BY <1>2, <3>1 DEF Starts
  <2>3. CASE UNCHANGED lane
    BY <1>2, <2>3 DEF Starts
  <2> QED
    BY <2>1, <2>2, <2>3 DEF Next, vars, StartCycle, SignAgain, LateSwap
<1>3. \A l \in Lanes : lane'[l] = lane[l] \/ SameJob(l) \/ Starts(l) \/ lane'[l] = Idle
  BY <1>1 DEF Moves, Looks, Decides, GoesOn, Succeeds, Breaks
<1>4. \A l \in Lanes : lane'[l] # Idle =>
          /\ Group(lane'[l].kind) = l
          /\ lane'[l].kind = "stable" => lane'[l].request \in StableSeals
          /\ lane'[l].kind \in {"repositories", "images", "aliases"} => lane'[l].signed \in signed'
  BY <1>1, <1>2, <1>3 DEF JobsInv, KindInv, SameJob
<1>5. committed' \subseteq signed' /\ released' \subseteq signed'
  BY <1>1 DEF ResultMoves, JobsInv, KindInv, Succeeds
<1>6. ASSUME NEW l \in Lanes, lane'[l] # Idle, lane'[l].phase = "write"
      PROVE  /\ Permitted(lane'[l], Doc(l)', lane'[l].read)
             /\ lane'[l].next = Replacement(lane'[l], Doc(l)', lane'[l].read)
  <2>1. CASE lane'[l] = lane[l]
    BY <1>6, <2>1 DEF JobsInv, WriteInv, Writing, Doc
  <2>2. CASE Decides(l)
    BY <2>2 DEF Decides, SameJob, Doc, Permitted, Replacement, ReleaseOf, PutGeneration
  <2> QED
    BY <1>1, <1>6, <2>1, <2>2 DEF Moves, Starts, Looks, GoesOn, Succeeds, Breaks
<1>7. KindInv'
  BY <1>4, <1>5 DEF KindInv
<1>8. WriteInv'
  BY <1>6 DEF WriteInv, Writing
<1> QED
  BY <1>7, <1>8 DEF JobsInv

(***************************************************************************)
(* What only moves forward                                                 *)
(***************************************************************************)
\* The document of each step of each kind of job.
LEMMA DocOf ==
    ASSUME LaneTyping, NEW l \in Lanes, lane[l] # Idle
    PROVE  /\ lane[l].kind \in Kinds /\ lane[l].step \in 1..3
           /\ lane[l].kind \in {"stable", "testing"} =>
                 /\ Len(Puts(lane[l].kind)) = 2
                 /\ <<lane[l].step, Doc(l)>> \in {<<1, "legacy">>, <<2, "qualified">>}
           /\ lane[l].kind = "repositories" =>
                 /\ Len(Puts(lane[l].kind)) = 2
                 /\ <<lane[l].step, Doc(l)>> \in {<<1, "qualified">>, <<2, "legacy">>}
           /\ lane[l].kind = "images" =>
                 <<lane[l].step, Doc(l)>> \in {<<1, "release">>, <<2, "qualified">>}
           /\ lane[l].kind = "aliases" =>
                 <<lane[l].step, Doc(l)>> \in {<<1, "multiarch">>, <<2, "legacyRelease">>, <<3, "legacy">>}
<1> DEFINE n == lane[l].step
           puts == Puts(lane[l].kind)
<1>1. lane[l].kind \in Kinds /\ n \in 1..Len(puts) /\ Doc(l) = puts[n]
  BY DEF LaneTyping, Doc
<1> HIDE DEF n, puts
<1>2. CASE lane[l].kind \in {"stable", "testing"}
  <2>1. puts = <<"legacy", "qualified">>
    BY <1>2 DEF puts, Puts
  <2> QED
    BY <1>1, <1>2, <2>1 DEF n, puts
<1>3. CASE lane[l].kind = "repositories"
  <2>1. puts = <<"qualified", "legacy">>
    BY <1>3 DEF puts, Puts
  <2> QED
    BY <1>1, <1>3, <2>1 DEF n, puts
<1>4. CASE lane[l].kind = "images"
  <2>1. puts = <<"release", "qualified">>
    BY <1>4 DEF puts, Puts
  <2> QED
    BY <1>1, <1>4, <2>1 DEF n, puts
<1>5. CASE lane[l].kind = "aliases"
  <2>1. puts = <<"multiarch", "legacyRelease", "legacy">>
    BY <1>5 DEF puts, Puts
  <2> QED
    BY <1>1, <1>5, <2>1 DEF n, puts
<1>6. n \in 1..3
  BY <1>1, PutsFacts DEF puts
<1> QED
  BY <1>1, <1>2, <1>3, <1>4, <1>5, <1>6 DEF Kinds, n, puts

\* What a manifest holds it keeps, and it stays ahead of what it is ahead of.
LEMMA ManifestsGrow ==
    ASSUME IInv, [Next]_vars, NEW d \in Manifests
    PROVE  /\ docs[d] \in ManifestType /\ docs'[d] \in ManifestType
           /\ StableAdvances(docs[d], docs'[d])
           /\ HasTesting(docs[d]) => HasTesting(docs'[d])
           /\ \A r \in StableSeals \cup TestingBuilds : Held(docs[d], r) => Held(docs'[d], r)
           /\ \A m \in ManifestType : Behind(m, docs[d]) => Behind(m, docs'[d])
<1>1. docs[d] \in ManifestType
  BY DEF IInv, DocTyping, CanBeLive
<1>2. docs'[d] = docs[d] \/ Sound(d, docs[d], docs'[d])
  BY DocsAdvance DEF IInv, DocNames
<1>3. /\ docs'[d] \in ManifestType
      /\ StableAdvances(docs[d], docs'[d]) /\ TestingAdvances(docs[d], docs'[d])
  BY <1>1, <1>2, NothingMoves DEF Sound
<1>4. /\ docs[d].stableVersion \in Nat /\ docs'[d].stableVersion \in Nat
      /\ docs[d].testingVersion \in Nat /\ docs'[d].testingVersion \in Nat
  BY <1>1, <1>3 DEF ManifestType
<1>5. HasTesting(docs[d]) => HasTesting(docs'[d])
  BY <1>3, <1>4 DEF TestingAdvances, HasTesting
<1>6. \A r \in StableSeals \cup TestingBuilds : Held(docs[d], r) => Held(docs'[d], r)
  BY <1>3, <1>4, RequestFields DEF Held, StableAdvances, HasStable
<1>7. ASSUME NEW m \in ManifestType, Behind(m, docs[d]) PROVE Behind(m, docs'[d])
  <2>1. m.stableVersion \in Nat
    BY DEF ManifestType
  <2> QED
    BY <1>3, <1>4, <1>5, <1>7, <2>1 DEF Behind, StableAdvances, HasStable
<1> QED
  BY <1>1, <1>3, <1>5, <1>6, <1>7

\* Release documents get newer ones only.
LEMMA ReleasesGrow ==
    ASSUME IInv, [Next]_vars, NEW d \in Releases
    PROVE  /\ docs[d].generation \in Nat /\ docs'[d].generation \in Nat
           /\ docs[d].generation <= docs'[d].generation
<1>1. docs[d] \in Release /\ (docs'[d] = docs[d] \/ Sound(d, docs[d], docs'[d]))
  BY DocsAdvance DEF IInv, DocTyping, DocNames
<1> QED
  BY <1>1 DEF Sound, Release

(***************************************************************************)
(* Sealed releases                                                         *)
(***************************************************************************)
LEMMA SealStep ==
    ASSUME IInv, JobsInv, SealInv, [Next]_vars
    PROVE  SealInv'
<1>1. Step /\ KindInv /\ LaneTyping
  BY StepFacts DEF IInv, JobsInv
<1>2. ASSUME NEW l \in Lanes, lane[l] # Idle, lane[l].kind = "stable"
      PROVE  /\ lane[l].request \in StableSeals /\ lane[l].request.version \in Nat
             /\ <<lane[l].step, Doc(l)>> \in {<<1, "legacy">>, <<2, "qualified">>}
             /\ Len(Puts(lane[l].kind)) = 2
             /\ \A d, m : Published(lane[l], d, m) => Held(m, lane[l].request)
  BY <1>1, <1>2, DocOf, RequestFields DEF KindInv, Published, Held
<1>3. ASSUME NEW r \in sealed', NEW d \in Manifests
      PROVE  r \in StableSeals /\ Held(docs'[d], r)
  <2>1. CASE r \in sealed
    BY <2>1, ManifestsGrow DEF SealInv
  <2>2. CASE \E l \in Lanes : Succeeds(l) /\ lane[l].kind = "stable" /\ r = lane[l].request
    <3>1. PICK l \in Lanes : Succeeds(l) /\ lane[l].kind = "stable" /\ r = lane[l].request
      BY <2>2
    <3>2. /\ r \in StableSeals /\ lane[l].step = 2 /\ Doc(l) = "qualified"
          /\ Held(docs'["qualified"], r)
      BY <1>2, <3>1 DEF Succeeds
    <3>3. Held(docs["legacy"], r)
      BY <3>1, <3>2 DEF SealInv, Succeeds
    <3>4. Held(docs'["legacy"], r)
      BY <3>2, <3>3, ManifestsGrow DEF Manifests
    <3> QED
      BY <3>2, <3>4 DEF Manifests
  <2> QED
    BY <1>1, <2>1, <2>2 DEF Step, ResultMoves
<1>4. ASSUME NEW l \in Lanes, lane'[l] # Idle, lane'[l].kind = "stable", lane'[l].step = 2
      PROVE  Held(docs'["legacy"], lane'[l].request)
  <2>1. Moves(l)
    BY <1>1 DEF Step
  <2>2. CASE GoesOn(l)
    BY <1>2, <1>4, <2>2 DEF GoesOn, SameJob
  <2>3. CASE lane'[l] = lane[l] \/ Looks(l) \/ Decides(l)
    <3>1. lane[l] # Idle /\ lane[l].kind = "stable" /\ lane[l].step = 2 /\ lane'[l].request = lane[l].request
      BY <1>4, <2>3 DEF Looks, Decides, SameJob
    <3> QED
      BY <1>2, <3>1, ManifestsGrow DEF SealInv, Manifests
  <2> QED
    BY <1>4, <2>1, <2>2, <2>3 DEF Moves, Starts, Succeeds, Breaks
<1> QED
  BY <1>3, <1>4 DEF SealInv, Manifests

(***************************************************************************)
(* Retained channels                                                       *)
(***************************************************************************)
\* What the retained channels of a replacement are.
LEMMA ReplacementRetains ==
    ASSUME NEW job \in JobType, NEW d \in Manifests, NEW old, CanBeLive(old), Proper(old),
           job.kind \in Kinds,
           job.kind \in {"stable", "testing"} => job.request \in StableSeals \cup TestingBuilds,
           Permitted(job, d, old), NEW new, new = Replacement(job, d, old)
    PROVE  /\ job.kind = "stable" => SameTesting(old, new) /\ HasStable(new)
           /\ job.kind = "testing" => SameStable(old, new) /\ HasTesting(new)
           /\ job.kind \in {"stable", "testing"} => Proper(new)
           /\ job.kind \notin {"stable", "testing"} =>
                 /\ new = job.signed.manifest
                 /\ old = EmptyManifest \/ KeepsRetained(old, new)
<1> DEFINE v == job.request.version
           p == job.request.pair
<1>1. /\ old \in ManifestType
      /\ Migrated(old).stableVersion = old.stableVersion /\ Migrated(old).stable = old.stable
      /\ Migrated(old).testingVersion = old.testingVersion /\ Migrated(old).testing = old.testing
  BY DEF CanBeLive, Proper, Migrated, HasStable, HasTesting, EmptyManifest
<1>2. CASE job.kind \in {"stable", "testing"}
  <2>1. v \in Nat \ {0} /\ v \in Nat /\ p \in Pair
    BY <1>2, RequestFields
  <2>2. CASE job.kind = "stable"
    <3>1. new = SealStable(old, v, p)
      BY <2>2, DocsDiffer DEF Replacement
    <3>2. /\ new.stableVersion = v /\ new.testingVersion = old.testingVersion
          /\ new.testing = old.testing
      BY <1>1, <2>1, <3>1, SealTypes
    <3> QED
      BY <2>1, <2>2, <3>2 DEF SameTesting, HasStable, HasTesting, Proper
  <2>3. CASE job.kind = "testing"
    <3>1. new = PublishTesting(old, v, p)
      BY <2>3, DocsDiffer DEF Replacement
    <3>2. /\ new.testingVersion = v /\ new.stableVersion = old.stableVersion
          /\ new.stable = old.stable
      BY <1>1, <2>1, <3>1, TestingTypes
    <3> QED
      BY <2>1, <2>3, <3>2 DEF SameStable, HasStable, HasTesting, Proper
  <2> QED
    BY <1>2, <2>2, <2>3
<1>3. CASE job.kind \notin {"stable", "testing"}
  BY <1>3, DocsDiffer DEF Replacement, Permitted, MayReplace
<1> QED
  BY <1>2, <1>3

\* What the signing keeps.
LEMMA SigningRetains ==
    ASSUME NEW m \in ManifestType, NEW p
    PROVE  SameStable(m, PreserveStable(m, p)) /\ SameTesting(m, PreserveStable(m, p))
BY DEF ManifestType, PreserveStable, SameStable, SameTesting

\* The order of manifests depends on the retained channels only.
LEMMA BehindFacts ==
    ASSUME NEW m \in ManifestType, NEW n \in ManifestType
    PROVE  /\ SameStable(m, n) /\ SameTesting(m, n) => Behind(m, n) /\ (Proper(m) => Proper(n))
           /\ \A q \in ManifestType :
                 SameStable(m, n) /\ SameTesting(m, n) /\ Behind(m, q) => Behind(n, q)
BY DEF Behind, StableAdvances, HasStable, HasTesting, SameStable, SameTesting, Proper, ManifestType

\* The manifests of artifacts, writers and late swaps are manifests.
LEMMA ManifestTypes ==
    ASSUME IInv
    PROVE  /\ \A d \in Manifests : docs[d] \in ManifestType /\ CanBeLive(docs[d]) /\ d \in DocNames
           /\ \A s \in signed : s.manifest \in ManifestType
           /\ \A l \in Lanes : Writing(l) /\ Doc(l) \in Manifests => lane[l].next \in ManifestType
           /\ \A w \in stray : w.doc \in Manifests => w.next \in ManifestType
           /\ "qualified" \in Manifests /\ "legacy" \in Manifests
BY DEF IInv, DocTyping, SwapInv, CanBeLive, Writing, Sound, Artifacts, Signed, DocNames, Manifests

\* A job that decides to swap does so for the document it has just read.
LEMMA Decision ==
    ASSUME IInv, JobsInv, ProperInv, NEW l \in Lanes, Decides(l), Doc(l) \in Manifests
    PROVE  LET old == docs[Doc(l)]
               new == lane'[l].next
               kind == lane[l].kind IN
           /\ lane'[l].kind = kind /\ lane'[l].read = old /\ Doc(l)' = Doc(l)
           /\ kind = "stable" => SameTesting(old, new) /\ HasStable(new) /\ Proper(new)
           /\ kind = "testing" => SameStable(old, new) /\ HasTesting(new) /\ Proper(new)
           /\ kind \in {"stable", "testing"} => Published(lane[l], Doc(l), new)
           /\ kind \notin {"stable", "testing"} =>
                 /\ \E s \in signed : new = s.manifest
                 /\ old = EmptyManifest \/ KeepsRetained(old, new)
<1> DEFINE old == docs[Doc(l)]
           new == lane'[l].next
<1>1. /\ lane[l] \in JobType /\ lane[l].kind \in Kinds /\ Doc(l) \in DocNames
      /\ CanBeLive(old) /\ old \in ManifestType /\ Proper(old)
      /\ lane[l].kind \in {"stable", "testing"} => lane[l].request \in StableSeals \cup TestingBuilds
      /\ Permitted(lane[l], Doc(l), old) /\ new = Replacement(lane[l], Doc(l), old)
      /\ lane'[l].kind = lane[l].kind /\ lane'[l].read = old /\ Doc(l)' = Doc(l)
      /\ lane[l].kind \notin {"stable", "testing"} => lane[l].signed \in signed
  BY ManifestTypes DEF Decides, SameJob, IInv, LaneTyping, ProperInv, Doc, JobsInv, KindInv, Kinds
<1>2. Published(lane[l], Doc(l), new)
  BY <1>1, PublishedFacts
<1> HIDE DEF old, new
<1>3. /\ lane[l].kind = "stable" => SameTesting(old, new) /\ HasStable(new)
      /\ lane[l].kind = "testing" => SameStable(old, new) /\ HasTesting(new)
      /\ lane[l].kind \in {"stable", "testing"} => Proper(new)
      /\ lane[l].kind \notin {"stable", "testing"} =>
            /\ new = lane[l].signed.manifest
            /\ old = EmptyManifest \/ KeepsRetained(old, new)
  BY <1>1, ReplacementRetains
<1> QED
  BY <1>1, <1>2, <1>3 DEF old, new

\* What is not in a manifest has no pair, in any step.
LEMMA ProperStep ==
    ASSUME IInv, JobsInv, ProperInv, [Next]_vars
    PROVE  ProperInv'
<1>1. Step
  BY StepFacts DEF IInv
<1>2. \A d \in Manifests : Proper(docs'[d])
  BY <1>1, ManifestTypes DEF Step, DocMoves, ProperInv
<1>3. ASSUME NEW s \in signed' PROVE Proper(s.manifest)
  <2>1. CASE s \in signed
    BY <2>1 DEF ProperInv
  <2>2. CASE s.manifest = PreserveStable(docs["qualified"], s.manifest.devel)
    <3>1. SameStable(docs["qualified"], s.manifest) /\ SameTesting(docs["qualified"], s.manifest)
      BY <2>2, ManifestTypes, SigningRetains
    <3> QED
      BY <3>1, ManifestTypes DEF ProperInv, Proper, SameStable, SameTesting, HasStable, HasTesting
  <2> QED
    BY <1>1, <2>1, <2>2 DEF Step, SignedMoves
<1>4. ASSUME NEW l \in Lanes, Writing(l)', Doc(l)' \in Manifests PROVE Proper(lane'[l].next)
  <2>1. CASE lane'[l] = lane[l]
    BY <1>4, <2>1 DEF ProperInv, Writing, Doc
  <2>2. CASE Decides(l)
    <3>1. Doc(l) \in Manifests
      BY <1>4, <2>2 DEF Decides, SameJob, Doc
    <3> QED
      BY <2>2, <3>1, Decision DEF ProperInv
  <2> QED
    BY <1>1, <1>4, <2>1, <2>2 DEF Step, Moves, Starts, Looks, GoesOn, Succeeds, Breaks, Writing
<1>5. \A w \in stray' : w.doc \in Manifests => Proper(w.next)
  BY <1>1 DEF Step, StrayMoves, ProperInv
<1> QED
  BY <1>2, <1>3, <1>4, <1>5 DEF ProperInv

\* The legacy manifest stays ahead of the qualified one, and both of what is signed.
LEMMA RetainStep ==
    ASSUME IInv, JobsInv, ProperInv, SealInv, RetainInv, [Next]_vars
    PROVE  RetainInv'
<1>1. Step /\ KindInv /\ LaneTyping /\ IInv'
  BY StepFacts, DocTypingStep, LaneStep DEF IInv, JobsInv
<1> DEFINE legacy == docs["legacy"]
<1>2. /\ legacy \in ManifestType /\ docs["qualified"] \in ManifestType
      /\ \A m \in ManifestType : Behind(m, legacy) => Behind(m, docs'["legacy"])
  BY ManifestTypes, ManifestsGrow
<1>3. Behind(docs'["qualified"], docs'["legacy"])
  <2>1. Behind(docs'["qualified"], legacy)
    BY <1>1, ManifestTypes DEF Step, DocMoves, RetainInv
  <2> QED
    BY <1>2, <2>1, ManifestsGrow, ManifestTypes
<1>4. ASSUME NEW l \in Lanes, Writing(l)', Doc(l)' = "qualified"
      PROVE  Behind(lane'[l].next, docs'["legacy"])
  <2>1. CASE lane'[l] = lane[l]
    <3>1. Writing(l) /\ Doc(l) = "qualified" /\ lane'[l].next = lane[l].next
      BY <1>4, <2>1 DEF Writing, Doc
    <3>2. Behind(lane[l].next, legacy) /\ lane[l].next \in ManifestType
      BY <3>1, ManifestTypes DEF RetainInv
    <3> QED
      BY <1>2, <3>1, <3>2
  <2>2. CASE Decides(l)
    <3> DEFINE old == docs["qualified"]
               new == lane'[l].next
    <3>0. Doc(l) = "qualified" /\ docs' = docs /\ lane[l] # Idle
      BY <1>4, <2>2 DEF Decides, SameJob, Doc
    <3>1. /\ lane[l].kind = "stable" => SameTesting(old, new) /\ HasStable(new) /\ Published(lane[l], "qualified", new)
          /\ lane[l].kind = "testing" => SameStable(old, new) /\ HasTesting(new)
          /\ lane[l].kind \notin {"stable", "testing"} => \E s \in signed : new = s.manifest
      BY <2>2, <3>0, Decision, ManifestTypes
    <3>2. lane[l].kind \in {"stable", "testing"} => lane[l].step = 2
      BY <1>1, <3>0, DocOf
    <3>3. Behind(old, legacy)
      BY DEF RetainInv
    <3> HIDE DEF legacy, new, old
    <3>4. ASSUME lane[l].kind = "stable" PROVE Behind(new, legacy)
      <4>1. Held(legacy, lane[l].request) /\ new.stableVersion = lane[l].request.version
            /\ new.stable = lane[l].request.pair /\ SameTesting(old, new)
        BY <3>0, <3>1, <3>2, <3>4 DEF SealInv, Published, legacy
      <4> QED
        BY <3>3, <4>1 DEF Behind, StableAdvances, Held, SameTesting, HasTesting
    <3>5. ASSUME lane[l].kind = "testing" PROVE Behind(new, legacy)
      <4>1. HasTesting(legacy) /\ SameStable(old, new)
        BY <3>0, <3>1, <3>2, <3>5 DEF RetainInv, legacy
      <4> QED
        BY <3>3, <4>1 DEF Behind, StableAdvances, SameStable, HasStable
    <3>6. ASSUME lane[l].kind \notin {"stable", "testing"} PROVE Behind(new, legacy)
      BY <3>1, <3>6, ManifestTypes DEF RetainInv, legacy
    <3> QED
      BY <3>0, <3>4, <3>5, <3>6 DEF new, legacy
  <2> QED
    BY <1>1, <1>4, <2>1, <2>2 DEF Step, Moves, Starts, Looks, GoesOn, Succeeds, Breaks, Writing
<1>5. ASSUME NEW w \in stray', w.doc = "qualified" PROVE Behind(w.next, docs'["legacy"])
  <2>1. Behind(w.next, legacy) /\ w.next \in ManifestType
    BY <1>1, <1>5, ManifestTypes DEF Step, StrayMoves, RetainInv
  <2> QED
    BY <1>2, <2>1
<1>6. ASSUME NEW s \in signed', NEW d \in Manifests PROVE Behind(s.manifest, docs'[d])
  <2>1. CASE s \in signed
    BY <2>1, ManifestTypes, ManifestsGrow DEF RetainInv
  <2>2. CASE docs' = docs /\ s.manifest = PreserveStable(docs["qualified"], s.manifest.devel)
    <3>1. SameStable(docs["qualified"], s.manifest) /\ SameTesting(docs["qualified"], s.manifest)
      BY <2>2, ManifestTypes, SigningRetains
    <3>2. Behind(docs["qualified"], docs[d])
      BY ManifestTypes, BehindFacts DEF RetainInv, Manifests, SameStable, SameTesting
    <3> QED
      BY <2>2, <3>1, <3>2 DEF Behind, StableAdvances, HasStable, HasTesting, SameStable, SameTesting
  <2> QED
    BY <1>1, <2>1, <2>2 DEF Step, SignedMoves
<1>7. ASSUME NEW l \in Lanes, lane'[l] # Idle, lane'[l].kind = "testing", lane'[l].step = 2
      PROVE  HasTesting(docs'["legacy"])
  <2>1. CASE GoesOn(l)
    <3>1. lane[l] # Idle /\ lane[l].kind = "testing" /\ lane[l].step = 1
      BY <1>1, <1>7, <2>1, DocOf DEF GoesOn, SameJob
    <3>2. Doc(l) = "legacy" /\ lane[l].request.version # 0
      BY <1>1, <3>1, DocOf, RequestFields DEF LaneTyping
    <3> QED
      BY <2>1, <3>1, <3>2 DEF GoesOn, Published, HasTesting
  <2>2. CASE lane'[l] = lane[l] \/ Looks(l) \/ Decides(l)
    <3>1. lane[l] # Idle /\ lane[l].kind = "testing" /\ lane[l].step = 2
      BY <1>7, <2>2 DEF Looks, Decides, SameJob
    <3> QED
      BY <3>1, ManifestsGrow, ManifestTypes DEF RetainInv
  <2> QED
    BY <1>1, <1>7, <2>1, <2>2 DEF Step, Moves, Starts, Succeeds, Breaks
<1> QED
  BY <1>3, <1>4, <1>5, <1>6, <1>7 DEF RetainInv

(***************************************************************************)
(* The agreement of the two manifests                                      *)
(***************************************************************************)
\* Replacing the live manifest by a signed one changes neither retained channel.
LEMMA ReplacesSame ==
    ASSUME NEW old \in ManifestType, NEW new \in ManifestType, Proper(old), Proper(new), Behind(new, old),
           old = EmptyManifest \/ KeepsRetained(old, new)
    PROVE  SameStable(old, new) /\ SameTesting(old, new)
<1>1. /\ old.stableVersion \in Nat /\ new.stableVersion \in Nat
      /\ old.testingVersion \in Nat /\ new.testingVersion \in Nat
  BY DEF ManifestType
<1>2. CASE old = EmptyManifest
  BY <1>1, <1>2 DEF EmptyManifest, Behind, StableAdvances, Proper, HasStable, HasTesting,
                    SameStable, SameTesting
<1>3. CASE KeepsRetained(old, new)
  BY <1>1, <1>3 DEF KeepsRetained, KeepsStable, Behind, StableAdvances, Proper, HasStable, HasTesting,
                    SameStable, SameTesting
<1> QED
  BY <1>2, <1>3

\* A change of a manifest that is not by a Stable job keeps Stable, and so for Testing.
LEMMA OthersKeep ==
    ASSUME IInv, AgreeInv, ~broken, Step, NEW d \in Manifests
    PROVE  /\ \/ SameStable(docs[d], docs'[d])
              \/ \E l \in Lanes : lane[l].kind = "stable" /\ Doc(l) = d /\ (GoesOn(l) \/ Succeeds(l))
           /\ \/ SameTesting(docs[d], docs'[d])
              \/ \E l \in Lanes : lane[l].kind = "testing" /\ Doc(l) = d /\ (GoesOn(l) \/ Succeeds(l))
<1>1. DocMoves(d)
  BY ManifestTypes DEF Step
<1>2. CASE docs'[d] = docs[d]
  BY <1>2 DEF SameStable, SameTesting
<1>3. CASE \E w \in stray : w.doc = d /\ docs[d] = w.read /\ docs'[d] = w.next
  BY <1>3 DEF AgreeInv
<1>4. ASSUME NEW l \in Lanes, Writing(l), Doc(l) = d, docs[d] = lane[l].read, docs'[d] = lane[l].next,
             GoesOn(l) \/ Succeeds(l)
      PROVE  /\ SameStable(docs[d], docs'[d]) \/ lane[l].kind = "stable"
             /\ SameTesting(docs[d], docs'[d]) \/ lane[l].kind = "testing"
  BY <1>4 DEF AgreeInv
<1> QED
  BY <1>1, <1>2, <1>3, <1>4 DEF DocMoves

LEMMA AgreeStep ==
    ASSUME IInv, JobsInv, ProperInv, RetainInv, AgreeInv, [Next]_vars
    PROVE  AgreeInv'
<1> SUFFICES ASSUME ~broken' PROVE AgreeInv'
  BY DEF AgreeInv
<1>1. /\ Step /\ KindInv /\ LaneTyping /\ ~broken
      /\ \A l \in Lanes : Moves(l)
  BY StepFacts DEF IInv, JobsInv, Step, ResultMoves
<1> USE DEF Manifests
<1>2. ASSUME NEW l \in Lanes, Writing(l)', Doc(l)' \in Manifests
      PROVE  /\ lane'[l].kind # "stable" => SameStable(lane'[l].read, lane'[l].next)
             /\ lane'[l].kind # "testing" => SameTesting(lane'[l].read, lane'[l].next)
  <2>1. CASE lane'[l] = lane[l]
    BY <1>1, <1>2, <2>1 DEF AgreeInv, Writing, Doc
  <2>2. CASE Decides(l)
    <3>1. Doc(l) \in Manifests
      BY <1>2, <2>2 DEF Decides, SameJob, Doc
    <3> DEFINE old == docs[Doc(l)]
               new == lane'[l].next
    <3>2. /\ lane'[l].kind = lane[l].kind /\ lane'[l].read = old
          /\ lane[l].kind = "stable" => SameTesting(old, new)
          /\ lane[l].kind = "testing" => SameStable(old, new)
          /\ lane[l].kind \notin {"stable", "testing"} =>
                /\ \E s \in signed : new = s.manifest
                /\ old = EmptyManifest \/ KeepsRetained(old, new)
      BY <2>2, <3>1, Decision
    <3>3. ASSUME lane[l].kind \notin {"stable", "testing"}
          PROVE  SameStable(old, new) /\ SameTesting(old, new)
      <4>1. PICK s \in signed : new = s.manifest
        BY <3>2, <3>3
      <4>2. /\ old \in ManifestType /\ new \in ManifestType
            /\ Proper(old) /\ Proper(new) /\ Behind(new, old)
        BY <3>1, <4>1, ManifestTypes DEF ProperInv, RetainInv
      <4> QED
        BY <3>2, <3>3, <4>2, ReplacesSame
    <3> QED
      BY <3>2, <3>3
  <2> QED
    BY <1>1, <1>2, <2>1, <2>2 DEF Moves, Starts, Looks, GoesOn, Succeeds, Breaks, Writing
<1>3. ASSUME NEW w \in stray', w.doc \in Manifests
      PROVE  SameStable(w.read, w.next) /\ SameTesting(w.read, w.next)
  BY <1>1, <1>3 DEF Step, StrayMoves, AgreeInv
<1>4. LET job == lane'["releaseControl"] IN
      IF job # Idle /\ job.step = 2
      THEN Published(job, "legacy", docs'["legacy"])
      ELSE SameStable(docs'["legacy"], docs'["qualified"])
  <2> DEFINE l == "releaseControl"
  <2>1. /\ l \in Lanes /\ Moves(l)
        /\ lane[l] # Idle => lane[l].kind = "stable" /\ lane[l].request \in StableSeals
        /\ \A k \in Lanes : lane[k] # Idle /\ lane[k].kind = "stable" => k = l
    BY <1>1 DEF Lanes, KindInv, LaneTyping, Kinds, Group
  <2>2. lane[l] # Idle =>
           /\ Len(Puts(lane[l].kind)) = 2
           /\ <<lane[l].step, Doc(l)>> \in {<<1, "legacy">>, <<2, "qualified">>}
    BY <1>1, <2>1, DocOf
  <2>3. /\ lane[l] # Idle /\ lane[l].step = 2 =>
              docs["legacy"].stableVersion = lane[l].request.version /\ docs["legacy"].stable = lane[l].request.pair
        /\ ~(lane[l] # Idle /\ lane[l].step = 2) => SameStable(docs["legacy"], docs["qualified"])
    BY <1>1, <2>1 DEF AgreeInv, Published
  <2>4. \A d \in Manifests : SameStable(docs[d], docs'[d]) \/ (Doc(l) = d /\ (GoesOn(l) \/ Succeeds(l)))
    BY <1>1, <2>1, OthersKeep DEF GoesOn, SameJob, Succeeds
  <2> HIDE DEF l
  <2>5. CASE GoesOn(l)
    <3>0. lane[l].step = 1 /\ Doc(l) = "legacy"
      <4>1. lane[l] # Idle /\ lane[l].step < 2
        BY <2>2, <2>5 DEF GoesOn, SameJob
      <4> QED
        BY <2>2, <4>1
    <3>1. /\ lane[l].kind = "stable"
          /\ lane'[l] # Idle /\ lane'[l].step = 2
          /\ lane'[l].kind = "stable" /\ lane'[l].request = lane[l].request
      BY <2>1, <2>5, <3>0 DEF GoesOn, SameJob
    <3>2. Published(lane'[l], "legacy", docs'["legacy"])
      BY <2>5, <3>0, <3>1 DEF GoesOn, Published
    <3> QED
      BY <3>1, <3>2 DEF l
  <2>6. CASE Succeeds(l)
    <3>1. lane[l].kind = "stable" /\ lane[l].step = 2 /\ Doc(l) = "qualified" /\ lane'[l] = Idle
          /\ lane[l] # Idle
      BY <2>1, <2>2, <2>6 DEF Succeeds
    <3>2. docs'["qualified"].stableVersion = lane[l].request.version
          /\ docs'["qualified"].stable = lane[l].request.pair
      BY <2>6, <3>1 DEF Succeeds, Published
    <3>3. SameStable(docs["legacy"], docs'["legacy"])
      BY <2>4, <3>1
    <3>4. SameStable(docs'["legacy"], docs'["qualified"])
      BY <2>3, <3>1, <3>2, <3>3 DEF SameStable
    <3> QED
      BY <3>1, <3>4 DEF l
  <2>7. CASE lane'[l] = lane[l] \/ Looks(l) \/ Decides(l) \/ Starts(l)
    <3>1. \A d \in Manifests : SameStable(docs[d], docs'[d])
      <4>1. Looks(l) \/ Decides(l) => docs' = docs
        BY DEF Looks, Decides
      <4>2. lane'[l] = lane[l] \/ Starts(l) => ~(GoesOn(l) \/ Succeeds(l))
        <5>1. lane[l] # Idle => lane[l].step \in 1..3
          BY <1>1, <2>1, DocOf
        <5> QED
          BY <5>1 DEF Starts, GoesOn, Succeeds, SameJob
      <4> QED
        BY <2>4, <2>7, <4>1, <4>2 DEF SameStable
    <3>2. \/ lane[l] # Idle /\ lane'[l] # Idle /\ lane'[l].step = lane[l].step
             /\ lane'[l].kind = lane[l].kind /\ lane'[l].request = lane[l].request
          \/ lane[l] = Idle /\ (lane'[l] = Idle \/ lane'[l].step = 1)
      BY <2>7 DEF Looks, Decides, Starts, SameJob
    <3>3. CASE lane[l] # Idle /\ lane[l].step = 2
      BY <2>1, <2>3, <3>1, <3>2, <3>3 DEF Published, SameStable, l
    <3>4. CASE ~(lane[l] # Idle /\ lane[l].step = 2)
      BY <2>3, <3>1, <3>2, <3>4 DEF SameStable, l
    <3> QED
      BY <3>3, <3>4
  <2> QED
    BY <1>1, <2>1, <2>5, <2>6, <2>7 DEF Moves, Breaks
<1>5. LET job == lane'["development"] IN
      IF job # Idle /\ job.kind = "testing" /\ job.step = 2
      THEN Published(job, "legacy", docs'["legacy"])
      ELSE SameTesting(docs'["legacy"], docs'["qualified"])
  <2> DEFINE l == "development"
             second == lane[l] # Idle /\ lane[l].kind = "testing" /\ lane[l].step = 2
  <2>1. /\ l \in Lanes /\ Moves(l)
        /\ \A k \in Lanes : lane[k] # Idle /\ lane[k].kind = "testing" => k = l
    BY <1>1 DEF Lanes, KindInv, LaneTyping, Kinds, Group
  <2>2. lane[l] # Idle /\ lane[l].kind = "testing" =>
           /\ Len(Puts(lane[l].kind)) = 2
           /\ <<lane[l].step, Doc(l)>> \in {<<1, "legacy">>, <<2, "qualified">>}
    BY <1>1, <2>1, DocOf
  <2>3. /\ second =>
              /\ docs["legacy"].testingVersion = lane[l].request.version
              /\ docs["legacy"].testing = lane[l].request.pair
        /\ ~second => SameTesting(docs["legacy"], docs["qualified"])
    BY <1>1 DEF AgreeInv, Published
  <2>4. \A d \in Manifests :
           \/ SameTesting(docs[d], docs'[d])
           \/ lane[l].kind = "testing" /\ Doc(l) = d /\ (GoesOn(l) \/ Succeeds(l))
    BY <1>1, <2>1, OthersKeep DEF GoesOn, SameJob, Succeeds
  <2> HIDE DEF l
  <2>5. CASE lane[l].kind = "testing" /\ GoesOn(l)
    <3>0. lane[l].step = 1 /\ Doc(l) = "legacy"
      <4>1. lane[l] # Idle /\ lane[l].step < 2
        BY <2>2, <2>5 DEF GoesOn, SameJob
      <4> QED
        BY <2>2, <2>5, <4>1
    <3>1. /\ lane'[l] # Idle /\ lane'[l].step = 2
          /\ lane'[l].kind = "testing" /\ lane'[l].request = lane[l].request
      BY <2>5, <3>0 DEF GoesOn, SameJob
    <3>2. Published(lane'[l], "legacy", docs'["legacy"])
      BY <2>5, <3>0, <3>1 DEF GoesOn, Published
    <3> QED
      BY <3>1, <3>2 DEF l
  <2>6. CASE lane[l].kind = "testing" /\ Succeeds(l)
    <3>1. lane[l].step = 2 /\ Doc(l) = "qualified" /\ lane'[l] = Idle /\ lane[l] # Idle
      BY <2>2, <2>6 DEF Succeeds
    <3>2. docs'["qualified"].testingVersion = lane[l].request.version
          /\ docs'["qualified"].testing = lane[l].request.pair
      BY <2>6, <3>1 DEF Succeeds, Published
    <3>3. SameTesting(docs["legacy"], docs'["legacy"])
      BY <2>4, <3>1
    <3>4. SameTesting(docs'["legacy"], docs'["qualified"])
      BY <2>3, <2>6, <3>1, <3>2, <3>3 DEF SameTesting
    <3> QED
      BY <3>1, <3>4 DEF l
  <2>7. CASE /\ ~(lane[l].kind = "testing" /\ (GoesOn(l) \/ Succeeds(l)))
             /\ ~(lane[l].kind = "testing" /\ Breaks(l))
    <3>1. \A d \in Manifests : SameTesting(docs[d], docs'[d])
      BY <2>4, <2>7
    <3>2. CASE second
      <4>1. /\ lane'[l] # Idle /\ lane'[l].step = lane[l].step
            /\ lane'[l].kind = lane[l].kind /\ lane'[l].request = lane[l].request
        BY <2>1, <2>7, <3>2 DEF Moves, Looks, Decides, Starts, SameJob
      <4> QED
        BY <2>3, <3>1, <3>2, <4>1 DEF Published, SameTesting, l
    <3>3. CASE ~second
      <4>1. ~(lane'[l] # Idle /\ lane'[l].kind = "testing" /\ lane'[l].step = 2)
        BY <2>1, <2>7, <3>3 DEF Moves, Looks, Decides, Starts, GoesOn, Succeeds, Breaks, SameJob
      <4> QED
        BY <2>3, <3>1, <3>3, <4>1 DEF SameTesting, l
    <3> QED
      BY <3>2, <3>3
  <2> QED
    BY <2>5, <2>6, <2>7 DEF Breaks
<1> QED
  BY <1>2, <1>3, <1>4, <1>5 DEF AgreeInv

(***************************************************************************)
(* Aliases and defaults                                                    *)
(***************************************************************************)
\* A job that is about to put a release document puts that of its run.
LEMMA PutsItsRelease ==
    ASSUME IInv, WriteInv, NEW l \in Lanes, Writing(l), Doc(l) \in Releases
    PROVE  lane[l].next = ReleaseOf(lane[l])
<1>1. lane[l].next = Replacement(lane[l], Doc(l), lane[l].read)
      /\ lane[l].kind \notin {"stable", "testing"}
  BY DocFacts, DocsDiffer DEF WriteInv, Writing, IInv
<1> QED
  BY <1>1 DEF Replacement

\* The legacy alias of the release follows the aggregate commit.
LEMMA AliasStep ==
    ASSUME IInv, JobsInv, AliasInv, [Next]_vars
    PROVE  AliasInv'
<1>1. Step /\ KindInv /\ LaneTyping /\ WriteInv
  BY StepFacts DEF IInv, JobsInv
<1>2. /\ docs["multiarch"].generation \in Nat /\ docs'["multiarch"].generation \in Nat
      /\ docs["multiarch"].generation <= docs'["multiarch"].generation
      /\ \A l \in Lanes : lane[l].signed.generation \in Nat
      /\ \A w \in stray : w.doc = "legacyRelease" => w.next.generation \in Nat
      /\ docs["legacyRelease"].generation \in Nat
  BY ReleasesGrow DEF Releases, IInv, LaneTyping, JobType, Artifacts, Signed, SwapInv, Sound, Release
<1>3. ASSUME NEW l \in Lanes, Writing(l), Doc(l) = "legacyRelease"
      PROVE  /\ lane[l].next.generation = lane[l].signed.generation
             /\ lane[l].signed.generation <= docs["multiarch"].generation
  <2>1. lane[l] # Idle /\ lane[l].kind = "aliases" /\ lane[l].step = 2
    BY <1>1, <1>3, DocOf DEF Writing, Kinds
  <2>2. lane[l].next = ReleaseOf(lane[l])
    BY <1>1, <1>3, PutsItsRelease DEF Releases
  <2> QED
    BY <2>1, <2>2 DEF AliasInv, ReleaseOf
<1>4. docs'["legacyRelease"].generation <= docs'["multiarch"].generation
  <2>1. DocMoves("legacyRelease")
    BY <1>1 DEF Step, DocNames, Releases
  <2>2. docs'["legacyRelease"].generation <= docs["multiarch"].generation
    BY <1>3, <2>1 DEF DocMoves, AliasInv
  <2>3. docs'["legacyRelease"].generation \in Nat
    BY ReleasesGrow DEF Releases
  <2> QED
    BY <1>2, <2>2, <2>3
<1>5. ASSUME NEW l \in Lanes, lane'[l] # Idle, lane'[l].kind = "aliases", lane'[l].step # 1
      PROVE  lane'[l].signed.generation <= docs'["multiarch"].generation
  <2>1. CASE GoesOn(l) /\ lane[l].step = 1
    <3>1. lane[l] # Idle /\ lane[l].kind = "aliases" /\ lane'[l].signed = lane[l].signed
      BY <1>5, <2>1 DEF GoesOn, SameJob
    <3>2. Doc(l) = "multiarch"
      BY <1>1, <2>1, <3>1, DocOf
    <3>3. docs'["multiarch"] = ReleaseOf(lane[l])
      BY <2>1, <3>1, <3>2 DEF GoesOn, Published, Releases
    <3> QED
      BY <1>2, <3>1, <3>3 DEF ReleaseOf
  <2>2. CASE lane[l] # Idle /\ lane[l].kind = "aliases" /\ lane[l].step # 1
             /\ lane'[l].signed = lane[l].signed
    BY <1>2, <2>2 DEF AliasInv
  <2> QED
    BY <1>1, <1>5, <2>1, <2>2
       DEF Step, Moves, Starts, Looks, Decides, GoesOn, Succeeds, Breaks, SameJob
<1>6. ASSUME NEW w \in stray', w.doc = "legacyRelease"
      PROVE  w.next.generation <= docs'["multiarch"].generation
  <2>1. w.next.generation <= docs["multiarch"].generation /\ w.next.generation \in Nat
    BY <1>1, <1>2, <1>3, <1>6 DEF Step, StrayMoves, AliasInv
  <2> QED
    BY <1>2, <2>1
<1> QED
  BY <1>4, <1>5, <1>6 DEF AliasInv

\* No publication gives a manifest a second default.
LEMMA DefaultStep ==
    ASSUME IInv, JobsInv, DefaultInv, [Next]_vars
    PROVE  DefaultInv'
<1>1. Step /\ KindInv /\ LaneTyping
  BY StepFacts DEF IInv, JobsInv
<1>2. \A d \in Manifests : OneDefault(docs'[d])
  BY <1>1, ManifestTypes DEF Step, DocMoves, DefaultInv
<1>3. ASSUME NEW s \in signed' PROVE OneDefault(s.manifest)
  <2>1. CASE s \in signed
    BY <2>1 DEF DefaultInv
  <2>2. CASE s.manifest = PreserveStable(docs["qualified"], s.manifest.devel)
    <3>1. s.manifest.default \in {{"stable"}, {"devel"}}
      BY <2>2, ManifestTypes DEF PreserveStable, ManifestType
    <3> QED
      BY <3>1 DEF OneDefault
  <2> QED
    BY <1>1, <2>1, <2>2 DEF Step, SignedMoves
<1>4. ASSUME NEW l \in Lanes, Writing(l)', Doc(l)' \in Manifests PROVE OneDefault(lane'[l].next)
  <2>1. CASE lane'[l] = lane[l]
    BY <1>4, <2>1 DEF DefaultInv, Writing, Doc
  <2>2. CASE Decides(l)
    <3>1. Doc(l) \in Manifests /\ lane[l] # Idle
      BY <1>4, <2>2 DEF Decides, SameJob, Doc
    <3> DEFINE old == docs[Doc(l)]
               new == lane'[l].next
    <3>2. /\ old \in ManifestType /\ OneDefault(old) /\ new = Replacement(lane[l], Doc(l), old)
          /\ Migrated(old) \in ManifestType /\ OneDefault(Migrated(old))
          /\ lane[l].kind \in Kinds
          /\ lane[l].kind \notin {"stable", "testing"} => lane[l].signed \in signed
      BY <1>1, <2>2, <3>1, ManifestTypes, EmptyTypes
         DEF Decides, DefaultInv, Migrated, OneDefault, EmptyManifest, LaneTyping, KindInv, Kinds
    <3> HIDE DEF old, new
    <3>3. CASE lane[l].kind = "stable"
      <4>1. new.default = IF Migrated(old).default = {} THEN {"stable"}
                          ELSE Migrated(old).default \ {"stable"}
        BY <3>1, <3>2, <3>3, DocsDiffer DEF Replacement, SealStable, ManifestType
      <4>2. OneDefault(new)
        BY <3>2, <4>1 DEF OneDefault
      <4> QED
        BY <4>2 DEF new
    <3>4. CASE lane[l].kind = "testing"
      <4>1. new.default = Migrated(old).default \ {"testing"}
        BY <3>1, <3>2, <3>4, DocsDiffer DEF Replacement, PublishTesting, ManifestType
      <4>2. OneDefault(new)
        BY <3>2, <4>1 DEF OneDefault
      <4> QED
        BY <4>2 DEF new
    <3>5. CASE lane[l].kind \notin {"stable", "testing"}
      BY <3>1, <3>2, <3>5, DocsDiffer DEF Replacement, DefaultInv, new
    <3> QED
      BY <3>3, <3>4, <3>5
  <2> QED
    BY <1>1, <1>4, <2>1, <2>2 DEF Step, Moves, Starts, Looks, GoesOn, Succeeds, Breaks, Writing
<1>5. \A w \in stray' : w.doc \in Manifests => OneDefault(w.next)
  BY <1>1 DEF Step, StrayMoves, DefaultInv
<1> QED
  BY <1>2, <1>3, <1>4, <1>5 DEF DefaultInv

(***************************************************************************)
(* The Development pair of the qualified manifest                          *)
(***************************************************************************)
\* Who changes the pair: a job of the current run, which has it at least as new.
LEMMA QualifiedMoves ==
    ASSUME IInv, JobsInv, DevelInv, Step
    PROVE  \/ docs'["qualified"].devel \in {docs["qualified"].devel, NoPair}
           \/ /\ lane["development"] # Idle /\ lane["development"].kind \in {"repositories", "images"}
              /\ docs'["qualified"].devel = lane["development"].signed.manifest.devel
              /\ DevelAdvances(docs["qualified"], docs'["qualified"])
<1> DEFINE old == docs["qualified"]
           new == docs'["qualified"]
<1>1. /\ DocMoves("qualified") /\ stray = {} /\ old \in ManifestType /\ LaneTyping
      /\ KindInv /\ WriteInv /\ Migrated(old) \in ManifestType
  BY ManifestTypes, EmptyTypes DEF Step, DevelInv, IInv, JobsInv, Migrated
<1>2. CASE new = old
  BY <1>2
<1>3. ASSUME NEW l \in Lanes, Writing(l), Doc(l) = "qualified", old = lane[l].read, new = lane[l].next
      PROVE  \/ new.devel \in {old.devel, NoPair}
             \/ /\ lane["development"] # Idle /\ lane["development"].kind \in {"repositories", "images"}
                /\ new.devel = lane["development"].signed.manifest.devel
                /\ DevelAdvances(old, new)
  <2>1. /\ Permitted(lane[l], "qualified", old) /\ new = Replacement(lane[l], "qualified", old)
        /\ lane[l] # Idle /\ lane[l].kind \in Kinds \ {"aliases"} /\ Group(lane[l].kind) = l
        /\ "qualified" \notin Releases
    BY <1>1, <1>3, DocOf DEF WriteInv, Writing, KindInv, Releases
  <2> HIDE DEF old, new
  <2>2. CASE lane[l].kind \in {"stable", "testing"}
    <3>1. new.devel = Migrated(old).devel
      BY <1>1, <2>1, <2>2 DEF Replacement, SealStable, PublishTesting, ManifestType
    <3> QED
      BY <3>1 DEF Migrated, EmptyManifest
  <2>3. CASE lane[l].kind \in {"repositories", "images"}
    <3>1. /\ l = "development" /\ new = lane[l].signed.manifest
          /\ MayReplace(old, new, PutGeneration(lane[l]))
      BY <2>1, <2>3 DEF Group, Replacement, Permitted
    <3>2. CASE lane[l].kind = "repositories"
      <4>1. PutGeneration(lane[l]) = pairGeneration(new.devel)
        BY <3>1, <3>2 DEF PutGeneration
      <4>2. old.devel \in Pair /\ pairGeneration(old.devel) \in Nat
        BY <1>1, GenerationIsNat DEF ManifestType
      <4>3. new \in ManifestType /\ pairGeneration(new.devel) \in Nat
        BY <1>1, <3>1, GenerationIsNat DEF LaneTyping, JobType, Artifacts, Signed, ManifestType
      <4>4. DevelAdvances(old, new)
        BY <3>1, <4>1, <4>2, <4>3 DEF MayReplace, DevelAdvances, HasDevel, EmptyManifest
      <4> QED
        BY <2>1, <2>3, <3>1, <4>4
    <3>3. CASE lane[l].kind = "images"
      <4>1. lane[l].signed \in committed /\ lane[l].signed.generation = generation
        BY <2>1, <3>1, <3>3 DEF DevelInv
      <4>2. old.devel \in {new.devel, NoPair}
        BY <3>1, <4>1 DEF DevelInv, Current, old
      <4>3. pairGeneration(old.devel) \in Nat
        BY <1>1, GenerationIsNat DEF ManifestType
      <4>4. DevelAdvances(old, new)
        BY <4>2, <4>3 DEF DevelAdvances, HasDevel
      <4> QED
        BY <2>1, <2>3, <3>1, <4>4
    <3> QED
      BY <2>3, <3>2, <3>3
  <2> QED
    BY <2>1, <2>2, <2>3 DEF Kinds
<1> QED
  BY <1>1, <1>2, <1>3 DEF DocMoves

\* What a run committed stays committed: no step takes an element out.
LEMMA CommittedGrows == [Next]_vars => committed \subseteq committed'
<1>1. \A k \in Lanes, ok \in BOOLEAN : Done(k, ok) => committed \subseteq committed'
  BY DEF Done, With
<1>2. \A k \in Lanes : Advance(k) => committed \subseteq committed'
  BY <1>1 DEF Advance, results
<1>3. ASSUME NEW k \in Lanes, Get(k) PROVE committed \subseteq committed'
  <2>1. Advance(k) \/ Done(k, FALSE) \/ UNCHANGED results
    BY <1>3 DEF Get
  <2> QED
    BY <1>1, <1>2, <2>1 DEF results
<1>4. ASSUME NEW k \in Lanes, Swap(k) \/ Retry(k) \/ Fail(k) PROVE committed \subseteq committed'
  <2>1. Advance(k) \/ Done(k, FALSE) \/ UNCHANGED results
    BY <1>4 DEF Swap, Retry, Fail
  <2> QED
    BY <1>1, <1>2, <2>1 DEF results
<1>5. StartStable \/ StartTesting \/ StartRepositories \/ StartImages \/ StartAliases =>
         UNCHANGED committed
  BY DEF StartStable, StartTesting, StartRepositories, StartImages, StartAliases, Begin, runVars
<1>6. StartCycle \/ SignAgain \/ LateSwap \/ UNCHANGED vars => UNCHANGED committed
  BY DEF StartCycle, SignAgain, LateSwap, vars, runVars
<1> QED
  BY <1>3, <1>4, <1>5, <1>6 DEF Next

\* Where jobs run to their end and no older image job is run again, the qualified
\* manifest has the pair of the current cycle once its repositories are published.
LEMMA DevelStep ==
    ASSUME MaxFailures = 0, ~StaleReruns, IInv, JobsInv, DevelInv, [Next]_vars
    PROVE  DevelInv'
<1> DEFINE l == "development"
<1>1. /\ Step /\ KindInv /\ LaneTyping /\ Moves(l) /\ l \in Lanes
      /\ generation \in Nat /\ \A s \in signed : s.generation \in Nat
  BY StepFacts DEF IInv, JobsInv, Step, DocTyping, Lanes, Artifacts, Signed
<1>2. stray' = {} /\ failures' = 0
  <2>1. stray = {} /\ failures = 0
    BY DEF DevelInv
  <2>2. ~LateSwap /\ \A k \in Lanes : ~Fail(k)
    BY <2>1 DEF LateSwap, Fail
  <2> QED
    BY <2>1, <2>2 DEF Next, vars, runVars, StartStable, StartTesting, StartCycle, SignAgain,
           StartRepositories, StartImages, StartAliases, Begin, Get, Swap, Retry
<1>3. \/ StartCycle
      \/ SignAgain
      \/ UNCHANGED <<generation, signed>>
  BY DEF Next, vars, runVars, StartStable, StartTesting, StartRepositories,
         StartImages, StartAliases, Begin, Get, Swap, Retry, Fail, LateSwap
<1>4. StartCycle =>
         /\ generation' = generation + 1
         /\ \E p \in Pairs : signed' = signed \cup {Sign(p, generation')}
         /\ lane[l] = Idle /\ UNCHANGED <<docs, committed, lane>>
  BY DEF StartCycle
<1>5. SignAgain =>
         /\ generation' = generation
         /\ \E s \in signed : s.generation = generation
                               /\ signed' = signed \cup {Sign(s.manifest.devel, generation)}
         /\ lane[l] = Idle /\ UNCHANGED <<docs, committed, lane>>
  BY DEF SignAgain
<1>6. \A p, g : Sign(p, g).generation = g /\ Sign(p, g).manifest.devel = p
  BY ManifestTypes DEF Sign, PreserveStable, ManifestType
<1>7. \A s \in signed' : s.generation <= generation'
  BY <1>1, <1>3, <1>4, <1>5, <1>6 DEF DevelInv
<1>8. ASSUME NEW s \in signed', NEW t \in signed', s.generation = generation', t.generation = generation'
      PROVE  s.manifest.devel = t.manifest.devel
  BY <1>1, <1>3, <1>4, <1>5, <1>6, <1>8 DEF DevelInv
<1>9. ASSUME NEW s \in signed, s.generation = generation, Current(s), generation' = generation
      PROVE  docs'["qualified"].devel \in {s.manifest.devel, NoPair}
  <2>1. lane[l] # Idle /\ lane[l].kind \in {"repositories", "images"} =>
           lane[l].signed \in signed /\ lane[l].signed.generation = generation
    BY <1>1 DEF DevelInv, KindInv
  <2>2. lane[l] # Idle /\ lane[l].kind \in {"repositories", "images"} =>
           lane[l].signed.manifest.devel = s.manifest.devel
    BY <1>9, <2>1 DEF DevelInv
  <2> QED
    BY <1>1, <1>9, <2>2, QualifiedMoves DEF Current
<1>10. ASSUME NEW s \in committed', s.generation = generation'
       PROVE  docs'["qualified"].devel \in {s.manifest.devel, NoPair}
  <2>1. CASE StartCycle
    <3>1. s \in signed /\ s.generation <= generation
      BY <1>4, <2>1 DEF KindInv, JobsInv, DevelInv
    <3> QED
      BY <1>1, <1>4, <1>10, <2>1, <3>1
  <2>2. CASE generation' = generation
    <3>1. CASE s \in committed
      BY <1>1, <1>9, <1>10, <2>2, <3>1 DEF KindInv, DevelInv
    <3>2. CASE \E k \in Lanes : Succeeds(k) /\ lane[k].kind = "repositories" /\ s = lane[k].signed
      <4>1. /\ lane[l] # Idle /\ lane[l].kind = "repositories" /\ s = lane[l].signed
            /\ lane[l].step = Len(Puts(lane[l].kind))
        BY <1>1, <3>2 DEF KindInv, Group, Succeeds
      <4>2. lane[l].step = 2
        BY <1>1, <4>1, DocOf
      <4>3. s \in signed
        BY <1>1, <4>1 DEF KindInv
      <4>4. lane[l].step # 1
        BY <4>2
      <4>5. Current(s) /\ s.generation = generation
        BY <4>1, <4>4 DEF DevelInv
      <4> QED
        BY <1>9, <2>2, <4>3, <4>5
    <3> QED
      BY <1>1, <3>1, <3>2 DEF Step, ResultMoves
  <2> QED
    BY <1>3, <1>5, <2>1, <2>2
<1>11. ASSUME lane'[l] # Idle, lane'[l].kind \in {"repositories", "images"}
       PROVE  /\ lane'[l].signed.generation = generation'
              /\ lane'[l].kind = "images" => lane'[l].signed \in committed'
              /\ lane'[l].kind = "repositories" /\ lane'[l].step # 1 =>
                    docs'["qualified"].devel \in {lane'[l].signed.manifest.devel, NoPair}
  <2>1. CASE StartCycle \/ SignAgain
    BY <1>4, <1>5, <1>11, <2>1
  <2>2. CASE ~(StartCycle \/ SignAgain) /\ Starts(l)
    <3>1. CASE StartStable \/ StartTesting \/ StartRepositories \/ StartImages \/ StartAliases
      <4>1. PICK kind \in Kinds, r \in StableSeals \cup TestingBuilds \cup {NoRequest}, s \in signed \cup {NoSigned} :
               /\ Begin(kind, r, s)
               /\ kind \in {"repositories", "images"} => s.generation = generation \/ StaleReruns
               /\ kind = "images" => s \in committed
        BY <1>1, <3>1, StartFacts
      <4>2. /\ \A k \in Lanes \ {Group(kind)} : lane'[k] = lane[k]
            /\ lane'[Group(kind)].kind = kind /\ lane'[Group(kind)].signed = s
            /\ UNCHANGED <<committed, generation>>
        BY <1>1, <4>1, BeginMoves
      <4>3. l = Group(kind)
        BY <1>1, <2>2, <4>2 DEF Starts
      <4> QED
        BY <1>11, <2>2, <4>1, <4>2, <4>3 DEF Starts
    <3>2. CASE \E k \in Lanes : Get(k) \/ Swap(k) \/ Retry(k) \/ Fail(k)
      <4>1. PICK k \in Lanes : lane[k] # Idle /\ \A i \in Lanes \ {k} : lane'[i] = lane[i]
        BY <3>2, GetMoves, SwapMoves, RetryMoves, FailMoves DEF IInv, JobsInv, Get, Swap, Retry, Fail
      <4> QED
        BY <1>1, <2>2, <4>1 DEF Starts
    <3>3. CASE UNCHANGED lane
      BY <2>2, <3>3 DEF Starts
    <3> QED
      BY <2>2, <3>1, <3>2, <3>3 DEF Next, vars, LateSwap
  <2>3. CASE ~(StartCycle \/ SignAgain) /\ ~Starts(l)
    <3>1. /\ lane[l] # Idle /\ lane[l].kind = lane'[l].kind /\ lane'[l].signed = lane[l].signed
          /\ lane'[l].step = lane[l].step \/ GoesOn(l)
          /\ UNCHANGED generation
      BY <1>1, <1>3, <1>11, <2>3 DEF Moves, Looks, Decides, GoesOn, Succeeds, Breaks, SameJob
    <3>2. /\ lane[l].signed \in signed /\ lane[l].signed.generation = generation
          /\ lane[l].kind = "images" => lane[l].signed \in committed
      BY <1>1, <1>11, <3>1 DEF DevelInv, KindInv
    <3>3. committed \subseteq committed'
      BY <1>1, CommittedGrows
    <3>4. ASSUME lane[l].kind = "repositories", lane'[l].step # 1
          PROVE  docs'["qualified"].devel \in {lane[l].signed.manifest.devel, NoPair}
      <4>1. CASE lane[l].step = 1
        <5>1. GoesOn(l) /\ Doc(l) = "qualified"
          BY <1>1, <3>1, <3>4, <4>1, DocOf
        <5>2. docs'["qualified"].devel = lane[l].signed.manifest.devel
          BY <3>4, <5>1 DEF GoesOn, Published, Manifests
        <5> QED
          BY <5>2
      <4>2. CASE lane[l].step # 1
        <5>1. Current(lane[l].signed)
          BY <3>1, <3>4, <4>2 DEF DevelInv
        <5> QED
          BY <1>9, <3>1, <3>2, <5>1
      <4> QED
        BY <4>1, <4>2
    <3> QED
      BY <1>11, <3>1, <3>2, <3>3, <3>4
  <2> QED
    BY <2>1, <2>2, <2>3
<1>12. \A s \in committed' : Current(s)'
  BY <1>10 DEF Current
<1> HIDE DEF l
<1> QED
  BY <1>2, <1>7, <1>8, <1>11, <1>12 DEF DevelInv, Current, l

(***************************************************************************)
(* Theorems about what was published                                       *)
(***************************************************************************)
RInv == JobsInv /\ ProperInv /\ SealInv /\ RetainInv /\ AgreeInv /\ AliasInv

\* Nothing is published or signed at the start, and both manifests are the same.
LEMMA InitRetains == Init => RInv
<1> SUFFICES ASSUME Init PROVE RInv
  OBVIOUS
<1>1. PICK m \in LiveManifests :
         docs = [d \in Manifests \cup Releases |-> IF d \in Manifests THEN m ELSE NoRelease]
  BY DEF Init
<1>2. m \in ManifestType /\ Proper(m)
  BY ChannelsAssumption DEF CanBeLive, Proper
<1>3. /\ \A d \in Manifests : docs[d] = m
      /\ \A d \in Releases : docs[d] = NoRelease
      /\ \A l \in Lanes : lane[l] = Idle
      /\ signed = {} /\ committed = {} /\ released = {} /\ stray = {} /\ sealed = {}
  BY <1>1, DocsDiffer DEF Init
<1>4. JobsInv
  BY <1>3 DEF JobsInv, KindInv, WriteInv, Writing
<1>5. ProperInv /\ SealInv
  BY <1>2, <1>3 DEF ProperInv, SealInv, Writing
<1>6. RetainInv
  BY <1>2, <1>3, BehindFacts DEF RetainInv, Writing, Manifests, SameStable, SameTesting
<1>7. AgreeInv
  BY <1>3 DEF AgreeInv, Writing, Manifests, SameStable, SameTesting, Lanes
<1>8. AliasInv
  BY <1>3 DEF AliasInv, Releases, NoRelease
<1> QED
  BY <1>4, <1>5, <1>6, <1>7, <1>8 DEF RInv

\* No step breaks what jobs, seals, signatures and late swaps rely on.
LEMMA NextRetains == IInv /\ RInv /\ [Next]_vars => RInv'
BY JobsStep, ProperStep, SealStep, RetainStep, AgreeStep, AliasStep DEF IInv, RInv

\* What jobs, signatures and late swaps carry never lacks what was sealed or, while
\* no job failed, differs from what the other manifest has (SealStable, keepRetained).
THEOREM Retained == Spec => []RInv
BY Invariance, InitRetains, NextRetains, PTL DEF Spec

\* What a successful Stable job sealed stays sealed in both manifests until a newer
\* version is, whatever jobs interleave, die, or leave swaps behind.
THEOREM SealedIsPermanent == Spec => []SealedStaysSealed
<1>1. RInv => SealedStaysSealed
  BY DEF RInv, SealInv, SealedStaysSealed, Held
<1> QED
  BY <1>1, Retained, PTL

\* The two manifests amd64 devices read agree on Stable and Testing whenever no job
\* is going on and no Stable or Testing job has failed.
THEOREM ManifestsStayInAgreement == Spec => []ManifestsAgree
<1>1. RInv => ManifestsAgree
  BY DEF RInv, AgreeInv, ManifestsAgree, SameStable, SameTesting, Lanes
<1> QED
  BY <1>1, Retained, PTL

\* The legacy release alias never runs ahead of the aggregate commit.
THEOREM AliasesAfterCommit == Spec => []AliasesFollowCommit
<1>1. RInv => AliasesFollowCommit
  BY DEF RInv, AliasInv, AliasesFollowCommit
<1> QED
  BY <1>1, Retained, PTL

\* If the manifests that are live at the start have one default at most, and never
\* Testing, no publication changes that.
THEOREM DefaultStaysUnique == (\A m \in LiveManifests : OneDefault(m)) => (Spec => []AtMostOneDefault)
<1> SUFFICES ASSUME \A m \in LiveManifests : OneDefault(m) PROVE Spec => []AtMostOneDefault
  OBVIOUS
<1>1. Init => DefaultInv
  BY DocsDiffer DEF Init, DefaultInv, Writing
<1>2. IInv /\ RInv /\ DefaultInv /\ [Next]_vars => DefaultInv'
  BY DefaultStep DEF RInv
<1>3. DefaultInv => AtMostOneDefault
  BY DEF DefaultInv, OneDefault, AtMostOneDefault
<1> QED
  BY <1>1, <1>2, <1>3, Invariance, Retained, PTL DEF Spec

\* If jobs run to their end and no image job of an older run is run again, the
\* Development pair in the qualified manifest never loses a generation: the
\* repositories of a run are ahead of its images (putQualifiedDocument).
THEOREM QualifiedDevelForward == MaxFailures = 0 /\ ~StaleReruns => (Spec => QualifiedDevelAdvances)
<1> SUFFICES ASSUME MaxFailures = 0, ~StaleReruns PROVE Spec => QualifiedDevelAdvances
  OBVIOUS
<1>1. Init => DevelInv
  BY DEF Init, DevelInv, Lanes
<1>2. IInv /\ RInv /\ DevelInv /\ [Next]_vars => DevelInv'
  BY DevelStep DEF RInv
<1>3. IInv /\ RInv /\ DevelInv /\ [Next]_vars => DevelAdvances(docs["qualified"], docs'["qualified"])
  <2> SUFFICES ASSUME IInv, RInv, DevelInv, [Next]_vars
               PROVE  DevelAdvances(docs["qualified"], docs'["qualified"])
    OBVIOUS
  <2>1. Step /\ JobsInv /\ docs["qualified"] \in ManifestType
    BY StepFacts, ManifestTypes DEF IInv, RInv
  <2> QED
    BY <2>1, QualifiedMoves, GenerationIsNat DEF DevelAdvances, HasDevel, ManifestType
<1> QED
  BY <1>1, <1>2, <1>3, Invariance, Retained, PTL DEF Spec, QualifiedDevelAdvances
=============================================================================
