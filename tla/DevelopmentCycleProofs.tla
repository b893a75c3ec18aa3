------------------------ MODULE DevelopmentCycleProofs ------------------------
(***************************************************************************)
(* Proofs about DevelopmentCycle, for any number of runs, attempts, killed  *)
(* jobs, pairs and revisions: the cycle document moves forward only, is     *)
(* frozen until it is complete or superseded, and says of an architecture    *)
(* what the publications of its run did.                                    *)
(***************************************************************************)
EXTENDS DevelopmentCycle, TLAPS

Status == [published : BOOLEAN, images : BOOLEAN]

CycleType ==
    [generation : Nat, pair : Pairs \cup {NoInput}, revision : Revisions \cup {NoInput},
     superseded : BOOLEAN, status : [Arches -> Status]]

JobStates == {"waiting", "published", "failed", "done", "unmarked"}

RunType ==
    [revision : Revisions \cup {NoInput}, generation : Nat, pair : Pairs \cup {NoInput},
     job : [Jobs -> JobStates]]

CommitType ==
    [state : {"idle", "get", "swap"}, attempt : Nat, next : CycleType, read : CycleType, job : Jobs]

Preparing == {"look", "supersede", "decide", "begin"}
Phases == {"none", "running"} \cup Preparing

TypeOK ==
    /\ cycle \in CycleType
    /\ reserved \in [Pairs -> Nat]
    /\ clock \in Nat \ {0}
    /\ runs \in [RunIds -> RunType]
    /\ current \in RunIds \cup {0}
    /\ phase \in Phases
    /\ commit \in [Writers -> CommitType]
    /\ stray \subseteq [read : CycleType, next : CycleType]
    /\ failures \in Nat
    /\ devices \in [Arches -> SUBSET Nat]
    /\ remarked \in BOOLEAN

\* Where the run is when one of its jobs is in CommitDevelopmentCycle.
PhaseInv ==
    /\ phase # "none" => current # 0
    /\ commit["prepare"].state # "idle" => phase \in {"supersede", "begin"}
    /\ commit["mark"].state # "idle" =>
          phase = "running" /\ runs[current].job[commit["mark"].job] = "published"
    /\ phase \in Preparing => stray = {} /\ \A j \in Jobs : runs[current].job[j] = "waiting"

-----------------------------------------------------------------------------
(* What a swap may do to the cycle it has read.                             *)

Unfinished(c) == Exists(c) /\ ~c.superseded /\ ~Complete(c)

Keeps(old, new) ==
    \A a \in Arches :
        /\ old.status[a].published => new.status[a].published
        /\ old.status[a].images => new.status[a].images

Forward(old, new) ==
    /\ new.generation >= old.generation
    /\ Unfinished(old) =>
          new.generation = old.generation /\ Inputs(new) = Inputs(old) /\ Keeps(old, new)

SwapInv ==
    /\ Exists(cycle) => cycle.generation # 0
    /\ \A w \in Writers :
          /\ commit[w].state # "idle" => commit[w].next.generation # 0
          /\ commit[w].state = "swap" => Forward(commit[w].read, commit[w].next)
    /\ \A s \in stray : s.next.generation # 0 /\ Forward(s.read, s.next)

-----------------------------------------------------------------------------
(* What the cycle claims, as long as no cycle job of an older run is run     *)
(* again.                                                                   *)

Claimed(c) == \A a \in Arches : c.status[a].published => c.generation \in devices[a]

\* A job that has published did so with the generation of its run.
JobInv ==
    \A r \in RunIds, j \in Jobs :
        runs[r].job[j] \in {"published", "done", "unmarked"} => runs[r].generation \in devices[j[1]]

ClaimInv ==
    ~remarked =>
        /\ Claimed(cycle)
        /\ \A w \in Writers : commit[w].state # "idle" => Claimed(commit[w].next)
        /\ \A s \in stray : Claimed(s.next)

\* A version of the cycle that the current run works on.
OfRun(c) ==
    /\ c.generation = runs[current].generation /\ c.generation # 0
    /\ c.pair = runs[current].pair /\ c.revision = runs[current].revision
    /\ ~c.superseded

PrepareInv ==
    /\ phase = "begin" => OfRun(commit["prepare"].next)
    /\ phase = "supersede" => commit["prepare"].next.superseded
    /\ phase = "decide" => cycle.superseded

WorkInv ==
    phase = "running" /\ ~remarked =>
        /\ OfRun(cycle)
        /\ commit["mark"].state # "idle" => OfRun(commit["mark"].next)
        /\ commit["mark"].state = "swap" => Keeps(commit["mark"].read, commit["mark"].next)
        /\ \A s \in stray : OfRun(s.next) /\ Keeps(s.read, s.next)

\* The status that a cycle job is about.
Has(c, j) == c.status[j[1]].published /\ (j[2] = "images" => c.status[j[1]].images)

MarkInv ==
    /\ commit["mark"].state # "idle" => Has(commit["mark"].next, commit["mark"].job)
    /\ phase = "running" /\ ~remarked =>
          \A j \in Jobs : runs[current].job[j] = "done" => Has(cycle, j)

IInv ==
    TypeOK /\ PhaseInv /\ SwapInv /\ JobInv /\ ClaimInv /\ PrepareInv /\ WorkInv /\ MarkInv

USE CycleAssumption

-----------------------------------------------------------------------------
(* Lemmas about the operators                                              *)

\* The two jobs and the two architectures.
LEMMA Names ==
    /\ "prepare" \in Writers /\ "mark" \in Writers
    /\ \A w \in Writers : w = "prepare" \/ w = "mark"
    /\ \A j \in Jobs : j[1] \in Arches
    /\ NoCommit.job \in Jobs
BY DEF Writers, Jobs, Arches, Kinds, NoCommit

\* The empty records have the types of the records they stand for.
LEMMA EmptyTypes ==
    /\ NoCycle \in CycleType /\ ~Exists(NoCycle)
    /\ NoCycle.generation = 0 /\ ~NoCycle.superseded
    /\ \A a \in Arches : ~NoCycle.status[a].published /\ ~NoCycle.status[a].images
    /\ NoCommit \in CommitType /\ NoCommit.state = "idle"
    /\ \A r \in Revisions \cup {NoInput} :
          /\ Run(r) \in RunType /\ Run(r).revision = r
          /\ \A j \in Jobs : Run(r).job[j] = "waiting"
BY Names DEF NoCycle, CycleType, Status, Pending, Exists, NoCommit, CommitType, Run, RunType, JobStates

\* What a commit merges: the new cycle, with no status lost.
LEMMA MergedFacts ==
    ASSUME NEW old \in CycleType, NEW new \in CycleType
    PROVE  /\ Merged(old, new) \in CycleType
           /\ Merged(old, new).generation = new.generation
           /\ Merged(old, new).pair = new.pair /\ Merged(old, new).revision = new.revision
           /\ Merged(old, new).superseded = new.superseded
           /\ Keeps(old, Merged(old, new)) /\ Keeps(new, Merged(old, new))
           /\ \A a \in Arches : Merged(old, new).status[a].published =>
                 old.status[a].published \/ new.status[a].published
BY DEF Merged, CycleType, Status, Keeps

\* What a cycle job makes of the cycle it has read.
LEMMA MarkedFacts ==
    ASSUME NEW c \in CycleType, NEW j \in Jobs
    PROVE  /\ Marked(c, j) \in CycleType
           /\ Marked(c, j).generation = c.generation
           /\ Marked(c, j).pair = c.pair /\ Marked(c, j).revision = c.revision
           /\ Marked(c, j).superseded = c.superseded
           /\ Keeps(c, Marked(c, j)) /\ Has(Marked(c, j), j)
           /\ \A a \in Arches : Marked(c, j).status[a].published =>
                 c.status[a].published \/ a = j[1]
BY Names DEF Marked, CycleType, Status, Keeps, Has

\* A commit that is not refused puts a cycle that moves forward.
LEMMA PutsForward ==
    ASSUME NEW old \in CycleType, NEW next \in CycleType,
           ~(Exists(old) /\ Refused(old, next))
    PROVE  Forward(old, IF Exists(old) /\ Resumes(old, next) THEN Merged(old, next) ELSE next)
<1>1. CASE ~Exists(old)
  BY <1>1 DEF Forward, Unfinished, Exists, NoCycle, CycleType
<1>2. CASE Exists(old) /\ Resumes(old, next)
  <2>1. next.generation = old.generation /\ Inputs(next) = Inputs(old)
    BY <1>2 DEF Refused, Resumes
  <2>2. Inputs(Merged(old, next)) = Inputs(old)
    BY <2>1, MergedFacts DEF Inputs
  <2>3. Merged(old, next).generation = old.generation /\ old.generation \in Nat
    BY <2>1, MergedFacts DEF CycleType
  <2> QED
    BY <1>2, <2>2, <2>3, MergedFacts DEF Forward
<1>3. CASE Exists(old) /\ ~Resumes(old, next)
  BY <1>3 DEF Forward, Refused, Unfinished, CycleType
<1> QED
  BY <1>1, <1>2, <1>3

\* A version of the cycle of one run is resumed by another version of it.
LEMMA VersionsResume ==
    ASSUME NEW old \in CycleType, NEW next \in CycleType, OfRun(old), OfRun(next)
    PROVE  /\ Exists(old) /\ Resumes(old, next)
           /\ OfRun(Merged(old, next))
BY MergedFacts, EmptyTypes DEF OfRun, Exists, Resumes, ReplanComplete, Complete

\* Merging loses no claim and adds none.
LEMMA MergedClaims ==
    ASSUME NEW old \in CycleType, NEW next \in CycleType, Claimed(old), Claimed(next), Resumes(old, next)
    PROVE  Claimed(Merged(old, next))
BY MergedFacts DEF Claimed, Resumes

-----------------------------------------------------------------------------
(* The end of a commit                                                     *)

\* A cycle job leaves its run with a job that is done or not marked.
LEMMA EndMark ==
    ASSUME TypeOK, PhaseInv, NEW ok \in BOOLEAN, commit["mark"].state # "idle", End("mark", ok)
    PROVE  /\ commit' \in [Writers -> CommitType] /\ \A w \in Writers : commit'[w].state = "idle"
           /\ phase = "running" /\ current \in RunIds
           /\ UNCHANGED <<phase, current>>
           /\ runs' \in [RunIds -> RunType]
           /\ \A r \in RunIds :
                 /\ runs'[r].generation = runs[r].generation
                 /\ runs'[r].pair = runs[r].pair /\ runs'[r].revision = runs[r].revision
                 /\ \A j \in Jobs :
                       \/ runs'[r].job[j] = runs[r].job[j]
                       \/ /\ r = current /\ j = commit["mark"].job
                          /\ runs[r].job[j] = "published"
                          /\ runs'[r].job[j] = IF ok THEN "done" ELSE "unmarked"
<1>1. phase = "running" /\ current \in RunIds /\ commit["prepare"].state = "idle"
      /\ runs[current].job[commit["mark"].job] = "published"
  BY DEF TypeOK, PhaseInv
<1>2. commit' = [commit EXCEPT !["mark"] = NoCommit] /\ UNCHANGED <<phase, current>>
  BY DEF End
<1>3. commit' \in [Writers -> CommitType] /\ \A w \in Writers : commit'[w].state = "idle"
  BY <1>1, <1>2, Names, EmptyTypes DEF TypeOK
<1> DEFINE j0 == commit["mark"].job
           x == IF ok THEN "done" ELSE "unmarked"
<1>4. runs' = [runs EXCEPT ![current].job[j0] = x]
  BY DEF End
<1>5. j0 \in Jobs /\ x \in JobStates
  BY Names DEF TypeOK, CommitType, JobStates
<1> HIDE DEF j0, x
<1>6. runs' \in [RunIds -> RunType]
      /\ \A r \in RunIds :
            /\ runs'[r].generation = runs[r].generation
            /\ runs'[r].pair = runs[r].pair /\ runs'[r].revision = runs[r].revision
            /\ \A j \in Jobs :
                  runs'[r].job[j] = runs[r].job[j] \/ (r = current /\ j = j0 /\ runs'[r].job[j] = x)
  BY <1>1, <1>4, <1>5 DEF TypeOK, RunType
<1> QED
  BY <1>1, <1>2, <1>3, <1>6 DEF j0, x

\* The prepare job leaves the runs alone.
LEMMA EndPrepare ==
    ASSUME TypeOK, PhaseInv, NEW ok \in BOOLEAN, commit["prepare"].state # "idle", End("prepare", ok)
    PROVE  /\ commit' \in [Writers -> CommitType] /\ \A w \in Writers : commit'[w].state = "idle"
           /\ phase \in {"supersede", "begin"} /\ current \in RunIds /\ stray = {}
           /\ \A j \in Jobs : runs[current].job[j] = "waiting"
           /\ UNCHANGED runs
           /\ phase' = IF ~ok THEN "none" ELSE IF phase = "supersede" THEN "decide" ELSE "running"
           /\ current' = IF ok THEN current ELSE 0
<1>1. /\ phase \in {"supersede", "begin"} /\ current \in RunIds /\ stray = {}
      /\ \A j \in Jobs : runs[current].job[j] = "waiting"
      /\ commit["mark"].state = "idle"
  BY DEF TypeOK, PhaseInv, Preparing
<1> QED
  BY <1>1, Names, EmptyTypes DEF TypeOK, End

-----------------------------------------------------------------------------
(* The steps of a commit                                                   *)

\* A commit that fails, whatever it has sent, changes only how its job ended.
LEMMA FailsStep ==
    ASSUME IInv, NEW w \in Writers, commit[w].state # "idle", End(w, FALSE),
           UNCHANGED <<cycle, reserved, clock, devices, remarked>>, failures' \in Nat,
           \/ UNCHANGED stray
           \/ commit[w].state = "swap"
                 /\ stray' = stray \cup {[read |-> commit[w].read, next |-> commit[w].next]}
    PROVE  IInv'
<1> USE DEF IInv
<1> DEFINE sent == [read |-> commit[w].read, next |-> commit[w].next]
<1>1. commit[w] \in CommitType /\ commit[w].read \in CycleType /\ commit[w].next \in CycleType
  BY DEF TypeOK, CommitType
<1>2. \A s \in stray' :
         s \in stray \/ (s.read = commit[w].read /\ s.next = commit[w].next /\ commit[w].state = "swap")
  OBVIOUS
<1>3. stray' \subseteq [read : CycleType, next : CycleType]
  BY <1>1 DEF TypeOK
<1>4. CASE w = "mark"
  <2>0. /\ \A v \in Writers : commit'[v].state = "idle"
        /\ phase = "running" /\ current \in RunIds /\ UNCHANGED <<phase, current>>
        /\ runs'[current].generation = runs[current].generation
        /\ runs'[current].pair = runs[current].pair /\ runs'[current].revision = runs[current].revision
        /\ \A j \in Jobs : runs'[current].job[j] = "done" => runs[current].job[j] = "done"
    BY <1>4, EndMark
  <2>1. TypeOK'
    <3>1. commit' \in [Writers -> CommitType] /\ runs' \in [RunIds -> RunType]
      BY <1>4, EndMark
    <3>2. remarked' \in BOOLEAN
      BY Zenon DEF TypeOK
    <3> QED
      BY <1>3, <2>0, <3>1, <3>2 DEF TypeOK
  <2>2. PhaseInv'
    BY <2>0, <1>4, Names, EndMark DEF PhaseInv, Preparing
  <2>3. SwapInv'
    BY <1>2, <2>0 DEF SwapInv
  <2>4. JobInv'
    BY <1>4, EndMark DEF JobInv
  <2>5. ClaimInv'
    BY <1>2, <2>0 DEF ClaimInv, Claimed
  <2>6. PrepareInv'
    BY <2>0 DEF PrepareInv
  <2>7. WorkInv'
    BY <1>2, <1>4, <2>0 DEF WorkInv, OfRun
  <2>8. MarkInv'
    BY <2>0, <1>4, EmptyTypes, EndMark DEF MarkInv, Has
  <2> QED
    BY <2>1, <2>2, <2>3, <2>4, <2>5, <2>6, <2>7, <2>8
<1>5. CASE w = "prepare"
  <2>0. /\ \A v \in Writers : commit'[v].state = "idle"
        /\ phase' = "none" /\ current' = 0 /\ UNCHANGED runs
    BY <1>5, EndPrepare
  <2>1. TypeOK'
    BY <1>3, <1>5, <2>0, EndPrepare DEF TypeOK, Phases
  <2>2. PhaseInv'
    BY <2>0, Names DEF PhaseInv, Preparing
  <2>3. SwapInv'
    BY <1>2, <2>0 DEF SwapInv
  <2>4. JobInv'
    BY <2>0 DEF JobInv
  <2>5. ClaimInv'
    BY <1>2, <2>0 DEF ClaimInv, Claimed
  <2>6. PrepareInv' /\ WorkInv' /\ MarkInv'
    BY <2>0, Names DEF PrepareInv, WorkInv, MarkInv
  <2> QED
    BY <2>1, <2>2, <2>3, <2>4, <2>5, <2>6
<1> QED
  BY <1>4, <1>5, Names

\* A cycle job that succeeds leaves a cycle with its status in it.
LEMMA MarkSucceeds ==
    ASSUME IInv, commit["mark"].state # "idle", End("mark", TRUE),
           UNCHANGED <<reserved, clock, stray, failures, devices, remarked>>,
           cycle' \in CycleType, Exists(cycle') => cycle'.generation # 0,
           Has(cycle', commit["mark"].job),
           ~remarked => OfRun(cycle') /\ Keeps(cycle, cycle') /\ Claimed(cycle')
    PROVE  IInv'
<1> USE DEF IInv
<1>0. /\ \A v \in Writers : commit'[v].state = "idle"
      /\ phase = "running" /\ current \in RunIds /\ UNCHANGED <<phase, current>>
      /\ runs'[current].generation = runs[current].generation
      /\ runs'[current].pair = runs[current].pair /\ runs'[current].revision = runs[current].revision
      /\ \A j \in Jobs : runs'[current].job[j] = "done" =>
            runs[current].job[j] = "done" \/ j = commit["mark"].job
  BY EndMark
<1>1. TypeOK'
  <2> /\ commit' \in [Writers -> CommitType] /\ runs' \in [RunIds -> RunType]
      /\ UNCHANGED <<phase, current>>
    BY EndMark
  <2> QED
    BY DEF TypeOK
<1>2. PhaseInv'
  BY <1>0, Names DEF PhaseInv, Preparing
<1>3. SwapInv'
  BY <1>0 DEF SwapInv
<1>4. JobInv'
  <2> \A r \in RunIds :
         /\ runs'[r].generation = runs[r].generation
         /\ \A j \in Jobs : runs'[r].job[j] = runs[r].job[j] \/ runs[r].job[j] = "published"
    BY EndMark
  <2> QED
    BY DEF JobInv
<1>5. ClaimInv'
  BY <1>0 DEF ClaimInv, Claimed
<1>6. PrepareInv'
  BY <1>0 DEF PrepareInv
<1>7. WorkInv'
  BY <1>0, Names DEF WorkInv, OfRun
<1>8. MarkInv'
  <2>1. commit'["mark"].state = "idle"
    BY <1>0, Names
  <2>2. ASSUME ~remarked, NEW j \in Jobs, runs'[current].job[j] = "done" PROVE Has(cycle', j)
    <3>1. CASE j = commit["mark"].job
      BY <3>1
    <3>2. CASE runs[current].job[j] = "done"
      <4>1. Has(cycle, j) /\ j[1] \in Arches
        BY <1>0, <2>2, <3>2, Names DEF MarkInv
      <4> QED
        BY <2>2, <4>1 DEF Has, Keeps
    <3> QED
      BY <1>0, <2>2, <3>1, <3>2
  <2> QED
    BY <1>0, <2>1, <2>2 DEF MarkInv, Has
<1> QED
  BY <1>1, <1>2, <1>3, <1>4, <1>5, <1>6, <1>7, <1>8

\* A prepare job that succeeds leaves a superseded cycle, or the one its run works on.
LEMMA PrepareSucceeds ==
    ASSUME IInv, commit["prepare"].state # "idle", End("prepare", TRUE),
           UNCHANGED <<reserved, clock, stray, failures, devices, remarked>>,
           cycle' \in CycleType, Exists(cycle') => cycle'.generation # 0,
           ~remarked => Claimed(cycle'),
           phase = "begin" => OfRun(cycle'),
           phase = "supersede" => cycle'.superseded
    PROVE  IInv'
<1> USE DEF IInv
<1>0. /\ \A v \in Writers : commit'[v].state = "idle"
      /\ phase \in {"supersede", "begin"} /\ current \in RunIds
      /\ phase' = IF phase = "supersede" THEN "decide" ELSE "running"
      /\ current' = current /\ UNCHANGED runs /\ stray' = {}
      /\ \A j \in Jobs : runs[current].job[j] = "waiting"
  BY EndPrepare
<1>1. TypeOK'
  BY <1>0, EndPrepare DEF TypeOK, Phases, Preparing
<1>2. PhaseInv'
  BY <1>0, Names DEF PhaseInv, Preparing, TypeOK, RunIds
<1>3. SwapInv'
  BY <1>0 DEF SwapInv
<1>4. JobInv'
  BY <1>0 DEF JobInv
<1>5. ClaimInv'
  BY <1>0 DEF ClaimInv, Claimed
<1>6. PrepareInv'
  BY <1>0 DEF PrepareInv
<1>7. WorkInv'
  BY <1>0, Names DEF WorkInv, OfRun
<1>8. MarkInv'
  BY <1>0, Names DEF MarkInv
<1> QED
  BY <1>1, <1>2, <1>3, <1>4, <1>5, <1>6, <1>7, <1>8

\* What makes a commit that is under way fit its job.
Fits(w, c) ==
    /\ c \in CommitType /\ c.state # "idle" /\ c.job = commit[w].job
    /\ c.next.generation # 0 /\ (c.state = "swap" => Forward(c.read, c.next))
    /\ ~remarked => Claimed(c.next)
    /\ w = "prepare" => /\ phase = "begin" => OfRun(c.next)
                        /\ phase = "supersede" => c.next.superseded
    /\ w = "mark" => /\ Has(c.next, c.job)
                     /\ ~remarked => /\ OfRun(c.next)
                                     /\ c.state = "swap" => Keeps(c.read, c.next)

\* A commit that goes on, with such a record, keeps the invariant.
LEMMA CommitGoesOn ==
    ASSUME IInv, NEW w \in Writers, commit[w].state # "idle", NEW c, Fits(w, c),
           commit' = [commit EXCEPT ![w] = c],
           UNCHANGED <<cycle, reserved, clock, runs, current, phase, stray, failures, devices, remarked>>
    PROVE  IInv'
<1> USE DEF IInv
<1>0. /\ commit'[w] = c /\ \A v \in Writers : v # w => commit'[v] = commit[v]
      /\ commit' \in [Writers -> CommitType]
  BY DEF TypeOK, Fits
<1>1. TypeOK'
  BY <1>0 DEF TypeOK
<1>2. PhaseInv'
  BY <1>0, Names DEF PhaseInv, Fits
<1>3. SwapInv'
  BY <1>0 DEF SwapInv, Fits
<1>4. JobInv'
  BY DEF JobInv
<1>5. ClaimInv'
  BY <1>0 DEF ClaimInv, Claimed, Fits
<1>6. PrepareInv'
  BY <1>0, Names DEF PrepareInv, PhaseInv, OfRun, Fits
<1>7. WorkInv'
  BY <1>0, Names DEF WorkInv, OfRun, Fits
<1>8. MarkInv'
  BY <1>0, Names DEF MarkInv, Has, Fits
<1> QED
  BY <1>1, <1>2, <1>3, <1>4, <1>5, <1>6, <1>7, <1>8

\* What a commit is about to put still fits its job after the merge.
LEMMA PutFits ==
    ASSUME IInv, NEW w \in Writers, commit[w].state # "idle",
           ~(Exists(cycle) /\ Refused(cycle, commit[w].next)),
           NEW new, new = IF Exists(cycle) /\ Resumes(cycle, commit[w].next)
                          THEN Merged(cycle, commit[w].next) ELSE commit[w].next
    PROVE  /\ new \in CycleType /\ new.generation # 0 /\ Forward(cycle, new)
           /\ ~remarked => Claimed(new)
           /\ w = "prepare" => /\ phase = "begin" => OfRun(new)
                               /\ phase = "supersede" => new.superseded
           /\ w = "mark" => /\ Has(new, commit[w].job)
                            /\ ~remarked => OfRun(new) /\ Keeps(cycle, new)
<1> USE DEF IInv
<1> DEFINE next == commit[w].next
<1>1. next \in CycleType /\ cycle \in CycleType /\ commit[w].job \in Jobs
  BY DEF TypeOK, CommitType
<1>2. new \in CycleType /\ Forward(cycle, new)
  BY <1>1, MergedFacts, PutsForward
<1>3. ~remarked => Claimed(new)
  BY <1>1, MergedClaims DEF ClaimInv
<1>4. /\ new.generation = next.generation /\ new.superseded = next.superseded
      /\ new.pair = next.pair /\ new.revision = next.revision
      /\ Keeps(next, new)
  BY <1>1, MergedFacts DEF Keeps
<1>5. new.generation # 0
  BY <1>4 DEF SwapInv
<1>6. OfRun(next) => OfRun(new)
  BY <1>4 DEF OfRun
<1>7. w = "prepare" => (phase = "begin" => OfRun(new)) /\ (phase = "supersede" => new.superseded)
  BY <1>4, <1>6 DEF PrepareInv
<1>8. ASSUME w = "mark"
      PROVE  /\ Has(new, commit[w].job)
             /\ ~remarked => OfRun(new) /\ Keeps(cycle, new)
  <2>1. Has(new, commit[w].job)
    BY <1>1, <1>4, <1>8, Names DEF MarkInv, Has, Keeps
  <2>2. ~remarked => OfRun(cycle) /\ OfRun(next)
    BY <1>8 DEF WorkInv, PhaseInv
  <2>3. ~remarked => OfRun(new) /\ Keeps(cycle, new)
    BY <1>1, <1>6, <2>2, VersionsResume, MergedFacts
  <2> QED
    BY <2>1, <2>3
<1> QED
  BY <1>2, <1>3, <1>5, <1>7, <1>8

\* The read of a commit ends it or makes it swap.
LEMMA GetStep ==
    ASSUME IInv, NEW w \in Writers, Get(w)
    PROVE  IInv'
<1> DEFINE new == IF Exists(cycle) /\ Resumes(cycle, commit[w].next)
                  THEN Merged(cycle, commit[w].next) ELSE commit[w].next
<1>0. /\ commit[w].state = "get" /\ commit[w] \in CommitType /\ cycle \in CycleType
      /\ UNCHANGED <<cycle, reserved, clock, stray, failures, devices, remarked>>
      /\ failures \in Nat
  BY DEF Get, IInv, TypeOK
<1>1. CASE Exists(cycle) /\ Refused(cycle, commit[w].next)
  <2>1. End(w, FALSE)
    BY <1>1 DEF Get
  <2> QED
    BY <1>0, <2>1, FailsStep
<1>2. CASE ~(Exists(cycle) /\ Refused(cycle, commit[w].next)) /\ new = cycle
  <2>1. End(w, TRUE)
    BY <1>2 DEF Get
  <2>2. CASE w = "mark"
    BY <1>0, <1>2, <2>1, <2>2, PutFits, MarkSucceeds
  <2>3. CASE w = "prepare"
    BY <1>0, <1>2, <2>1, <2>3, PutFits, PrepareSucceeds
  <2> QED
    BY <2>2, <2>3, Names
<1>3. CASE ~(Exists(cycle) /\ Refused(cycle, commit[w].next)) /\ new # cycle
  <2> DEFINE c == [commit[w] EXCEPT !.state = "swap", !.attempt = @ + 1, !.read = cycle, !.next = new]
  <2>1. /\ commit' = [commit EXCEPT ![w] = c] /\ UNCHANGED <<runs, phase, current>>
    BY <1>3 DEF Get
  <2>2. new \in CycleType
    BY <1>0, <1>3, PutFits
  <2>3. /\ c \in CommitType /\ c.state = "swap" /\ c.job = commit[w].job
        /\ c.read = cycle /\ c.next = new
    <3>1. commit[w].attempt + 1 \in Nat
      BY <1>0 DEF CommitType
    <3> HIDE DEF new
    <3> QED
      BY <1>0, <2>2, <3>1 DEF CommitType
  <2>4. Fits(w, c)
    BY <1>0, <1>3, <2>3, PutFits DEF Fits
  <2> QED
    BY <1>0, <2>1, <2>4, CommitGoesOn
<1> QED
  BY <1>1, <1>2, <1>3

\* A swap finds what it has read.
LEMMA SwapStep ==
    ASSUME IInv, NEW w \in Writers, Swap(w)
    PROVE  IInv'
<1>0. /\ commit[w].state = "swap" /\ End(w, TRUE)
      /\ cycle = commit[w].read /\ cycle' = commit[w].next
      /\ UNCHANGED <<reserved, clock, stray, failures, devices, remarked>>
      /\ cycle' \in CycleType /\ cycle'.generation # 0
  BY DEF Swap, IInv, TypeOK, SwapInv, CommitType
<1>1. ~remarked => Claimed(cycle')
  BY <1>0 DEF IInv, ClaimInv
<1>2. CASE w = "mark"
  <2>1. Has(cycle', commit["mark"].job)
    BY <1>0, <1>2 DEF IInv, MarkInv
  <2>2. ~remarked => OfRun(cycle') /\ Keeps(cycle, cycle')
    BY <1>0, <1>2 DEF IInv, WorkInv, PhaseInv
  <2> QED
    BY <1>0, <1>1, <1>2, <2>1, <2>2, MarkSucceeds
<1>3. CASE w = "prepare"
  BY <1>0, <1>1, <1>3, PrepareSucceeds DEF IInv, PrepareInv
<1> QED
  BY <1>2, <1>3, Names

\* A swap that finds another document looks again, or is given up.
LEMMA RetryStep ==
    ASSUME IInv, NEW w \in Writers, Retry(w)
    PROVE  IInv'
<1>0. /\ commit[w].state = "swap" /\ commit[w] \in CommitType
      /\ UNCHANGED <<cycle, reserved, clock, stray, failures, devices, remarked>>
      /\ failures \in Nat
  BY DEF Retry, IInv, TypeOK
<1>1. CASE End(w, FALSE)
  BY <1>0, <1>1, FailsStep
<1>2. CASE /\ commit' = [commit EXCEPT ![w].state = "get"]
           /\ UNCHANGED <<runs, phase, current>>
  <2> DEFINE c == [commit[w] EXCEPT !.state = "get"]
  <2>1. commit' = [commit EXCEPT ![w] = c]
    BY <1>2
  <2>2. c \in CommitType /\ c.state = "get" /\ c.job = commit[w].job /\ c.next = commit[w].next
    BY <1>0 DEF CommitType
  <2>3. Fits(w, c)
    BY <1>0, <2>2 DEF Fits, IInv, SwapInv, ClaimInv, PrepareInv, PhaseInv, WorkInv, MarkInv
  <2> QED
    BY <1>0, <1>2, <2>1, <2>3, CommitGoesOn
<1> QED
  BY <1>1, <1>2 DEF Retry

\* A killed job may leave its swap behind.
LEMMA KillStep ==
    ASSUME IInv, NEW w \in Writers, Kill(w)
    PROVE  IInv'
<1>1. /\ commit[w].state # "idle" /\ End(w, FALSE) /\ failures' = failures + 1
      /\ UNCHANGED <<cycle, reserved, clock, devices, remarked>>
      /\ \/ UNCHANGED stray
         \/ commit[w].state = "swap"
               /\ stray' = stray \cup {[read |-> commit[w].read, next |-> commit[w].next]}
  BY DEF Kill
<1>2. failures' \in Nat
  BY <1>1 DEF IInv, TypeOK
<1> QED
  BY <1>1, <1>2, FailsStep

\* A swap that was left behind finds what it has read.
LEMMA LateSwapStep ==
    ASSUME IInv, LateSwap
    PROVE  IInv'
<1> USE DEF IInv
<1>1. PICK s \in stray :
         /\ cycle = s.read /\ cycle' = s.next /\ stray' = stray \ {s}
         /\ UNCHANGED <<reserved, clock, runs, current, phase, commit, failures, devices, remarked>>
  BY DEF LateSwap
<1>2. phase \notin Preparing
  BY <1>1 DEF PhaseInv
<1>3. TypeOK'
  BY <1>1 DEF TypeOK
<1>4. PhaseInv' /\ SwapInv' /\ JobInv'
  BY <1>1, <1>2 DEF PhaseInv, SwapInv, JobInv
<1>5. ClaimInv'
  BY <1>1 DEF ClaimInv, Claimed
<1>6. PrepareInv'
  BY <1>1, <1>2 DEF PrepareInv, Preparing
<1>7. WorkInv'
  BY <1>1 DEF WorkInv, OfRun
<1>8. MarkInv'
  BY <1>1, Names DEF MarkInv, WorkInv, Has, Keeps
<1> QED
  BY <1>3, <1>4, <1>5, <1>6, <1>7, <1>8

-----------------------------------------------------------------------------
(* The steps of a run                                                       *)

\* A run starts when no other is going on, so no commit is under way either.
LEMMA StartRunStep ==
    ASSUME IInv, StartRun
    PROVE  IInv'
<1> USE DEF IInv
<1>1. PICK r \in RunIds, revision \in Revisions :
         /\ runs[r] = NoRun /\ runs' = [runs EXCEPT ![r] = Run(revision)] /\ current' = r
  BY DEF StartRun
<1>2. /\ current = 0 /\ phase' = "look" /\ stray' = {}
      /\ UNCHANGED <<cycle, reserved, clock, commit, failures, devices, remarked>>
  BY DEF StartRun
<1>3. /\ Run(revision) \in RunType /\ \A j \in Jobs : Run(revision).job[j] = "waiting"
      /\ r # 0
  BY EmptyTypes DEF RunIds
<1>4. runs' \in [RunIds -> RunType] /\ runs'[r] = Run(revision)
      /\ \A q \in RunIds \ {r} : runs'[q] = runs[q]
  BY <1>1, <1>3 DEF TypeOK
<1>5. \A w \in Writers : commit[w].state = "idle"
  BY <1>2, Names DEF PhaseInv
<1>6. TypeOK'
  BY <1>1, <1>2, <1>4 DEF TypeOK, Phases, Preparing
<1>7. PhaseInv'
  BY <1>1, <1>2, <1>3, <1>4, <1>5, Names DEF PhaseInv
<1>8. SwapInv'
  BY <1>2, <1>5 DEF SwapInv
<1>9. JobInv'
  BY <1>2, <1>3, <1>4 DEF JobInv
<1>10. ClaimInv'
  BY <1>2, <1>5 DEF ClaimInv, Claimed
<1>11. PrepareInv' /\ WorkInv' /\ MarkInv'
  BY <1>2, <1>5, Names DEF PrepareInv, WorkInv, MarkInv
<1> QED
  BY <1>6, <1>7, <1>8, <1>9, <1>10, <1>11

\* Starting a commit: its record.
LEMMA CallFacts ==
    ASSUME TypeOK, NEW w \in Writers, NEW new \in CycleType, NEW job \in Jobs, Call(w, new, job)
    PROVE  /\ commit' \in [Writers -> CommitType]
           /\ commit'[w].state = "get" /\ commit'[w].next = new /\ commit'[w].job = job
           /\ \A v \in Writers \ {w} : commit'[v] = commit[v]
<1> DEFINE c == [NoCommit EXCEPT !.state = "get", !.next = new, !.job = job]
<1>1. c \in CommitType /\ c.state = "get" /\ c.next = new /\ c.job = job
  BY EmptyTypes DEF CommitType
<1> QED
  BY <1>1 DEF Call, TypeOK

\* The prepare job commits a superseded cycle.
LEMMA SupersedeStep ==
    ASSUME IInv, Supersede
    PROVE  IInv'
<1> USE DEF IInv
<1> DEFINE new == [cycle EXCEPT !.superseded = TRUE]
<1>1. /\ phase = "look" /\ phase' = "supersede" /\ Call("prepare", new, NoCommit.job)
      /\ UNCHANGED <<cycle, reserved, clock, runs, current, stray, failures, devices, remarked>>
  BY DEF Supersede
<1>2. /\ new \in CycleType /\ new.superseded
      /\ new.generation = cycle.generation /\ new.status = cycle.status
  BY DEF TypeOK, CycleType
<1>3. /\ commit' \in [Writers -> CommitType]
      /\ commit'["prepare"].state = "get" /\ commit'["prepare"].next = new
      /\ commit["mark"].state = "idle" /\ commit'["mark"] = commit["mark"]
  BY <1>1, <1>2, Names, CallFacts DEF PhaseInv
<1>4. TypeOK'
  BY <1>1, <1>3 DEF TypeOK, Phases, Preparing
<1>5. PhaseInv'
  BY <1>1, <1>3 DEF PhaseInv, Preparing
<1>6. new.generation # 0
  BY <1>2 DEF Supersede, Abandoned, SwapInv
<1>7. SwapInv'
  <2> HIDE DEF new
  <2> QED
    BY <1>1, <1>3, <1>6, Names DEF SwapInv
<1>8. JobInv'
  BY <1>1 DEF JobInv
<1>9. ClaimInv'
  <2>1. \A w \in Writers : commit'[w].state # "idle" => w = "prepare"
    BY <1>3, Names
  <2>2. ~remarked => Claimed(cycle) /\ \A s \in stray : Claimed(s.next)
    BY DEF ClaimInv
  <2>3. UNCHANGED <<cycle, stray, devices, remarked>>
    BY <1>1
  <2> HIDE DEF new
  <2>4. ~remarked => Claimed(new)
    BY <1>2, <2>2 DEF Claimed
  <2> QED
    BY <1>3, <2>1, <2>2, <2>3, <2>4 DEF ClaimInv, Claimed
<1>10. PrepareInv' /\ WorkInv' /\ MarkInv'
  BY <1>1, <1>2, <1>3 DEF PrepareInv, WorkInv, MarkInv
<1> QED
  BY <1>4, <1>5, <1>7, <1>8, <1>9, <1>10

\* A resumed cycle is the one the run works on: it was planned at the run's revision.
LEMMA ResumeStep ==
    ASSUME IInv, Resume
    PROVE  IInv'
<1> USE DEF IInv
<1>1. /\ phase \in {"look", "decide"} /\ phase' = "running"
      /\ runs' = [runs EXCEPT ![current].generation = cycle.generation, ![current].pair = cycle.pair]
      /\ UNCHANGED <<cycle, reserved, clock, current, commit, stray, failures, devices, remarked>>
      /\ Active
  BY DEF Resume, Looked
<1>2. phase = "look" /\ cycle.revision = runs[current].revision
  BY DEF Resume, Looked, Abandoned, Active, PrepareInv
<1>3. /\ current \in RunIds /\ stray = {}
      /\ \A j \in Jobs : runs[current].job[j] = "waiting"
      /\ \A w \in Writers : commit[w].state = "idle"
  BY <1>1, Names DEF TypeOK, PhaseInv, Preparing
<1>4. /\ runs' \in [RunIds -> RunType]
      /\ runs'[current].generation = cycle.generation /\ runs'[current].pair = cycle.pair
      /\ runs'[current].revision = runs[current].revision
      /\ runs'[current].job = runs[current].job
      /\ \A r \in RunIds \ {current} : runs'[r] = runs[r]
  <2> DEFINE run == [runs[current] EXCEPT !.generation = cycle.generation, !.pair = cycle.pair]
  <2>0. runs[current] \in RunType /\ cycle \in CycleType
    BY <1>3 DEF TypeOK
  <2>1. /\ run \in RunType /\ run.generation = cycle.generation /\ run.pair = cycle.pair
        /\ run.revision = runs[current].revision /\ run.job = runs[current].job
    <3>1. cycle.generation \in Nat /\ cycle.pair \in Pairs \cup {NoInput}
      BY <2>0 DEF CycleType
    <3> QED
      BY <2>0, <3>1 DEF RunType
  <2>2. runs' = [runs EXCEPT ![current] = run]
    BY <1>1
  <2> QED
    BY <1>3, <2>1, <2>2 DEF TypeOK
<1>5. cycle.generation # 0 /\ ~cycle.superseded
  BY <1>1 DEF Active, SwapInv
<1>6. TypeOK'
  BY <1>1, <1>4 DEF TypeOK, Phases
<1>7. PhaseInv'
  BY <1>1, <1>3, Names DEF PhaseInv, Preparing, TypeOK, RunIds
<1>8. SwapInv'
  BY <1>1 DEF SwapInv
<1>9. JobInv'
  BY <1>1, <1>3, <1>4 DEF JobInv
<1>10. ClaimInv'
  BY <1>1 DEF ClaimInv, Claimed
<1>11. PrepareInv'
  BY <1>1 DEF PrepareInv
<1>12. WorkInv'
  BY <1>1, <1>2, <1>3, <1>4, <1>5, Names DEF WorkInv, OfRun
<1>13. MarkInv'
  BY <1>1, <1>3, <1>4, Names DEF MarkInv
<1> QED
  BY <1>6, <1>7, <1>8, <1>9, <1>10, <1>11, <1>12, <1>13

\* A new cycle is committed with nothing published, for the generation of its pair.
LEMMA BeginStep ==
    ASSUME IInv, Begin
    PROVE  IInv'
<1> USE DEF IInv
<1>1. PICK p \in Pairs, g \in Nat :
         /\ g # 0 /\ reserved' = [reserved EXCEPT ![p] = g]
         /\ runs' = [runs EXCEPT ![current].generation = g, ![current].pair = p]
         /\ Call("prepare", [NoCycle EXCEPT !.generation = g, !.pair = p,
                                            !.revision = runs[current].revision], NoCommit.job)
  <2>1. PICK p \in Pairs :
           LET g == IF reserved[p] = 0 THEN clock ELSE reserved[p] IN
           /\ reserved' = [reserved EXCEPT ![p] = g]
           /\ runs' = [runs EXCEPT ![current].generation = g, ![current].pair = p]
           /\ Call("prepare", [NoCycle EXCEPT !.generation = g, !.pair = p,
                                              !.revision = runs[current].revision], NoCommit.job)
    BY DEF Begin
  <2> DEFINE g == IF reserved[p] = 0 THEN clock ELSE reserved[p]
  <2>2. g \in Nat /\ g # 0
    BY DEF TypeOK
  <2>3. /\ reserved' = [reserved EXCEPT ![p] = g]
        /\ runs' = [runs EXCEPT ![current].generation = g, ![current].pair = p]
        /\ Call("prepare", [NoCycle EXCEPT !.generation = g, !.pair = p,
                                           !.revision = runs[current].revision], NoCommit.job)
    BY <2>1
  <2> HIDE DEF g
  <2> QED
    BY <2>2, <2>3
<1>2. /\ phase \in {"look", "decide"} /\ phase' = "begin" /\ clock' = clock + 1
      /\ UNCHANGED <<cycle, current, stray, failures, devices, remarked>>
  BY DEF Begin, Looked
<1>3. /\ current \in RunIds /\ stray = {}
      /\ \A j \in Jobs : runs[current].job[j] = "waiting"
      /\ \A w \in Writers : commit[w].state = "idle"
  BY <1>2, Names DEF TypeOK, PhaseInv, Preparing
<1> DEFINE run == [runs[current] EXCEPT !.generation = g, !.pair = p]
           new == [NoCycle EXCEPT !.generation = g, !.pair = p, !.revision = runs[current].revision]
<1>4. /\ run \in RunType /\ run.generation = g /\ run.pair = p
      /\ run.revision = runs[current].revision /\ run.job = runs[current].job
  BY <1>3 DEF TypeOK, RunType
<1>5. /\ runs' \in [RunIds -> RunType] /\ runs'[current] = run
      /\ \A r \in RunIds \ {current} : runs'[r] = runs[r]
  <2> runs' = [runs EXCEPT ![current] = run]
    BY <1>1
  <2> QED
    BY <1>3, <1>4 DEF TypeOK
<1>6. /\ new \in CycleType /\ new.generation = g /\ new.pair = p
      /\ new.revision = runs[current].revision /\ ~new.superseded
      /\ \A a \in Arches : ~new.status[a].published
  BY <1>3, EmptyTypes DEF TypeOK, CycleType, RunType
<1>7. /\ commit' \in [Writers -> CommitType]
      /\ commit'["prepare"].state = "get" /\ commit'["prepare"].next = new
      /\ commit'["mark"].state = "idle"
  BY <1>1, <1>3, <1>6, Names, CallFacts
<1> HIDE DEF run, new
<1>8. TypeOK'
  <2> reserved' \in [Pairs -> Nat] /\ clock' \in Nat \ {0}
    BY <1>1, <1>2, <1>3 DEF TypeOK
  <2> QED
    BY <1>2, <1>5, <1>7 DEF TypeOK, Phases, Preparing
<1>9. PhaseInv'
  BY <1>2, <1>3, <1>4, <1>5, <1>7 DEF PhaseInv, Preparing
<1>10. SwapInv'
  BY <1>1, <1>2, <1>6, <1>7, <1>3, Names DEF SwapInv
<1>11. JobInv'
  BY <1>2, <1>3, <1>4, <1>5 DEF JobInv
<1>12. ClaimInv'
  BY <1>2, <1>3, <1>6, <1>7, Names DEF ClaimInv, Claimed
<1>13. PrepareInv'
  BY <1>1, <1>2, <1>4, <1>5, <1>6, <1>7 DEF PrepareInv, OfRun
<1>14. WorkInv' /\ MarkInv'
  BY <1>2, <1>7 DEF WorkInv, MarkInv
<1> QED
  BY <1>8, <1>9, <1>10, <1>11, <1>12, <1>13, <1>14

\* A publication commits the generation of its run for the devices, or fails.
LEMMA PublishStep ==
    ASSUME IInv, Publish
    PROVE  IInv'
<1> USE DEF IInv
<1>1. PICK j \in Jobs, state \in {"published", "failed"} :
         /\ runs[current].job[j] = "waiting"
         /\ runs' = [runs EXCEPT ![current].job[j] = state]
         /\ IF state = "published"
            THEN devices' = [devices EXCEPT ![j[1]] = @ \cup {runs[current].generation}]
            ELSE UNCHANGED devices
  BY DEF Publish, Due
<1>2. /\ phase = "running"
      /\ UNCHANGED <<cycle, reserved, clock, current, phase, commit, stray, failures, remarked>>
  BY DEF Publish
<1>3. /\ current \in RunIds /\ commit["prepare"].state = "idle"
      /\ commit["mark"].state # "idle" => commit["mark"].job # j
  BY <1>1, <1>2 DEF TypeOK, PhaseInv
<1>4. /\ runs' \in [RunIds -> RunType]
      /\ \A r \in RunIds :
            /\ runs'[r].generation = runs[r].generation
            /\ runs'[r].pair = runs[r].pair /\ runs'[r].revision = runs[r].revision
            /\ \A k \in Jobs :
                  runs'[r].job[k] = runs[r].job[k] \/ (r = current /\ k = j /\ runs'[r].job[k] = state)
  BY <1>1, <1>3 DEF TypeOK, RunType, JobStates
<1>5. /\ devices' \in [Arches -> SUBSET Nat]
      /\ \A a \in Arches : devices[a] \subseteq devices'[a]
      /\ state = "published" => runs[current].generation \in devices'[j[1]]
  <2> /\ j[1] \in Arches /\ runs[current].generation \in Nat
    BY <1>3, Names DEF TypeOK, RunType
  <2> QED
    BY <1>1 DEF TypeOK
<1>6. TypeOK'
  BY <1>2, <1>4, <1>5 DEF TypeOK
<1>7. PhaseInv'
  <2>1. commit["mark"].state # "idle" => runs'[current].job[commit["mark"].job] = "published"
    BY <1>1, <1>2, <1>3, <1>4, Names DEF PhaseInv, TypeOK, CommitType
  <2> QED
    BY <1>2, <1>3, <2>1 DEF PhaseInv, Preparing
<1>8. SwapInv' /\ PrepareInv'
  BY <1>2 DEF SwapInv, PrepareInv
<1>9. JobInv'
  BY <1>4, <1>5, Names DEF JobInv
<1>10. ClaimInv'
  BY <1>2, <1>5 DEF ClaimInv, Claimed
<1>11. WorkInv'
  BY <1>2, <1>3, <1>4 DEF WorkInv, OfRun
<1>12. MarkInv'
  BY <1>1, <1>2, <1>3, <1>4 DEF MarkInv, Has
<1> QED
  BY <1>6, <1>7, <1>8, <1>9, <1>10, <1>11, <1>12

\* A cycle job marks the version of its run's cycle that it has read.
LEMMA MarkStep ==
    ASSUME IInv, Mark
    PROVE  IInv'
<1> USE DEF IInv
<1>1. PICK j \in Jobs :
         runs[current].job[j] = "published" /\ Call("mark", Marked(cycle, j), j)
  BY DEF Mark
<1>2. /\ phase = "running" /\ commit["mark"].state = "idle" /\ Exists(cycle)
      /\ UNCHANGED <<cycle, reserved, clock, runs, current, phase, stray, failures, devices, remarked>>
  BY DEF Mark
<1> DEFINE new == Marked(cycle, j)
<1>3. /\ new \in CycleType /\ new.generation = cycle.generation
      /\ new.pair = cycle.pair /\ new.revision = cycle.revision /\ new.superseded = cycle.superseded
      /\ Has(new, j)
      /\ \A a \in Arches : new.status[a].published => cycle.status[a].published \/ a = j[1]
  BY MarkedFacts DEF TypeOK
<1>4. /\ commit' \in [Writers -> CommitType]
      /\ commit'["mark"].state = "get" /\ commit'["mark"].next = new /\ commit'["mark"].job = j
      /\ commit'["prepare"] = commit["prepare"] /\ commit["prepare"].state = "idle"
  BY <1>1, <1>2, <1>3, Names, CallFacts DEF PhaseInv
<1> HIDE DEF new
<1>5. TypeOK'
  BY <1>2, <1>4 DEF TypeOK
<1>6. PhaseInv'
  BY <1>1, <1>2, <1>4 DEF PhaseInv, Preparing
<1>7. SwapInv'
  BY <1>2, <1>3, <1>4, Names DEF SwapInv
<1>8. JobInv'
  BY <1>2 DEF JobInv
<1>9. ClaimInv'
  <2>1. ~remarked => OfRun(cycle) /\ Claimed(cycle)
    BY <1>2 DEF WorkInv, ClaimInv
  <2>2. runs[current].generation \in devices[j[1]]
    BY <1>1, <1>2 DEF JobInv, PhaseInv, TypeOK
  <2>3. ~remarked => Claimed(new)
    BY <1>3, <2>1, <2>2 DEF Claimed, OfRun
  <2> QED
    BY <1>2, <1>4, <2>3, Names DEF ClaimInv, Claimed
<1>10. PrepareInv'
  BY <1>2 DEF PrepareInv
<1>11. WorkInv'
  BY <1>2, <1>3, <1>4 DEF WorkInv, OfRun
<1>12. MarkInv'
  BY <1>2, <1>3, <1>4 DEF MarkInv, Has
<1> QED
  BY <1>5, <1>6, <1>7, <1>8, <1>9, <1>10, <1>11, <1>12

\* A run that ends has no commit under way.
LEMMA EndRunStep ==
    ASSUME IInv, EndRun
    PROVE  IInv'
<1> USE DEF IInv
<1>1. /\ phase = "running" /\ phase' = "none" /\ current' = 0
      /\ \A j \in Jobs : runs[current].job[j] # "published"
      /\ UNCHANGED <<cycle, reserved, clock, runs, commit, stray, failures, devices, remarked>>
  BY DEF EndRun
<1>2. \A w \in Writers : commit[w].state = "idle"
  BY <1>1, Names DEF PhaseInv, TypeOK, CommitType
<1>3. TypeOK'
  BY <1>1 DEF TypeOK, Phases
<1>4. PhaseInv'
  BY <1>1, <1>2, Names DEF PhaseInv, Preparing
<1>5. SwapInv' /\ JobInv'
  BY <1>1 DEF SwapInv, JobInv
<1>6. ClaimInv'
  BY <1>1 DEF ClaimInv, Claimed
<1>7. PrepareInv' /\ WorkInv' /\ MarkInv'
  BY <1>1, <1>2, Names DEF PrepareInv, WorkInv, MarkInv
<1> QED
  BY <1>3, <1>4, <1>5, <1>6, <1>7

\* A cycle job that is run again had published.
LEMMA RerunMarkStep ==
    ASSUME IInv, RerunMark
    PROVE  IInv'
<1> USE DEF IInv
<1>1. PICK r \in RunIds, j \in Jobs :
         /\ runs[r].job[j] = "unmarked" /\ runs' = [runs EXCEPT ![r].job[j] = "published"]
         /\ current' = r
  BY DEF RerunMark
<1>2. /\ current = 0 /\ phase' = "running" /\ stray' = {} /\ remarked' = TRUE
      /\ UNCHANGED <<cycle, reserved, clock, commit, failures, devices>>
  BY DEF RerunMark
<1>3. /\ r # 0 /\ \A w \in Writers : commit[w].state = "idle"
  BY <1>2, Names DEF PhaseInv, RunIds
<1>4. /\ runs' \in [RunIds -> RunType]
      /\ \A q \in RunIds :
            /\ runs'[q].generation = runs[q].generation
            /\ \A k \in Jobs : runs'[q].job[k] = runs[q].job[k] \/ (q = r /\ k = j)
  BY <1>1 DEF TypeOK, RunType, JobStates
<1>5. TypeOK'
  BY <1>1, <1>2, <1>4 DEF TypeOK, Phases
<1>6. PhaseInv'
  BY <1>1, <1>2, <1>3, Names DEF PhaseInv, Preparing
<1>7. SwapInv'
  BY <1>2, <1>3 DEF SwapInv
<1>8. JobInv'
  BY <1>1, <1>2, <1>4 DEF JobInv
<1>9. ClaimInv' /\ PrepareInv' /\ WorkInv' /\ MarkInv'
  BY <1>2, <1>3, Names DEF ClaimInv, PrepareInv, WorkInv, MarkInv, Preparing
<1> QED
  BY <1>5, <1>6, <1>7, <1>8, <1>9

-----------------------------------------------------------------------------
(* The theorems                                                             *)

LEMMA InitInv == Init => IInv
<1> SUFFICES ASSUME Init PROVE IInv
  OBVIOUS
<1>1. NoRun \in RunType /\ \A j \in Jobs : NoRun.job[j] = "waiting"
  BY EmptyTypes DEF NoRun
<1>2. /\ cycle = NoCycle /\ stray = {} /\ phase = "none" /\ current = 0
      /\ \A w \in Writers : commit[w] = NoCommit
      /\ \A r \in RunIds : runs[r] = NoRun
  BY DEF Init
<1>3. TypeOK
  <2>1. /\ reserved \in [Pairs -> Nat] /\ clock \in Nat \ {0} /\ failures \in Nat
        /\ devices \in [Arches -> SUBSET Nat]
    BY DEF Init
  <2>2. remarked \in BOOLEAN
    BY Zenon DEF Init
  <2>3. runs \in [RunIds -> RunType] /\ commit \in [Writers -> CommitType] /\ cycle \in CycleType
    BY <1>1, EmptyTypes DEF Init
  <2> QED
    BY <1>2, <2>1, <2>2, <2>3 DEF TypeOK, Phases
<1>4. PhaseInv
  BY <1>2, Names, EmptyTypes DEF PhaseInv, Preparing
<1>5. SwapInv /\ JobInv
  BY <1>1, <1>2, EmptyTypes DEF SwapInv, JobInv
<1>6. ClaimInv
  BY <1>2, EmptyTypes DEF ClaimInv, Claimed
<1>7. PrepareInv /\ WorkInv /\ MarkInv
  BY <1>2, Names, EmptyTypes DEF PrepareInv, WorkInv, MarkInv
<1> QED
  BY <1>3, <1>4, <1>5, <1>6, <1>7 DEF IInv

LEMMA NextInv == IInv /\ [Next]_vars => IInv'
<1> SUFFICES ASSUME IInv, [Next]_vars PROVE IInv'
  OBVIOUS
<1>1. CASE StartRun
  BY <1>1, StartRunStep
<1>2. CASE Supersede
  BY <1>2, SupersedeStep
<1>3. CASE Resume
  BY <1>3, ResumeStep
<1>4. CASE Begin
  BY <1>4, BeginStep
<1>5. CASE Publish
  BY <1>5, PublishStep
<1>6. CASE Mark
  BY <1>6, MarkStep
<1>7. CASE EndRun
  BY <1>7, EndRunStep
<1>8. CASE RerunMark
  BY <1>8, RerunMarkStep
<1>9. ASSUME NEW w \in Writers, Get(w) \/ Swap(w) \/ Retry(w) \/ Kill(w)
      PROVE  IInv'
  BY <1>9, GetStep, SwapStep, RetryStep, KillStep
<1>10. CASE LateSwap
  BY <1>10, LateSwapStep
<1>11. CASE UNCHANGED vars
  BY <1>11 DEF vars, IInv, TypeOK, PhaseInv, SwapInv, JobInv, ClaimInv, Claimed, PrepareInv,
               WorkInv, OfRun, MarkInv, Has
<1> QED
  BY <1>1, <1>2, <1>3, <1>4, <1>5, <1>6, <1>7, <1>8, <1>9, <1>10, <1>11 DEF Next

\* The invariant holds throughout, whatever job is killed and whatever swap is late.
THEOREM Invariance == Spec => []IInv
BY InitInv, NextInv, PTL DEF Spec

\* The document changes by a swap that finds what it has read.
LEMMA CycleChanges ==
    ASSUME IInv, [Next]_vars
    PROVE  cycle' = cycle \/ Forward(cycle, cycle')
<1>1. ASSUME NEW w \in Writers, Swap(w)
      PROVE  Forward(cycle, cycle')
  BY <1>1 DEF Swap, IInv, SwapInv
<1>2. CASE LateSwap
  BY <1>2 DEF LateSwap, IInv, SwapInv
<1> QED
  BY <1>1, <1>2 DEF Next, vars, StartRun, Supersede, Resume, Begin, Publish, Mark, EndRun, RerunMark,
                    Get, Retry, Kill

\* development_cycle.go: no run, commit or late swap puts a cycle of an older
\* generation in the place of a newer one.
THEOREM NeverBackwards == Spec => CycleNeverBackwards
<1>1. ASSUME IInv, [Next]_vars
      PROVE  [cycle'.generation >= cycle.generation]_cycle
  BY <1>1, CycleChanges DEF Forward
<1> QED
  BY <1>1, Invariance, PTL DEF Spec, CycleNeverBackwards

\* development_cycle.go:83-85: a cycle that is neither complete nor superseded
\* keeps its generation and inputs, and every status it has, in whatever step.
THEOREM Frozen == Spec => FrozenUntilComplete
<1> DEFINE Keep == Active => /\ cycle'.generation = cycle.generation
                             /\ Inputs(cycle') = Inputs(cycle)
                             /\ \A a \in Arches :
                                   /\ cycle.status[a].published => cycle'.status[a].published
                                   /\ cycle.status[a].images => cycle'.status[a].images
<1>1. ASSUME IInv, [Next]_vars
      PROVE  [Keep]_cycle
  BY <1>1, CycleChanges DEF Forward, Unfinished, Active, Keeps
<1> QED
  BY <1>1, Invariance, PTL DEF Spec, FrozenUntilComplete

\* Until a cycle job of an older run is run again, the cycle claims of an
\* architecture only what a publication committed for its devices.
THEOREM PublishedMeansCommitted == Spec => []PublishedUnlessRerun
<1>1. IInv => PublishedUnlessRerun
  BY DEF IInv, ClaimInv, Claimed, PublishedUnlessRerun, PublishedMeansDevicesHaveIt
<1> QED
  BY <1>1, Invariance, PTL

\* Until then no status that a cycle job of the going run has set is lost: the
\* job's own success is in the document, however its commit raced and merged.
THEOREM MarksStay == Spec => []NoMarkLost
<1>1. IInv => NoMarkLost
  BY DEF IInv, MarkInv, Has, NoMarkLost
<1> QED
  BY <1>1, Invariance, PTL
=============================================================================
