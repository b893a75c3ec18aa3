--------------------------- MODULE DevelopmentCycle ---------------------------
(***************************************************************************)
(* The frozen Development cycle (internal/control/development_cycle.go):   *)
(* one document that a Development run resumes, supersedes or begins in    *)
(* its prepare job, and that the cycle job of each architecture marks      *)
(* published after its publish job (development-multiarch.yml,             *)
(* publish-qualified-development.yml).  Runs are serialised by the group   *)
(* development-multiarch, cycle jobs by development-cycle-commit.  Jobs    *)
(* are killed anywhere; a swap a killed job sent may still land.           *)
(*                                                                         *)
(* A plan is a pair fingerprint and the revision of the control plane and  *)
(* the sources that resolved to it.  The cycle job sets System, Packages   *)
(* and Published together, so one flag stands for the three.               *)
(***************************************************************************)
EXTENDS Naturals

CONSTANTS Pairs,        \* pair fingerprints that sources can resolve to
          Revisions,    \* revisions a plan can be made at
          MaxRuns,      \* bound: Development runs
          MaxAttempts,  \* attempts of CommitDevelopmentCycle (5 in the code)
          MaxFailures,  \* bound: commits killed midway
          StaleReruns   \* whether a failed cycle job of an older run is run again

Arches == {"amd64", "arm64"}

ASSUME CycleAssumption ==
    /\ MaxRuns \in Nat \ {0} /\ MaxAttempts \in Nat \ {0} /\ MaxFailures \in Nat
    /\ StaleReruns \in BOOLEAN

VARIABLES cycle,        \* state/development-cycle.json
          reserved,     \* reserved[p]: the generation reserved for pair p, or 0
          clock,        \* the proposed generation: seconds, so never the same twice
          runs,         \* the Development runs: what they work on, how their jobs ended
          current,      \* the run (or re-run) that is going on, 0 if none
          phase,        \* where its prepare job is, or "running" after it
          commit,       \* commit[w]: the CommitDevelopmentCycle call of job w
          stray,        \* swaps of killed jobs that may still be applied
          failures,     \* commits killed so far
          devices,      \* history: devices[a], the generations committed for devices
          remarked      \* history: whether a job of an older run was run again

vars == <<cycle, reserved, clock, runs, current, phase, commit, stray, failures, devices, remarked>>

RunIds == 1..MaxRuns
Kinds  == {"repositories", "images"}
Jobs   == Arches \X Kinds

Pending == [published |-> FALSE, images |-> FALSE]
NoInput == "none"
NoCycle == [generation |-> 0, pair |-> NoInput, revision |-> NoInput,
            superseded |-> FALSE, status |-> [a \in Arches |-> Pending]]

Exists(c)   == c # NoCycle
Complete(c) == \A a \in Arches : c.status[a].published
Inputs(c)   == <<c.pair, c.revision>>

\* A run is resumed or begun for one generation of one plan; a job waits, has
\* published, is done, or was killed before or after its publication.
Run(r) == [revision |-> r, generation |-> 0, pair |-> NoInput, job |-> [j \in Jobs |-> "waiting"]]
NoRun  == Run(NoInput)

\* The two jobs that can be in CommitDevelopmentCycle.
Writers == {"prepare", "mark"}
NoCommit == [state |-> "idle", attempt |-> 0, next |-> NoCycle, read |-> NoCycle,
             job |-> <<"amd64", "repositories">>]

Init ==
    /\ cycle = NoCycle
    /\ reserved = [p \in Pairs |-> 0]
    /\ clock = 1
    /\ runs = [r \in RunIds |-> NoRun]
    /\ current = 0
    /\ phase = "none"
    /\ commit = [w \in Writers |-> NoCommit]
    /\ stray = {}
    /\ failures = 0
    /\ devices = [a \in Arches |-> {}]
    /\ remarked = FALSE

(***************************************************************************)
(* CommitDevelopmentCycle                                                  *)
(***************************************************************************)
\* The next cycle for an unchanged pair replans a completed one.
ReplanComplete(old, new) ==
    /\ new.generation = old.generation
    /\ ~old.superseded /\ Complete(old)
    /\ new.pair = old.pair
    /\ new.revision # old.revision

Resumes(old, new) ==
    new.generation = old.generation /\ ~old.superseded /\ ~ReplanComplete(old, new)

\* Mutant: the caller's statuses are written as they are.
Unmerged(old, new) == new

\* Statuses only move forward.
Merged(old, new) ==
    [new EXCEPT !.status = [a \in Arches |->
        [published |-> old.status[a].published \/ new.status[a].published,
         images    |-> old.status[a].images \/ new.status[a].images]]]

\* Mutant: the generation is not compared.
RefusedInputs(old, new) ==
    \/ Resumes(old, new) /\ Inputs(new) # Inputs(old)
    \/ ~Resumes(old, new) /\ ~old.superseded /\ ~Complete(old)

Refused(old, new) ==
    \/ new.generation < old.generation
    \/ Resumes(old, new) /\ Inputs(new) # Inputs(old)
    \/ ~Resumes(old, new) /\ ~old.superseded /\ ~Complete(old)

Call(w, new, job) ==
    commit' = [commit EXCEPT ![w] = [NoCommit EXCEPT !.state = "get", !.next = new, !.job = job]]

\* What the job makes of the end of its call: prepare goes on, or the run fails;
\* a cycle job is done, or fails after its architecture was published.
End(w, ok) ==
    /\ commit' = [commit EXCEPT ![w] = NoCommit]
    /\ IF w = "mark"
       THEN /\ runs' = [runs EXCEPT ![current].job[commit[w].job] = IF ok THEN "done" ELSE "unmarked"]
            /\ UNCHANGED <<phase, current>>
       ELSE /\ phase' = IF ~ok THEN "none" ELSE IF phase = "supersede" THEN "decide" ELSE "running"
            /\ current' = IF ok THEN current ELSE 0
            /\ UNCHANGED runs

Get(w) ==
    LET new == IF Exists(cycle) /\ Resumes(cycle, commit[w].next)
               THEN Merged(cycle, commit[w].next) ELSE commit[w].next
        refused == Exists(cycle) /\ Refused(cycle, commit[w].next) IN
    /\ commit[w].state = "get"
    /\ CASE refused -> End(w, FALSE)
         [] ~refused /\ new = cycle -> End(w, TRUE)
         [] OTHER -> /\ commit' = [commit EXCEPT ![w].state = "swap", ![w].attempt = @ + 1,
                                                 ![w].read = cycle, ![w].next = new]
                     /\ UNCHANGED <<runs, phase, current>>
    /\ UNCHANGED <<cycle, reserved, clock, stray, failures, devices, remarked>>

Swap(w) ==
    /\ commit[w].state = "swap"
    /\ cycle = commit[w].read
    /\ cycle' = commit[w].next
    /\ End(w, TRUE)
    /\ UNCHANGED <<reserved, clock, stray, failures, devices, remarked>>

\* The document changed: look again, with what was merged so far.
Retry(w) ==
    /\ commit[w].state = "swap"
    /\ cycle # commit[w].read
    /\ IF commit[w].attempt < MaxAttempts
       THEN /\ commit' = [commit EXCEPT ![w].state = "get"]
            /\ UNCHANGED <<runs, phase, current>>
       ELSE End(w, FALSE)
    /\ UNCHANGED <<cycle, reserved, clock, stray, failures, devices, remarked>>

\* The job is killed; a swap it has sent is not recalled.
Kill(w) ==
    /\ commit[w].state # "idle"
    /\ failures < MaxFailures
    /\ failures' = failures + 1
    /\ \/ UNCHANGED stray
       \/ /\ commit[w].state = "swap"
          /\ stray' = stray \cup {[read |-> commit[w].read, next |-> commit[w].next]}
    /\ End(w, FALSE)
    /\ UNCHANGED <<cycle, reserved, clock, devices, remarked>>

\* Mutant: a PUT without If-Match.
LatePut ==
    \E s \in stray :
        /\ cycle' = s.next
        /\ stray' = stray \ {s}
        /\ UNCHANGED <<reserved, clock, runs, current, phase, commit, failures, devices, remarked>>

\* It is applied only if the document still has the ETag it names.
LateSwap ==
    \E s \in stray :
        /\ cycle = s.read
        /\ cycle' = s.next
        /\ stray' = stray \ {s}
        /\ UNCHANGED <<reserved, clock, runs, current, phase, commit, failures, devices, remarked>>

(***************************************************************************)
(* A Development run: its prepare job                                      *)
(***************************************************************************)
\* By the time a run starts, the requests of an earlier one have arrived or
\* were dropped.
StartRun ==
    /\ current = 0
    /\ \E r \in RunIds, revision \in Revisions :
          /\ runs[r] = NoRun
          /\ \A q \in 1..(r - 1) : runs[q] # NoRun
          /\ runs' = [runs EXCEPT ![r] = Run(revision)]
          /\ current' = r
    /\ phase' = "look"
    /\ stray' = {}
    /\ UNCHANGED <<cycle, reserved, clock, commit, failures, devices, remarked>>

Active == Exists(cycle) /\ ~cycle.superseded /\ ~Complete(cycle)

\* A cycle planned at another revision can never resume; others are abandoned
\* on request, the completed one included.
Abandoned(request) ==
    Exists(cycle) /\ ~cycle.superseded /\ (request \/ (Active /\ cycle.revision # runs[current].revision))

Supersede ==
    /\ phase = "look"
    /\ \E request \in BOOLEAN : Abandoned(request)
    /\ phase' = "supersede"
    /\ Call("prepare", [cycle EXCEPT !.superseded = TRUE], NoCommit.job)
    /\ UNCHANGED <<cycle, reserved, clock, runs, current, stray, failures, devices, remarked>>

Looked == phase = "decide" \/ (phase = "look" /\ ~Abandoned(FALSE))

Resume ==
    /\ Looked
    /\ Active
    /\ runs' = [runs EXCEPT ![current].generation = cycle.generation, ![current].pair = cycle.pair]
    /\ phase' = "running"
    /\ UNCHANGED <<cycle, reserved, clock, current, commit, stray, failures, devices, remarked>>

\* Resolve the sources, reserve the pair's generation, and commit a new cycle.
Begin ==
    /\ Looked
    /\ ~Active
    /\ clock <= MaxRuns
    /\ \E p \in Pairs :
          LET g == IF reserved[p] = 0 THEN clock ELSE reserved[p] IN
          /\ reserved' = [reserved EXCEPT ![p] = g]
          /\ runs' = [runs EXCEPT ![current].generation = g, ![current].pair = p]
          /\ Call("prepare", [NoCycle EXCEPT !.generation = g, !.pair = p,
                                             !.revision = runs[current].revision], NoCommit.job)
    /\ clock' = clock + 1
    /\ phase' = "begin"
    /\ UNCHANGED <<cycle, current, stray, failures, devices, remarked>>

(***************************************************************************)
(* Its publications, each followed by its cycle job                        *)
(***************************************************************************)
\* Images follow the repositories of both architectures.
Due(job, j) ==
    /\ job[j] = "waiting"
    /\ j[2] = "images" => \A a \in Arches : job[<<a, "repositories">>] = "done"

Publish ==
    /\ phase = "running"
    /\ \E j \in Jobs :
          /\ Due(runs[current].job, j)
          /\ \/ /\ runs' = [runs EXCEPT ![current].job[j] = "published"]
                /\ devices' = [devices EXCEPT ![j[1]] = @ \cup {runs[current].generation}]
             \/ /\ runs' = [runs EXCEPT ![current].job[j] = "failed"]
                /\ UNCHANGED devices
    /\ UNCHANGED <<cycle, reserved, clock, current, phase, commit, stray, failures, remarked>>

\* Mutant: the jq program updates both architectures.
MarkedBoth(c, j) ==
    [c EXCEPT !.status = [a \in Arches |-> [published |-> TRUE,
                                            images |-> j[2] = "images" \/ @[a].images]]]

Marked(c, j) == [c EXCEPT !.status[j[1]] = [published |-> TRUE,
                                            images |-> j[2] = "images" \/ @.images]]

\* cycle-get, whichever cycle that is, and jq.
Mark ==
    /\ phase = "running"
    /\ commit["mark"].state = "idle"
    /\ Exists(cycle)
    /\ \E j \in Jobs :
          /\ runs[current].job[j] = "published"
          /\ Call("mark", Marked(cycle, j), j)
    /\ UNCHANGED <<cycle, reserved, clock, runs, current, phase, stray, failures, devices, remarked>>

\* The run is over: no job of it is going on.
EndRun ==
    /\ phase = "running"
    /\ \A j \in Jobs : runs[current].job[j] # "published"
    /\ phase' = "none"
    /\ current' = 0
    /\ UNCHANGED <<cycle, reserved, clock, runs, commit, stray, failures, devices, remarked>>

\* "Re-run failed jobs" of a run whose cycle job failed.
RerunMark ==
    /\ StaleReruns
    /\ current = 0
    /\ \E r \in RunIds, j \in Jobs :
          /\ runs[r].job[j] = "unmarked"
          /\ runs' = [runs EXCEPT ![r].job[j] = "published"]
          /\ current' = r
    /\ phase' = "running"
    /\ stray' = {}
    /\ remarked' = TRUE
    /\ UNCHANGED <<cycle, reserved, clock, commit, failures, devices>>

Next ==
    \/ StartRun
    \/ Supersede
    \/ Resume
    \/ Begin
    \/ Publish
    \/ Mark
    \/ EndRun
    \/ RerunMark
    \/ \E w \in Writers : Get(w) \/ Swap(w) \/ Retry(w) \/ Kill(w)
    \/ LateSwap

Spec == Init /\ [][Next]_vars

(***************************************************************************)
(* Properties                                                              *)
(***************************************************************************)
\* development_cycle.go:68, "Published means devices have the pair": the cycle
\* never claims an architecture that was not committed for devices.
PublishedMeansDevicesHaveIt ==
    \A a \in Arches : cycle.status[a].published => cycle.generation \in devices[a]

\* Only a cycle job of an older run that is run again can make it claim more.
PublishedUnlessRerun == ~remarked => PublishedMeansDevicesHaveIt

\* development_cycle.go:83-85: until it is complete or superseded a cycle is
\* frozen, and no status in it is lost, whatever marks race or arrive late.
FrozenUntilComplete ==
    [][Active => /\ cycle'.generation = cycle.generation
                 /\ Inputs(cycle') = Inputs(cycle)
                 /\ \A a \in Arches :
                       /\ cycle.status[a].published => cycle'.status[a].published
                       /\ cycle.status[a].images => cycle'.status[a].images]_cycle

\* The generation of the cycle never drops: each run gets a newer one, or its
\* pair's own again.
CycleNeverBackwards == [][cycle'.generation >= cycle.generation]_cycle

\* A cycle job that succeeded is in the cycle its run works on, so the run does not
\* publish again, and the next one resumes after it.
NoMarkLost ==
    \A j \in Jobs :
        (phase = "running" /\ runs[current].job[j] = "done"
            /\ runs[current].generation = cycle.generation
            /\ ~remarked)
        => /\ cycle.status[j[1]].published
           /\ j[2] = "images" => cycle.status[j[1]].images
=============================================================================
