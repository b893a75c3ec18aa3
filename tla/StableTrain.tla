---------------------------- MODULE StableTrain -----------------------------
(***************************************************************************)
(* From a release lock to a live Stable release: the locks and withdrawals on *)
(* the os-base main branch and the CI check on changes of them, the scheduled *)
(* refresh proposal, the candidate and seal stages of stable.yml with their   *)
(* gate, and the tags.  What a seal does to a manifest is module Channels;     *)
(* here a manifest is the release it names.                                  *)
(*                                                                         *)
(* A run of stable.yml works from one commit of main, which may be older than  *)
(* the newest: it waited in its concurrency group, or is an old run started    *)
(* again.  Its gate passes once, in the plan job; after that it waits for an   *)
(* approval, and its failed jobs can be run again by themselves.  A pull request *)
(* is as old as it likes too: CI checked it on the commit it was opened from.  *)
(***************************************************************************)
EXTENDS Integers, Sequences, FiniteSets, FiniteSetsExt, Functions

CONSTANTS
    Repositories,        \* product repositories with a maintenance branch
    PackagesRepository,  \* the one Optional Packages are built from
    Soak,                \* stable_soak_hours
    MaxPatch, MaxMain, MaxCommits, MaxTime, MaxTestings    \* bounds

OsBase == "os-base"

\* os-base is tagged apart from the repositories that a lock names.
ASSUME TrainAssumption ==
    /\ OsBase \notin Repositories /\ PackagesRepository \in Repositories
    /\ MaxPatch \in Nat /\ Soak \in Nat

VARIABLES
    main,        \* os-base main: [locks, withdrawn, pin, recipe], one for each commit
    heads,       \* [Repositories -> newest commit of RELENG_<train>, from 1]
    proposal,    \* the open refresh pull request, or NoLock
    raised,      \* locks a refresh ever proposed
    run,         \* the run in the release-control group, or NoRun
    approved,    \* the run whose seal was approved last, or NoRun
    complete,    \* components with a complete.json
    live,        \* [Manifests -> the release it names]
    tags,        \* [Repositories and os-base -> [release -> tagged commit, or 0]]
    clock,
    late,        \* a swap that a dead seal left on its way, or NoSwap
    sealed,      \* history: releases that went live on amd64
    unseen       \* history: such a swap was applied since the gate of this run

policyVars == <<main, heads, proposal, raised>>
liveVars == <<live, tags, clock, late, sealed, unseen>>
vars == <<policyVars, run, approved, complete, liveVars>>

Releases == 0..MaxPatch
Architectures == {"amd64", "arm64"}
Manifests == {"legacy", "qualified", "arm64"}

NoLock == [release |-> -1]
NoRun == [stage |-> "none"]
NothingLive == [release |-> -1]
NoSwap == [over |-> {}]

Newest == main[Len(main)]
HasLock(t, v) == t.locks[v] # NoLock
Locked(t) == {v \in Releases : HasLock(t, v)}
LatestLock(t) == Max(Locked(t))

-----------------------------------------------------------------------------
(* check_release_locks.py, on every pull request.                             *)

Validated(t, v) == HasLock(t, v) => t.locks[v].release = v

\* Mutant: nobody looks whether a withdrawn release has a lock.
CheckLocks(t) == (\A v \in Releases : Validated(t, v)) /\ \E n \in Releases : Locked(t) = 0..n

CheckSet(t) ==
    /\ \A v \in Releases : Validated(t, v)
    /\ \E n \in Releases : Locked(t) = 0..n
    /\ t.withdrawn \subseteq Locked(t)

\* Mutant: withdrawals are append-only, locks are not.
WithdrawalsKept(before, after) == before.withdrawn \subseteq after.withdrawn

CheckChange(before, after) ==
    /\ \A v \in Locked(before) : after.locks[v] = before.locks[v]
    /\ before.withdrawn \subseteq after.withdrawn

Lock(v, s, pin, arm64, override) ==
    [release |-> v, sources |-> s, pin |-> pin, arm64 |-> arm64, override |-> override]

\* A maintenance commit, or one that is on no maintenance branch.
Picks == {heads} \cup {[heads EXCEPT ![r] = 0] : r \in Repositories}

\* A lock written by hand: copied from another one with a field forgotten, from a
\* commit of another branch, or in place of one that is already there.
HandWritten(base) ==
    LET v == LatestLock(base) IN
    {Lock(n, s, base.pin, base.locks[v].arm64, override) : n \in {v + 1, v}, s \in Picks, override \in BOOLEAN}

Changes(base) ==
    {[base EXCEPT !.locks[v] = l] : v \in Releases, l \in {NoLock} \cup HandWritten(base)}
        \cup {[base EXCEPT !.withdrawn = w] : w \in SUBSET Releases}
        \cup {[base EXCEPT !.pin = @ + 1], [base EXCEPT !.recipe = @ + 1]}

\* What git merges: a file is taken from the side that changed it, and one that
\* both sides changed is a conflict.
Conflict(base, t) ==
    \/ \E v \in Releases : t.locks[v] # base.locks[v] /\ Newest.locks[v] # base.locks[v]
    \/ \E f \in {"pin", "recipe"} : t[f] # base[f] /\ Newest[f] # base[f]

Merged(base, t) ==
    [locks |-> [v \in Releases |-> IF t.locks[v] = base.locks[v] THEN Newest.locks[v] ELSE t.locks[v]],
     withdrawn |-> (Newest.withdrawn \ (base.withdrawn \ t.withdrawn)) \cup (t.withdrawn \ base.withdrawn),
     pin |-> IF t.pin = base.pin THEN Newest.pin ELSE t.pin,
     recipe |-> IF t.recipe = base.recipe THEN Newest.recipe ELSE t.recipe]

\* A pull request is checked on the commit that it was opened from, and merged
\* into the newest one.
Push(base, t) ==
    /\ Len(main) < MaxMain
    /\ CheckSet(t) /\ CheckChange(base, t) /\ ~ Conflict(base, t)
    /\ Merged(base, t) # Newest
    /\ main' = Append(main, Merged(base, t))

\* A lock, a withdrawal, a rotated FreeBSD pin or a changed build recipe.
Merge ==
    /\ \E base \in Range(main) : \E t \in Changes(base) : Push(base, t)
    /\ UNCHANGED <<heads, proposal, raised, run, approved, complete, liveVars>>

\* A maintenance branch gets a commit.
CommitSource ==
    /\ FoldFunction(+, 0, heads) < MaxCommits
    /\ \E r \in Repositories : heads' = [heads EXCEPT ![r] = @ + 1]
    /\ UNCHANGED <<main, proposal, raised, run, approved, complete, liveVars>>

-----------------------------------------------------------------------------
(* stable_refresh.py and stable-refresh.yml: the next patch lock from the      *)
(* branch heads and the active pin, when any input of the newest one moved.    *)

LockedInputs(l) == <<l.sources, l.pin, l.arm64>>

NextLock == Lock(LatestLock(Newest) + 1, heads, Newest.pin, TRUE, FALSE)

Due == LockedInputs(NextLock) # LockedInputs(Newest.locks[LatestLock(Newest)])

Refresh ==
    /\ LatestLock(Newest) < MaxPatch
    /\ proposal' = IF ~Due THEN NoLock
                   ELSE IF NextLock \in raised \ {proposal} THEN NoLock ELSE NextLock
    /\ raised' = IF Due THEN raised \cup {NextLock} ELSE raised
    /\ UNCHANGED <<main, heads, run, approved, complete, liveVars>>

\* The proposal is merged as it was made, if nothing else took its number.
MergeProposal ==
    /\ proposal # NoLock
    /\ \E base \in Range(main) : Push(base, [base EXCEPT !.locks[proposal.release] = proposal])
    /\ proposal' = NoLock
    /\ UNCHANGED <<heads, raised, run, approved, complete, liveVars>>

-----------------------------------------------------------------------------
(* stable_farm_plan.py: the components a lock stands for, at one commit of      *)
(* main.  Optional Packages do not name the release.                           *)

Targets(l) == IF l.arm64 THEN Architectures ELSE {"amd64"}

System(t, l, line, arch) ==
    [stage |-> "system", arch |-> arch, line |-> line, release |-> l.release,
     sources |-> l.sources, pin |-> t.pin, recipe |-> t.recipe]

OptionalPackages(t, l, line, arch) ==
    [stage |-> "packages", arch |-> arch, line |-> line,
     source |-> l.sources[PackagesRepository], pin |-> t.pin, recipe |-> t.recipe]

Tree(r) == main[r.commit]
LockOf(r) == Tree(r).locks[r.release]
SystemOf(r, arch) == System(Tree(r), LockOf(r), "stable", arch)
PackagesOf(r, arch) == OptionalPackages(Tree(r), LockOf(r), "stable", arch)

\* check_pin: a lock can only be built on the FreeBSD pin it was written for.
CheckPin(t, l) == l.pin = t.pin

-----------------------------------------------------------------------------
(* stable_gate.py.                                                            *)

CheckSources(l) == \A r \in Repositories : l.sources[r] \in 1..heads[r]

\* Mutant: the gate reads the legacy manifest, which goes live first.
SoakOfLegacy(l) ==
    live["legacy"].release \notin {NothingLive.release, l.release} /\ ~l.override =>
        clock - live["legacy"].at >= Soak

CheckSoak(l) ==
    live["qualified"].release \notin {NothingLive.release, l.release} /\ ~l.override =>
        clock - live["qualified"].at >= Soak

\* Mutant: Optional Packages come last, so they stand for the whole candidate.
CheckPackages(r) == \A arch \in r.targets : PackagesOf(r, arch) \in complete

CheckCandidate(r) ==
    \A arch \in r.targets : {SystemOf(r, arch), PackagesOf(r, arch)} \subseteq complete

Withdrawn(r) == r.release \in Tree(r).withdrawn

Gate(r) ==
    /\ ~Withdrawn(r)
    /\ CheckSources(LockOf(r))
    /\ r.stage = "seal" => CheckCandidate(r) /\ CheckSoak(LockOf(r))

\* The plan job of a dispatched run passes.  A run may leave arm64 out.
Plan(stage, v, c) ==
    /\ run = NoRun
    /\ HasLock(main[c], v)
    /\ CheckPin(main[c], main[c].locks[v])
    /\ \E targets \in {{"amd64"}, Targets(main[c].locks[v])} :
          LET r == [stage |-> stage, release |-> v, commit |-> c, targets |-> targets,
                    again |-> FALSE]
          IN Gate(r) /\ run' = r
    /\ UNCHANGED <<policyVars, approved, complete, liveVars>>

\* The farm completes the System of one architecture, then its Optional Packages.
BuildSystem(arch) ==
    /\ run.stage = "candidate" /\ arch \in run.targets
    /\ complete' = complete \cup {SystemOf(run, arch)}
    /\ UNCHANGED <<policyVars, run, approved, liveVars>>

BuildPackages(arch) ==
    /\ run.stage = "candidate" /\ arch \in run.targets
    /\ SystemOf(run, arch) \in complete
    /\ complete' = complete \cup {PackagesOf(run, arch)}
    /\ UNCHANGED <<policyVars, run, approved, liveVars>>

\* stage=testing: the branch heads as a Development build of the next patch, in
\* another concurrency group.
BuildTesting ==
    /\ Cardinality({c \in complete : c.line = "testing"}) < 2 * MaxTestings
    /\ LET l == Lock(LatestLock(Newest) + 1, heads, Newest.pin, FALSE, FALSE)
       IN complete' = complete \cup {System(Newest, l, "testing", "amd64"),
                                     OptionalPackages(Newest, l, "testing", "amd64")}
    /\ UNCHANGED <<policyVars, run, approved, liveVars>>

\* A maintainer approves the seal in the stable-publisher environment.
Approve ==
    /\ run.stage = "seal" /\ ~run.again
    /\ approved' = run
    /\ UNCHANGED <<policyVars, run, complete, liveVars>>

-----------------------------------------------------------------------------
(* The seal jobs.                                                            *)

ArchOf(m) == IF m = "arm64" THEN "arm64" ELSE "amd64"

Sealed(r, m) == [release |-> r.release, system |-> SystemOf(r, ArchOf(m)),
                 packages |-> PackagesOf(r, ArchOf(m))]

\* What goes live, with its time; and live[m] without it.
At(x, time) == [f \in DOMAIN x \cup {"at"} |-> IF f = "at" THEN time ELSE x[f]]

NamedBy(m) == IF live[m] = NothingLive THEN NothingLive
            ELSE [f \in DOMAIN live[m] \ {"at"} |-> live[m][f]]

\* fsbuild channel seal-stable: a higher release than the manifest's.  The legacy
\* manifest first, the qualified one only when that holds the same pair.
Sealing(m) ==
    /\ run # NoRun /\ run = approved
    /\ ArchOf(m) \in run.targets
    /\ PackagesOf(run, ArchOf(m)) \in complete
    /\ m = "qualified" => NamedBy("legacy") = Sealed(run, "legacy")
    /\ live[m].release < run.release

Put(m, x) ==
    /\ live' = [live EXCEPT ![m] = x]
    /\ sealed' = IF m = "qualified" THEN sealed \cup {x.release} ELSE sealed

Seal(m) ==
    /\ Sealing(m)
    /\ Put(m, At(Sealed(run, m), clock))
    /\ late' = IF late # NoSwap /\ late.doc = m THEN NoSwap ELSE late
    /\ UNCHANGED <<policyVars, run, approved, complete, tags, clock, unseen>>

\* History: a seal that need not keep the soak time.
Waived == LockOf(run).override \/ run.again \/ unseen

\* The run ends: its jobs are done, or have failed, or were cancelled.  A swap that
\* a seal sent is not recalled, and is on its way until the next run ends at most.
EndRun ==
    /\ run # NoRun
    /\ run' = NoRun
    /\ \/ late' = NoSwap
       \/ \E m \in Manifests :
             /\ Sealing(m)
             /\ late' = [doc |-> m, over |-> live[m], put |-> At(Sealed(run, m), clock), waived |-> Waived]
    /\ unseen' = FALSE
    /\ UNCHANGED <<policyVars, approved, complete, live, tags, clock, sealed>>

\* It is applied only over what the seal had read, and refused over anything else.
LateSwap ==
    /\ late # NoSwap /\ live[late.doc] = late.over
    /\ Put(late.doc, late.put)
    /\ late' = NoSwap
    /\ unseen' = (unseen \/ (run # NoRun /\ late.doc = "qualified"))
    /\ UNCHANGED <<policyVars, run, approved, complete, tags, clock>>

\* The failed jobs of an approved run are run again; plan and approval stand.
RunAgain ==
    /\ run = NoRun /\ approved # NoRun
    /\ approved' = [approved EXCEPT !.again = TRUE]
    /\ run' = approved'
    /\ UNCHANGED <<policyVars, complete, liveVars>>

-----------------------------------------------------------------------------
(* tag_release.py: the lock's commit in each source repository, and the        *)
(* os-base commit that added the lock.  The job runs after its seal, or by     *)
(* hand later on, and may stop between two repositories.                       *)

LockCommit(v) == Min({c \in DOMAIN main : HasLock(main[c], v)})

TagTarget(repository, v) ==
    IF repository = OsBase THEN LockCommit(v) ELSE Newest.locks[v].sources[repository]

Tag(repository, v) ==
    /\ v \in sealed
    /\ repository = OsBase => \A r \in Repositories : tags[r][v] # 0
    /\ tags[repository][v] = 0
    /\ tags' = [tags EXCEPT ![repository][v] = TagTarget(repository, v)]
    /\ UNCHANGED <<policyVars, run, approved, complete, live, clock, late, sealed, unseen>>

Tick ==
    /\ clock < MaxTime
    /\ clock' = clock + 1
    /\ UNCHANGED <<policyVars, run, approved, complete, live, tags, late, sealed, unseen>>

-----------------------------------------------------------------------------
FirstHeads == [r \in Repositories |-> 1]

FirstTree ==
    [locks |-> [v \in Releases |-> IF v = 0 THEN Lock(0, FirstHeads, 1, FALSE, FALSE) ELSE NoLock],
     withdrawn |-> {}, pin |-> 1, recipe |-> 1]

Init ==
    /\ main = <<FirstTree>> /\ heads = FirstHeads
    /\ proposal = NoLock /\ raised = {}
    /\ run = NoRun /\ approved = NoRun
    /\ complete = {}
    /\ live = [m \in Manifests |-> NothingLive]
    /\ tags = [r \in Repositories \cup {OsBase} |-> [v \in Releases |-> 0]]
    /\ clock = 0 /\ late = NoSwap /\ sealed = {} /\ unseen = FALSE

Next ==
    \/ Merge \/ CommitSource \/ Refresh \/ MergeProposal
    \/ \E stage \in {"candidate", "seal"}, v \in Releases, c \in DOMAIN main : Plan(stage, v, c)
    \/ \E arch \in Architectures : BuildSystem(arch) \/ BuildPackages(arch)
    \/ BuildTesting \/ Approve
    \/ \E m \in Manifests : Seal(m)
    \/ EndRun \/ LateSwap \/ RunAgain
    \/ \E r \in Repositories \cup {OsBase}, v \in Releases : Tag(r, v)
    \/ Tick

Spec == Init /\ [][Next]_vars

-----------------------------------------------------------------------------
(* The check keeps its promise on main although every pull request was checked on    *)
(* the commit it was opened from, and others were merged since: locks and            *)
(* withdrawals are append-only, patch numbers have no gap, and what is withdrawn has  *)
(* a lock (R1, R2).                                                           *)
Appended ==
    /\ \A v \in Locked(Newest) : HasLock(Newest', v) /\ Newest'.locks[v] = Newest.locks[v]
    /\ Newest.withdrawn \subseteq Newest'.withdrawn
    /\ \E n \in Releases : Locked(Newest') = 0..n
    /\ Newest'.withdrawn \subseteq Locked(Newest')
MainIsAppendOnly == [][Appended]_main

(* What is live and what is tagged under a release number is what the lock of  *)
(* that number says today, however long ago it was built and whatever was       *)
(* merged since (R1, R5).                                                     *)
TagsNameWhatIsLive ==
    \A m \in Manifests : live[m] # NothingLive =>
        LET v == live[m].release IN
        /\ Newest.locks[v].sources = live[m].system.sources
        /\ Newest.locks[v].pin = live[m].system.pin
        /\ \A r \in Repositories : tags[r][v] \in {0, live[m].system.sources[r]}
        /\ tags[OsBase][v] # 0 =>
              \A c \in DOMAIN main : HasLock(main[c], v) <=> c >= tags[OsBase][v]

(* No architecture goes live with a System that no candidate run of that         *)
(* release completed, nor with Optional Packages that are not there (R3).        *)
SealsAreCandidates ==
    \A m \in Manifests : live[m] # NothingLive =>
        /\ live[m].system \in complete /\ live[m].system.release = live[m].release
        /\ live[m].packages \in complete

(* Two releases that amd64 devices see in their own manifest are stable_soak_hours *)
(* apart, although the gate is passed long before the approval and the seal: unless *)
(* the later one has its override, or is a run whose jobs were run again, or the      *)
(* earlier one was put there by a dead seal's swap after that gate (R4).             *)
Soaked ==
    live'["qualified"].release # live["qualified"].release /\ live["qualified"] # NothingLive =>
        \/ clock - live["qualified"].at >= Soak
        \/ IF LateSwap THEN late.waived ELSE Waived
SoakBetweenSeals == [][Soaked]_vars
=============================================================================
