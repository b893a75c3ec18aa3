-------------------------- MODULE StableTrainProofs --------------------------
(***************************************************************************)
(* What StableTrain states, for any number of repositories, patch releases,    *)
(* commits and runs, and any soak time.                                      *)
(*                                                                         *)
(* The argument is that everything a run of stable.yml read stays true while it *)
(* waits, however long: main is only appended to, and no merge changes a lock     *)
(* that is there, whichever commit its pull request was checked on, so the lock   *)
(* of a run's own commit is the lock of the newest one; components are not taken  *)
(* away; and besides a swap that a dead seal left on its way, only the run that   *)
(* passed the gate can seal before it ends.                                    *)
(***************************************************************************)
EXTENDS StableTrain, TLAPS

-----------------------------------------------------------------------------
(* Types *)

Locks == [release : Nat, sources : [Repositories -> Nat], pin : Nat,
          arm64 : BOOLEAN, override : BOOLEAN]

Trees == [locks : [Releases -> Locks \cup {NoLock}], withdrawn : SUBSET Releases,
          pin : Nat, recipe : Nat]

Runs == [stage : {"candidate", "seal"}, release : Releases, commit : Nat,
         targets : SUBSET Architectures, again : BOOLEAN]

Systems == [stage : {"system"}, arch : Architectures, line : {"stable", "testing"},
            release : Nat, sources : [Repositories -> Nat], pin : Nat, recipe : Nat]

PackageSets == [stage : {"packages"}, arch : Architectures, line : {"stable", "testing"},
                source : Nat, pin : Nat, recipe : Nat]

LiveReleases == [release : Releases, system : Systems, packages : PackageSets, at : Nat]

Swaps == [doc : Manifests, over : LiveReleases \cup {NothingLive}, put : LiveReleases, waived : BOOLEAN]

TypeOK ==
    /\ main \in Seq(Trees)
    /\ heads \in [Repositories -> Nat]
    /\ proposal \in Locks \cup {NoLock}
    /\ run \in Runs \cup {NoRun} /\ approved \in Runs \cup {NoRun}
    /\ live \in [Manifests -> LiveReleases \cup {NothingLive}]
    /\ tags \in [Repositories \cup {OsBase} -> [Releases -> Nat]]
    /\ clock \in Nat
    /\ late \in Swaps \cup {NoSwap}
    /\ sealed \subseteq Releases
    /\ unseen \in BOOLEAN

-----------------------------------------------------------------------------
(* The invariant *)

\* No commit of main takes a lock away or changes it, and every lock has the commit
\* that added it.
MainInv ==
    /\ main # <<>>
    /\ \A c \in DOMAIN main : CheckSet(main[c])
    /\ \A c, d \in DOMAIN main : c <= d => CheckChange(main[c], main[d])
    /\ \A v \in Locked(Newest) :
          \E c \in DOMAIN main : \A d \in DOMAIN main : HasLock(main[d], v) <=> c <= d

\* A run is of a lock on its commit, for the FreeBSD pin of that commit; a seal has
\* its components.
RunOK(r) ==
    r # NoRun =>
        /\ r.commit \in DOMAIN main
        /\ HasLock(Tree(r), r.release) /\ CheckPin(Tree(r), LockOf(r))
        /\ r.stage = "seal" => CheckCandidate(r)

RunInv == RunOK(run) /\ RunOK(approved) /\ (approved # NoRun => approved.stage = "seal")

\* What is live, or can still be, is what the newest commit's lock says, and its
\* components are there.
LiveOK(x) ==
    /\ x.release \in Locked(Newest)
    /\ Newest.locks[x.release].sources = x.system.sources
    /\ Newest.locks[x.release].pin = x.system.pin
    /\ x.system \in complete /\ x.system.release = x.release /\ x.packages \in complete

LiveInv ==
    /\ \A m \in Manifests : live[m] # NothingLive => LiveOK(live[m])
    /\ late # NoSwap => LiveOK(late.put)
    /\ sealed \subseteq Locked(Newest)

\* A tag is of a lock that is there.
TagOK(v) ==
    /\ v \in Locked(Newest)
    /\ \A r \in Repositories : tags[r][v] \in {0, Newest.locks[v].sources[r]}
    /\ tags[OsBase][v] # 0 =>
          /\ tags[OsBase][v] \in DOMAIN main
          /\ \A c \in DOMAIN main : HasLock(main[c], v) <=> tags[OsBase][v] <= c

TagInv ==
    \A v \in Releases : (\E r \in Repositories \cup {OsBase} : tags[r][v] # 0) => TagOK(v)

\* The gate that a seal passed still passes until the run ends, if nothing that it
\* did not see was put there; what a dead seal left keeps the soak time too.
SoakInv ==
    /\ run # NoRun /\ run.stage = "seal" /\ ~run.again /\ ~unseen => CheckSoak(LockOf(run))
    /\ late # NoSwap /\ late.doc = "qualified" /\ late.over # NothingLive =>
          late.waived \/ clock - late.over.at >= Soak

IInv == TypeOK /\ MainInv /\ RunInv /\ LiveInv /\ TagInv /\ SoakInv

-----------------------------------------------------------------------------
(* The operators.                                                            *)

LEMMA LockIsThere ==
    ASSUME NEW t \in Trees, NEW v \in Releases, HasLock(t, v)
    PROVE  t.locks[v] \in Locks
BY DEF HasLock, Trees

LEMMA LockIsNotNone == ASSUME NEW l \in Locks PROVE l # NoLock
<1>1. l.release # NoLock.release
    BY DEF Locks, NoLock
<1> QED  BY <1>1

LEMMA NewestIs ==
    ASSUME main \in Seq(Trees), MainInv
    PROVE  /\ Len(main) \in DOMAIN main /\ Newest \in Trees
           /\ \A c \in DOMAIN main : c <= Len(main) /\ c \in Nat
<1>1. Len(main) \in Nat /\ Len(main) # 0 /\ DOMAIN main = 1..Len(main)
    BY DEF MainInv
<1> QED  BY <1>1 DEF Newest

(* The locks are those of 0 to the newest release (check_release_locks.py).     *)
LEMMA LatestIs ==
    ASSUME NEW t, CheckSet(t)
    PROVE  LatestLock(t) \in Locked(t) /\ LatestLock(t) \in Releases
<1>1. PICK n \in Releases : Locked(t) = 0..n
    BY DEF CheckSet
<1>2. n \in 0..n /\ \A y \in 0..n : n >= y
    BY <1>1, TrainAssumption DEF Releases
<1>3. \E x \in Locked(t) : \A y \in Locked(t) : x >= y
    BY <1>1, <1>2
<1>4. LatestLock(t) \in Locked(t)
    BY <1>3 DEF LatestLock, Max
<1> QED  BY <1>4 DEF Locked

(* The first commit with a lock is the one that added it.                      *)
LEMMA LockCommitIs ==
    ASSUME main \in Seq(Trees), MainInv, NEW v \in Locked(Newest)
    PROVE  /\ LockCommit(v) \in DOMAIN main
           /\ \A d \in DOMAIN main : HasLock(main[d], v) <=> LockCommit(v) <= d
<1> DEFINE S == {d \in DOMAIN main : HasLock(main[d], v)}
<1>1. PICK c \in DOMAIN main : \A d \in DOMAIN main : HasLock(main[d], v) <=> c <= d
    BY DEF MainInv
<1>2. DOMAIN main \subseteq Nat
    BY NewestIs
<1>3. c \in S /\ \A d \in S : c <= d
    BY <1>1, <1>2
<1>4. LockCommit(v) \in S /\ \A d \in S : LockCommit(v) <= d
    BY <1>3 DEF LockCommit, Min
<1>5. LockCommit(v) = c
    BY <1>2, <1>3, <1>4
<1> QED  BY <1>1, <1>5

(* A lock that a commit of main has, the newest commit has.                     *)
LEMMA NewestHas ==
    ASSUME main \in Seq(Trees), MainInv, NEW c \in DOMAIN main, NEW v \in Releases,
           HasLock(main[c], v)
    PROVE  v \in Locked(Newest) /\ Newest.locks[v] = main[c].locks[v]
<1>1. CheckChange(main[c], Newest)
    BY NewestIs DEF MainInv, Newest
<1>2. Newest.locks[v] = main[c].locks[v]
    BY <1>1 DEF CheckChange, Locked
<1> QED  BY <1>2 DEF Locked, HasLock

-----------------------------------------------------------------------------
(* What can change between two reads.                                         *)

\* main is appended to, components are added, time goes on.
Extends ==
    /\ \A c \in DOMAIN main : c \in DOMAIN main' /\ main'[c] = main[c]
    /\ \A v \in Locked(Newest) : v \in Locked(Newest)' /\ (Newest.locks[v])' = Newest.locks[v]
    /\ complete \subseteq complete'

(* What git merges of a pull request that CI let through (check_release_locks.py):  *)
(* a lock that the newest commit has was either there when it was opened, and so was  *)
(* not touched, or is new, and so not in it.                                    *)
LEMMA MergedIs ==
    ASSUME main \in Seq(Trees), MainInv, NEW base \in Range(main), NEW t \in Trees,
           CheckSet(t), CheckChange(base, t), ~ Conflict(base, t)
    PROVE  Merged(base, t) \in Trees /\ CheckSet(Merged(base, t)) /\ CheckChange(Newest, Merged(base, t))
<1> DEFINE u == Merged(base, t)
<1>1. PICK c \in DOMAIN main : base = main[c]
    BY DEF Range
<1>2. base \in Trees /\ Newest \in Trees /\ CheckSet(base) /\ CheckSet(Newest) /\ CheckChange(base, Newest)
    BY <1>1, NewestIs DEF MainInv, Newest
<1>3. /\ u.locks = [v \in Releases |-> IF t.locks[v] = base.locks[v] THEN Newest.locks[v] ELSE t.locks[v]]
      /\ u.withdrawn = (Newest.withdrawn \ (base.withdrawn \ t.withdrawn)) \cup (t.withdrawn \ base.withdrawn)
      /\ u \in Trees
    BY <1>2 DEF Merged, Trees
<1> HIDE DEF u
<1>4. u.withdrawn = Newest.withdrawn \cup t.withdrawn
    BY <1>2, <1>3 DEF CheckChange
<1>5. \A v \in Locked(Newest) : u.locks[v] = Newest.locks[v]
    <2> SUFFICES ASSUME NEW v \in Locked(Newest) PROVE u.locks[v] = Newest.locks[v]
        OBVIOUS
    <2>1. v \in Releases
        BY DEF Locked
    <2>2. CASE v \in Locked(base)
        BY <1>3, <2>1, <2>2 DEF CheckChange
    <2>3. CASE v \notin Locked(base)
        <3>1. Newest.locks[v] # base.locks[v]
            BY <2>1, <2>3 DEF Locked, HasLock
        <3>2. t.locks[v] = base.locks[v]
            BY <2>1, <3>1 DEF Conflict
        <3> QED  BY <1>3, <2>1, <3>2
    <2> QED  BY <2>2, <2>3
<1>6. \A v \in Locked(t) : v \in Locked(Newest) \/ u.locks[v] = t.locks[v]
    <2> SUFFICES ASSUME NEW v \in Locked(t), t.locks[v] = base.locks[v] PROVE v \in Locked(Newest)
        BY <1>3 DEF Locked
    <2>1. v \in Locked(base)
        BY DEF Locked, HasLock
    <2> QED  BY <1>2, <2>1 DEF CheckChange, Locked, HasLock
<1>7. \A v \in Releases : u.locks[v] \in {Newest.locks[v], t.locks[v]}
    BY <1>3
<1>8. Locked(u) = Locked(Newest) \cup Locked(t)
    BY <1>5, <1>6, <1>7 DEF Locked, HasLock
<1>9. \E n \in Releases : Locked(u) = 0..n
    <2>1. PICK m \in Releases, n \in Releases : Locked(Newest) = 0..m /\ Locked(t) = 0..n
        BY <1>2 DEF CheckSet
    <2>2. m \in Nat /\ n \in Nat
        BY <2>1, TrainAssumption DEF Releases
    <2>3. CASE m <= n
        BY <1>8, <2>1, <2>2, <2>3
    <2>4. CASE n <= m
        BY <1>8, <2>1, <2>2, <2>4
    <2> QED  BY <2>2, <2>3, <2>4
<1>10. \A v \in Releases : Validated(u, v)
    BY <1>2, <1>7 DEF CheckSet, Validated, HasLock
<1>11. u.withdrawn \subseteq Locked(u)
    BY <1>2, <1>4, <1>8 DEF CheckSet
<1>12. CheckSet(u) /\ CheckChange(Newest, u)
    BY <1>4, <1>5, <1>9, <1>10, <1>11 DEF CheckSet, CheckChange
<1> QED  BY <1>3, <1>12 DEF u

(* It is pushed.                                                              *)
LEMMA PushStep ==
    ASSUME main \in Seq(Trees), MainInv, complete' = complete,
           NEW t \in Trees, CheckSet(t), CheckChange(Newest, t), main' = Append(main, t)
    PROVE  main' \in Seq(Trees) /\ MainInv' /\ Extends
<1>1. /\ main' = Append(main, t) /\ main' \in Seq(Trees)
      /\ Len(main) \in Nat /\ Len(main') = Len(main) + 1
      /\ DOMAIN main = 1..Len(main) /\ DOMAIN main' = 1..(Len(main) + 1)
      /\ main'[Len(main) + 1] = t /\ \A c \in 1..Len(main) : main'[c] = main[c]
    OBVIOUS
<1>2. Newest' = t
    BY <1>1 DEF Newest
<1>3. \A v \in Locked(Newest) : v \in Locked(t) /\ t.locks[v] = Newest.locks[v]
    BY DEF CheckChange, Locked, HasLock
<1>4. Extends
    <2>1. \A c \in DOMAIN main : c \in DOMAIN main' /\ main'[c] = main[c]
        BY <1>1
    <2>2. \A v : (v \in Locked(Newest)') = (v \in Locked(t))
        BY <1>2 DEF Locked
    <2>3. \A v \in Locked(Newest) : v \in Locked(Newest)' /\ (Newest.locks[v])' = Newest.locks[v]
        BY <1>2, <1>3, <2>2
    <2> QED  BY <2>1, <2>3 DEF Extends
<1>5. main' # <<>> /\ \A c \in DOMAIN main' : CheckSet(main'[c])
    BY <1>1 DEF MainInv
<1>6. ASSUME NEW c \in DOMAIN main', NEW d \in DOMAIN main', c <= d
      PROVE  CheckChange(main'[c], main'[d])
    <2>1. CASE d \in DOMAIN main
        <3>1. c \in DOMAIN main
            BY <1>1, <1>6, <2>1
        <3>2. CheckChange(main[c], main[d])
            BY <1>6, <2>1, <3>1 DEF MainInv
        <3> QED  BY <1>1, <2>1, <3>1, <3>2
    <2>2. CASE c \in DOMAIN main /\ d = Len(main) + 1
        <3>1. CheckChange(main[c], Newest)
            BY <2>2, NewestIs DEF MainInv, Newest
        <3>2. \A v \in Locked(main[c]) : v \in Locked(Newest)
            BY <3>1 DEF CheckChange, Locked, HasLock
        <3>3. CheckChange(main[c], t)
            BY <3>1, <3>2 DEF CheckChange
        <3> QED  BY <1>1, <2>2, <3>3
    <2>3. CASE c = Len(main) + 1 /\ d = Len(main) + 1
        BY <1>1, <2>3 DEF CheckChange
    <2> QED  BY <1>1, <1>6, <2>1, <2>2, <2>3
<1>7. ASSUME NEW v \in Locked(t)
      PROVE  \E c \in DOMAIN main' : \A d \in DOMAIN main' : HasLock(main'[d], v) <=> c <= d
    <2>1. CASE v \in Locked(Newest)
        <3>1. PICK c \in DOMAIN main : \A d \in DOMAIN main : HasLock(main[d], v) <=> c <= d
            BY <2>1 DEF MainInv
        <3>2. HasLock(main'[Len(main) + 1], v)
            BY <1>1, <1>7 DEF Locked
        <3> QED  BY <1>1, <3>1, <3>2
    <2>2. CASE v \notin Locked(Newest)
        <3>1. \A d \in DOMAIN main : ~HasLock(main[d], v)
            BY <1>7, <2>2, NewestHas DEF Locked
        <3>2. HasLock(main'[Len(main) + 1], v)
            BY <1>1, <1>7 DEF Locked
        <3>3. \A d \in DOMAIN main' : HasLock(main'[d], v) <=> Len(main) + 1 <= d
            BY <1>1, <3>1, <3>2
        <3>4. Len(main) + 1 \in DOMAIN main'
            BY <1>1
        <3> QED  BY <3>3, <3>4
    <2> QED  BY <2>1, <2>2
<1>8. \A v \in Locked(Newest)' :
          \E c \in DOMAIN main' : \A d \in DOMAIN main' : HasLock(main'[d], v) <=> c <= d
    <2>1. \A v \in Locked(Newest)' : v \in Locked(t)
        BY <1>2 DEF Locked
    <2> QED  BY <1>7, <2>1
<1>9. MainInv'
    <2>1. \A c, d \in DOMAIN main' : c <= d => CheckChange(main'[c], main'[d])
        BY <1>6
    <2> QED  BY <1>5, <1>8, <2>1 DEF MainInv, HasLock
<1> QED  BY <1>1, <1>4, <1>9

(* A lock that is made is a lock, whatever it was copied from.                  *)
LEMMA LockTyped ==
    ASSUME NEW n \in Nat, NEW s \in [Repositories -> Nat], NEW pin \in Nat,
           NEW arm64 \in BOOLEAN, NEW override \in BOOLEAN
    PROVE  Lock(n, s, pin, arm64, override) \in Locks
BY Zenon DEF Lock, Locks

LEMMA NewestLock ==
    ASSUME TypeOK, MainInv
    PROVE  /\ Newest \in Trees /\ LatestLock(Newest) \in Releases
           /\ Newest.locks[LatestLock(Newest)] \in Locks
           /\ LatestLock(Newest) + 1 \in Nat /\ Newest.pin \in Nat
<1>1. Newest \in Trees /\ CheckSet(Newest)
    BY NewestIs DEF TypeOK, MainInv, Newest
<1>2. LatestLock(Newest) \in Locked(Newest) /\ LatestLock(Newest) \in Releases
    BY <1>1, LatestIs
<1>3. Newest.locks[LatestLock(Newest)] \in Locks
    BY <1>1, <1>2, LockIsThere DEF Locked
<1>4. LatestLock(Newest) + 1 \in Nat
    BY <1>2, TrainAssumption DEF Releases
<1> QED  BY <1>1, <1>2, <1>3, <1>4 DEF Trees

LEMMA NextLockTyped ==
    ASSUME TypeOK, MainInv
    PROVE  NextLock \in Locks
<1>1. heads \in [Repositories -> Nat]
    BY DEF TypeOK
<1> QED  BY <1>1, NewestLock, LockTyped DEF NextLock

LEMMA ChangesTyped ==
    ASSUME TypeOK, MainInv, NEW base \in Range(main), NEW t \in Changes(base)
    PROVE  t \in Trees
<1> DEFINE v == LatestLock(base)
<1>1. heads \in [Repositories -> Nat] /\ base \in Trees /\ CheckSet(base)
    BY DEF TypeOK, MainInv, Range
<1>2. v \in Nat /\ v + 1 \in Nat /\ base.locks[v] \in Locks
    <2>1. v \in Locked(base) /\ v \in Releases
        BY <1>1, LatestIs
    <2>2. base.locks[v] \in Locks
        BY <1>1, <2>1, LockIsThere DEF Locked
    <2>3. v \in Nat
        BY <2>1, TrainAssumption DEF Releases
    <2> QED  BY <2>2, <2>3
<1>3. ASSUME NEW l \in HandWritten(base) PROVE l \in Locks
    <2>1. PICK n \in {v + 1, v}, s \in Picks, override \in BOOLEAN :
              l = Lock(n, s, base.pin, base.locks[v].arm64, override)
        BY <1>3 DEF HandWritten
    <2>2. s \in [Repositories -> Nat]
        <3>1. \A r \in Repositories : [heads EXCEPT ![r] = 0] \in [Repositories -> Nat]
            BY <1>1
        <3> QED  BY <1>1, <2>1, <3>1 DEF Picks
    <2>3. base.locks[v].arm64 \in BOOLEAN
        BY <1>2, Zenon DEF Locks
    <2>4. base.pin \in Nat
        BY <1>1 DEF Trees
    <2>5. n \in Nat
        BY <1>2, <2>1
    <2> HIDE DEF v
    <2> QED  BY <2>1, <2>2, <2>3, <2>4, <2>5, LockTyped
<1> HIDE DEF v
<1>4. ASSUME NEW w \in Releases, NEW l \in {NoLock} \cup HandWritten(base)
      PROVE  [base EXCEPT !.locks[w] = l] \in Trees
    BY <1>1, <1>3 DEF Trees
<1>5. ASSUME NEW x \in SUBSET Releases
      PROVE  [base EXCEPT !.withdrawn = x] \in Trees
    BY <1>1 DEF Trees
<1>6. [base EXCEPT !.pin = @ + 1] \in Trees /\ [base EXCEPT !.recipe = @ + 1] \in Trees
    BY <1>1 DEF Trees
<1>7. \/ \E w \in Releases, l \in {NoLock} \cup HandWritten(base) : t = [base EXCEPT !.locks[w] = l]
      \/ \E x \in SUBSET Releases : t = [base EXCEPT !.withdrawn = x]
      \/ t = [base EXCEPT !.pin = @ + 1]
      \/ t = [base EXCEPT !.recipe = @ + 1]
    BY DEF Changes
<1> QED  BY <1>4, <1>5, <1>6, <1>7

(* However main is extended, what is there stays (Merge, MergeProposal).         *)
LEMMA MainStep ==
    ASSUME IInv, [Next]_vars
    PROVE  main' \in Seq(Trees) /\ MainInv' /\ Extends
<1>1. main \in Seq(Trees) /\ MainInv /\ TypeOK
    BY DEF IInv, TypeOK
<1>2. ASSUME NEW base \in Range(main), NEW t \in Trees, Push(base, t), complete' = complete
      PROVE  main' \in Seq(Trees) /\ MainInv' /\ Extends
    <2> DEFINE u == Merged(base, t)
    <2>1. CheckSet(t) /\ CheckChange(base, t) /\ ~ Conflict(base, t) /\ main' = Append(main, u)
        BY <1>2 DEF Push
    <2>2. u \in Trees /\ CheckSet(u) /\ CheckChange(Newest, u)
        BY <1>1, <2>1, MergedIs
    <2> HIDE DEF u
    <2> QED  BY <1>1, <1>2, <2>1, <2>2, PushStep
<1>3. CASE Merge \/ MergeProposal
    <2>1. CASE Merge
        BY <1>1, <1>2, <2>1, ChangesTyped DEF Merge
    <2>2. CASE MergeProposal
        <3>1. PICK base \in Range(main) : Push(base, [base EXCEPT !.locks[proposal.release] = proposal])
            BY <2>2 DEF MergeProposal
        <3>2. base \in Trees /\ proposal \in Locks /\ complete' = complete
            BY <1>1, <2>2 DEF MergeProposal, TypeOK, Range
        <3>3. [base EXCEPT !.locks[proposal.release] = proposal] \in Trees
            BY <3>2 DEF Trees
        <3> QED  BY <1>2, <3>1, <3>2, <3>3
    <2> QED  BY <1>3, <2>1, <2>2
<1>4. ASSUME main' = main, complete \subseteq complete'
      PROVE  main' \in Seq(Trees) /\ MainInv' /\ Extends
    BY <1>1, <1>4 DEF MainInv, Extends, Newest, Locked, HasLock
<1>5. Merge \/ MergeProposal \/ (main' = main /\ complete \subseteq complete')
    BY DEF Next, vars, policyVars, liveVars, CommitSource, Refresh, Plan, BuildSystem,
           BuildPackages, BuildTesting, Approve, Seal, EndRun, LateSwap, RunAgain, Tag, Tick
<1> QED  BY <1>3, <1>4, <1>5

-----------------------------------------------------------------------------
(* Runs.                                                                    *)

LEMMA RunTells ==
    ASSUME main \in Seq(Trees), MainInv, NEW r \in Runs, r # NoRun, RunOK(r)
    PROVE  /\ r.commit \in DOMAIN main /\ Tree(r) \in Trees /\ LockOf(r) \in Locks
           /\ LockOf(r).release = r.release /\ LockOf(r).pin = Tree(r).pin
           /\ r.release \in Locked(Newest) /\ Newest.locks[r.release] = LockOf(r)
<1>1. /\ r.commit \in DOMAIN main /\ HasLock(main[r.commit], r.release)
      /\ r.release \in Releases /\ LockOf(r) = main[r.commit].locks[r.release]
      /\ Tree(r) = main[r.commit] /\ CheckPin(Tree(r), LockOf(r))
    BY DEF RunOK, Tree, LockOf, Runs
<1>2. main[r.commit] \in Trees
    BY <1>1
<1>3. main[r.commit].locks[r.release].release = r.release
    BY <1>1 DEF MainInv, CheckSet, Validated
<1> QED  BY <1>1, <1>2, <1>3, LockIsThere, NewestHas DEF CheckPin

LEMMA RunIsOne == ASSUME NEW r \in Runs PROVE r # NoRun /\ r.stage # NoRun.stage
BY DEF Runs, NoRun

(* A run that was sound stays sound: nothing it read changes.                   *)
LEMMA RunStays ==
    ASSUME NEW r, RunOK(r), Extends
    PROVE  /\ r # NoRun => /\ r.commit \in DOMAIN main' /\ main'[r.commit] = main[r.commit]
           /\ RunOK(r)'
<1> SUFFICES ASSUME r # NoRun
             PROVE  r.commit \in DOMAIN main' /\ main'[r.commit] = main[r.commit] /\ RunOK(r)'
    BY DEF RunOK
<1>1. r.commit \in DOMAIN main' /\ main'[r.commit] = main[r.commit]
    BY DEF RunOK, Extends
<1>2. Tree(r)' = Tree(r) /\ LockOf(r)' = LockOf(r)
    BY <1>1 DEF Tree, LockOf
<1>3. \A arch : SystemOf(r, arch)' = SystemOf(r, arch) /\ PackagesOf(r, arch)' = PackagesOf(r, arch)
    BY <1>2 DEF SystemOf, PackagesOf
<1>4. CheckCandidate(r) => CheckCandidate(r)'
    BY <1>3 DEF CheckCandidate, Extends
<1> QED  BY <1>1, <1>2, <1>4 DEF RunOK

(* The run that the plan job lets pass (Plan).                                 *)
LEMMA PlanStep ==
    ASSUME TypeOK, MainInv, NEW stage \in {"candidate", "seal"}, NEW v \in Releases,
           NEW c \in DOMAIN main, Plan(stage, v, c)
    PROVE  /\ run' \in Runs /\ run'.again = FALSE /\ run' # NoRun /\ run'.stage = stage
           /\ RunOK(run)' /\ (stage = "seal" => CheckSoak(LockOf(run'))) 
<1>1. PICK targets \in {{"amd64"}, Targets(main[c].locks[v])} :
          LET r == [stage |-> stage, release |-> v, commit |-> c, targets |-> targets,
                    again |-> FALSE]
          IN Gate(r) /\ run' = r
    BY DEF Plan
<1> DEFINE r == [stage |-> stage, release |-> v, commit |-> c, targets |-> targets, again |-> FALSE]
<1>2. Gate(r) /\ run' = r
    BY <1>1
<1>3. targets \in SUBSET Architectures /\ c \in Nat
    BY NewestIs DEF Targets, Architectures, TypeOK
<1>4. r \in Runs /\ r.again = FALSE
    BY <1>3, Zenon DEF Runs
<1>5. r.stage = stage /\ r.release = v /\ r.commit = c
    OBVIOUS
<1> HIDE DEF r
<1>6. r # NoRun
    BY <1>4, RunIsOne
<1>7. Tree(r) = main[c] /\ LockOf(r) = main[c].locks[v]
    BY <1>5 DEF Tree, LockOf
<1>8. RunOK(r)
    BY <1>2, <1>5, <1>7 DEF RunOK, Gate, Plan
<1>9. Extends
    BY DEF Plan, policyVars, Extends, Newest, Locked, HasLock
<1>10. RunOK(r)'
    BY <1>8, <1>9, RunStays
<1>11. RunOK(run)'
    BY <1>2, <1>10 DEF RunOK, Tree, LockOf, CheckCandidate, SystemOf, PackagesOf, HasLock
<1>12. stage = "seal" => CheckSoak(LockOf(r))
    BY <1>2, <1>5 DEF Gate
<1> QED  BY <1>2, <1>4, <1>5, <1>6, <1>11, <1>12

(* A run whose jobs are run again is the one that was approved (RunAgain).       *)
LEMMA AgainStep ==
    ASSUME TypeOK, RunInv, RunAgain
    PROVE  /\ run' \in Runs /\ approved' = run' /\ run'.again = TRUE
           /\ run'.stage = "seal" /\ RunOK(run)'
<1>1. approved \in Runs /\ approved # NoRun /\ RunOK(approved) /\ approved.stage = "seal"
    BY DEF TypeOK, RunInv, RunAgain
<1>2. approved' = [approved EXCEPT !.again = TRUE] /\ run' = approved'
    BY DEF RunAgain
<1>3. approved' \in Runs /\ approved'.again = TRUE
    BY <1>1, <1>2, Zenon DEF Runs
<1>4. /\ approved'.stage = approved.stage /\ approved'.release = approved.release
      /\ approved'.commit = approved.commit /\ approved'.targets = approved.targets
    BY <1>1, <1>2 DEF Runs
<1>5. main' = main /\ complete' = complete
    BY DEF RunAgain, policyVars
<1>6. /\ main'[run'.commit] = Tree(approved)
      /\ main'[run'.commit].locks[run'.release] = LockOf(approved)
    BY <1>2, <1>4, <1>5 DEF Tree, LockOf
<1>7. RunOK(run)'
    BY <1>1, <1>2, <1>4, <1>5, <1>6
       DEF RunOK, Tree, LockOf, CheckCandidate, SystemOf, PackagesOf, HasLock, CheckPin
<1> QED  BY <1>1, <1>2, <1>3, <1>4, <1>7

LEMMA RunStep ==
    ASSUME IInv, [Next]_vars
    PROVE  RunInv'
<1>1. Extends /\ TypeOK /\ MainInv /\ RunInv
    BY MainStep DEF IInv
<1>2. RunOK(run) /\ RunOK(approved) /\ (approved # NoRun => approved.stage = "seal")
    BY <1>1 DEF RunInv
<1>3. ASSUME NEW r, RunOK(r) PROVE RunOK(r)'
    BY <1>1, <1>3, RunStays
<1>4. run' = run => RunOK(run)'
    BY <1>2, <1>3 DEF RunOK, Tree, LockOf, CheckCandidate, SystemOf, PackagesOf, HasLock
<1>5. approved' = approved => RunOK(approved)'
    BY <1>2, <1>3 DEF RunOK, Tree, LockOf, CheckCandidate, SystemOf, PackagesOf, HasLock
<1>6. CASE run' = run /\ approved' = approved
    BY <1>2, <1>4, <1>5, <1>6 DEF RunInv
<1>7. ASSUME NEW stage \in {"candidate", "seal"}, NEW v \in Releases, NEW c \in DOMAIN main,
             Plan(stage, v, c)
      PROVE  RunInv'
    BY <1>1, <1>2, <1>5, <1>7, PlanStep DEF RunInv, Plan
<1>8. CASE Approve
    <2>1. approved' = run /\ run' = run /\ run.stage = "seal"
        BY <1>8 DEF Approve
    <2>2. RunOK(approved)'
        BY <1>4, <2>1 DEF RunOK, Tree, LockOf, CheckCandidate, SystemOf, PackagesOf, HasLock
    <2> QED  BY <1>4, <2>1, <2>2 DEF RunInv
<1>9. CASE EndRun
    <2>1. RunOK(run)'
        BY <1>9 DEF EndRun, RunOK
    <2> QED  BY <1>2, <1>5, <1>9, <2>1 DEF RunInv, EndRun
<1>10. CASE RunAgain
    <2>1. run' \in Runs /\ approved' = run' /\ run'.stage = "seal" /\ RunOK(run)'
        BY <1>1, <1>10, AgainStep
    <2>2. RunOK(approved)'
        BY <2>1 DEF RunOK, Tree, LockOf, CheckCandidate, SystemOf, PackagesOf, HasLock
    <2> QED  BY <2>1, <2>2 DEF RunInv
<1>11. \/ run' = run /\ approved' = approved
       \/ \E stage \in {"candidate", "seal"}, v \in Releases, c \in DOMAIN main : Plan(stage, v, c)
       \/ Approve \/ EndRun \/ RunAgain
    BY DEF Next, vars, liveVars, policyVars, Merge, CommitSource, Refresh, MergeProposal,
           BuildSystem, BuildPackages, BuildTesting, Seal, LateSwap, Tag, Tick
<1> QED  BY <1>6, <1>7, <1>8, <1>9, <1>10, <1>11

-----------------------------------------------------------------------------
(* What is live.                                                             *)

LEMMA SystemTyped ==
    ASSUME NEW t \in Trees, NEW l \in Locks, NEW arch \in Architectures
    PROVE  System(t, l, "stable", arch) \in Systems /\ OptionalPackages(t, l, "stable", arch) \in PackageSets
<1>1. /\ l.release \in Nat /\ l.sources \in [Repositories -> Nat]
      /\ t.pin \in Nat /\ t.recipe \in Nat /\ l.sources[PackagesRepository] \in Nat
    BY TrainAssumption DEF Locks, Trees
<1> QED  BY <1>1 DEF System, OptionalPackages, Systems, PackageSets

(* What a seal makes live is the record of module Channels' Stable document,     *)
(* with the time.                                                           *)
LEMMA SealedAt ==
    ASSUME NEW r, NEW m, NEW t
    PROVE  At(Sealed(r, m), t) =
               [release |-> r.release, system |-> SystemOf(r, ArchOf(m)),
                packages |-> PackagesOf(r, ArchOf(m)), at |-> t]
BY DEF Sealed, At

(* What the approved run puts on a manifest: all its facts (Sealing).            *)
LEMMA SealingTells ==
    ASSUME IInv, NEW m \in Manifests, Sealing(m)
    PROVE  LET x == At(Sealed(run, m), clock) IN
           /\ run \in Runs /\ run.stage = "seal" /\ run.release \in Locked(Newest)
           /\ Newest.locks[run.release] = LockOf(run)
           /\ x \in LiveReleases /\ x.release = run.release /\ x.at = clock /\ LiveOK(x)
<1>1. /\ run # NoRun /\ run = approved /\ run \in Runs /\ RunOK(run) /\ run.stage = "seal"
      /\ ArchOf(m) \in run.targets /\ main \in Seq(Trees) /\ MainInv /\ clock \in Nat
    BY DEF IInv, TypeOK, RunInv, Sealing
<1>2. /\ Tree(run) \in Trees /\ LockOf(run) \in Locks /\ LockOf(run).release = run.release
      /\ LockOf(run).pin = Tree(run).pin
      /\ run.release \in Locked(Newest) /\ Newest.locks[run.release] = LockOf(run)
    BY <1>1, RunTells
<1>3. ArchOf(m) \in Architectures /\ run.release \in Releases
    BY <1>1 DEF Runs
<1> DEFINE x == [release |-> run.release, system |-> SystemOf(run, ArchOf(m)),
                 packages |-> PackagesOf(run, ArchOf(m)), at |-> clock]
<1>4. At(Sealed(run, m), clock) = x
    BY SealedAt
<1>5. SystemOf(run, ArchOf(m)) \in Systems /\ PackagesOf(run, ArchOf(m)) \in PackageSets
    BY <1>2, <1>3, SystemTyped DEF SystemOf, PackagesOf
<1>6. x \in LiveReleases
    BY <1>1, <1>3, <1>5 DEF LiveReleases
<1>7. /\ SystemOf(run, ArchOf(m)).release = LockOf(run).release
      /\ SystemOf(run, ArchOf(m)).sources = LockOf(run).sources
      /\ SystemOf(run, ArchOf(m)).pin = Tree(run).pin
    BY DEF SystemOf, System
<1>8. SystemOf(run, ArchOf(m)) \in complete /\ PackagesOf(run, ArchOf(m)) \in complete
    BY <1>1 DEF RunOK, CheckCandidate
<1>9. LiveOK(x)
    BY <1>2, <1>7, <1>8 DEF LiveOK
<1>10. x.release = run.release /\ x.at = clock
    OBVIOUS
<1> HIDE DEF x
<1> QED  BY <1>1, <1>2, <1>4, <1>6, <1>9, <1>10

(* A manifest changes by a seal or by the swap that a dead one left.              *)
LEMMA LiveMoves ==
    ASSUME IInv, [Next]_vars
    PROVE  \/ live' = live /\ sealed' = sealed
           \/ \E m \in Manifests, x \in LiveReleases :
                  /\ live' = [live EXCEPT ![m] = x] /\ LiveOK(x)
                  /\ sealed' \subseteq sealed \cup {x.release}
                  /\ run' = run /\ main' = main /\ complete' = complete /\ clock' = clock
                  /\ late' \in {late, NoSwap}
                  /\ \/ Seal(m) /\ x.release = run.release /\ run \in Runs
                        /\ run.stage = "seal" /\ unseen' = unseen
                     \/ LateSwap /\ m = late.doc /\ x = late.put /\ late \in Swaps /\ live[m] = late.over
<1>1. ASSUME NEW m \in Manifests, Seal(m)
      PROVE  \E x \in LiveReleases :
                 /\ live' = [live EXCEPT ![m] = x] /\ LiveOK(x)
                 /\ sealed' \subseteq sealed \cup {x.release}
                 /\ run' = run /\ main' = main /\ complete' = complete /\ clock' = clock
                 /\ late' \in {late, NoSwap}
                 /\ Seal(m) /\ x.release = run.release /\ run \in Runs
                 /\ run.stage = "seal" /\ unseen' = unseen
    <2> DEFINE x == At(Sealed(run, m), clock)
    <2>1. /\ run \in Runs /\ run.stage = "seal"
          /\ x \in LiveReleases /\ x.release = run.release /\ LiveOK(x)
        BY <1>1, SealingTells DEF Seal
    <2>2. Put(m, x) /\ UNCHANGED <<main, run, complete, clock, unseen>> /\ late' \in {late, NoSwap}
        BY <1>1 DEF Seal, policyVars
    <2> HIDE DEF x
    <2> QED  BY <1>1, <2>1, <2>2 DEF Put
<1>2. ASSUME LateSwap
      PROVE  /\ late \in Swaps /\ late.doc \in Manifests /\ late.put \in LiveReleases
             /\ live' = [live EXCEPT ![late.doc] = late.put] /\ LiveOK(late.put)
             /\ sealed' \subseteq sealed \cup {late.put.release}
             /\ run' = run /\ main' = main /\ complete' = complete /\ clock' = clock
             /\ late' \in {late, NoSwap} /\ live[late.doc] = late.over
    BY <1>2 DEF LateSwap, Put, policyVars, IInv, TypeOK, LiveInv, Swaps
<1>3. (live' = live /\ sealed' = sealed) \/ LateSwap \/ \E m \in Manifests : Seal(m)
    BY DEF Next, vars, liveVars, Merge, CommitSource, Refresh, MergeProposal, Plan,
           BuildSystem, BuildPackages, BuildTesting, Approve, EndRun, RunAgain, Tag, Tick
<1>4. CASE LateSwap
    BY <1>2, <1>4
<1>5. CASE \E m \in Manifests : Seal(m)
    BY <1>1, <1>5
<1> QED  BY <1>3, <1>4, <1>5

(* A swap is left by a seal that could have been (EndRun).                      *)
LEMMA LateMoves ==
    ASSUME IInv, [Next]_vars
    PROVE  \/ late' \in {late, NoSwap}
           \/ EndRun /\ \E m \in Manifests :
                  /\ Sealing(m)
                  /\ late' = [doc |-> m, over |-> live[m], put |-> At(Sealed(run, m), clock), waived |-> Waived]
<1>1. CASE EndRun
    BY <1>1 DEF EndRun
<1>2. EndRun \/ late' \in {late, NoSwap}
    BY DEF Next, vars, liveVars, policyVars, Merge, CommitSource, Refresh, MergeProposal, Plan,
           BuildSystem, BuildPackages, BuildTesting, Approve, Seal, LateSwap, RunAgain, Tag, Tick
<1> QED  BY <1>1, <1>2

LEMMA LiveStep ==
    ASSUME IInv, [Next]_vars
    PROVE  LiveInv'
<1>1. Extends /\ LiveInv
    BY MainStep DEF IInv
<1>2. ASSUME NEW x, LiveOK(x) PROVE LiveOK(x)'
    BY <1>1, <1>2 DEF LiveOK, Extends
<1>3. sealed \subseteq Locked(Newest)'
    BY <1>1 DEF LiveInv, Extends
<1>4. late' # NoSwap => LiveOK(late.put)'
    <2>1. CASE late' \in {late, NoSwap}
        BY <1>1, <1>2, <2>1 DEF LiveInv, LiveOK
    <2>2. ASSUME NEW m \in Manifests, Sealing(m), EndRun, late'.put = At(Sealed(run, m), clock)
          PROVE  LiveOK(late.put)'
        <3>1. LiveOK(late'.put)
            BY <2>2, SealingTells
        <3> QED  BY <1>2, <3>1 DEF LiveOK
    <2> QED  BY <2>1, <2>2, LateMoves
<1>5. sealed' \subseteq Locked(Newest)' /\ \A m \in Manifests : live'[m] # NothingLive => LiveOK(live[m])'
    <2>1. CASE live' = live /\ sealed' = sealed
        BY <1>1, <1>2, <1>3, <2>1 DEF LiveInv, LiveOK
    <2>2. ASSUME NEW m \in Manifests, NEW x \in LiveReleases, live' = [live EXCEPT ![m] = x], LiveOK(x),
                 sealed' \subseteq sealed \cup {x.release}
          PROVE  sealed' \subseteq Locked(Newest)' /\ \A n \in Manifests : live'[n] # NothingLive => LiveOK(live[n])'
        <3>1. \A n \in Manifests : live'[n] \in {live[n], x}
            BY <2>2 DEF IInv, TypeOK
        <3>2. \A n \in Manifests : live'[n] # NothingLive => LiveOK(live'[n])
            BY <1>1, <2>2, <3>1 DEF LiveInv
        <3>3. \A n \in Manifests : live'[n] # NothingLive => LiveOK(live[n])'
            BY <1>2, <3>2 DEF LiveOK
        <3>4. x.release \in Locked(Newest)'
            BY <1>1, <2>2 DEF LiveOK, Extends
        <3> QED  BY <1>3, <2>2, <3>3, <3>4
    <2> QED  BY <2>1, <2>2, LiveMoves
<1> QED  BY <1>4, <1>5 DEF LiveInv

-----------------------------------------------------------------------------
(* Tags.                                                                    *)

(* A tag names the lock's commit, or the commit that added the lock (Tag).       *)
LEMMA TagStep ==
    ASSUME IInv, [Next]_vars
    PROVE  TagInv'
<1>1. Extends /\ TagInv /\ main \in Seq(Trees) /\ MainInv /\ main' \in Seq(Trees) /\ MainInv'
    BY MainStep DEF IInv, TypeOK
<1> DEFINE Owners == Repositories \cup {OsBase}
<1>2. ASSUME NEW v \in Releases, tags' = tags, TagOK(v) PROVE TagOK(v)'
    <2>1. v \in Locked(Newest)' /\ (Newest.locks[v])' = Newest.locks[v]
        BY <1>1, <1>2 DEF TagOK, Extends
    <2>2. ASSUME tags[OsBase][v] # 0
          PROVE  /\ tags[OsBase][v] \in DOMAIN main'
                 /\ \A c \in DOMAIN main' : HasLock(main'[c], v) <=> tags[OsBase][v] <= c
        <3> DEFINE b == tags[OsBase][v]
        <3>1. b \in DOMAIN main /\ \A c \in DOMAIN main : HasLock(main[c], v) <=> b <= c
            BY <1>2, <2>2 DEF TagOK
        <3>2. b \in DOMAIN main' /\ main'[b] = main[b]
            BY <1>1, <3>1 DEF Extends
        <3>3. PICK a \in DOMAIN main' : \A d \in DOMAIN main' : HasLock(main'[d], v) <=> a <= d
            BY <1>1, <2>1 DEF MainInv, HasLock
        <3>4. DOMAIN main \subseteq Nat /\ DOMAIN main' \subseteq Nat
            BY <1>1
        <3>5. HasLock(main'[b], v) /\ a <= b
            BY <3>1, <3>2, <3>3, <3>4
        <3>6. a \in DOMAIN main
            <4>1. DOMAIN main = 1..Len(main) /\ DOMAIN main' = 1..Len(main') /\ Len(main) \in Nat
                BY <1>1
            <4> QED  BY <3>1, <3>3, <3>4, <3>5, <4>1
        <3>7. HasLock(main[a], v)
            BY <1>1, <3>3, <3>4, <3>6 DEF Extends
        <3>8. a = b
            BY <3>1, <3>4, <3>5, <3>6, <3>7
        <3> QED  BY <3>2, <3>3, <3>8
    <2>3. \A r \in Repositories : tags[r][v] \in {0, (Newest.locks[v].sources[r])'}
        BY <1>2, <2>1 DEF TagOK
    <2> QED  BY <1>2, <2>1, <2>2, <2>3 DEF TagOK, HasLock
<1>3. CASE tags' = tags
    BY <1>1, <1>2, <1>3 DEF TagInv
<1>4. ASSUME NEW o \in Owners, NEW w \in Releases, Tag(o, w) PROVE TagInv'
    <2>1. w \in Locked(Newest)
        BY <1>4 DEF Tag, IInv, LiveInv
    <2>2. main' = main /\ tags' = [tags EXCEPT ![o][w] = TagTarget(o, w)]
        BY <1>4 DEF Tag, policyVars
    <2>3. tags \in [Owners -> [Releases -> Nat]]
        BY DEF IInv, TypeOK
    <2>4. \A r \in Owners, v \in Releases :
              tags'[r][v] = IF r = o /\ v = w THEN TagTarget(o, w) ELSE tags[r][v]
        BY <1>4, <2>2, <2>3
    <2>5. ASSUME NEW v \in Releases, v # w, \E r \in Owners : tags'[r][v] # 0
          PROVE  TagOK(v)'
        <3>1. \A r \in Owners : tags'[r][v] = tags[r][v]
            BY <2>4, <2>5
        <3>2. TagOK(v)
            BY <1>1, <2>5, <3>1 DEF TagInv
        <3> QED  BY <2>2, <3>1, <3>2 DEF TagOK, Newest, Locked, HasLock
    <2>6. (\E r \in Owners : tags[r][w] # 0) => TagOK(w)
        BY <1>1 DEF TagInv
    <2>7. \A r \in Repositories : tags'[r][w] \in {0, Newest.locks[w].sources[r]}
        <3>1. \A r \in Repositories : r # OsBase /\ TagTarget(r, w) = Newest.locks[w].sources[r]
            BY TrainAssumption DEF TagTarget
        <3>2. \A r \in Repositories : tags[r][w] \in {0, Newest.locks[w].sources[r]}
            BY <2>6 DEF TagOK
        <3> QED  BY <2>4, <3>1, <3>2
    <2>8. tags'[OsBase][w] # 0 =>
              /\ tags'[OsBase][w] \in DOMAIN main
              /\ \A c \in DOMAIN main : HasLock(main[c], w) <=> tags'[OsBase][w] <= c
        <3>1. CASE o = OsBase
            <4>1. tags'[OsBase][w] = LockCommit(w)
                BY <2>4, <3>1 DEF TagTarget
            <4> QED  BY <1>1, <2>1, <4>1, LockCommitIs
        <3>2. CASE o # OsBase
            BY <2>4, <2>6, <3>2 DEF TagOK
        <3> QED  BY <3>1, <3>2
    <2>9. TagOK(w)'
        BY <2>1, <2>2, <2>7, <2>8 DEF TagOK, Newest, Locked, HasLock
    <2> QED  BY <2>5, <2>9 DEF TagInv
<1>5. tags' = tags \/ \E o \in Owners, w \in Releases : Tag(o, w)
    BY DEF Next, vars, liveVars, Merge, CommitSource, Refresh, MergeProposal, Plan,
           BuildSystem, BuildPackages, BuildTesting, Approve, Seal, EndRun, LateSwap, RunAgain, Tick
<1> QED  BY <1>3, <1>4, <1>5

-----------------------------------------------------------------------------
(* The soak time.                                                            *)

(* The gate of the run: what devices have changes under it by its own seal only, and *)
(* by the swap of a dead one, which is noted.                                   *)
GateStands == run # NoRun /\ run.stage = "seal" /\ ~run.again /\ ~unseen => CheckSoak(LockOf(run))
LateSoaks ==
    late # NoSwap /\ late.doc = "qualified" /\ late.over # NothingLive =>
        late.waived \/ clock - late.over.at >= Soak

LEMMA GateStep ==
    ASSUME IInv, [Next]_vars
    PROVE  GateStands'
<1>1. Extends /\ TypeOK /\ MainInv /\ RunInv /\ GateStands /\ RunOK(run)
    BY MainStep DEF IInv, RunInv, SoakInv, GateStands
<1>2. ASSUME run' = run, unseen' = unseen, live'["qualified"] = live["qualified"], clock' \in Nat, clock <= clock'
      PROVE  GateStands'
    <2> SUFFICES ASSUME run # NoRun, run.stage = "seal", ~run.again, ~unseen PROVE CheckSoak(LockOf(run))'
        BY <1>2 DEF GateStands
    <2>1. CheckSoak(LockOf(run))
        BY <1>1 DEF GateStands
    <2>2. LockOf(run)' = LockOf(run)
        BY <1>1, <1>2, RunStays DEF LockOf, Tree
    <2>3. \/ live["qualified"] = NothingLive
          \/ live["qualified"].at \in Nat /\ live["qualified"].release \in Releases
        BY <1>1 DEF TypeOK, Manifests, LiveReleases
    <2>4. clock \in Nat /\ Soak \in Nat
        BY <1>1, TrainAssumption DEF TypeOK
    <2>5. CASE live["qualified"] = NothingLive
        BY <1>2, <2>5 DEF CheckSoak, NothingLive
    <2>6. CASE live["qualified"].at \in Nat
        BY <1>2, <2>1, <2>2, <2>4, <2>6 DEF CheckSoak
    <2> QED  BY <2>3, <2>5, <2>6
<1>3. ASSUME NEW stage \in {"candidate", "seal"}, NEW v \in Releases, NEW c \in DOMAIN main,
             Plan(stage, v, c)
      PROVE  GateStands'
    <2>1. run'.stage = stage /\ (stage = "seal" => CheckSoak(LockOf(run')))
        BY <1>1, <1>3, PlanStep
    <2>2. main' = main /\ live' = live /\ clock' = clock
        BY <1>3 DEF Plan, policyVars, liveVars
    <2> QED  BY <2>1, <2>2 DEF GateStands, CheckSoak, LockOf, Tree
<1>4. CASE RunAgain
    BY <1>1, <1>4, AgainStep DEF GateStands
<1>5. CASE EndRun
    BY <1>5 DEF EndRun, GateStands
<1>6. ASSUME NEW m \in Manifests, NEW x \in LiveReleases, live' = [live EXCEPT ![m] = x], Seal(m),
             x.release = run.release, run \in Runs, unseen' = unseen, run' = run, main' = main, clock' = clock
      PROVE  GateStands'
    <2>1. CASE m # "qualified"
        <3>1. live'["qualified"] = live["qualified"] /\ clock \in Nat
            BY <1>1, <1>6, <2>1 DEF TypeOK, Manifests
        <3> QED  BY <1>2, <1>6, <3>1
    <2>2. CASE m = "qualified"
        <3>1. live'["qualified"].release = run.release /\ run # NoRun
            BY <1>1, <1>6, <2>2 DEF TypeOK, Seal, Sealing
        <3>2. LockOf(run).release = run.release
            BY <1>1, <1>6, <3>1, RunTells DEF TypeOK
        <3>3. LockOf(run)' = LockOf(run)
            BY <1>6 DEF LockOf, Tree
        <3> QED  BY <1>6, <3>1, <3>2, <3>3 DEF GateStands, CheckSoak
    <2> QED  BY <2>1, <2>2
<1>7. CASE Tick
    <2>1. clock \in Nat
        BY <1>1 DEF TypeOK
    <2>2. clock' = clock + 1 /\ run' = run /\ live' = live /\ unseen' = unseen
        BY <1>7 DEF Tick
    <2> QED  BY <1>2, <2>1, <2>2
<1>8. CASE LateSwap
    <2>1. late \in Swaps /\ run' = run /\ clock' = clock /\ clock \in Nat
          /\ live' = [live EXCEPT ![late.doc] = late.put]
        BY <1>1, <1>8 DEF LateSwap, Put, TypeOK
    <2>2. CASE unseen'
        BY <2>2 DEF GateStands
    <2>3. CASE run = NoRun
        BY <2>1, <2>3 DEF GateStands
    <2>4. CASE late.doc # "qualified" /\ run # NoRun
        <3>1. unseen' = unseen
            BY <1>1, <1>8, <2>4 DEF LateSwap, TypeOK
        <3>2. live'["qualified"] = live["qualified"]
            BY <1>1, <2>1, <2>4 DEF TypeOK, Manifests
        <3> QED  BY <1>2, <2>1, <3>1, <3>2
    <2> QED  BY <1>8, <2>2, <2>3, <2>4 DEF LateSwap
<1>9. CASE run' = run /\ unseen' = unseen /\ live' = live /\ clock' = clock
    <2>1. clock \in Nat
        BY <1>1 DEF TypeOK
    <2> QED  BY <1>2, <1>9, <2>1
<1>10. \/ run' = run /\ unseen' = unseen /\ live' = live /\ clock' = clock
       \/ \E stage \in {"candidate", "seal"}, v \in Releases, c \in DOMAIN main : Plan(stage, v, c)
       \/ RunAgain \/ EndRun \/ Tick \/ LateSwap \/ \E m \in Manifests : Seal(m)
    BY DEF Next, vars, liveVars, policyVars, Merge, CommitSource, Refresh, MergeProposal,
           BuildSystem, BuildPackages, BuildTesting, Approve, Tag
<1>11. (\E m \in Manifests : Seal(m)) => GateStands'
    <2>1. ASSUME NEW m \in Manifests, Seal(m)
          PROVE  LET x == At(Sealed(run, m), clock) IN
                 /\ x \in LiveReleases /\ live' = [live EXCEPT ![m] = x]
                 /\ x.release = run.release /\ run \in Runs
                 /\ unseen' = unseen /\ run' = run /\ main' = main /\ clock' = clock
        <3>1. Sealing(m) /\ Put(m, At(Sealed(run, m), clock))
              /\ unseen' = unseen /\ run' = run /\ main' = main /\ clock' = clock
            BY <2>1 DEF Seal, policyVars
        <3> QED  BY <3>1, SealingTells DEF Put
    <2> QED  BY <1>6, <2>1
<1> QED  BY <1>3, <1>4, <1>5, <1>7, <1>8, <1>9, <1>10, <1>11

LEMMA LateStep ==
    ASSUME IInv, [Next]_vars
    PROVE  LateSoaks'
<1>1. TypeOK /\ RunInv /\ MainInv /\ SoakInv
    BY DEF IInv
<1>2. clock \in Nat /\ clock' \in Nat /\ clock <= clock'
    <2>1. clock' = clock \/ Tick
        BY DEF Next, vars, liveVars, policyVars, Merge, CommitSource, Refresh, MergeProposal, Plan,
               BuildSystem, BuildPackages, BuildTesting, Approve, Seal, EndRun, LateSwap, RunAgain, Tag
    <2> QED  BY <1>1, <2>1 DEF Tick, TypeOK
<1>3. CASE late' \in {late, NoSwap}
    <2> SUFFICES ASSUME late # NoSwap, late' = late, late.doc = "qualified", late.over # NothingLive, ~late.waived
                 PROVE  clock' - late.over.at >= Soak
        BY <1>3 DEF LateSoaks
    <2>1. clock - late.over.at >= Soak
        BY <1>1 DEF SoakInv
    <2>2. late.over.at \in Nat /\ Soak \in Nat
        BY <1>1, TrainAssumption DEF TypeOK, Swaps, LiveReleases
    <2> QED  BY <1>2, <2>1, <2>2
<1>4. ASSUME NEW m \in Manifests, Sealing(m), EndRun,
             late' = [doc |-> m, over |-> live[m], put |-> At(Sealed(run, m), clock), waived |-> Waived]
      PROVE  LateSoaks'
    <2> SUFFICES ASSUME m = "qualified", live[m] # NothingLive, ~Waived PROVE clock' - live[m].at >= Soak
        BY <1>4 DEF LateSoaks
    <2>1. run \in Runs /\ run # NoRun /\ run.stage = "seal" /\ live[m].release < run.release
        BY <1>4, SealingTells DEF Sealing
    <2>2. CheckSoak(LockOf(run)) /\ ~LockOf(run).override
        BY <1>1, <2>1 DEF SoakInv, Waived
    <2>3. LockOf(run).release = run.release
        BY <1>1, <2>1, RunTells DEF TypeOK, RunInv
    <2>4. live[m].release \in Releases /\ run.release \in Releases
        BY <1>1, <2>1 DEF TypeOK, LiveReleases, Runs
    <2>5. clock' = clock
        BY <1>4 DEF EndRun
    <2> QED  BY <2>1, <2>2, <2>3, <2>4, <2>5 DEF CheckSoak, NothingLive, Releases
<1> QED  BY <1>3, <1>4, LateMoves

LEMMA SoakStep ==
    ASSUME IInv, [Next]_vars
    PROVE  SoakInv'
<1>1. GateStands' /\ LateSoaks'
    BY GateStep, LateStep
<1> QED  BY <1>1 DEF SoakInv, GateStands, LateSoaks

-----------------------------------------------------------------------------
(* Type correctness.                                                         *)

LEMMA TypeStep ==
    ASSUME IInv, [Next]_vars
    PROVE  TypeOK'
<1> DEFINE Owners == Repositories \cup {OsBase}
<1>1. TypeOK /\ MainInv /\ RunInv /\ main' \in Seq(Trees)
    BY MainStep DEF IInv
<1>2. heads' \in [Repositories -> Nat]
    <2>1. CASE CommitSource
        <3>1. PICK r \in Repositories : heads' = [heads EXCEPT ![r] = @ + 1]
            BY <2>1, Zenon DEF CommitSource
        <3> QED  BY <1>1, <3>1 DEF TypeOK
    <2>2. CommitSource \/ heads' = heads
        BY DEF Next, vars, liveVars, policyVars, Merge, Refresh, MergeProposal, Plan, BuildSystem,
               BuildPackages, BuildTesting, Approve, Seal, EndRun, LateSwap, RunAgain, Tag, Tick
    <2> QED  BY <1>1, <2>1, <2>2 DEF TypeOK
<1>3. proposal' \in Locks \cup {NoLock}
    <2>1. CASE Refresh
        BY <1>1, <2>1, NextLockTyped DEF Refresh
    <2>2. Refresh \/ proposal' \in {proposal, NoLock}
        BY DEF Next, vars, liveVars, policyVars, Merge, CommitSource, MergeProposal, Plan, BuildSystem,
               BuildPackages, BuildTesting, Approve, Seal, EndRun, LateSwap, RunAgain, Tag, Tick
    <2> QED  BY <1>1, <2>1, <2>2 DEF TypeOK
<1>4. run' \in Runs \cup {NoRun} /\ approved' \in Runs \cup {NoRun}
    <2>1. ASSUME NEW stage \in {"candidate", "seal"}, NEW v \in Releases, NEW c \in DOMAIN main,
                 Plan(stage, v, c)
          PROVE  run' \in Runs /\ approved' = approved
        BY <1>1, <2>1, PlanStep DEF Plan
    <2>2. CASE RunAgain
        BY <1>1, <2>2, AgainStep
    <2>3. \/ run' \in {run, NoRun} /\ approved' \in {run, approved}
          \/ \E stage \in {"candidate", "seal"}, v \in Releases, c \in DOMAIN main : Plan(stage, v, c)
          \/ RunAgain
        BY DEF Next, vars, liveVars, policyVars, Merge, CommitSource, Refresh, MergeProposal, BuildSystem,
               BuildPackages, BuildTesting, Approve, Seal, EndRun, LateSwap, Tag, Tick
    <2> QED  BY <1>1, <2>1, <2>2, <2>3 DEF TypeOK
<1>5. live' \in [Manifests -> LiveReleases \cup {NothingLive}] /\ sealed' \subseteq Releases
    BY <1>1, LiveMoves DEF TypeOK, LiveReleases
<1>6. tags' \in [Owners -> [Releases -> Nat]]
    <2>1. ASSUME NEW o \in Owners, NEW v \in Releases, Tag(o, v)
          PROVE  tags' \in [Owners -> [Releases -> Nat]]
        <3>1. v \in Locked(Newest)
            BY <2>1 DEF Tag, IInv, LiveInv
        <3>2. Newest \in Trees /\ Newest.locks[v] \in Locks
            BY <1>1, <3>1, NewestIs, LockIsThere DEF Locked, TypeOK
        <3>3. CASE o = OsBase
            <4>1. LockCommit(v) \in Nat
                BY <1>1, <3>1, LockCommitIs, NewestIs DEF TypeOK
            <4>2. TagTarget(o, v) \in Nat
                BY <3>3, <4>1 DEF TagTarget
            <4> QED  BY <1>1, <2>1, <4>2 DEF Tag, TypeOK
        <3>4. CASE o # OsBase
            <4>1. TagTarget(o, v) \in Nat
                BY <3>2, <3>4 DEF TagTarget, Locks
            <4> QED  BY <1>1, <2>1, <4>1 DEF Tag, TypeOK
        <3> QED  BY <3>3, <3>4
    <2>2. tags' = tags \/ \E o \in Owners, v \in Releases : Tag(o, v)
        BY DEF Next, vars, liveVars, policyVars, Merge, CommitSource, Refresh, MergeProposal, Plan,
               BuildSystem, BuildPackages, BuildTesting, Approve, Seal, EndRun, LateSwap, RunAgain, Tick
    <2> QED  BY <1>1, <2>1, <2>2 DEF TypeOK
<1>7. clock' \in Nat
    <2>1. clock' = clock \/ Tick
        BY DEF Next, vars, liveVars, policyVars, Merge, CommitSource, Refresh, MergeProposal, Plan,
               BuildSystem, BuildPackages, BuildTesting, Approve, Seal, EndRun, LateSwap, RunAgain, Tag
    <2>2. clock \in Nat
        BY <1>1 DEF TypeOK
    <2> QED  BY <2>1, <2>2 DEF Tick
<1>8. late' \in Swaps \cup {NoSwap} /\ unseen' \in BOOLEAN
    <2>1. ASSUME NEW m \in Manifests, Sealing(m),
                 late' = [doc |-> m, over |-> live[m], put |-> At(Sealed(run, m), clock), waived |-> Waived]
          PROVE  late' \in Swaps
        <3>1. At(Sealed(run, m), clock) \in LiveReleases /\ run \in Runs
            BY <2>1, SealingTells
        <3>2. LockOf(run) \in Locks
            <4>1. run # NoRun /\ RunOK(run) /\ main \in Seq(Trees)
                BY <1>1, <2>1 DEF RunInv, Sealing, TypeOK
            <4> QED  BY <1>1, <3>1, <4>1, RunTells
        <3>3. LockOf(run).override \in BOOLEAN /\ run.again \in BOOLEAN /\ unseen \in BOOLEAN
            BY <1>1, <3>1, <3>2, Zenon DEF Locks, Runs, TypeOK
        <3>4. Waived \in BOOLEAN
            BY DEF Waived
        <3>5. live[m] \in LiveReleases \cup {NothingLive}
            BY <1>1 DEF TypeOK
        <3> QED  BY <2>1, <3>1, <3>4, <3>5, Zenon DEF Swaps
    <2>2. unseen' \in BOOLEAN
        <3>1. unseen' = unseen \/ LateSwap \/ EndRun
            BY DEF Next, vars, liveVars, policyVars, Merge, CommitSource, Refresh, MergeProposal, Plan,
                   BuildSystem, BuildPackages, BuildTesting, Approve, Seal, RunAgain, Tag, Tick
        <3>2. LateSwap => unseen' \in BOOLEAN
            BY DEF LateSwap
        <3> QED  BY <1>1, <3>1, <3>2 DEF EndRun, TypeOK
    <2>3. late \in Swaps \cup {NoSwap}
        BY <1>1 DEF TypeOK
    <2> QED  BY <2>1, <2>2, <2>3, LateMoves
<1> QED  BY <1>1, <1>2, <1>3, <1>4, <1>5, <1>6, <1>7, <1>8 DEF TypeOK

-----------------------------------------------------------------------------
LEMMA InitIInv == ASSUME Init PROVE IInv
<1>1. FirstHeads \in [Repositories -> Nat] /\ 0 \in Releases
    BY TrainAssumption DEF FirstHeads, Releases
<1>2. Lock(0, FirstHeads, 1, FALSE, FALSE) \in Locks
    BY <1>1, LockTyped
<1>3. FirstTree \in Trees
    BY <1>2 DEF FirstTree, Trees
<1>4. TypeOK
    <2>1. main \in Seq(Trees)
        BY <1>3 DEF Init
    <2>2. run = NoRun /\ approved = NoRun /\ proposal = NoLock /\ late = NoSwap /\ heads \in [Repositories -> Nat]
        BY <1>1 DEF Init
    <2>3. /\ live \in [Manifests -> LiveReleases \cup {NothingLive}]
          /\ tags \in [Repositories \cup {OsBase} -> [Releases -> Nat]]
          /\ clock \in Nat /\ sealed \subseteq Releases /\ unseen \in BOOLEAN
        BY DEF Init
    <2> QED  BY <2>1, <2>2, <2>3 DEF TypeOK
<1>5. CheckSet(FirstTree)
    <2>1. \A v \in Releases : HasLock(FirstTree, v) <=> v = 0
        BY <1>1, <1>2, LockIsNotNone DEF FirstTree, HasLock
    <2>2. Locked(FirstTree) = 0..0
        BY <1>1, <2>1 DEF Locked, Releases
    <2>3. \A v \in Releases : Validated(FirstTree, v)
        BY <1>1, <2>1 DEF Validated, FirstTree, Lock
    <2> QED  BY <1>1, <2>2, <2>3 DEF CheckSet, FirstTree
<1>6. main = <<FirstTree>> /\ DOMAIN main = {1} /\ main[1] = FirstTree /\ Len(main) = 1
    BY DEF Init
<1>7. MainInv
    <2>1. CheckChange(FirstTree, FirstTree)
        BY DEF CheckChange
    <2>2. \A v \in Locked(Newest) : HasLock(main[1], v)
        BY <1>6 DEF Newest, Locked
    <2> QED  BY <1>5, <1>6, <2>1, <2>2 DEF MainInv
<1>8. RunInv /\ SoakInv
    BY DEF Init, RunInv, RunOK, SoakInv
<1>9. LiveInv
    BY DEF Init, LiveInv
<1>10. TagInv
    BY DEF Init, TagInv
<1> QED  BY <1>4, <1>7, <1>8, <1>9, <1>10 DEF IInv

LEMMA StepIInv == ASSUME IInv, [Next]_vars PROVE IInv'
BY MainStep, RunStep, LiveStep, TagStep, SoakStep, TypeStep DEF IInv

-----------------------------------------------------------------------------
(* What the invariant says.                                                   *)

LEMMA TagsNameIt == IInv => TagsNameWhatIsLive
<1> SUFFICES ASSUME IInv, NEW m \in Manifests, live[m] # NothingLive
             PROVE  LET v == live[m].release IN
                    /\ Newest.locks[v].sources = live[m].system.sources
                    /\ Newest.locks[v].pin = live[m].system.pin
                    /\ \A r \in Repositories : tags[r][v] \in {0, live[m].system.sources[r]}
                    /\ tags[OsBase][v] # 0 =>
                          \A c \in DOMAIN main : HasLock(main[c], v) <=> c >= tags[OsBase][v]
    BY DEF TagsNameWhatIsLive
<1> DEFINE v == live[m].release
<1>1. /\ v \in Releases /\ Newest.locks[v].sources = live[m].system.sources
      /\ Newest.locks[v].pin = live[m].system.pin
    BY DEF IInv, LiveInv, LiveOK, Locked
<1>2. (\E r \in Repositories \cup {OsBase} : tags[r][v] # 0) => TagOK(v)
    BY <1>1 DEF IInv, TagInv
<1>3. tags[OsBase][v] \in Nat /\ DOMAIN main \subseteq Nat
    BY <1>1 DEF IInv, TypeOK
<1> HIDE DEF v
<1>4. \A r \in Repositories : tags[r][v] \in {0, Newest.locks[v].sources[r]}
    BY <1>2 DEF TagOK
<1>5. tags[OsBase][v] # 0 =>
          \A c \in DOMAIN main : HasLock(main[c], v) <=> c >= tags[OsBase][v]
    BY <1>2, <1>3 DEF TagOK
<1> QED  BY <1>1, <1>4, <1>5 DEF v

LEMMA SealsHaveThem == IInv => SealsAreCandidates
BY DEF IInv, LiveInv, LiveOK, SealsAreCandidates

LEMMA SoakHolds == IInv /\ [Next]_vars => Soaked
<1> SUFFICES ASSUME IInv, [Next]_vars,
                    live'["qualified"].release # live["qualified"].release,
                    live["qualified"] # NothingLive, ~ (IF LateSwap THEN late.waived ELSE Waived)
             PROVE  clock - live["qualified"].at >= Soak
    BY DEF Soaked
<1>1. live["qualified"] \in LiveReleases /\ live \in [Manifests -> LiveReleases \cup {NothingLive}]
    BY DEF IInv, TypeOK, Manifests
<1>2. CASE LateSwap
    <2>1. late \in Swaps /\ live' = [live EXCEPT ![late.doc] = late.put] /\ live[late.doc] = late.over
        BY <1>2 DEF LateSwap, Put, IInv, TypeOK
    <2>2. late.doc = "qualified"
        BY <1>1, <2>1 DEF Manifests
    <2> QED  BY <1>2, <2>1, <2>2 DEF IInv, SoakInv, LateSwap
<1>3. ASSUME Seal("qualified"), ~LateSwap PROVE clock - live["qualified"].at >= Soak
    <2>1. /\ run \in Runs /\ run # NoRun /\ run.stage = "seal" /\ ~Waived
          /\ live["qualified"].release < run.release
        BY <1>3, SealingTells DEF Seal, Sealing, Manifests
    <2>2. CheckSoak(LockOf(run)) /\ ~LockOf(run).override
        BY <2>1 DEF IInv, SoakInv, Waived
    <2>3. LockOf(run).release = run.release
        BY <2>1, RunTells DEF IInv, TypeOK, RunInv
    <2>4. live["qualified"].release \in Releases /\ run.release \in Releases
        BY <1>1, <2>1 DEF LiveReleases, Runs
    <2> QED  BY <2>1, <2>2, <2>3, <2>4 DEF CheckSoak, NothingLive, Releases
<1>4. LateSwap \/ Seal("qualified")
    BY <1>1, LiveMoves DEF Manifests
<1> QED  BY <1>2, <1>3, <1>4

(* No commit that is pushed takes anything away (check_release_locks.py).        *)
LEMMA AppendsOnly == IInv /\ [Next]_vars => [Appended]_main
<1> SUFFICES ASSUME IInv, [Next]_vars PROVE Appended
    OBVIOUS
<1>1. main \in Seq(Trees) /\ MainInv /\ main' \in Seq(Trees) /\ MainInv' /\ Extends
    BY MainStep DEF IInv, TypeOK
<1>2. /\ Len(main) \in DOMAIN main /\ Len(main') \in DOMAIN main' /\ Len(main') \in Nat
      /\ \A c \in DOMAIN main' : c <= Len(main')
    BY <1>1 DEF MainInv
<1>3. Len(main) \in DOMAIN main' /\ main'[Len(main)] = Newest
    BY <1>1, <1>2 DEF Extends, Newest
<1>4. CheckChange(Newest, Newest') /\ CheckSet(Newest')
    <2> DEFINE last == Len(main')
    <2>1. \A c, d \in DOMAIN main' : c <= d => CheckChange(main'[c], main'[d])
        BY <1>1 DEF MainInv
    <2>2. \A c \in DOMAIN main' : CheckSet(main'[c])
        BY <1>1 DEF MainInv
    <2>3. Newest' = main'[last]
        BY DEF Newest
    <2>4. last \in DOMAIN main' /\ Len(main) <= last
        BY <1>2, <1>3
    <2> HIDE DEF last
    <2>5. CheckChange(main'[Len(main)], main'[last]) /\ CheckSet(main'[last])
        BY <1>3, <2>1, <2>2, <2>4
    <2> QED  BY <1>3, <2>3, <2>5
<1> QED  BY <1>4 DEF Appended, CheckChange, CheckSet, Locked, HasLock

-----------------------------------------------------------------------------
(* The locks of main are never changed or taken away, and what a run of stable.yml *)
(* was let pass for stays true until it ends, whatever is merged meanwhile.      *)
THEOREM Invariance == Spec => []IInv
<1>1. Init => IInv
    BY InitIInv
<1>2. IInv /\ [Next]_vars => IInv'
    BY StepIInv
<1> QED  BY <1>1, <1>2, PTL DEF Spec

(* Whatever commits pull requests were checked on, and whatever was merged before    *)
(* them, main is append-only: no lock and no withdrawal is changed or taken away, no   *)
(* patch number is left out (check_release_locks.py).                            *)
THEOREM MainAppends == Spec => MainIsAppendOnly
<1>1. IInv /\ [Next]_vars => [Appended]_main
    BY AppendsOnly
<1> QED  BY <1>1, Invariance, PTL DEF Spec, MainIsAppendOnly

(* What is live and what is tagged under a release number is what the lock of     *)
(* that number says (check_release_locks.py, tag_release.py).                    *)
THEOREM TagsNameTheRelease == Spec => []TagsNameWhatIsLive
<1> QED  BY Invariance, TagsNameIt, PTL

(* No System and no Packages go live that are not complete, nor a System of        *)
(* another release (stable_gate.py).                                            *)
THEOREM SealsHaveCandidates == Spec => []SealsAreCandidates
<1> QED  BY Invariance, SealsHaveThem, PTL

(* Two releases in the qualified manifest are the soak time apart, unless the later *)
(* one has its override or its jobs were run again (stable_gate.py).             *)
THEOREM Soaks == Spec => SoakBetweenSeals
<1>1. IInv /\ [Next]_vars => Soaked
    BY SoakHolds
<1> QED  BY <1>1, Invariance, PTL DEF Spec, SoakBetweenSeals
=============================================================================
