-------------------------------- MODULE Farm --------------------------------
(***************************************************************************)
(* The component farm.  scripts/partition_roots.py divides the roots of a   *)
(* component into shards and a shard into cumulative batches; a job builds  *)
(* each shard and publishes a checkpoint after every batch                  *)
(* (scripts/batch_checkpoint.py, scripts/runner); a finalizer collects the  *)
(* latest checkpoint of every job.                                          *)
(*                                                                         *)
(* A job may be killed at any point and run again.  A package that is built *)
(* again has other bytes: they are represented by the attempt that built it.*)
(* Roots are numbers in the order of their names, root 0 is what the core   *)
(* job of System builds.                                                    *)
(***************************************************************************)
EXTENDS Integers, FiniteSets, FiniteSetsExt, Sequences, SequencesExt, Functions

CONSTANTS
    Policies,     \* [roots, heavy, count, closure, cost, limit, stage, host]
    MaxAttempts   \* [Policies -> bound on the attempts of a job]

VARIABLES
    policy,
    stored,      \* [<<job, batch, root>> -> bytes]: the uploaded packages
    markers,     \* [<<job, batch>> -> [roots, packages]]: the completion markers
    worker,      \* [job -> what its virtual machine is doing]
    collected    \* the packages the finalizer merged, or NoCollection

vars == <<policy, stored, markers, worker, collected>>

-----------------------------------------------------------------------------
(* partition: heavy roots get a shard each, the others are grouped by shared *)
(* dependencies and the groups spread over the remaining shards.            *)

(* sorted: before is a strict order of S, so there is one such sequence.      *)
Order(S, before) ==
    CHOOSE s \in [1..Cardinality(S) -> S] : \A i, j \in 1..Cardinality(S) : i < j => <<s[i], s[j]>> \in before

Ascending(S) == Order(S, {e \in S \X S : e[1] < e[2]})
Cost(p, S) == MapThenSumSet(LAMBDA r : p.cost[r], S)
Family(p, r) == p.closure[r] \cup {r}
Valid(p) == p.count >= 1 /\ Cardinality(p.heavy) < p.count

Merge(p, groups, r) ==
    LET shared == {g \in groups : \E i \in g : Family(p, i) \cap Family(p, r) # {}}
    IN (groups \ shared) \cup {{r} \cup UNION shared}

LightGroups(p) ==
    FoldLeft(LAMBDA groups, r : Merge(p, groups, r), {}, Ascending(p.roots \ p.heavy))

Heavier(p, g, h) == Cost(p, g) > Cost(p, h) \/ (Cost(p, g) = Cost(p, h) /\ Min(g) < Min(h))

LeastLoaded(p, shards) ==
    LET light == (Cardinality(p.heavy) + 1)..p.count
        Load(i) == Cost(p, ToSet(shards[i]))
    IN CHOOSE i \in light : \A j \in light : Load(i) < Load(j) \/ (Load(i) = Load(j) /\ i <= j)

\* Mutant: groups are dealt out in turn.
PlaceInTurn(p, shards, g) ==
    LET light == (Cardinality(p.heavy) + 1)..p.count
        i == CHOOSE i \in light : \A j \in light :
                 Len(shards[i]) < Len(shards[j]) \/ (Len(shards[i]) = Len(shards[j]) /\ i <= j)
    IN [shards EXCEPT ![i] = @ \o Ascending(g)]

Place(p, shards, g) ==
    LET i == LeastLoaded(p, shards) IN [shards EXCEPT ![i] = @ \o Ascending(g)]

Partition(p) ==
    LET isolated == Ascending(p.heavy)
        start == [i \in 1..p.count |-> IF i <= Len(isolated) THEN <<isolated[i]>> ELSE <<>>]
        groups == Order(LightGroups(p), {e \in LightGroups(p) \X LightGroups(p) : Heavier(p, e[1], e[2])})
    IN FoldLeft(LAMBDA shards, g : Place(p, shards, g), start, groups)

(* batches: a batch ends before the root that would take it over the limit;  *)
(* a root that is over it by itself is a batch of its own.                  *)
Cut(p, acc, r) ==
    LET open == IF acc.open = <<>> THEN <<>> ELSE <<acc.open>> IN
    IF p.cost[r] > p.limit THEN [closed |-> acc.closed \o open \o <<<<r>>>>, open |-> <<>>]
    ELSE IF acc.open # <<>> /\ Cost(p, ToSet(acc.open)) + p.cost[r] > p.limit
    THEN [closed |-> acc.closed \o open, open |-> <<r>>]
    ELSE [acc EXCEPT !.open = Append(@, r)]

Increments(p, shard) ==
    LET cut == FoldLeft(LAMBDA acc, r : Cut(p, acc, r), [closed |-> <<>>, open |-> <<>>], shard)
    IN cut.closed \o (IF cut.open = <<>> THEN <<>> ELSE <<cut.open>>)

Batches(p, shard) ==
    LET increments == Increments(p, shard)
    IN [b \in 1..Len(increments) |-> UNION {ToSet(increments[k]) : k \in 1..b}]

-----------------------------------------------------------------------------
(* The jobs of a component: one on the dedicated host, which publishes no    *)
(* checkpoint, otherwise the shards and the core of System.                 *)

Core == 0
farm_matrix(p) ==
    IF p.host = "dedicated" THEN {}
    ELSE 1..p.count \cup (IF p.stage = "system" THEN {Core} ELSE {})

(* The batches a job works through, numbered from 1.  A shard without roots publishes the     *)
(* layer it was given as its only batch.                                    *)
Plan(j) ==
    IF j = Core THEN <<{0}>>
    ELSE LET shard == Partition(policy)[j] IN IF shard = <<>> THEN <<{}>> ELSE Batches(policy, shard)
Jobs == farm_matrix(policy)

Idle(attempt) == [stage |-> "idle", batch |-> 0, packages |-> <<>>, attempt |-> attempt]
NoCollection == <<>>

Init ==
    /\ policy \in {p \in Policies : Valid(p)}
    /\ stored = <<>>
    /\ markers = <<>>
    /\ worker = [j \in Jobs |-> Idle(0)]
    /\ collected = NoCollection

Stage(j, stage) == worker' = [worker EXCEPT ![j].stage = stage]
Objects(j, b) == {k \in DOMAIN stored : k[1] = j /\ k[2] = b}

(* latest_checkpoint_batch lists directories: a batch is there as soon as    *)
(* one of its packages is.                                                  *)
Listed(j) == {k[2] : k \in {m \in DOMAIN stored \cup DOMAIN markers : m[1] = j}}
Latest(j) == Max(Listed(j))

(* fetch_system_checkpoint and the comparison with the plan.                 *)
Fetchable(j, b) ==
    /\ <<j, b>> \in DOMAIN markers
    /\ \A k \in Objects(j, b) : k[3] \in DOMAIN markers[<<j, b>>].packages
    /\ \A r \in DOMAIN markers[<<j, b>>].packages :
        <<j, b, r>> \in DOMAIN stored /\ stored[<<j, b, r>>] = markers[<<j, b>>].packages[r]
Resumable(j, b) == b <= Len(Plan(j)) /\ Fetchable(j, b) /\ markers[<<j, b>>].roots = Plan(j)[b]

(* A job starts.  That of the core, and of a shard without roots, looks for   *)
(* its own marker and does not resume.                                      *)
Resumes(j) == j # Core /\ Plan(j)[1] # {}
Start(j) ==
    /\ worker[j].stage = "idle" /\ worker[j].attempt < MaxAttempts[policy]
    /\ LET begun == [Idle(worker[j].attempt + 1) EXCEPT !.batch = 1, !.stage = "build"] IN
       worker' = [worker EXCEPT ![j] =
           IF ~ Resumes(j)
           THEN IF j = Core /\ <<j, 1>> \in DOMAIN markers THEN [begun EXCEPT !.stage = "done"] ELSE begun
           ELSE IF Listed(j) = {} THEN begun
           ELSE IF ~ Resumable(j, Latest(j)) THEN [begun EXCEPT !.stage = "unresumable"]
           ELSE [begun EXCEPT !.batch = Latest(j) + 1, !.packages = markers[<<j, Latest(j)>>].packages,
                              !.stage = IF Latest(j) = Len(Plan(j)) THEN "done" ELSE "build"]]
    /\ UNCHANGED <<policy, stored, markers, collected>>

(* Poudriere builds the batch on what is there; it may find a package it      *)
(* already has out of date and build it again.                              *)
Build(j) ==
    /\ worker[j].stage = "build"
    /\ \E again \in SUBSET DOMAIN worker[j].packages :
        LET roots == Plan(j)[worker[j].batch]
            kept == DOMAIN worker[j].packages \ again
        IN worker' = [worker EXCEPT
            ![j].packages = [r \in roots |-> IF r \in kept THEN @[r] ELSE worker[j].attempt * 10 + worker[j].batch],
            ![j].stage = "verify"]
    /\ UNCHANGED <<policy, stored, markers, collected>>

\* Mutant: only the roots are compared.
CumulativeRoots(marker, previous) == previous.roots \subseteq marker.roots

(* validate: a checkpoint keeps the roots and the bytes of the one before.    *)
Cumulative(marker, previous) ==
    /\ previous.roots \subseteq marker.roots
    /\ \A r \in DOMAIN previous.packages :
        r \in DOMAIN marker.packages /\ marker.packages[r] = previous.packages[r]

MarkerOf(j) == [roots |-> Plan(j)[worker[j].batch], packages |-> worker[j].packages]

Verify(j) ==
    /\ worker[j].stage = "verify"
    /\ LET before == <<j, worker[j].batch - 1>> IN
       IF worker[j].batch = 1 \/ (before \in DOMAIN markers /\ Cumulative(MarkerOf(j), markers[before]))
       THEN Stage(j, "upload") ELSE Stage(j, "idle")
    /\ UNCHANGED <<policy, stored, markers, collected>>

(* upload_immutable: the packages one by one, an object that exists must be   *)
(* the same.                                                                *)
Missing(j) == {r \in DOMAIN worker[j].packages : <<j, worker[j].batch, r>> \notin DOMAIN stored}
Conflicts(j) ==
    \E r \in DOMAIN worker[j].packages \ Missing(j) :
        stored[<<j, worker[j].batch, r>>] # worker[j].packages[r]

Upload(j) ==
    /\ worker[j].stage = "upload"
    /\ \E r \in Missing(j) :
        stored' = [k \in DOMAIN stored \cup {<<j, worker[j].batch, r>>} |->
                      IF k \in DOMAIN stored THEN stored[k] ELSE worker[j].packages[r]]
    /\ UNCHANGED <<policy, markers, worker, collected>>

UploadConflict(j) ==
    /\ worker[j].stage = "upload" /\ Conflicts(j)
    /\ Stage(j, "idle")
    /\ UNCHANGED <<policy, stored, markers, collected>>

(* complete.json, then the next batch.                                       *)
Complete(j) ==
    /\ worker[j].stage = "upload" /\ Missing(j) = {} /\ ~ Conflicts(j)
    /\ LET at == <<j, worker[j].batch>>
           fits == at \in DOMAIN markers => markers[at] = MarkerOf(j)
       IN /\ markers' = IF fits THEN [k \in DOMAIN markers \cup {at} |-> IF k = at THEN MarkerOf(j) ELSE markers[k]]
                        ELSE markers
          /\ worker' = [worker EXCEPT ![j].batch = IF fits THEN @ + 1 ELSE @,
                                      ![j].stage = IF ~ fits THEN "idle"
                                                   ELSE IF worker[j].batch = Len(Plan(j)) THEN "done" ELSE "build"]
    /\ UNCHANGED <<policy, stored, collected>>

(* A watchdog, a cancelled run, a lost host.                                 *)
Kill(j) ==
    /\ worker[j].stage \in {"build", "verify", "upload"}
    /\ worker' = [worker EXCEPT ![j] = Idle(@.attempt)]
    /\ UNCHANGED <<policy, stored, markers, collected>>

\* Mutant: it runs when every job has left a checkpoint.
FinalizeAnyway ==
    /\ Jobs # {} /\ collected = NoCollection
    /\ \A j \in Jobs : Listed(j) # {} /\ Fetchable(j, Latest(j))
    /\ collected' = [j \in Jobs |-> markers[<<j, Latest(j)>>].packages]
    /\ UNCHANGED <<policy, stored, markers, worker>>

(* The finalizer runs when every job succeeded.                              *)
Finalize ==
    /\ Jobs # {} /\ collected = NoCollection
    /\ \A j \in Jobs : worker[j].stage = "done"
    /\ \A j \in Jobs : Listed(j) # {} /\ Fetchable(j, Latest(j))
    /\ collected' = [j \in Jobs |-> markers[<<j, Latest(j)>>].packages]
    /\ UNCHANGED <<policy, stored, markers, worker>>

Next ==
    \/ \E j \in Jobs : Start(j) \/ Build(j) \/ Verify(j) \/ Upload(j) \/ UploadConflict(j)
                       \/ Complete(j) \/ Kill(j)
    \/ Finalize

Spec == Init /\ [][Next]_vars

-----------------------------------------------------------------------------
(* Properties.                                                              *)

\* partition_roots.py:34-55: the shards share out the roots, related roots stay
\* together, a heavy root is alone, and no shard is ahead of another by more
\* than the work that cannot be divided.
Related(r) ==
    LET light == policy.roots \ policy.heavy
        Closed(S) == \A q \in S, t \in light \ S : Family(policy, q) \cap Family(policy, t) = {}
    IN CHOOSE S \in SUBSET light :
        /\ r \in S /\ Closed(S)
        /\ \A T \in SUBSET S : r \in T /\ Closed(T) => T = S

ShardsAreBalanced ==
    LET shards == Partition(policy)
        Members(i) == ToSet(shards[i])
        light == {i \in DOMAIN shards : Members(i) \cap policy.heavy = {}}
    IN /\ UNION {Members(i) : i \in DOMAIN shards} = policy.roots
       /\ \A i, k \in DOMAIN shards : i # k => Members(i) \cap Members(k) = {}
       /\ \A i \in DOMAIN shards \ light : Cardinality(Members(i)) = 1
       /\ \A i, k \in light : \A r \in Members(i) :
             /\ Related(r) \subseteq Members(i)
             /\ Cost(policy, Members(i)) - Cost(policy, Related(r)) <= Cost(policy, Members(k))

\* batch_checkpoint.py:36-41, "cumulative checkpoint changed completed package
\* bytes": whatever is killed and built again, a later checkpoint of a job
\* holds every package of an earlier one as it was.
CheckpointsAreCumulative ==
    \A k, m \in DOMAIN markers : (k[1] = m[1] /\ k[2] < m[2]) =>
        /\ markers[k].roots \subseteq markers[m].roots
        /\ \A r \in DOMAIN markers[k].packages :
              r \in DOMAIN markers[m].packages /\ markers[m].packages[r] = markers[k].packages[r]

\* What the finalizer merges has every root once, whichever attempts built it.
CollectionIsComplete ==
    collected # NoCollection =>
        /\ UNION {DOMAIN collected[j] : j \in Jobs} = policy.roots \cup (IF Core \in Jobs THEN {0} ELSE {})
        /\ \A i, j \in Jobs : i # j => DOMAIN collected[i] \cap DOMAIN collected[j] = {}

\* docs/development-multiarch.md:166, "Completed batch checkpoints survive a
\* watchdog kill, so a rerun resumes rather than repeating the shard."
ARerunResumes ==
    \A j \in Jobs : (\E k \in DOMAIN markers : k[1] = j) => worker[j].stage # "unresumable"
=============================================================================
