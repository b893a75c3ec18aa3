---------------------------- MODULE DeltaLayers ----------------------------
(***************************************************************************)
(* Which packages FreeSense builds and which it takes from the frozen       *)
(* upstream mirror.  scripts/package_requirements.py evaluates the           *)
(* configured ports tree, delta_closure.py decides what must be built,       *)
(* mirror_plan.py seals the result, and binary_seed.py selects the official  *)
(* packages of the older seed from the same requirements.  The workers build   *)
(* what the sealed plan lists (scripts/runner).                              *)
(*                                                                         *)
(* A port is a category/port@flavor; several ports can produce packages of   *)
(* one name, several packages can share a flavourless path.  Loops over       *)
(* work lists are steps, in any order.                                      *)
(***************************************************************************)
EXTENDS Integers, FiniteSets

CONSTANTS
    Ports, Names,
    Inputs,       \* ports trees with a catalogue, see below
    Always,       \* ports that are collected whatever the roots: rust and pkg
    Required,     \* packages that the mirror must hold: pkg
    MaxDelta, MinMirror, MaxChurn    \* the ceilings of config/mirror-policy.json

Components == {"system", "packages"}

\* An input is a ports tree with make.conf and the catalogue of the mirror:
\*   ports       [Ports -> [name, path, version, options, flags]]
\*   needs       [Ports -> the ports it depends on in any way]
\*   links       [Ports -> those of LIB_DEPENDS and RUN_DEPENDS]
\*   roots       [Components -> ports]
\*   default     [paths -> the port that a path without a flavor builds]
\*   overridden  paths whose OPTIONS make.conf sets
\*   upstream    [Names -> official packages of that name: path, version, options]
\*   claimed     names whose FreeSense name is an official package's
\*   branded     whether there is an official FreeSense* package

VARIABLES
    input,
    stage,       \* "collect", "classify", "close", "select", "seal", "done", "failed"
    visited,     \* ports that were evaluated
    pending,     \* ports that are to be
    records,     \* [names found -> the port, and the names it links]
    customized,  \* packages FreeSense must build for their own sake
    stack, forced,   \* work list and result of `dependents`
    accepted,    \* official packages of the seed
    assembled    \* [components that were built -> packages of their queues]

vars == <<input, stage, visited, pending, records, customized, stack, forced, accepted, assembled>>
collected == <<input, visited, pending, records>>

-----------------------------------------------------------------------------
(* Collector.visit                                                          *)

Port(p) == input.ports[p]
NamesOf(P) == {Port(p).name : p \in P}

(* Another port may produce a recorded package if nothing that was evaluated *)
(* differs; its dependencies are not looked at.                              *)
SamePackage(p, q) == Port(p) = Port(q)

Record(p) ==
    LET n == Port(p).name IN
    /\ n \notin DOMAIN records
    /\ records' = [m \in DOMAIN records \cup {n} |->
                      IF m = n THEN [port |-> p, deps |-> NamesOf(input.links[p] \ {p})] ELSE records[m]]
    /\ pending' = (pending \cup input.needs[p]) \ (visited \cup {p})
    /\ UNCHANGED stage

Repeat(p) ==
    LET n == Port(p).name IN
    /\ n \in DOMAIN records
    /\ stage' = IF SamePackage(p, records[n].port) THEN stage ELSE "failed"
    /\ pending' = pending \ {p}
    /\ UNCHANGED records

Visit(p) ==
    /\ stage = "collect" /\ p \in pending
    /\ visited' = visited \cup {p}
    /\ Record(p) \/ Repeat(p)
    /\ UNCHANGED <<input, customized, stack, forced, accepted, assembled>>

-----------------------------------------------------------------------------
(* delta_closure.classify and dependents                                    *)

Of(n) == Port(records[n].port)
Upstream(n) == CHOOSE u \in input.upstream[n] : TRUE

(* An ambiguous name counts as unpublished.                                  *)
Published(n) == Cardinality(input.upstream[n]) = 1

(* EXTRA_PATCHES are not a divergence here.                                  *)
SourceOnly(n) == Of(n).flags \cap {"own", "overlay", "knobs", "kernel"} # {}
Diverges(n) == Upstream(n).version = Of(n).version /\ Upstream(n).options # Of(n).options

Classify ==
    /\ stage = "collect" /\ pending = {}
    /\ customized' = {n \in DOMAIN records :
           \/ SourceOnly(n)
           \/ Of(n).path \in input.overridden
           \/ ~ Published(n)
           \/ Published(n) /\ Diverges(n)}
    /\ stack' = customized' /\ stage' = "close"
    /\ UNCHANGED <<collected, forced, accepted, assembled>>

Parents(n) == {m \in DOMAIN records : n \in records[m].deps}

\* Mutant: the dependents of a dependent are not visited.
PopOnly(n) ==
    /\ stage = "close" /\ n \in stack
    /\ forced' = forced \cup (Parents(n) \ customized)
    /\ stack' = stack \ {n}
    /\ UNCHANGED <<collected, stage, customized, accepted, assembled>>

Pop(n) ==
    /\ stage = "close" /\ n \in stack
    /\ LET new == Parents(n) \ (customized \cup forced) IN
        /\ forced' = forced \cup new
        /\ stack' = (stack \ {n}) \cup new
    /\ UNCHANGED <<collected, stage, customized, accepted, assembled>>

Build == customized \cup forced
Take == DOMAIN records \ Build

-----------------------------------------------------------------------------
(* binary_seed.select, over the same requirements.  Neither reads what the   *)
(* other decided.                                                           *)

(* What an official record says of its dependencies is what was published.    *)
DependencyMatches(n) == \E u \in input.upstream[n] : u.version = Of(n).version /\ u.path = Of(n).path
Acceptable(n) ==
    /\ Of(n).flags = {}
    /\ Published(n)
    /\ Upstream(n).version = Of(n).version /\ Upstream(n).path = Of(n).path
    /\ Upstream(n).options = Of(n).options
    /\ \A d \in records[n].deps : DependencyMatches(d)

(* An ambiguous name among the requested ones disqualifies the whole seed.    *)
Select ==
    /\ stage = "close" /\ stack = {}
    /\ accepted' = IF \E n \in DOMAIN records : Cardinality(input.upstream[n]) > 1 THEN {}
                   ELSE {n \in DOMAIN records : Acceptable(n)}
    /\ stage' = "select"
    /\ UNCHANGED <<collected, customized, stack, forced, assembled>>

\* Mutant: checked against what the catalogue has, not against the selection.
InvalidAtOnce == {n \in accepted : ~ records[n].deps \subseteq {m \in Names : Cardinality(input.upstream[m]) = 1}}

Invalid == {n \in accepted : ~ records[n].deps \subseteq accepted}

(* One round of the loop to the fixed point.                                 *)
Reject ==
    /\ stage = "select" /\ Invalid # {}
    /\ accepted' = accepted \ Invalid
    /\ UNCHANGED <<collected, stage, customized, stack, forced, assembled>>

-----------------------------------------------------------------------------
(* mirror_plan.plan                                                         *)

(* reachable: the packages a component's roots link, transitively.           *)
Closed(S) == \A n \in S \cap DOMAIN records : records[n].deps \subseteq S
Reachable(R) == {n \in DOMAIN records : \A S \in SUBSET DOMAIN records : R \subseteq S /\ Closed(S) => n \in S}
Members(c) == Reachable(NamesOf(input.roots[c]))

\* Mutant: a path can stand for any number of packages.
NeverCollapsed(c) == FALSE

(* The bulk list of a component holds paths; a path stands for one package.   *)
Roots(c) == Members(c) \cap Build
Collapsed(c) == \E m, n \in Roots(c) : m # n /\ Of(m).path = Of(n).path

Churn == {n \in Take : Published(n) /\ Upstream(n).version # Of(n).version}

Sealable ==
    /\ \A n \in Take : Published(n)
    /\ Build \cap input.claimed = {} /\ ~ input.branded
    /\ Cardinality(Build) <= MaxDelta
    /\ Cardinality(Take) >= MinMirror
    /\ Cardinality(Churn) <= MaxChurn
    /\ Required \subseteq Take
    /\ \A c \in Components : ~ Collapsed(c)
    /\ Build # {} => \E c \in Components : Roots(c) # {}

Seal ==
    /\ stage = "select" /\ Invalid = {}
    /\ stage' = IF Sealable THEN "done" ELSE "failed"
    /\ UNCHANGED <<collected, customized, stack, forced, accepted, assembled>>

-----------------------------------------------------------------------------
(* What a worker builds from the sealed plan                                *)

(* write_delta_bulk: a path that is listed builds its default flavor.          *)
Listed(c) == {input.default[Of(n).path] : n \in Roots(c)}

(* What is in the mirror or in the System repository is not built again, and   *)
(* so needs what it links only, unless the tree has another version of it.     *)
Fetched(c) == (Take \ Churn) \cup IF c = "packages" THEN assembled["system"] ELSE {}
Wanted(c, p) == IF Port(p).name \in Fetched(c) THEN input.links[p] ELSE input.needs[p]
Queue(c) ==
    {p \in Ports : \A S \in SUBSET Ports : Listed(c) \subseteq S /\ (\A q \in S : Wanted(c, q) \subseteq S) => p \in S}

(* verify_delta_build: nothing is made that is in neither list of the plan.    *)
Verified(c) == NamesOf(Queue(c)) \subseteq Take \cup Build

(* An empty list fails, and a failure leaves nothing.  Packages are built on    *)
(* a System.                                                               *)
Assemble(c) ==
    /\ stage = "done" /\ c \notin DOMAIN assembled
    /\ c = "packages" => "system" \in DOMAIN assembled
    /\ Roots(c) # {} /\ Verified(c)
    /\ assembled' = [d \in DOMAIN assembled \cup {c} |-> IF d = c THEN NamesOf(Queue(c)) ELSE assembled[d]]
    /\ UNCHANGED <<collected, stage, customized, stack, forced, accepted>>

Available(c) == Take \cup assembled[c] \cup IF c = "packages" THEN assembled["system"] ELSE {}

-----------------------------------------------------------------------------

Init ==
    /\ input \in Inputs
    /\ stage = "collect" /\ visited = {}
    /\ pending = Always \cup UNION {input.roots[c] : c \in Components}
    /\ records = <<>>
    /\ customized = {} /\ stack = {} /\ forced = {} /\ accepted = {}
    /\ assembled = <<>>

Next ==
    \/ \E p \in Ports : Visit(p)
    \/ Classify
    \/ \E n \in Names : Pop(n)
    \/ Select \/ Reject \/ Seal
    \/ \E c \in Components : Assemble(c)

Spec == Init /\ [][Next]_vars

-----------------------------------------------------------------------------
(* Properties *)

(* What FreeSense builds is closed under dependents and no larger than that      *)
(* demands, and what it takes from the mirror stands on packages that were       *)
(* looked at: "Every dependent of a customized package must come from the         *)
(* FreeSense layer too" (delta_closure.py), in whatever order the work lists go.  *)
Least(S) ==
    /\ customized \subseteq S
    /\ \A m \in DOMAIN records : records[m].deps \cap S # {} => m \in S

LayersAreExact ==
    stage \in {"select", "done"} =>
        /\ \A n \in DOMAIN records : records[n].deps \subseteq DOMAIN records
        /\ Least(Build)
        /\ \A S \in SUBSET DOMAIN records : Least(S) => Build \subseteq S

(* The older seed is complete by itself, and the mirror holds what it held,       *)
(* though the two are decided from different evidence: except for a port whose     *)
(* OPTIONS make.conf sets to what upstream has, and what links such a port.        *)
Overridden == {n \in DOMAIN records : Of(n).path \in input.overridden}
SeedIsSound ==
    stage = "done" => \A n \in accepted :
        /\ records[n].deps \subseteq accepted
        /\ n \in Take \/ Reachable({n}) \cap Overridden # {}

(* A package that a component reaches is in the mirror or was built, but for one   *)
(* way: it is of another flavor than its path builds, and the plan allows the       *)
(* flavor that was built in its place, which is a package of its own and no root.   *)
(* "Nothing would fail" when two packages share a path (mirror_plan.py:115-120).    *)
Missing(c) == Members(c) \ Available(c)
Supplanted(c, n) ==
    LET p == input.default[Of(n).path] IN
    /\ n \in Build
    /\ Port(p).name \in (Take \cup Build) \ {n}
    /\ \A m \in Roots(c) : records[m].port # p
NothingIsLost == \A c \in DOMAIN assembled : \A n \in Missing(c) : Supplanted(c, n)

=============================================================================
