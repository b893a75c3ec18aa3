--------------------------- MODULE PlanningProofs ---------------------------
(***************************************************************************)
(* The layers of packages, the reuse of built ones, the farm's shards,            *)
(* checkpoints and collections and the images of a release, proved for every      *)
(* value of their constants, and what ComponentIdentityProofs proves, for the      *)
(* composition that MCPlanning checks: a machine takes its own steps, and no       *)
(* other touches its variables.                                               *)
(***************************************************************************)
EXTENDS MCPlanning, TLAPS, FiniteSetTheorems, WellFoundedInduction

-----------------------------------------------------------------------------
(* DeltaLayers, for any ports trees in which a package needs what it links, and  *)
(* any ceilings.                                                            *)

(* Every name that a record links is that of a port that was or will be visited.  *)
RequirementsInv ==
    /\ input \in Configured
    /\ records = [n \in DOMAIN records |-> records[n]]
    /\ \A p \in visited : Layers!Port(p).name \in DOMAIN records
    /\ \A n \in DOMAIN records : records[n].deps \subseteq Layers!NamesOf(visited \cup pending)
    /\ \A n \in DOMAIN records : records[n].port \in Ports /\ Layers!Port(records[n].port).name = n
    /\ collecting = "collect" => forced = {}

Closing == {"close", "select", "done"}
Selected == {"select", "done"}

Customized ==
    {n \in DOMAIN records :
        \/ Layers!SourceOnly(n)
        \/ Layers!Of(n).path \in input.overridden
        \/ ~ Layers!Published(n)
        \/ Layers!Published(n) /\ Layers!Diverges(n)}

(* The closure is never larger than it has to be, and lacks no dependents but     *)
(* those of the packages on the stack.                                       *)
ClosureInv ==
    collecting \in Closing =>
        /\ customized = Customized
        /\ \A n \in DOMAIN records : records[n].deps \subseteq DOMAIN records
        /\ stack \subseteq Layers!Build /\ Layers!Build \subseteq DOMAIN records
        /\ \A n \in Layers!Build \ stack : Layers!Parents(n) \subseteq Layers!Build
        /\ \A S \in SUBSET DOMAIN records : Layers!Least(S) => Layers!Build \subseteq S

SelectionInv ==
    /\ collecting \in Selected =>
          /\ stack = {}
          /\ \A n \in accepted : n \in DOMAIN records /\ Layers!Acceptable(n)
    /\ collecting = "done" => Layers!Invalid = {} /\ Layers!Sealable

(* Components are built after the plan was sealed, what their lists ask for and     *)
(* nothing that is not in the plan.                                          *)
AssembledInv ==
    \A c \in DOMAIN assembled :
        /\ collecting = "done" /\ c \in Layers!Components
        /\ Layers!NamesOf(Layers!Listed(c)) \subseteq assembled[c]
        /\ assembled[c] \subseteq Layers!Take \cup Layers!Build

LayersInv == RequirementsInv /\ ClosureInv /\ SelectionInv /\ AssembledInv

LEMMA InitLayers == Layers!Init => LayersInv
BY DEF Layers!Init, LayersInv, RequirementsInv, ClosureInv, SelectionInv, AssembledInv, Closing, Selected

(* What is said of a package depends on what was collected only.                 *)
LEMMA CollectedFixed ==
    ASSUME UNCHANGED <<input, visited, pending, records>>
    PROVE  /\ Customized' = Customized
           /\ \A n : Layers!Parents(n)' = Layers!Parents(n)
           /\ \A n : Layers!Acceptable(n)' = Layers!Acceptable(n)
           /\ RequirementsInv /\ collecting' # "collect" => RequirementsInv'
<1>1. /\ \A p : Layers!Port(p)' = Layers!Port(p)
      /\ \A n : Layers!Of(n)' = Layers!Of(n)
      /\ \A n : Layers!Upstream(n)' = Layers!Upstream(n)
      /\ \A n : Layers!Published(n)' = Layers!Published(n)
    BY DEF Layers!Port, Layers!Of, Layers!Upstream, Layers!Published
<1>2. /\ \A n : Layers!SourceOnly(n)' = Layers!SourceOnly(n)
      /\ \A n : Layers!Diverges(n)' = Layers!Diverges(n)
      /\ \A n : Layers!DependencyMatches(n)' = Layers!DependencyMatches(n)
    BY <1>1 DEF Layers!SourceOnly, Layers!Diverges, Layers!DependencyMatches
<1>3. Customized' = Customized
    BY <1>1, <1>2 DEF Customized
<1>4. \A n : Layers!Parents(n)' = Layers!Parents(n)
    BY DEF Layers!Parents
<1>5. \A n : Layers!Acceptable(n)' = Layers!Acceptable(n)
    BY <1>1, <1>2 DEF Layers!Acceptable
<1>6. RequirementsInv /\ collecting' # "collect" => RequirementsInv'
    BY <1>1 DEF RequirementsInv, Layers!NamesOf
<1> QED  BY <1>3, <1>4, <1>5, <1>6

(* A step after the closure started, or one that fails.                          *)
LEMMA ClosureFixed ==
    ASSUME UNCHANGED <<input, visited, pending, records, customized, forced, stack>>,
           ClosureInv, collecting \in Closing
    PROVE  ClosureInv'
<1>1. Customized' = Customized /\ \A n : Layers!Parents(n)' = Layers!Parents(n)
    BY CollectedFixed
<1>2. Layers!Build' = Layers!Build /\ \A S : Layers!Least(S)' = Layers!Least(S)
    BY DEF Layers!Build, Layers!Least
<1> QED  BY <1>1, <1>2 DEF ClosureInv

LEMMA SealFixed ==
    ASSUME UNCHANGED <<input, records, customized, forced, accepted>>
    PROVE  Layers!Invalid' = Layers!Invalid /\ Layers!Sealable' = Layers!Sealable
BY DEF Layers!Invalid, Layers!Sealable, Layers!Take, Layers!Build, Layers!Published, Layers!Churn, Layers!Upstream,
       Layers!Of, Layers!Port, Layers!Collapsed, Layers!Roots, Layers!Members, Layers!Reachable, Layers!Closed,
       Layers!NamesOf

LEMMA NothingAssembled ==
    ASSUME LayersInv, collecting # "done", UNCHANGED assembled
    PROVE  AssembledInv'
BY DEF LayersInv, AssembledInv

LEMMA AssemblyFixed ==
    ASSUME UNCHANGED <<input, records, customized, forced>>
    PROVE  /\ Layers!Take' = Layers!Take /\ Layers!Build' = Layers!Build
           /\ \A c : Layers!NamesOf(Layers!Listed(c))' = Layers!NamesOf(Layers!Listed(c))
BY DEF Layers!Take, Layers!Build, Layers!Listed, Layers!NamesOf, Layers!Port, Layers!Of, Layers!Roots,
       Layers!Members, Layers!Reachable, Layers!Closed

LEMMA VisitKeepsLayers ==
    ASSUME LayersInv, NEW p \in Ports, Layers!Visit(p)
    PROVE  LayersInv'
<1> DEFINE seen == visited \cup pending
<1>1. /\ p \in pending /\ visited' = visited \cup {p} /\ UNCHANGED <<input, customized, stack, forced, accepted, assembled>>
      /\ collecting = "collect" /\ collecting' \in {"collect", "failed"}
    BY DEF Layers!Visit, Layers!Record, Layers!Repeat
<1>2. /\ \A q : Layers!Port(q)' = Layers!Port(q)
      /\ \A P : Layers!NamesOf(P)' = Layers!NamesOf(P)
    BY <1>1 DEF Layers!Port, Layers!NamesOf
<1>3. \A P, Q : P \subseteq Q => Layers!NamesOf(P) \subseteq Layers!NamesOf(Q)
    BY DEF Layers!NamesOf
<1>4. ASSUME Layers!Record(p) PROVE RequirementsInv'
    <2> DEFINE
        n == Layers!Port(p).name
        entry == [port |-> p, deps |-> Layers!NamesOf(input.links[p] \ {p})]
        all == visited' \cup pending'
    <2>1. /\ n \notin DOMAIN records
          /\ records' = [m \in DOMAIN records \cup {n} |-> IF m = n THEN entry ELSE records[m]]
          /\ pending' = (pending \cup input.needs[p]) \ (visited \cup {p})
        BY <1>4 DEF Layers!Record
    <2>2. input.links[p] \ {p} \subseteq input.needs[p]
        BY LinksAssumption DEF LayersInv, RequirementsInv
    <2>3. seen \subseteq all /\ input.needs[p] \subseteq all
        BY <1>1, <2>1
    <2>4. /\ entry.deps \subseteq Layers!NamesOf(all)
          /\ \A m \in DOMAIN records : records[m].deps \subseteq Layers!NamesOf(all)
        <3>1. Layers!NamesOf(seen) \subseteq Layers!NamesOf(all)
            BY <1>3, <2>3
        <3>2. Layers!NamesOf(input.links[p] \ {p}) \subseteq Layers!NamesOf(all)
            BY <1>3, <2>2, <2>3
        <3>3. \A m \in DOMAIN records : records[m].deps \subseteq Layers!NamesOf(seen)
            BY DEF LayersInv, RequirementsInv
        <3> QED  BY <3>1, <3>2, <3>3
    <2>5. \A m \in DOMAIN records' : records'[m].deps \subseteq Layers!NamesOf(visited \cup pending)'
        <3> HIDE DEF entry, all, n
        <3>1. \A m \in DOMAIN records' : records'[m] = IF m = n THEN entry ELSE records[m]
            BY <2>1
        <3>2. \A m \in DOMAIN records' : m = n \/ m \in DOMAIN records
            BY <2>1
        <3>3. \A m \in DOMAIN records' : records'[m].deps \subseteq Layers!NamesOf(all)
            BY <2>4, <3>1, <3>2
        <3>4. Layers!NamesOf(visited \cup pending)' = Layers!NamesOf(all)
            BY <1>1 DEF Layers!NamesOf, Layers!Port, all
        <3> QED  BY <3>3, <3>4
    <2>6. /\ records' = [m \in DOMAIN records' |-> records'[m]]
          /\ \A q \in visited' : Layers!Port(q).name \in DOMAIN records'
        BY <1>1, <2>1 DEF LayersInv, RequirementsInv
    <2>8. \A m \in DOMAIN records' : records'[m].port \in Ports /\ Layers!Port(records'[m].port).name = m
        BY <2>1 DEF LayersInv, RequirementsInv
    <2>7. input' \in Configured /\ forced' = {}
        BY <1>1 DEF LayersInv, RequirementsInv
    <2> HIDE DEF n, entry, all
    <2> QED  BY <1>2, <2>5, <2>6, <2>7, <2>8 DEF RequirementsInv
<1>5. ASSUME Layers!Repeat(p) PROVE RequirementsInv'
    <2>1. Layers!Port(p).name \in DOMAIN records /\ records' = records /\ pending' = pending \ {p}
        BY <1>5 DEF Layers!Repeat
    <2>2. visited' \cup pending' = visited \cup pending
        BY <1>1, <2>1
    <2>3. Layers!NamesOf(visited \cup pending)' = Layers!NamesOf(visited \cup pending)
        BY <1>1, <2>2 DEF Layers!NamesOf, Layers!Port
    <2>4. \A q \in visited' : Layers!Port(q).name \in DOMAIN records
        BY <1>1, <2>1 DEF LayersInv, RequirementsInv
    <2>5. input' \in Configured /\ forced' = {}
        BY <1>1 DEF LayersInv, RequirementsInv
    <2> QED  BY <1>2, <2>1, <2>3, <2>4, <2>5 DEF LayersInv, RequirementsInv
<1>6. RequirementsInv'
    <2>1. Layers!Record(p) \/ Layers!Repeat(p)
        BY DEF Layers!Visit
    <2> QED  BY <1>4, <1>5, <2>1
<1>7. AssembledInv'
    BY <1>1, NothingAssembled
<1> QED  BY <1>1, <1>6, <1>7 DEF LayersInv, ClosureInv, SelectionInv, Closing, Selected

LEMMA ClassifyKeepsLayers == LayersInv /\ Layers!Classify => LayersInv'
<1> SUFFICES ASSUME LayersInv, Layers!Classify PROVE LayersInv'
    OBVIOUS
<1>1. /\ collecting = "collect" /\ collecting' = "close" /\ pending = {}
      /\ customized' = Customized /\ stack' = Customized
      /\ UNCHANGED <<input, visited, pending, records, forced, accepted, assembled>>
    BY DEF Layers!Classify, Layers!collected, Customized
<1>2. RequirementsInv' /\ Customized' = Customized
    BY <1>1, CollectedFixed DEF LayersInv
<1>3. forced' = {} /\ Layers!Build' = Customized
    BY <1>1 DEF LayersInv, RequirementsInv, Layers!Build
<1>4. \A n \in DOMAIN records : records[n].deps \subseteq DOMAIN records
    BY <1>1 DEF LayersInv, RequirementsInv, Layers!NamesOf
<1>5. \A S : Layers!Least(S)' => Customized \subseteq S
    BY <1>1 DEF Layers!Least
<1>6. Customized \subseteq DOMAIN records
    BY DEF Customized
<1>7. ClosureInv'
    BY <1>1, <1>2, <1>3, <1>4, <1>5, <1>6 DEF ClosureInv
<1>8. AssembledInv'
    BY <1>1, NothingAssembled
<1> QED  BY <1>1, <1>2, <1>7, <1>8 DEF LayersInv, SelectionInv, Selected

(* A dependent of a package in the closure is added, and nothing that a closed set  *)
(* could do without.                                                        *)
LEMMA PopKeepsLayers ==
    ASSUME LayersInv, NEW n \in KnownNames, Layers!Pop(n)
    PROVE  LayersInv'
<1> DEFINE new == Layers!Parents(n) \ (customized \cup forced)
<1>1. /\ collecting = "close" /\ n \in stack
      /\ forced' = forced \cup new /\ stack' = (stack \ {n}) \cup new
      /\ UNCHANGED <<input, visited, pending, records, collecting, customized, accepted, assembled>>
    BY DEF Layers!Pop, Layers!collected
<1>2. RequirementsInv' /\ Customized' = Customized /\ \A m : Layers!Parents(m)' = Layers!Parents(m)
    BY <1>1, CollectedFixed DEF LayersInv
<1>3. Layers!Build' = Layers!Build \cup new /\ Layers!Parents(n) \subseteq Layers!Build'
    BY <1>1 DEF Layers!Build
<1>4. new \subseteq DOMAIN records
    BY DEF Layers!Parents
<1>5. \A S \in SUBSET DOMAIN records : Layers!Least(S)' => Layers!Build' \subseteq S
    <2> SUFFICES ASSUME NEW S \in SUBSET DOMAIN records, Layers!Least(S) PROVE Layers!Build' \subseteq S
        BY <1>1 DEF Layers!Least
    <2>1. Layers!Build \subseteq S /\ n \in S
        BY <1>1 DEF LayersInv, ClosureInv, Closing
    <2>2. Layers!Parents(n) \subseteq S
        BY <2>1 DEF Layers!Parents, Layers!Least
    <2> QED  BY <1>3, <2>1, <2>2
<1>6. ASSUME NEW m \in Layers!Build' \ stack' PROVE Layers!Parents(m)' \subseteq Layers!Build'
    <2>1. m \in Layers!Build /\ (m = n \/ m \notin stack)
        BY <1>1, <1>3
    <2> QED  BY <1>1, <1>2, <1>3, <2>1 DEF LayersInv, ClosureInv, Closing
<1> HIDE DEF new
<1>7. ClosureInv'
    BY <1>1, <1>2, <1>3, <1>4, <1>5, <1>6 DEF LayersInv, ClosureInv, Closing
<1>8. AssembledInv'
    BY <1>1, NothingAssembled
<1> QED  BY <1>1, <1>2, <1>7, <1>8 DEF LayersInv, SelectionInv, Selected

LEMMA StepLayers == LayersInv /\ [Layers!Next]_(Layers!vars) => LayersInv'
<1> SUFFICES ASSUME LayersInv, [Layers!Next]_(Layers!vars) PROVE LayersInv'
    OBVIOUS
<1>1. ASSUME NEW p \in Ports, Layers!Visit(p) PROVE LayersInv'
    BY <1>1, VisitKeepsLayers
<1>2. CASE Layers!Classify
    BY <1>2, ClassifyKeepsLayers
<1>3. ASSUME NEW n \in KnownNames, Layers!Pop(n) PROVE LayersInv'
    BY <1>3, PopKeepsLayers
<1>4. CASE Layers!Select
    <2>1. /\ collecting = "close" /\ collecting' = "select" /\ stack = {}
          /\ \A n \in accepted' : n \in DOMAIN records /\ Layers!Acceptable(n)
          /\ UNCHANGED <<input, visited, pending, records, customized, stack, forced, assembled>>
        BY <1>4 DEF Layers!Select, Layers!collected
    <2>2. RequirementsInv' /\ \A n : Layers!Acceptable(n)' = Layers!Acceptable(n)
        BY <2>1, CollectedFixed DEF LayersInv
    <2>3. ClosureInv'
        BY <2>1, ClosureFixed DEF LayersInv, Closing
    <2> QED  BY <2>1, <2>2, <2>3, NothingAssembled DEF LayersInv, SelectionInv
<1>5. CASE Layers!Reject
    <2>1. /\ collecting = "select" /\ accepted' \subseteq accepted
          /\ UNCHANGED <<input, visited, pending, records, collecting, customized, stack, forced, assembled>>
        BY <1>5 DEF Layers!Reject, Layers!collected
    <2>2. RequirementsInv' /\ \A n : Layers!Acceptable(n)' = Layers!Acceptable(n)
        BY <2>1, CollectedFixed DEF LayersInv
    <2>3. ClosureInv'
        BY <2>1, ClosureFixed DEF LayersInv, Closing
    <2> QED  BY <2>1, <2>2, <2>3, NothingAssembled DEF LayersInv, SelectionInv, Selected
<1>6. CASE Layers!Seal
    <2>1. /\ collecting = "select" /\ collecting' \in {"done", "failed"} /\ Layers!Invalid = {}
          /\ collecting' = "done" => Layers!Sealable
          /\ UNCHANGED <<input, visited, pending, records, customized, stack, forced, accepted, assembled>>
        BY <1>6 DEF Layers!Seal, Layers!collected
    <2>2. RequirementsInv' /\ \A n : Layers!Acceptable(n)' = Layers!Acceptable(n)
        BY <2>1, CollectedFixed DEF LayersInv
    <2>3. ClosureInv'
        BY <2>1, ClosureFixed DEF LayersInv, Closing
    <2>4. SelectionInv'
        <3>1. Layers!Invalid' = Layers!Invalid /\ Layers!Sealable' = Layers!Sealable
            BY <2>1, SealFixed
        <3> QED  BY <2>1, <2>2, <3>1 DEF LayersInv, SelectionInv, Selected
    <2> QED  BY <2>1, <2>2, <2>3, <2>4, NothingAssembled DEF LayersInv
<1>7. ASSUME NEW c \in Layers!Components, Layers!Assemble(c) PROVE LayersInv'
    <2> DEFINE queued == Layers!NamesOf(Layers!Queue(c))
    <2>1. /\ collecting = "done" /\ Layers!Verified(c)
          /\ assembled' = [d \in DOMAIN assembled \cup {c} |-> IF d = c THEN queued ELSE assembled[d]]
          /\ UNCHANGED <<input, collecting, visited, pending, records, customized, stack, forced, accepted>>
        BY <1>7 DEF Layers!Assemble, Layers!collected
    <2>2. RequirementsInv' /\ \A n : Layers!Acceptable(n)' = Layers!Acceptable(n)
        BY <2>1, CollectedFixed DEF LayersInv
    <2>3. ClosureInv'
        BY <2>1, ClosureFixed DEF LayersInv, Closing
    <2>4. SelectionInv'
        <3>1. Layers!Invalid' = Layers!Invalid /\ Layers!Sealable' = Layers!Sealable
            BY <2>1, SealFixed
        <3> QED  BY <2>1, <2>2, <3>1 DEF LayersInv, SelectionInv, Selected
    <2>5. Layers!Listed(c) \subseteq Layers!Queue(c)
        <3>1. Layers!Roots(c) \subseteq DOMAIN records
            BY DEF Layers!Roots, Layers!Members, Layers!Reachable
        <3>2. Layers!Listed(c) \subseteq Ports
            BY <3>1, DefaultsAssumption DEF LayersInv, RequirementsInv, Layers!Listed, Layers!Of, Layers!Port
        <3> QED  BY <3>2 DEF Layers!Queue
    <2>6. Layers!NamesOf(Layers!Listed(c)) \subseteq queued /\ queued \subseteq Layers!Take \cup Layers!Build
        BY <2>1, <2>5 DEF Layers!NamesOf, Layers!Verified
    <2>7. AssembledInv'
        <3>1. /\ Layers!Take' = Layers!Take /\ Layers!Build' = Layers!Build
              /\ \A d : Layers!NamesOf(Layers!Listed(d))' = Layers!NamesOf(Layers!Listed(d))
            BY <2>1, AssemblyFixed
        <3> HIDE DEF queued
        <3>2. \A d \in DOMAIN assembled' :
                  d \in Layers!Components /\ Layers!NamesOf(Layers!Listed(d)) \subseteq assembled'[d]
                  /\ assembled'[d] \subseteq Layers!Take \cup Layers!Build
            BY <2>1, <2>6 DEF LayersInv, AssembledInv
        <3> QED  BY <2>1, <3>1, <3>2 DEF AssembledInv, Layers!Components
    <2> QED  BY <2>2, <2>3, <2>4, <2>7 DEF LayersInv
<1>8. CASE UNCHANGED Layers!vars
    <2>1. UNCHANGED <<input, collecting, visited, pending, records, customized, stack, forced, accepted, assembled>>
        BY <1>8 DEF Layers!vars
    <2>2. RequirementsInv'
        BY <2>1 DEF LayersInv, RequirementsInv, Layers!NamesOf, Layers!Port
    <2>3. ClosureInv'
        BY <2>1, ClosureFixed DEF LayersInv, ClosureInv
    <2>4. Layers!Invalid' = Layers!Invalid /\ Layers!Sealable' = Layers!Sealable
        BY <2>1, SealFixed
    <2>5. AssembledInv'
        BY <2>1, AssemblyFixed DEF LayersInv, AssembledInv, Layers!Components
    <2> QED  BY <2>1, <2>2, <2>3, <2>4, <2>5, CollectedFixed DEF LayersInv, SelectionInv
<1> QED  BY <1>1, <1>2, <1>3, <1>4, <1>5, <1>6, <1>7, <1>8 DEF Layers!Next

LEMMA ClosureIsLeast ==
    ASSUME LayersInv, collecting \in Selected
    PROVE  /\ Layers!Build \subseteq DOMAIN records
           /\ Layers!Least(Layers!Build)
           /\ \A S \in SUBSET DOMAIN records : Layers!Least(S) => Layers!Build \subseteq S
<1>1. /\ customized \subseteq Layers!Build
      /\ \A m \in DOMAIN records : records[m].deps \cap Layers!Build # {} => m \in Layers!Build
    BY DEF LayersInv, ClosureInv, SelectionInv, Closing, Selected, Layers!Parents, Layers!Build
<1> QED  BY <1>1 DEF LayersInv, ClosureInv, Closing, Selected, Layers!Least

LEMMA LayersAreIt == LayersInv => Layers!LayersAreExact
BY ClosureIsLeast DEF LayersInv, ClosureInv, Closing, Selected, Layers!LayersAreExact

LEMMA ReachableFromDependency ==
    ASSUME NEW m \in DOMAIN records, NEW d \in records[m].deps
    PROVE  Layers!Reachable({d}) \subseteq Layers!Reachable({m})
<1> SUFFICES ASSUME NEW x \in Layers!Reachable({d}),
                    NEW S \in SUBSET DOMAIN records, {m} \subseteq S, Layers!Closed(S)
             PROVE  x \in S
    BY DEF Layers!Reachable
<1>1. d \in S
    BY DEF Layers!Closed
<1> QED  BY <1>1 DEF Layers!Reachable

(* The accepted packages that reach no overridden one can be left out of a set     *)
(* that is closed under dependents, and so are not in the smallest one.          *)
LEMMA SeedIsIt == LayersInv => Layers!SeedIsSound
<1> SUFFICES ASSUME LayersInv, collecting = "done" PROVE Layers!SeedIsSound
    BY DEF Layers!SeedIsSound
<1> DEFINE
    clean == {n \in accepted : Layers!Reachable({n}) \cap Layers!Overridden = {}}
    rest == Layers!Build \ clean
<1>1. /\ \A n \in accepted : n \in DOMAIN records /\ Layers!Acceptable(n)
      /\ \A n \in accepted : records[n].deps \subseteq accepted
    BY DEF LayersInv, SelectionInv, Selected, Layers!Invalid
<1>2. \A n \in customized \cap accepted : n \in Layers!Overridden
    <2> SUFFICES ASSUME NEW n \in customized \cap accepted PROVE Layers!Of(n).path \in input.overridden
        BY <1>1 DEF Layers!Overridden
    <2>1. n \in Customized /\ Layers!Acceptable(n)
        BY <1>1 DEF LayersInv, ClosureInv, Closing
    <2> QED  BY <2>1 DEF Customized, Layers!Acceptable, Layers!SourceOnly, Layers!Diverges
<1>3. \A n \in DOMAIN records : n \in Layers!Reachable({n})
    BY DEF Layers!Reachable
<1>4. customized \subseteq rest
    BY <1>1, <1>2, <1>3 DEF Layers!Build
<1>5. ASSUME NEW m \in DOMAIN records, NEW d \in records[m].deps \cap rest PROVE m \in rest
    <2>1. m \in Layers!Build
        BY ClosureIsLeast DEF Selected, Layers!Least
    <2>2. ASSUME m \in clean PROVE FALSE
        <3>1. d \in accepted /\ Layers!Reachable({d}) \subseteq Layers!Reachable({m})
            BY <1>1, <2>2, ReachableFromDependency
        <3> QED  BY <2>2, <3>1
    <2> QED  BY <2>1, <2>2
<1> HIDE DEF clean
<1>6. Layers!Build \subseteq rest
    <2>1. rest \in SUBSET DOMAIN records
        BY ClosureIsLeast DEF Selected
    <2>2. Layers!Least(rest)
        BY <1>4, <1>5 DEF Layers!Least
    <2>3. \A S \in SUBSET DOMAIN records : Layers!Least(S) => Layers!Build \subseteq S
        BY ClosureIsLeast DEF Selected
    <2> QED  BY <2>1, <2>2, <2>3
<1> USE DEF clean
<1> QED  BY <1>1, <1>6 DEF Layers!SeedIsSound, Layers!Take

(* A path that is listed builds a port of that path, under a name that the plan     *)
(* allows; no other root has the path.                                        *)
LEMMA NothingIs == LayersInv => Layers!NothingIsLost
<1> SUFFICES ASSUME LayersInv, NEW c \in DOMAIN assembled, NEW n \in Layers!Missing(c)
             PROVE  Layers!Supplanted(c, n)
    BY DEF Layers!NothingIsLost
<1> DEFINE p == input.default[Layers!Of(n).path]
<1>1. /\ collecting = "done" /\ c \in Layers!Components
      /\ Layers!NamesOf(Layers!Listed(c)) \subseteq assembled[c]
      /\ assembled[c] \subseteq Layers!Take \cup Layers!Build
    BY DEF LayersInv, AssembledInv
<1>2. ~ Layers!Collapsed(c)
    BY <1>1 DEF LayersInv, SelectionInv, Layers!Sealable
<1>3. n \in Layers!Roots(c) /\ n \in Layers!Build /\ n \in DOMAIN records /\ n \notin assembled[c]
    BY DEF Layers!Missing, Layers!Available, Layers!Members, Layers!Reachable, Layers!Take, Layers!Roots
<1>4. p \in Ports /\ Layers!Port(p).path = Layers!Of(n).path
    BY <1>3, DefaultsAssumption DEF LayersInv, RequirementsInv, Layers!Of, Layers!Port
<1>5. Layers!Port(p).name \in assembled[c]
    BY <1>1, <1>3 DEF Layers!Listed, Layers!NamesOf
<1>6. Layers!Port(p).name # n
    BY <1>3, <1>5
<1>7. ASSUME NEW m \in Layers!Roots(c), records[m].port = p PROVE FALSE
    <2>1. Layers!Of(m).path = Layers!Of(n).path
        BY <1>4, <1>7 DEF Layers!Of
    <2>2. m = n
        BY <1>2, <1>3, <2>1 DEF Layers!Collapsed
    <2>3. Layers!Port(records[n].port).name = n
        BY <1>3 DEF LayersInv, RequirementsInv
    <2> QED  BY <1>6, <1>7, <2>2, <2>3
<1> QED  BY <1>1, <1>3, <1>5, <1>6, <1>7 DEF Layers!Supplanted

-----------------------------------------------------------------------------
(* PackageReuse, for any packages without a cycle.  Where a package is compared    *)
(* through its dependencies, the argument takes a counterexample none of whose     *)
(* dependencies is one.                                                      *)

Whole(own, D, f) == f = [n \in D |-> [own |-> own[n], deps |-> [d \in Reuse!Inventory(n) |-> f[d]]]]
Complete(D) == \A n \in D : Reuse!Inventory(n) \subseteq D

LEMMA Smallest ==
    ASSUME NEW T \in SUBSET PackageSet, T # {}
    PROVE  \E n \in T : Reuse!Inventory(n) \cap T = {}
BY AcyclicAssumption DEF Reuse!Inventory

(* What is made of packages depends on their inputs alone.                      *)
LEMMA WholeUnique ==
    ASSUME NEW a, NEW b, NEW D \in SUBSET PackageSet, NEW E \in SUBSET PackageSet, NEW f, NEW g,
           Whole(a, D, f), Whole(b, E, g),
           NEW K \in SUBSET (D \cap E), Complete(K), \A n \in K : a[n] = b[n]
    PROVE  \A n \in K : f[n] = g[n]
<1> DEFINE T == {n \in K : f[n] # g[n]}
<1>1. SUFFICES ASSUME T # {} PROVE FALSE
    OBVIOUS
<1>2. PICK n \in T : Reuse!Inventory(n) \cap T = {}
    BY <1>1, Smallest
<1>3. \A d \in Reuse!Inventory(n) : f[d] = g[d]
    BY <1>2 DEF Complete
<1>4. /\ f[n] = [own |-> a[n], deps |-> [d \in Reuse!Inventory(n) |-> f[d]]]
      /\ g[n] = [own |-> b[n], deps |-> [d \in Reuse!Inventory(n) |-> g[d]]]
    BY DEF Whole
<1>5. [d \in Reuse!Inventory(n) |-> f[d]] = [d \in Reuse!Inventory(n) |-> g[d]]
    BY <1>3
<1> QED  BY <1>2, <1>4, <1>5

LEMMA WholeExists ==
    ASSUME NEW own
    PROVE  \E f : Whole(own, PackageSet, f)
<1> DEFINE
    Solves(n, D, f) == n \in D /\ Complete(D) /\ Whole(own, D, f)
    U == {n \in PackageSet : \E D \in SUBSET PackageSet : \E f : Solves(n, D, f)}
    Solution(n) == CHOOSE f : \E D \in SUBSET PackageSet : Solves(n, D, f)
    u == [n \in U |-> Solution(n)[n]]
<1>1. ASSUME NEW n \in PackageSet, NEW D \in SUBSET PackageSet, NEW f, Solves(n, D, f)
      PROVE  D \subseteq U /\ u[n] = f[n]
    <2>1. D \subseteq U
        BY <1>1
    <2>2. PICK E \in SUBSET PackageSet : Solves(n, E, Solution(n))
        BY <1>1
    <2>3. Complete(D \cap E)
        BY <1>1, <2>2 DEF Complete
    <2>4. Solution(n)[n] = f[n]
        BY <1>1, <2>2, <2>3, WholeUnique
    <2> QED  BY <1>1, <2>1, <2>4
<1>2. Complete(U) /\ Whole(own, U, u)
    <2>1. ASSUME NEW n \in U
          PROVE  /\ Reuse!Inventory(n) \subseteq U
                 /\ u[n] = [own |-> own[n], deps |-> [d \in Reuse!Inventory(n) |-> u[d]]]
        <3>0. PICK D \in SUBSET PackageSet : \E f : Solves(n, D, f)
            OBVIOUS
        <3>1. PICK f : Solves(n, D, f)
            BY <3>0
        <3>2. Reuse!Inventory(n) \subseteq D
            BY <3>1 DEF Complete
        <3>3. \A d \in Reuse!Inventory(n) : u[d] = f[d]
            BY <1>1, <3>1, <3>2
        <3>4. D \subseteq U /\ u[n] = f[n]
            BY <1>1, <3>1
        <3>5. f[n] = [own |-> own[n], deps |-> [d \in Reuse!Inventory(n) |-> f[d]]]
            BY <3>1 DEF Whole
        <3> HIDE DEF u, U, Solves
        <3>6. [d \in Reuse!Inventory(n) |-> f[d]] = [d \in Reuse!Inventory(n) |-> u[d]]
            BY <3>3
        <3> QED  BY <3>2, <3>4, <3>5, <3>6
    <2>2. u = [n \in U |-> u[n]]
        OBVIOUS
    <2> HIDE DEF u, U
    <2> QED  BY <2>1, <2>2 DEF Complete, Whole
<1>3. U = PackageSet
    <2> DEFINE T == PackageSet \ U
    <2>1. SUFFICES ASSUME T # {} PROVE FALSE
        OBVIOUS
    <2>2. PICK n \in T : Reuse!Inventory(n) \cap T = {}
        BY <2>1, Smallest
    <2> DEFINE
        D == U \cup {n}
        h == [m \in D |-> IF m = n THEN [own |-> own[n], deps |-> [d \in Reuse!Inventory(n) |-> u[d]]] ELSE u[m]]
    <2>3. Reuse!Inventory(n) \subseteq U
        BY <2>2 DEF Reuse!Inventory
    <2>4. Complete(D)
        BY <1>2, <2>3 DEF Complete
    <2>5. n \notin U /\ U \subseteq PackageSet
        OBVIOUS
    <2>6. Whole(own, D, h)
        <3> HIDE DEF U, u
        <3>1. \A m \in U : h[m] = u[m]
            BY <2>5
        <3>2. ASSUME NEW m \in D
              PROVE  h[m] = [own |-> own[m], deps |-> [d \in Reuse!Inventory(m) |-> h[d]]]
            <4>1. Reuse!Inventory(m) \subseteq U
                BY <1>2, <2>3 DEF Complete
            <4>2. [d \in Reuse!Inventory(m) |-> u[d]] = [d \in Reuse!Inventory(m) |-> h[d]]
                BY <3>1, <4>1
            <4>3. h[m] = [own |-> own[m], deps |-> [d \in Reuse!Inventory(m) |-> u[d]]]
                <5>1. CASE m = n
                    BY <5>1
                <5>2. CASE m # n
                    BY <1>2, <3>1, <5>2 DEF Whole
                <5> QED  BY <5>1, <5>2
            <4> QED  BY <4>2, <4>3
        <3>3. h = [m \in D |-> h[m]]
            OBVIOUS
        <3> HIDE DEF D, h
        <3> QED  BY <3>2, <3>3 DEF Whole
    <2>7. D \in SUBSET PackageSet
        BY <2>2
    <2>8. Solves(n, D, h)
        BY <2>4, <2>6
    <2> QED  BY <2>5, <2>7, <2>8
<1> QED  BY <1>2, <1>3

(* The recursion of Over has a solution: what it says holds.                      *)
LEMMA OverIsWhole == \A own : Whole(own, PackageSet, Reuse!Over(own))
<1> TAKE own
<1>1. Reuse!Over(own) = CHOOSE f : Whole(own, PackageSet, f)
    BY DEF Whole, Reuse!Over
<1>2. \E f : Whole(own, PackageSet, f)
    BY WholeExists
<1>3. Whole(own, PackageSet, CHOOSE f : Whole(own, PackageSet, f))
    BY <1>2
<1> QED  BY <1>1, <1>3

LEMMA SameInputs ==
    ASSUME NEW a, NEW b, NEW K \in SUBSET PackageSet, Complete(K), \A n \in K : a[n] = b[n]
    PROVE  \A n \in K : Reuse!Over(a)[n] = Reuse!Over(b)[n]
BY OverIsWhole, WholeUnique

LEMMA OwnInputs ==
    ASSUME NEW own, NEW n \in PackageSet
    PROVE  /\ Reuse!Over(own)[n].own = own[n]
           /\ Reuse!Over(own)[n].deps = [d \in Reuse!Inventory(n) |-> Reuse!Over(own)[d]]
BY OverIsWhole DEF Whole

LEMMA SameWhole ==
    ASSUME NEW a, NEW b, NEW n \in PackageSet, Reuse!Over(a)[n] = Reuse!Over(b)[n]
    PROVE  a[n] = b[n] /\ \A d \in Reuse!Inventory(n) : Reuse!Over(a)[d] = Reuse!Over(b)[d]
<1> DEFINE deps(own) == [d \in Reuse!Inventory(n) |-> Reuse!Over(own)[d]]
<1>1. Reuse!Over(a)[n].own = a[n] /\ Reuse!Over(a)[n].deps = deps(a)
    BY OwnInputs
<1>2. Reuse!Over(b)[n].own = b[n] /\ Reuse!Over(b)[n].deps = deps(b)
    BY OwnInputs
<1>3. \A own : \A d \in Reuse!Inventory(n) : deps(own)[d] = Reuse!Over(own)[d]
    OBVIOUS
<1> HIDE DEF deps
<1>4. a[n] = b[n] /\ deps(a) = deps(b)
    BY <1>1, <1>2
<1> QED  BY <1>3, <1>4

(* The published repository is what some trees make, recorded as that.             *)
ReuseInv ==
    /\ trees \in Reuse!Trees
    /\ \E t \in Reuse!Trees, style \in Reuse!Styles :
          repository = Reuse!Made(t) /\ recorded = Reuse!Provenance(t, style)
    /\ seed # Reuse!NoBuild => seed = Reuse!Accepted(trees)

InputsOf(t) ==
    [n \in PackageSet |->
        [port |-> Reuse!Source(t, n), config |-> t.config, pin |-> t.pin,
         kernel |-> IF n \in Modules THEN <<t.system>> ELSE <<>>,
         version |-> IF n \in Stamped THEN <<t.product>> ELSE <<>>]]
Digested(t, style) == [n \in PackageSet |-> Reuse!Inputs(t, style, n)]

LEMMA OverInputs ==
    ASSUME NEW t, NEW style
    PROVE  /\ Reuse!Made(t) = Reuse!Over(InputsOf(t))
           /\ Reuse!Provenance(t, style).of = Reuse!Over(Digested(t, style))
           /\ Reuse!Provenance(t, style).pin = t.pin
           /\ Reuse!Provenance(t, style).style = style
BY DEF Reuse!Made, Reuse!Provenance, InputsOf, Digested

LEMMA MadeOf ==
    ASSUME NEW t, NEW n \in PackageSet
    PROVE  Reuse!Made(t)[n].own = InputsOf(t)[n]
<1>1. Reuse!Over(InputsOf(t))[n].own = InputsOf(t)[n]
    BY OwnInputs
<1> QED  BY <1>1, OverInputs

(* What poudriere keeps of a seed: nothing that is out of date or stands on what     *)
(* is built again.                                                          *)
Keepable(K) ==
    \A n \in K : Reuse!CurrentVersion(n) /\ Reuse!Inventory(n) \subseteq K \cup CorePackages

LEMMA KeptIsKeepable ==
    /\ Reuse!Kept \in SUBSET seed /\ Keepable(Reuse!Kept)
    /\ \A K \in SUBSET seed : Keepable(K) => K \subseteq Reuse!Kept
<1> DEFINE
    all == UNION {K \in SUBSET seed : Keepable(K)}
    Greatest(K) == Keepable(K) /\ \A L \in SUBSET seed : Keepable(L) => L \subseteq K
<1>1. all \in SUBSET seed /\ Greatest(all)
    BY DEF Keepable
<1>2. Reuse!Kept = CHOOSE K \in SUBSET seed : Greatest(K)
    BY DEF Reuse!Kept, Keepable
<1> HIDE DEF Greatest, all
<1>3. (CHOOSE K \in SUBSET seed : Greatest(K)) \in SUBSET seed /\ Greatest(CHOOSE K \in SUBSET seed : Greatest(K))
    BY <1>1
<1> QED  BY <1>2, <1>3 DEF Greatest

LEMMA SameConfig ==
    ASSUME NEW t, NEW u, NEW r, NEW s, Reuse!MakeConfig(t, r) = Reuse!MakeConfig(u, s)
    PROVE  t.config = u.config
<1>1. Reuse!MakeConfig(t, r)[1] = t.config /\ Reuse!MakeConfig(u, s)[1] = u.config
    BY DEF Reuse!MakeConfig
<1> QED  BY <1>1

(* The kept packages, with the core packages below them, are a whole whose inputs  *)
(* did not change.                                                          *)
LEMMA KeptIsFresh ==
    ASSUME ReuseInv, seed # Reuse!NoBuild, NEW n \in Reuse!Kept
    PROVE  n \in PackageSet /\ repository[n] = Reuse!Made(trees)[n]
<1>1. PICK t \in Reuse!Trees, style \in Reuse!Styles :
          repository = Reuse!Made(t) /\ recorded = Reuse!Provenance(t, style)
    BY DEF ReuseInv
<1> DEFINE
    Agrees(d) == \E s \in Reuse!Styles : Reuse!Over(Digested(t, style))[d] = Reuse!Over(Digested(trees, s))[d]
    below == {d \in CorePackages \cap PackageSet :
                 Agrees(d) /\ d \notin Stamped /\ Deps[d] \cap PackageSet \subseteq CorePackages}
    K == Reuse!Kept \cup below
<1>2. /\ t.pin = trees.pin
      /\ \A m \in Reuse!Kept : m \in PackageSet \ Modules /\ Agrees(m)
    <2>1. seed = Reuse!Accepted(trees) /\ Reuse!Kept \subseteq seed
        BY KeptIsKeepable DEF ReuseInv
    <2>2. \A m \in Reuse!Kept : m \in PackageSet /\ Reuse!OfPin(trees.pin)
              /\ \E s \in Reuse!Styles : Reuse!Reusable(m, Reuse!Provenance(trees, s))
        BY <2>1 DEF Reuse!Accepted
    <2>3. recorded.of = Reuse!Over(Digested(t, style)) /\ recorded.pin = t.pin
        BY <1>1, OverInputs
    <2>4. ASSUME NEW m \in Reuse!Kept PROVE m \in PackageSet \ Modules /\ Agrees(m)
        <3>1. PICK s \in Reuse!Styles : Reuse!Reusable(m, Reuse!Provenance(trees, s))
            BY <2>2
        <3>2. /\ ~ Reuse!Over(Digested(trees, s))[m].own.kernel
              /\ Reuse!Over(Digested(t, style))[m] = Reuse!Over(Digested(trees, s))[m]
            BY <2>3, <3>1, OverInputs DEF Reuse!Reusable
        <3>3. Reuse!Over(Digested(trees, s))[m].own = Digested(trees, s)[m] /\ m \in PackageSet
            BY <2>2, OwnInputs
        <3>4. ~ Digested(trees, s)[m].kernel
            BY <3>2, <3>3
        <3>5. m \notin CorePackages \cup Modules
            BY <3>3, <3>4 DEF Digested, Reuse!Inputs
        <3> QED  BY <3>2, <3>3, <3>5
    <2> QED  BY <2>2, <2>3, <2>4 DEF Reuse!OfPin
<1>3. ASSUME NEW m \in PackageSet, Agrees(m)
      PROVE  /\ Reuse!Source(t, m) = Reuse!Source(trees, m) /\ t.config = trees.config
             /\ \A d \in Reuse!Inventory(m) : Agrees(d)
    <2>1. PICK s \in Reuse!Styles : Reuse!Over(Digested(t, style))[m] = Reuse!Over(Digested(trees, s))[m]
        BY <1>3
    <2>2. /\ Digested(t, style)[m] = Digested(trees, s)[m]
          /\ \A d \in Reuse!Inventory(m) : Reuse!Over(Digested(t, style))[d] = Reuse!Over(Digested(trees, s))[d]
        <3> HIDE DEF Agrees, below, K
        <3>1. m \in PackageSet
            BY <1>3
        <3>2. \A a, b : Reuse!Over(a)[m] = Reuse!Over(b)[m] =>
                  a[m] = b[m] /\ \A d \in Reuse!Inventory(m) : Reuse!Over(a)[d] = Reuse!Over(b)[d]
            BY <3>1, SameWhole
        <3> QED  BY <2>1, <3>2, Zenon
    <2>3. /\ Digested(t, style)[m].port = Reuse!Source(t, m)
          /\ Digested(trees, s)[m].port = Reuse!Source(trees, m)
          /\ Digested(t, style)[m].config = Reuse!MakeConfig(t, style)
          /\ Digested(trees, s)[m].config = Reuse!MakeConfig(trees, s)
        BY DEF Digested, Reuse!Inputs
    <2>4. t.config = trees.config
        BY <2>2, <2>3, SameConfig
    <2> QED  BY <2>2, <2>3, <2>4
<1>4. Complete(K) /\ K \in SUBSET PackageSet
    <2> SUFFICES ASSUME NEW m \in K, NEW d \in Reuse!Inventory(m) PROVE d \in K
        BY <1>2 DEF Complete
    <2>1. m \in PackageSet /\ Agrees(m)
        BY <1>2
    <2>2. d \in PackageSet /\ d \in Deps[m] /\ Agrees(d)
        BY <1>3, <2>1 DEF Reuse!Inventory
    <2>3. d \in Reuse!Kept \/ d \in CorePackages
        BY KeptIsKeepable, <2>2 DEF Keepable
    <2> QED  BY CoreAssumption, <2>1, <2>2, <2>3
<1>5. ASSUME NEW m \in K PROVE InputsOf(t)[m] = InputsOf(trees)[m]
    <2>1. m \in PackageSet \ Modules /\ Reuse!Source(t, m) = Reuse!Source(trees, m) /\ t.config = trees.config
        BY <1>2, <1>3, ModulesAssumption
    <2>2. InputsOf(t)[m].version = InputsOf(trees)[m].version
        <3>1. CASE m \in below
            BY <2>1, <3>1 DEF InputsOf
        <3>2. CASE m \in Reuse!Kept
            <4>1. repository[m].own = InputsOf(t)[m] /\ Reuse!Made(trees)[m].own = InputsOf(trees)[m]
                BY <1>1, <2>1, MadeOf
            <4> QED  BY <3>2, <4>1, KeptIsKeepable DEF Keepable, Reuse!CurrentVersion
        <3> QED  BY <3>1, <3>2
    <2> DEFINE
        Version(x) == IF m \in Stamped THEN <<x.product>> ELSE <<>>
    <2>3. \A x : InputsOf(x)[m] = [port |-> Reuse!Source(x, m), config |-> x.config, pin |-> x.pin,
                                   kernel |-> <<>>, version |-> Version(x)]
        BY <2>1 DEF InputsOf
    <2>4. Version(t) = Version(trees)
        BY <2>1, <2>2 DEF InputsOf
    <2> HIDE DEF Version
    <2> QED  BY <1>2, <2>1, <2>3, <2>4
<1> HIDE DEF K
<1>6. \A m \in K : Reuse!Over(InputsOf(t))[m] = Reuse!Over(InputsOf(trees))[m]
    BY <1>4, <1>5, SameInputs
<1> QED  BY <1>1, <1>2, <1>6, OverInputs DEF K

LEMMA BuiltFresh ==
    ASSUME ReuseInv, Reuse!BuildRepository
    PROVE  repository' = Reuse!Made(trees)
<1>1. seed # Reuse!NoBuild
      /\ repository' = [n \in PackageSet |-> IF n \in Reuse!Kept THEN repository[n] ELSE Reuse!Made(trees)[n]]
    BY DEF Reuse!BuildRepository
<1>2. Whole(InputsOf(trees), PackageSet, Reuse!Made(trees))
    BY OverInputs, OverIsWhole
<1>3. Reuse!Made(trees) = [n \in PackageSet |-> Reuse!Made(trees)[n]]
    BY <1>2 DEF Whole
<1>4. \A n \in PackageSet : (IF n \in Reuse!Kept THEN repository[n] ELSE Reuse!Made(trees)[n]) = Reuse!Made(trees)[n]
    BY <1>1, KeptIsFresh
<1> QED  BY <1>1, <1>3, <1>4

LEMMA InitReuse == Reuse!Init => ReuseInv
BY DEF Reuse!Init, ReuseInv

LEMMA StepReuse == ReuseInv /\ [Reuse!Next]_(Reuse!vars) => ReuseInv'
<1> SUFFICES ASSUME ReuseInv, [Reuse!Next]_(Reuse!vars) PROVE ReuseInv'
    OBVIOUS
<1>1. ASSUME UNCHANGED <<repository, recorded>>
      PROVE  (\E t \in Reuse!Trees, style \in Reuse!Styles :
                  repository = Reuse!Made(t) /\ recorded = Reuse!Provenance(t, style))'
    BY <1>1 DEF ReuseInv
<1>2. CASE Reuse!SelectSeed
    <2>1. UNCHANGED <<trees, repository, recorded>> /\ seed' = Reuse!Accepted(trees)
        BY <1>2 DEF Reuse!SelectSeed
    <2>2. Reuse!Accepted(trees)' = Reuse!Accepted(trees)
        BY <2>1 DEF Reuse!Accepted, Reuse!OfPin, Reuse!Reusable
    <2> QED  BY <1>1, <2>1, <2>2 DEF ReuseInv
<1>3. CASE Reuse!BuildRepository
    <2>1. /\ repository' = Reuse!Made(trees) /\ recorded' = Reuse!Provenance(trees, "current")
          /\ seed' = Reuse!NoBuild /\ trees' = trees
        BY <1>3, BuiltFresh DEF Reuse!BuildRepository
    <2>2. "current" \in Reuse!Styles
        BY DEF Reuse!Styles
    <2> QED  BY <2>1, <2>2 DEF ReuseInv
<1>4. CASE Reuse!BuildFails
    BY <1>1, <1>4 DEF Reuse!BuildFails, ReuseInv
<1>5. CASE Reuse!Edit
    <2>1. trees' \in Reuse!Trees
        BY <1>5 DEF Reuse!Edit, ReuseInv, Reuse!Trees
    <2> QED  BY <1>1, <1>5, <2>1 DEF Reuse!Edit, ReuseInv
<1>6. CASE UNCHANGED Reuse!vars
    <2>1. UNCHANGED <<trees, repository, recorded, seed>>
        BY <1>6 DEF Reuse!vars
    <2>2. Reuse!Accepted(trees)' = Reuse!Accepted(trees)
        BY <2>1 DEF Reuse!Accepted, Reuse!OfPin, Reuse!Reusable
    <2> QED  BY <1>1, <2>1, <2>2 DEF ReuseInv
<1> QED  BY <1>2, <1>3, <1>4, <1>5, <1>6 DEF Reuse!Next

LEMMA FreshIs == ReuseInv /\ [Reuse!Next]_(Reuse!vars) => Reuse!FreshBuild
<1> SUFFICES ASSUME ReuseInv, [Reuse!Next]_(Reuse!vars), repository' # repository
             PROVE  repository' = Reuse!Made(trees)
    BY DEF Reuse!FreshBuild
<1>1. Reuse!BuildRepository
    BY DEF Reuse!Next, Reuse!vars, Reuse!SelectSeed, Reuse!BuildFails, Reuse!Edit
<1> QED  BY <1>1, BuiltFresh

(* Packages whose inputs did not change, down to the last, have the digest that was  *)
(* recorded.                                                                *)
LEMMA UnchangedIsSeeded ==
    ASSUME ReuseInv, seed # Reuse!NoBuild, recorded.style = "current",
           NEW n \in Reuse!Unchanged \ (CorePackages \cup Modules)
    PROVE  n \in seed
<1> SUFFICES n \in Reuse!Accepted(trees)
    BY DEF ReuseInv
<1>1. PICK t \in Reuse!Trees, style \in Reuse!Styles :
          repository = Reuse!Made(t) /\ recorded = Reuse!Provenance(t, style)
    BY DEF ReuseInv
<1>2. style = "current" /\ recorded.of = Reuse!Over(Digested(t, "current")) /\ recorded.pin = t.pin
    BY <1>1, OverInputs
<1>3. PICK K \in SUBSET PackageSet :
          n \in K /\ \A m \in K : Reuse!Same(m) /\ Reuse!Inventory(m) \subseteq K
    BY DEF Reuse!Unchanged
<1>4. ASSUME NEW m \in K
      PROVE  Reuse!Source(t, m) = Reuse!Source(trees, m) /\ t.config = trees.config /\ t.pin = trees.pin
    <2>1. repository[m].own = InputsOf(t)[m] /\ Reuse!Made(trees)[m].own = InputsOf(trees)[m]
        BY <1>1, <1>3, MadeOf
    <2>2. Reuse!Unstamped(InputsOf(t)[m]) = Reuse!Unstamped(InputsOf(trees)[m])
        BY <1>3, <2>1 DEF Reuse!Same
    <2>3. \A x : /\ Reuse!Unstamped(InputsOf(x)[m]).port = Reuse!Source(x, m)
                 /\ Reuse!Unstamped(InputsOf(x)[m]).config = x.config
                 /\ Reuse!Unstamped(InputsOf(x)[m]).pin = x.pin
        BY <1>3 DEF Reuse!Unstamped, InputsOf
    <2> QED  BY <2>2, <2>3
<1>5. \A m \in K : Digested(t, "current")[m] = Digested(trees, "current")[m]
    BY <1>4 DEF Digested, Reuse!Inputs, Reuse!MakeConfig
<1>6. Reuse!Over(Digested(t, "current"))[n] = Reuse!Over(Digested(trees, "current"))[n]
    BY <1>3, <1>5, SameInputs DEF Complete
<1>7. Reuse!OfPin(trees.pin)
    BY <1>2, <1>3, <1>4 DEF Reuse!OfPin
<1>8. Reuse!Reusable(n, Reuse!Provenance(trees, "current"))
    <2>1. Reuse!Over(Digested(trees, "current"))[n].own = Digested(trees, "current")[n]
        BY <1>3, OwnInputs
    <2>2. ~ Digested(trees, "current")[n].kernel
        BY <1>3 DEF Digested, Reuse!Inputs
    <2> QED  BY <1>2, <1>6, <2>1, <2>2, OverInputs DEF Reuse!Reusable
<1> QED  BY <1>3, <1>7, <1>8 DEF Reuse!Accepted, Reuse!Styles

(* Such packages that Poudriere has no reason of its own to drop are all kept.       *)
LEMMA NothingRebuilt == ReuseInv => Reuse!NothingRebuiltForARelease
<1> SUFFICES ASSUME ReuseInv, seed # Reuse!NoBuild, recorded.style = "current",
                    NEW K \in SUBSET (Reuse!Unchanged \ (CorePackages \cup Modules)),
                    \A n \in K : Reuse!CurrentVersion(n) /\ Reuse!Inventory(n) \subseteq K \cup CorePackages
             PROVE  K \subseteq Reuse!Kept
    BY DEF Reuse!NothingRebuiltForARelease, Reuse!Stays
<1>1. K \in SUBSET seed
    BY UnchangedIsSeeded
<1>2. Keepable(K)
    BY DEF Keepable
<1> QED  BY <1>1, <1>2, KeptIsKeepable

-----------------------------------------------------------------------------
(* Folds over finite sets and their orders, as Farm takes them.                   *)

(* Induction over the naturals and over the subsets of a finite set, on a set of   *)
(* those for which the claim holds.                                            *)
LEMMA Induct ==
    ASSUME NEW A, 0 \in A, \A n \in Nat : n \in A => n + 1 \in A
    PROVE  Nat \subseteq A
<1> SUFFICES ASSUME NEW T, T = Nat \ A, T # {} PROVE FALSE
    OBVIOUS
<1>1. \E n \in T : \A m \in T : ~ (<<m, n>> \in OpToRel(<, Nat))
    BY NatLessThanWellFounded, WFMin
<1>2. PICK n \in T : \A m \in T : ~ m < n
    BY <1>1 DEF OpToRel
<1>3. n # 0 /\ n - 1 \in Nat /\ n - 1 < n
    OBVIOUS
<1> QED  BY <1>2, <1>3

LEMMA Minimal ==
    ASSUME NEW S, IsFiniteSet(S), NEW T \in SUBSET SUBSET S, T # {}
    PROVE  \E t \in T : \A u \in T : u \subseteq t => u = t
<1>1. T \subseteq FiniteSubsetsOf(S)
    BY FS_Subset DEF FiniteSubsetsOf
<1>2. IsWellFoundedOn(StrictSubsetOrdering(S), FiniteSubsetsOf(S))
    BY FS_StrictSubsetOrderingWellFounded
<1>3. PICK t \in T : \A u \in T : ~ (<<u, t>> \in StrictSubsetOrdering(S))
    BY <1>1, <1>2, WFMin
<1> QED  BY <1>3 DEF StrictSubsetOrdering

LEMMA SubsetInduct ==
    ASSUME NEW S, IsFiniteSet(S), NEW A, {} \in A,
           \A s \in SUBSET S : s # {} /\ (\A x \in s : s \ {x} \in A) => s \in A
    PROVE  SUBSET S \subseteq A
<1> SUFFICES ASSUME ~ (SUBSET S \subseteq A) PROVE FALSE
    OBVIOUS
<1> DEFINE T == (SUBSET S) \ A
<1>0. T \in SUBSET SUBSET S /\ T # {}
    BY Zenon
<1> HIDE DEF T
<1>1. PICK t \in T : \A u \in T : u \subseteq t => u = t
    BY <1>0, Minimal
<1>2. t \in SUBSET S /\ t \notin A
    BY <1>1 DEF T
<1>3. ASSUME NEW x \in t PROVE t \ {x} \in A
    <2>1. t \ {x} \notin T
        BY <1>1
    <2> QED  BY <1>2, <2>1 DEF T
<1> QED  BY <1>2, <1>3

(* A fold over a finite set that stays in D: which element it takes, and what it  *)
(* makes of it.                                                              *)
Foldable(S, D, base, choose, step) ==
    /\ IsFiniteSet(S) /\ base \in D
    /\ \A s \in SUBSET S : s # {} => choose[s] \in s
    /\ \A x \in S, d \in D : step[<<x, d>>] \in D

Folds(f, S, base, choose, step) ==
    \A s \in SUBSET S :
        f[s] = IF s = {} THEN base ELSE step[<<choose[s], f[s \ {choose[s]}]>>]

LEMMA FoldExists ==
    ASSUME NEW S, NEW D, NEW base, NEW choose, NEW step, Foldable(S, D, base, choose, step)
    PROVE  \E f \in [SUBSET S -> D] : Folds(f, S, base, choose, step)
<1>0. /\ IsFiniteSet(S) /\ base \in D
      /\ \A s \in SUBSET S : s # {} => choose[s] \in s
      /\ \A x \in S, d \in D : step[<<x, d>>] \in D
    BY DEF Foldable
<1> DEFINE Right(f, s) == f[s] = IF s = {} THEN base ELSE step[<<choose[s], f[s \ {choose[s]}]>>]
           A == {n \in Nat : \E f \in [SUBSET S -> D] : \A s \in SUBSET S : Cardinality(s) <= n => Right(f, s)}
<1>1. \A s \in SUBSET S : IsFiniteSet(s) /\ Cardinality(s) \in Nat /\ (Cardinality(s) = 0 <=> s = {})
    BY <1>0, FS_Subset, FS_CardinalityType, FS_EmptySet
<1>2. 0 \in A
    <2>1. [s \in SUBSET S |-> base] \in [SUBSET S -> D]
        BY <1>0
    <2>2. \A s \in SUBSET S : Cardinality(s) <= 0 => s = {}
        BY <1>1
    <2>3. \A s \in SUBSET S : Cardinality(s) <= 0 => Right([t \in SUBSET S |-> base], s)
        BY <2>2
    <2> QED  BY <2>1, <2>3, Zenon
<1>3. ASSUME NEW n \in Nat, n \in A PROVE n + 1 \in A
    <2>1. PICK f \in [SUBSET S -> D] : \A s \in SUBSET S : Cardinality(s) <= n => Right(f, s)
        BY <1>3
    <2> DEFINE Next1(s) == IF s = {} THEN base ELSE step[<<choose[s], f[s \ {choose[s]}]>>]
               g == [s \in SUBSET S |-> IF Cardinality(s) <= n THEN f[s] ELSE Next1(s)]
    <2>2. \A s \in SUBSET S : Next1(s) \in D
        BY <1>0
    <2>3. g \in [SUBSET S -> D]
        BY <2>2
    <2>4. ASSUME NEW s \in SUBSET S, Cardinality(s) <= n + 1 PROVE Right(g, s)
        <3>1. g[s] = Next1(s)
            BY <2>1
        <3>2. CASE s = {}
            BY <3>1, <3>2
        <3>3. CASE s # {}
            <4>1. /\ choose[s] \in s /\ s \ {choose[s]} \in SUBSET S
                  /\ Cardinality(s \ {choose[s]}) = Cardinality(s) - 1
                BY <1>0, <1>1, <3>3, FS_RemoveElement
            <4>2. Cardinality(s \ {choose[s]}) <= n
                BY <1>1, <2>4, <4>1
            <4>3. g[s \ {choose[s]}] = f[s \ {choose[s]}]
                BY <4>1, <4>2
            <4> QED  BY <3>1, <3>3, <4>3
        <3> QED  BY <3>2, <3>3
    <2>5. \A s \in SUBSET S : Cardinality(s) <= n + 1 => Right(g, s)
        BY <2>4
    <2> HIDE DEF g
    <2>6. \E h \in [SUBSET S -> D] : \A s \in SUBSET S : Cardinality(s) <= n + 1 => Right(h, s)
        BY <2>3, <2>5, Zenon
    <2> HIDE DEF Right
    <2> QED  BY <2>6
<1>4. Nat \subseteq A
    <2> HIDE DEF A
    <2> QED  BY <1>2, <1>3, Induct
<1>5. PICK n \in Nat : n = Cardinality(S)
    BY <1>0, FS_CardinalityType
<1>6. \A s \in SUBSET S : Cardinality(s) <= n
    BY <1>0, <1>5, FS_Subset
<1>7. n \in A
    BY <1>4
<1>8. PICK f \in [SUBSET S -> D] : \A s \in SUBSET S : Cardinality(s) <= n => Right(f, s)
    BY <1>7
<1> QED  BY <1>6, <1>8 DEF Folds

(* A strict total order of a finite set has a last element, and enumerates it.    *)
Orders(R, S) ==
    /\ \A x \in S : <<x, x>> \notin R
    /\ \A x, y \in S : x # y => <<x, y>> \in R \/ <<y, x>> \in R
    /\ \A x, y, z \in S : <<x, y>> \in R /\ <<y, z>> \in R => <<x, z>> \in R

Enumerates(s, R, S) ==
    /\ s \in [1..Cardinality(S) -> S]
    /\ \A i, j \in 1..Cardinality(S) : i < j => <<s[i], s[j]>> \in R

LEMMA LastExists ==
    ASSUME NEW S, IsFiniteSet(S), S # {}, NEW R, Orders(R, S)
    PROVE  \E x \in S : \A y \in S \ {x} : <<y, x>> \in R
<1> DEFINE Last(T, x) == \A y \in T \ {x} : <<y, x>> \in R
           A == {T \in SUBSET S : T # {} => \E x \in T : Last(T, x)}
<1>1. {} \in A
    OBVIOUS
<1>2. ASSUME NEW T \in SUBSET S, T # {}, \A x \in T : T \ {x} \in A PROVE T \in A
    <2>1. PICK x \in T : TRUE
        BY <1>2
    <2>2. CASE T \ {x} = {}
        <3>1. Last(T, x)
            BY <2>2
        <3> QED  BY <3>1
    <2>3. CASE T \ {x} # {}
        <3>1. PICK y \in T \ {x} : Last(T \ {x}, y)
            BY <1>2, <2>1, <2>3
        <3>2. CASE <<x, y>> \in R
            <4>1. Last(T, y)
                BY <3>1, <3>2
            <4> QED  BY <4>1
        <3>3. CASE <<y, x>> \in R
            <4>1. ASSUME NEW z \in T \ {x} PROVE <<z, x>> \in R
                <5>1. z = y \/ <<z, y>> \in R
                    BY <3>1
                <5> QED  BY <3>3, <5>1 DEF Orders
            <4>2. Last(T, x)
                BY <4>1
            <4> QED  BY <4>2
        <3> QED  BY <3>2, <3>3 DEF Orders
    <2> QED  BY <2>2, <2>3
<1>3. SUBSET S \subseteq A
    <2> HIDE DEF A
    <2> QED  BY <1>1, <1>2, SubsetInduct
<1>4. S \in A
    BY <1>3
<1> QED  BY <1>4

LEMMA EnumerationExists ==
    ASSUME NEW S, IsFiniteSet(S), NEW R, Orders(R, S)
    PROVE  \E s : Enumerates(s, R, S)
<1> DEFINE A == {T \in SUBSET S : \E s : Enumerates(s, R, T)}
<1>1. {} \in A
    <2>1. Cardinality({}) = 0
        BY FS_EmptySet
    <2>2. [i \in 1..0 |-> i] \in [1..0 -> {}]
        OBVIOUS
    <2>3. Enumerates([i \in 1..0 |-> i], R, {})
        BY <2>1, <2>2 DEF Enumerates
    <2> QED  BY <2>3
<1>2. ASSUME NEW T \in SUBSET S, T # {}, \A x \in T : T \ {x} \in A PROVE T \in A
    <2>1. Orders(R, T)
        BY DEF Orders
    <2>2. IsFiniteSet(T)
        BY FS_Subset
    <2>3. PICK x \in T : \A y \in T \ {x} : <<y, x>> \in R
        BY <1>2, <2>1, <2>2, LastExists
    <2>4. PICK n \in Nat : n = Cardinality(T \ {x})
        BY <2>2, FS_RemoveElement, FS_CardinalityType
    <2>5. Cardinality(T) = n + 1
        <3>1. Cardinality(T \ {x}) = Cardinality(T) - 1
            BY <2>2, <2>3, FS_RemoveElement
        <3>2. Cardinality(T) \in Nat
            BY <2>2, FS_CardinalityType
        <3> QED  BY <2>4, <3>1, <3>2
    <2>6. PICK s : Enumerates(s, R, T \ {x})
        BY <1>2
    <2> DEFINE t == [i \in 1..(n + 1) |-> IF i <= n THEN s[i] ELSE x]
    <2>7. s \in [1..n -> T \ {x}] /\ \A i, j \in 1..n : i < j => <<s[i], s[j]>> \in R
        BY <2>4, <2>6 DEF Enumerates
    <2>8. t \in [1..(n + 1) -> T]
        BY <2>7
    <2>9. ASSUME NEW i \in 1..(n + 1), NEW j \in 1..(n + 1), i < j PROVE <<t[i], t[j]>> \in R
        <3>1. i <= n /\ t[i] = s[i] /\ s[i] \in T \ {x}
            BY <2>7, <2>9
        <3>2. CASE j <= n
            BY <2>7, <2>9, <3>1, <3>2
        <3>3. CASE j = n + 1
            BY <2>3, <3>1, <3>3
        <3> QED  BY <3>2, <3>3
    <2>10. Enumerates(t, R, T)
        <3> HIDE DEF t
        <3> QED  BY <2>5, <2>8, <2>9 DEF Enumerates
    <2> QED  BY <2>10
<1>3. SUBSET S \subseteq A
    <2> HIDE DEF A
    <2> QED  BY <1>1, <1>2, SubsetInduct
<1>4. S \in A
    BY <1>3
<1> QED  BY <1>4

(* An enumeration has every element, once.                                     *)
LEMMA EnumerationCovers ==
    ASSUME NEW S, IsFiniteSet(S), NEW R, Orders(R, S), NEW s, Enumerates(s, R, S)
    PROVE  /\ s \in Seq(S) /\ Len(s) = Cardinality(S) /\ Len(s) \in Nat /\ DOMAIN s = 1..Len(s)
           /\ \A i, j \in 1..Len(s) : s[i] = s[j] => i = j
           /\ \A x \in S : \E i \in 1..Len(s) : s[i] = x
<1>1. PICK n \in Nat : n = Cardinality(S)
    BY FS_CardinalityType
<1>2. s \in [1..n -> S] /\ \A i, j \in 1..n : i < j => <<s[i], s[j]>> \in R
    BY <1>1 DEF Enumerates
<1>3. s \in Seq(S) /\ Len(s) = n /\ DOMAIN s = 1..n
    BY <1>2
<1>4. ASSUME NEW i \in 1..n, NEW j \in 1..n, i # j PROVE s[i] # s[j]
    <2>1. s[i] \in S /\ s[j] \in S
        BY <1>2
    <2>2. <<s[i], s[j]>> \in R \/ <<s[j], s[i]>> \in R
        BY <1>2, <1>4
    <2> QED  BY <2>1, <2>2 DEF Orders
<1>5. s \in Injection(1..n, S)
    BY <1>2, <1>4 DEF Injection, IsInjective
<1>6. s \in Surjection(1..n, S)
    <2>1. IsFiniteSet(1..n) /\ Cardinality(1..n) = n
        BY FS_Interval
    <2> QED  BY <1>1, <1>5, <2>1, FS_Injection
<1> QED  BY <1>1, <1>3, <1>4, <1>6 DEF Surjection

(* A sequence that lists a set has every element of it once.                     *)
Lists(s, S) ==
    /\ s \in Seq(S) /\ Len(s) \in Nat /\ DOMAIN s = 1..Len(s)
    /\ \A i, j \in 1..Len(s) : s[i] = s[j] => i = j
    /\ \A x \in S : \E i \in 1..Len(s) : s[i] = x

(* The instance counts a set as the module of finite sets does.                  *)
LEMMA SameCardinality == \A S : Components!Cardinality(S) = Cardinality(S)
BY Zenon DEF Components!Cardinality, Cardinality, Components!IsFiniteSet, IsFiniteSet

(* What sorted gives.                                                       *)
LEMMA OrderLists ==
    ASSUME NEW S, IsFiniteSet(S), NEW R, Orders(R, S), NEW s, s = Components!Order(S, R)
    PROVE  Enumerates(s, R, S) /\ Lists(s, S) /\ Len(s) = Cardinality(S)
<1> DEFINE P(t) == \A i, j \in 1..Cardinality(S) : i < j => <<t[i], t[j]>> \in R
<1>1. \E t \in [1..Cardinality(S) -> S] : P(t)
    BY EnumerationExists DEF Enumerates
<1>2. s = CHOOSE t \in [1..Cardinality(S) -> S] : P(t)
    BY SameCardinality DEF Components!Order
<1>3. s \in [1..Cardinality(S) -> S] /\ P(s)
    <2> HIDE DEF P
    <2> QED  BY <1>1, <1>2, Zenon
<1>4. Enumerates(s, R, S)
    BY <1>3 DEF Enumerates
<1> QED  BY <1>4, EnumerationCovers DEF Lists

LEMMA AscendingLists ==
    ASSUME NEW S \in SUBSET Nat, IsFiniteSet(S)
    PROVE  Lists(Components!Ascending(S), S) /\ Len(Components!Ascending(S)) = Cardinality(S)
<1>1. PICK R : R = {e \in S \X S : e[1] < e[2]}
    OBVIOUS
<1>2. \A x, y \in S : <<x, y>> \in R <=> x < y
    BY <1>1
<1>3. Orders(R, S)
    BY <1>2 DEF Orders
<1>4. Components!Ascending(S) = Components!Order(S, R)
    BY <1>1 DEF Components!Ascending
<1> QED  BY <1>3, <1>4, OrderLists

(* What Max and Min of the community modules choose.                             *)
LEMMA MaxIs ==
    ASSUME NEW S \in SUBSET Nat, IsFiniteSet(S), S # {}
    PROVE  Components!Max(S) \in S /\ \A y \in S : y <= Components!Max(S)
<1> DEFINE R == {e \in Nat \X Nat : e[1] < e[2]}
<1>1. \A x, y \in S : <<x, y>> \in R <=> x < y
    OBVIOUS
<1>2. Orders(R, S)
    <2> HIDE DEF R
    <2> QED  BY <1>1 DEF Orders
<1>3. PICK x \in S : \A y \in S \ {x} : <<y, x>> \in R
    <2> HIDE DEF R
    <2> QED  BY <1>2, LastExists
<1>4. ASSUME NEW y \in S PROVE x >= y
    <2> HIDE DEF R
    <2>1. CASE y # x
        <3>1. <<y, x>> \in R
            BY <1>3, <2>1
        <3> QED  BY <1>1, <3>1
    <2> QED  BY <2>1
<1> QED  BY <1>4 DEF Components!Max

LEMMA MinIs ==
    ASSUME NEW S \in SUBSET Nat, IsFiniteSet(S), S # {}
    PROVE  Components!Min(S) \in S /\ \A y \in S : Components!Min(S) <= y
<1> DEFINE R == {e \in Nat \X Nat : e[1] > e[2]}
<1>1. \A x, y \in S : <<x, y>> \in R <=> x > y
    OBVIOUS
<1>2. Orders(R, S)
    <2> HIDE DEF R
    <2> QED  BY <1>1 DEF Orders
<1>3. PICK x \in S : \A y \in S \ {x} : <<y, x>> \in R
    <2> HIDE DEF R
    <2> QED  BY <1>2, LastExists
<1>4. ASSUME NEW y \in S PROVE x <= y
    <2> HIDE DEF R
    <2>1. CASE y # x
        <3>1. <<y, x>> \in R
            BY <1>3, <2>1
        <3> QED  BY <1>1, <3>1
    <2> QED  BY <2>1
<1> QED  BY <1>4 DEF Components!Min

(* Of a nonempty prefix of the indices, a fold takes the last first.             *)
LEMMA Prefixes ==
    ASSUME NEW k \in Nat \ {0}
    PROVE  1..k # {} /\ Components!Max(1..k) = k /\ (1..k) \ {k} = 1..(k - 1)
<1>1. 1..k \in SUBSET Nat /\ IsFiniteSet(1..k) /\ k \in 1..k
    BY FS_Interval
<1>2. Components!Max(1..k) \in 1..k /\ k <= Components!Max(1..k)
    BY <1>1, MaxIs
<1>3. \A m \in 1..k : k <= m => m = k
    OBVIOUS
<1>4. (1..k) \ {k} = 1..(k - 1)
    OBVIOUS
<1> QED  BY <1>1, <1>2, <1>3, <1>4

(* FoldLeft draws the last index of what is left.                               *)
LEMMA ChoicesAre ==
    ASSUME NEW n \in Nat
    PROVE  /\ IsFiniteSet(1..n)
           /\ \A s \in SUBSET (1..n) : s # {} => Components!Max(s) \in s
<1>1. IsFiniteSet(1..n)
    BY FS_Interval
<1>2. ASSUME NEW s \in SUBSET (1..n), s # {} PROVE Components!Max(s) \in s
    <2>1. s \in SUBSET Nat
        OBVIOUS
    <2>2. IsFiniteSet(s)
        BY <1>1, FS_Subset
    <2> QED  BY <1>2, <2>1, <2>2, MaxIs
<1> QED  BY <1>1, <1>2

(* A fold of a sequence exists, and takes the elements in their order.            *)
Steps(n, D, base, step) == base \in D /\ \A k \in 1..n, d \in D : step[<<k, d>>] \in D

Stepped(f, n, D, base, step) ==
    /\ f \in [SUBSET (1..n) -> D] /\ f[{}] = base
    /\ \A s \in SUBSET (1..n) : s # {} =>
          /\ Components!Max(s) \in 1..n /\ f[s \ {Components!Max(s)}] \in D
          /\ f[s] = step[<<Components!Max(s), f[s \ {Components!Max(s)}]>>]

LEMMA PrefixFold ==
    ASSUME NEW n \in Nat, NEW D, NEW base, NEW step, Steps(n, D, base, step)
    PROVE  \E f : Stepped(f, n, D, base, step)
<1> DEFINE choose == [s \in SUBSET (1..n) |-> Components!Max(s)]
<1>1. \A s \in SUBSET (1..n) : s # {} => choose[s] \in s /\ choose[s] = Components!Max(s)
    BY ChoicesAre
<1> HIDE DEF choose
<1>2. Foldable(1..n, D, base, choose, step)
    BY <1>1, ChoicesAre DEF Foldable, Steps
<1>3. PICK f \in [SUBSET (1..n) -> D] : Folds(f, 1..n, base, choose, step)
    BY <1>2, FoldExists
<1>4. f[{}] = base
    BY <1>3 DEF Folds
<1>5. ASSUME NEW s \in SUBSET (1..n), s # {}
      PROVE  /\ Components!Max(s) \in 1..n /\ f[s \ {Components!Max(s)}] \in D
             /\ f[s] = step[<<Components!Max(s), f[s \ {Components!Max(s)}]>>]
    <2>1. Components!Max(s) \in 1..n /\ s \ {Components!Max(s)} \in SUBSET (1..n)
        BY <1>1, <1>5
    <2>2. f[s] = step[<<choose[s], f[s \ {choose[s]}]>>]
        BY <1>3, <1>5 DEF Folds
    <2> QED  BY <1>1, <1>5, <2>1, <2>2
<1> QED  BY <1>3, <1>4, <1>5 DEF Stepped

-----------------------------------------------------------------------------
(* Farm: how the roots are divided, for any of them and any costs.                 *)

Light(p) == p.roots \ p.heavy

(* The groups after each root: h[k] after the first k.                           *)
Grouping(p, seq, h) ==
    /\ h[0] = {} /\ Components!LightGroups(p) = h[Len(seq)]
    /\ \A k \in 1..Len(seq) : h[k] = Components!Merge(p, h[k - 1], seq[k])

(* LightGroups merges the light roots one after another, in their order.          *)
LEMMA GroupsStepwise ==
    ASSUME NEW p, RootsGiven(p), NEW seq, seq = Components!Ascending(Light(p))
    PROVE  Lists(seq, Light(p)) /\ \E h : Grouping(p, seq, h)
<1>0. Lists(seq, Light(p))
    <2>1. Light(p) \in SUBSET Nat /\ IsFiniteSet(Light(p))
        BY FS_Difference DEF RootsGiven, Light
    <2> QED  BY <2>1, AscendingLists
<1>a. PICK n \in Nat : n = Len(seq)
    BY <1>0 DEF Lists
<1>1. DOMAIN seq = 1..n /\ \A k \in 1..n : seq[k] \in Light(p)
    BY <1>0, <1>a DEF Lists
<1> DEFINE Eq(f) == f = [s \in SUBSET (1..n) |->
               IF s = {} THEN {}
               ELSE Components!Merge(p, f[s \ {Components!Max(s)}], seq[Components!Max(s)])]
<1>2. Components!LightGroups(p) = (CHOOSE f : Eq(f))[1..n]
    BY <1>1, Zenon DEF Components!LightGroups, Components!FoldLeft, Components!MapThenFoldSet, Light
<1>3. \E f : Eq(f)
    <2> DEFINE D == SUBSET SUBSET Light(p)
               step == [x \in (1..n) \X D |-> Components!Merge(p, x[2], seq[x[1]])]
    <2>1. \A k \in 1..n, d \in D : Components!Merge(p, d, seq[k]) \in D
        BY <1>1 DEF Components!Merge
    <2>2. \A k \in 1..n, d \in D : step[<<k, d>>] = Components!Merge(p, d, seq[k])
        OBVIOUS
    <2>3. \A k \in 1..n, d \in D : step[<<k, d>>] \in D
        BY <2>1, <2>2
    <2>4. {} \in D
        OBVIOUS
    <2> HIDE DEF D, step
    <2>5. PICK f : Stepped(f, n, D, {}, step)
        BY <2>3, <2>4, PrefixFold DEF Steps
    <2>6. Eq(f)
        BY <2>2, <2>5 DEF Stepped
    <2> QED  BY <2>6, Zenon
<1>4. PICK F : Eq(F) /\ Components!LightGroups(p) = F[1..n]
    <2> HIDE DEF Eq
    <2> QED  BY <1>2, <1>3
<1> DEFINE h == [k \in 0..n |-> F[1..k]]
<1>5. F[{}] = {} /\ \A s \in SUBSET (1..n) : s # {} =>
          F[s] = Components!Merge(p, F[s \ {Components!Max(s)}], seq[Components!Max(s)])
    <2>1. \A s \in SUBSET (1..n) :
              F[s] = IF s = {} THEN {}
                     ELSE Components!Merge(p, F[s \ {Components!Max(s)}], seq[Components!Max(s)])
        BY <1>4, Zenon
    <2> QED  BY <2>1
<1> HIDE DEF Eq
<1>6. ASSUME NEW k \in 1..n PROVE h[k] = Components!Merge(p, h[k - 1], seq[k])
    <2>1. 1..k \in SUBSET (1..n) /\ k \in 0..n /\ k - 1 \in 0..n /\ k \in Nat \ {0}
        OBVIOUS
    <2>2. h[k] = F[1..k] /\ h[k - 1] = F[1..(k - 1)]
        BY <2>1
    <2> HIDE DEF h
    <2>3. 1..k # {} /\ Components!Max(1..k) = k /\ (1..k) \ {k} = 1..(k - 1)
        BY <2>1, Prefixes
    <2> QED  BY <1>5, <2>1, <2>2, <2>3
<1>7. 1..0 = {} /\ 0 \in 0..n /\ n \in 0..n
    OBVIOUS
<1>8. h[0] = {} /\ Components!LightGroups(p) = h[n]
    BY <1>4, <1>5, <1>7
<1> HIDE DEF h
<1>9. Grouping(p, seq, h)
    BY <1>a, <1>6, <1>8 DEF Grouping
<1> QED  BY <1>0, <1>9

Apart(p, i, j) == Components!Family(p, i) \cap Components!Family(p, j) = {}

(* The groups divide the roots that were taken so far: roots of two groups share  *)
(* nothing, and a group cannot be divided further.                              *)
Grouped(p, groups, S) ==
    /\ UNION groups = S /\ {} \notin groups
    /\ \A g, h \in groups : g # h => \A i \in g, j \in h : Apart(p, i, j)
    /\ \A g \in groups : \A T \in SUBSET g :
          T # {} /\ (\A i \in T, j \in g \ T : Apart(p, i, j)) => T = g

LEMMA ApartFacts ==
    ASSUME NEW p
    PROVE  /\ \A i : ~ Apart(p, i, i)
           /\ \A i, j : Apart(p, i, j) <=> Apart(p, j, i)
BY DEF Apart, Components!Family

(* A root joins the groups that it shares something with into one.               *)
LEMMA MergeGroups ==
    ASSUME NEW p, NEW groups, NEW S, Grouped(p, groups, S), NEW r
    PROVE  Grouped(p, Components!Merge(p, groups, r), S \cup {r})
<1> DEFINE shared == {g \in groups : \E i \in g : ~ Apart(p, i, r)}
           merged == {r} \cup UNION shared
<1>1. Components!Merge(p, groups, r) = (groups \ shared) \cup {merged}
    BY DEF Components!Merge, Apart
<1>2. \A g \in groups : g \in shared <=> \E i \in g : ~ Apart(p, i, r)
    OBVIOUS
<1>3. shared \subseteq groups /\ r \in merged /\ \A j \in merged : j = r \/ \E h \in shared : j \in h
    OBVIOUS
<1>4. \A h \in shared : h \subseteq merged
    OBVIOUS
<1> HIDE DEF shared, merged
<1>5. UNION ((groups \ shared) \cup {merged}) = S \cup {r} /\ {} \notin (groups \ shared) \cup {merged}
    <2>1. {} \notin (groups \ shared) \cup {merged}
        BY <1>3 DEF Grouped
    <2>2. UNION (groups \ shared) \subseteq S /\ UNION shared \subseteq S /\ S = UNION groups
        BY <1>3 DEF Grouped
    <2>3. merged \subseteq S \cup {r}
        BY <2>2 DEF merged
    <2>4. \A x \in S : (\E g \in groups \ shared : x \in g) \/ x \in merged
        BY <1>4, <2>2
    <2> QED  BY <1>3, <2>1, <2>2, <2>3, <2>4
<1>6. ASSUME NEW g \in groups \ shared, NEW i \in g, NEW j \in merged PROVE Apart(p, i, j) /\ Apart(p, j, i)
    <2>1. CASE j = r
        BY <1>2, <2>1, ApartFacts
    <2>2. ASSUME NEW h \in shared, j \in h PROVE Apart(p, i, j)
        BY <1>3, <2>2 DEF Grouped
    <2> QED  BY <1>3, <2>1, <2>2, ApartFacts
<1>7. ASSUME NEW T \in SUBSET merged, T # {}, \A i \in T, j \in merged \ T : Apart(p, i, j) PROVE T = merged
    <2>1. ASSUME NEW g \in shared, T \cap g # {} PROVE g \subseteq T
        <3>1. T \cap g \in SUBSET g /\ \A i \in T \cap g, j \in g \ (T \cap g) : Apart(p, i, j)
            BY <1>4, <1>7
        <3>2. g \in groups
            BY <1>3
        <3>3. T \cap g = g
            BY <2>1, <3>1, <3>2, Zenon DEF Grouped
        <3> QED  BY <3>3
    <2>2. r \in T
        <3> SUFFICES ASSUME r \notin T PROVE FALSE
            OBVIOUS
        <3>1. PICK g \in shared : T \cap g # {}
            BY <1>3, <1>7
        <3>2. PICK i \in g : ~ Apart(p, i, r)
            BY <1>2, <1>3
        <3> QED  BY <1>3, <1>7, <2>1, <3>1, <3>2
    <2>3. ASSUME NEW g \in shared PROVE g \subseteq T
        <3>1. PICK i \in g : ~ Apart(p, i, r)
            BY <1>2, <1>3
        <3>2. i \in T
            BY <1>4, <1>7, <2>2, <3>1, ApartFacts
        <3> QED  BY <2>1, <3>1, <3>2
    <2> QED  BY <1>3, <2>2, <2>3
<1>8. \A g, h \in (groups \ shared) \cup {merged} : g # h => \A i \in g, j \in h : Apart(p, i, j)
    BY <1>6 DEF Grouped
<1>9. \A g \in (groups \ shared) \cup {merged} : \A T \in SUBSET g :
          T # {} /\ (\A i \in T, j \in g \ T : Apart(p, i, j)) => T = g
    BY <1>7 DEF Grouped
<1> QED  BY <1>1, <1>5, <1>8, <1>9 DEF Grouped

(* The groups that all light roots end in.                                     *)
LEMMA GroupsAre ==
    ASSUME NEW p, RootsGiven(p)
    PROVE  Grouped(p, Components!LightGroups(p), Light(p))
<1>0. PICK seq : seq = Components!Ascending(Light(p))
    OBVIOUS
<1>1. Lists(seq, Light(p)) /\ \E h : Grouping(p, seq, h)
    BY <1>0, GroupsStepwise
<1>2. PICK n \in Nat : n = Len(seq)
    BY <1>1 DEF Lists
<1>3. PICK h : /\ h[0] = {} /\ Components!LightGroups(p) = h[n]
               /\ \A k \in 1..n : h[k] = Components!Merge(p, h[k - 1], seq[k])
    BY <1>1, <1>2 DEF Grouping
<1> DEFINE Taken(k) == {seq[i] : i \in 1..k}
           A == {k \in Nat : k <= n => Grouped(p, h[k], Taken(k))}
<1>4. 0 \in A
    <2>1. Taken(0) = {}
        OBVIOUS
    <2>2. Grouped(p, {}, {})
        BY DEF Grouped
    <2> QED  BY <1>3, <2>1, <2>2
<1>5. ASSUME NEW k \in Nat, k \in A PROVE k + 1 \in A
    <2> SUFFICES ASSUME k + 1 <= n PROVE Grouped(p, h[k + 1], Taken(k + 1))
        OBVIOUS
    <2>1. h[k + 1] = Components!Merge(p, h[k], seq[k + 1])
        BY <1>2, <1>3
    <2>2. Taken(k + 1) = Taken(k) \cup {seq[k + 1]}
        <3>1. 1..(k + 1) = 1..k \cup {k + 1}
            OBVIOUS
        <3> QED  BY <3>1
    <2>3. Grouped(p, h[k], Taken(k))
        BY <1>2, <1>5
    <2> HIDE DEF Taken
    <2> QED  BY <2>1, <2>2, <2>3, MergeGroups
<1>6. n \in A
    <2> HIDE DEF A
    <2> QED  BY <1>2, <1>4, <1>5, Induct
<1>7. Taken(n) = Light(p)
    <2>1. \A i \in 1..n : seq[i] \in Light(p)
        BY <1>1, <1>2 DEF Lists
    <2>2. \A x \in Light(p) : \E i \in 1..n : seq[i] = x
        BY <1>1, <1>2 DEF Lists
    <2> QED  BY <2>1, <2>2
<1>8. n <= n
    OBVIOUS
<1> HIDE DEF Taken
<1> QED  BY <1>8, <1>2, <1>3, <1>6, <1>7

Drawn(s) == CHOOSE x \in s : TRUE

(* The sum that Cost computes over S, whichever element it draws next.           *)
Sums(p, f, S) ==
    f = [s \in SUBSET S |-> IF s = {} THEN 0 ELSE p.cost[Drawn(s)] + f[s \ {Drawn(s)}]]

(* There is such a sum, and Cost is one.                                       *)
LEMMA CostFolds ==
    ASSUME NEW p, RootsGiven(p), NEW S \in SUBSET p.roots
    PROVE  \E f \in [SUBSET S -> Nat] : Sums(p, f, S) /\ Components!Cost(p, S) = f[S]
<1>1. IsFiniteSet(S) /\ \A x \in S : p.cost[x] \in Nat
    BY FS_Subset DEF RootsGiven
<1>2. \A s : s # {} => Drawn(s) \in s
    BY DEF Drawn
<1>3. \E f : Sums(p, f, S)
    <2> DEFINE choose == [s \in SUBSET S |-> Drawn(s)]
               step == [x \in S \X Nat |-> p.cost[x[1]] + x[2]]
    <2>1. \A x \in S, d \in Nat : step[<<x, d>>] = p.cost[x] + d /\ step[<<x, d>>] \in Nat
        BY <1>1
    <2>2. \A s \in SUBSET S : choose[s] = Drawn(s)
        OBVIOUS
    <2> HIDE DEF choose, step
    <2>3. Foldable(S, Nat, 0, choose, step)
        BY <1>1, <1>2, <2>1, <2>2 DEF Foldable
    <2>4. PICK f \in [SUBSET S -> Nat] : Folds(f, S, 0, choose, step)
        BY <2>3, FoldExists
    <2>5. ASSUME NEW s \in SUBSET S, s # {} PROVE f[s] = p.cost[Drawn(s)] + f[s \ {Drawn(s)}]
        <3>1. Drawn(s) \in S /\ f[s \ {Drawn(s)}] \in Nat
            BY <1>2, <2>5
        <3>2. f[s] = step[<<choose[s], f[s \ {choose[s]}]>>]
            BY <2>4, <2>5 DEF Folds
        <3> QED  BY <2>1, <2>2, <3>1, <3>2
    <2>6. f[{}] = 0 /\ f = [s \in SUBSET S |-> f[s]]
        BY <2>4 DEF Folds
    <2> QED  BY <2>5, <2>6 DEF Sums
<1>4. Components!Cost(p, S) = (CHOOSE f : Sums(p, f, S))[S]
    BY DEF Components!Cost, Components!MapThenSumSet, Components!MapThenFoldSet, Sums, Drawn
<1>5. PICK f : Sums(p, f, S) /\ Components!Cost(p, S) = f[S]
    BY <1>3, <1>4
<1> DEFINE A == {s \in SUBSET S : f[s] \in Nat}
<1>6. {} \in A
    BY <1>5 DEF Sums
<1>7. ASSUME NEW s \in SUBSET S, s # {}, \A x \in s : s \ {x} \in A PROVE s \in A
    <2>1. Drawn(s) \in s /\ f[s] = p.cost[Drawn(s)] + f[s \ {Drawn(s)}]
        BY <1>2, <1>5, <1>7 DEF Sums
    <2>2. f[s \ {Drawn(s)}] \in Nat /\ p.cost[Drawn(s)] \in Nat
        BY <1>1, <1>7, <2>1
    <2> QED  BY <2>1, <2>2
<1>8. SUBSET S \subseteq A
    <2> HIDE DEF A
    <2> QED  BY <1>1, <1>6, <1>7, SubsetInduct
<1>9. f \in [SUBSET S -> Nat]
    <2>1. DOMAIN f = SUBSET S /\ f = [s \in SUBSET S |-> f[s]]
        BY <1>5 DEF Sums
    <2> QED  BY <1>8, <2>1
<1> QED  BY <1>5, <1>9

(* Two such sums agree where both are defined.                                  *)
LEMMA SumsAgree ==
    ASSUME NEW p, NEW S, IsFiniteSet(S), NEW T \in SUBSET S, NEW f, NEW g, Sums(p, f, S), Sums(p, g, T)
    PROVE  \A s \in SUBSET T : f[s] = g[s]
<1> DEFINE A == {s \in SUBSET T : f[s] = g[s]}
<1>1. IsFiniteSet(T)
    BY FS_Subset
<1>2. {} \in A
    BY DEF Sums
<1>3. ASSUME NEW s \in SUBSET T, s # {}, \A x \in s : s \ {x} \in A PROVE s \in A
    <2>1. Drawn(s) \in s
        BY <1>3 DEF Drawn
    <2>2. f[s \ {Drawn(s)}] = g[s \ {Drawn(s)}]
        BY <1>3, <2>1
    <2>3. s \in SUBSET S
        OBVIOUS
    <2> QED  BY <1>3, <2>2, <2>3 DEF Sums
<1>4. SUBSET T \subseteq A
    <2> HIDE DEF A
    <2> QED  BY <1>1, <1>2, <1>3, SubsetInduct
<1> QED  BY <1>4

(* The cost of a set of roots is the sum of theirs, in any order.                *)
LEMMA CostIsSum ==
    ASSUME NEW p, RootsGiven(p)
    PROVE  /\ \A S \in SUBSET p.roots : Components!Cost(p, S) \in Nat
           /\ Components!Cost(p, {}) = 0
           /\ \A S \in SUBSET p.roots : \A x \in S :
                 Components!Cost(p, S) = p.cost[x] + Components!Cost(p, S \ {x})
<1>1. IsFiniteSet(p.roots) /\ \A x \in p.roots : p.cost[x] \in Nat
    BY DEF RootsGiven
<1>2. PICK f \in [SUBSET p.roots -> Nat] : Sums(p, f, p.roots)
    BY CostFolds
<1>3. ASSUME NEW S \in SUBSET p.roots PROVE Components!Cost(p, S) = f[S]
    <2>1. PICK g \in [SUBSET S -> Nat] : Sums(p, g, S) /\ Components!Cost(p, S) = g[S]
        BY CostFolds
    <2>2. f[S] = g[S]
        BY <1>1, <1>2, <2>1, SumsAgree
    <2> QED  BY <2>1, <2>2
<1>4. f[{}] = 0 /\ \A s \in SUBSET p.roots : s # {} => f[s] = p.cost[Drawn(s)] + f[s \ {Drawn(s)}]
    BY <1>2 DEF Sums
<1> DEFINE A == {s \in SUBSET p.roots : \A x \in s : f[s] = p.cost[x] + f[s \ {x}]}
<1>5. {} \in A
    OBVIOUS
<1>6. ASSUME NEW s \in SUBSET p.roots, s # {}, \A x \in s : s \ {x} \in A PROVE s \in A
    <2> SUFFICES ASSUME NEW x \in s PROVE f[s] = p.cost[x] + f[s \ {x}]
        OBVIOUS
    <2>1. PICK y \in s : f[s] = p.cost[y] + f[s \ {y}]
        <3>1. Drawn(s) \in s
            BY <1>6 DEF Drawn
        <3> QED  BY <1>4, <1>6, <3>1
    <2>2. CASE x = y
        BY <2>1, <2>2
    <2>3. CASE x # y
        <3>1. f[s \ {y}] = p.cost[x] + f[(s \ {y}) \ {x}]
            BY <1>6, <2>1, <2>3
        <3>2. f[s \ {x}] = p.cost[y] + f[(s \ {x}) \ {y}]
            BY <1>6, <2>1, <2>3
        <3>3. (s \ {y}) \ {x} = (s \ {x}) \ {y}
            OBVIOUS
        <3>4. PICK u \in Nat : u = f[(s \ {x}) \ {y}]
            BY <1>2
        <3>5. PICK a \in Nat : a = p.cost[x]
            BY <1>1
        <3>6. PICK b \in Nat : b = p.cost[y]
            BY <1>1
        <3>7. f[s] = b + (a + u) /\ f[s \ {x}] = b + u
            BY <2>1, <3>1, <3>2, <3>3, <3>4, <3>5, <3>6
        <3> QED  BY <3>5, <3>7
    <2> QED  BY <2>2, <2>3
<1>7. SUBSET p.roots \subseteq A
    <2> HIDE DEF A
    <2> QED  BY <1>1, <1>5, <1>6, SubsetInduct
<1>8. \A S \in SUBSET p.roots : \A x \in S : f[S] = p.cost[x] + f[S \ {x}]
    BY <1>7
<1> QED  BY <1>2, <1>3, <1>4, <1>8

(* The costs of two sets of roots add up when they are disjoint.                 *)
LEMMA CostOfUnion ==
    ASSUME NEW p, RootsGiven(p), NEW S \in SUBSET p.roots, NEW T \in SUBSET p.roots, S \cap T = {}
    PROVE  Components!Cost(p, S \cup T) = Components!Cost(p, S) + Components!Cost(p, T)
<1>1. /\ \A U \in SUBSET p.roots : Components!Cost(p, U) \in Nat
      /\ Components!Cost(p, {}) = 0
      /\ \A U \in SUBSET p.roots : \A x \in U :
            Components!Cost(p, U) = p.cost[x] + Components!Cost(p, U \ {x})
    BY CostIsSum
<1>2. IsFiniteSet(T) /\ \A x \in T : p.cost[x] \in Nat
    BY FS_Subset DEF RootsGiven
<1> DEFINE A == {U \in SUBSET T : Components!Cost(p, S \cup U) = Components!Cost(p, S) + Components!Cost(p, U)}
<1>3. {} \in A
    <2>1. S \cup {} = S
        OBVIOUS
    <2> QED  BY <1>1, <2>1
<1>4. ASSUME NEW U \in SUBSET T, U # {}, \A x \in U : U \ {x} \in A PROVE U \in A
    <2>1. PICK x \in U : TRUE
        BY <1>4
    <2>2. (S \cup U) \ {x} = S \cup (U \ {x}) /\ x \in S \cup U
        BY <2>1
    <2>3. S \cup U \in SUBSET p.roots /\ U \in SUBSET p.roots /\ U \ {x} \in SUBSET p.roots
        OBVIOUS
    <2>4. Components!Cost(p, S \cup (U \ {x})) = Components!Cost(p, S) + Components!Cost(p, U \ {x})
        BY <1>4, <2>1
    <2>5. Components!Cost(p, S \cup U) = p.cost[x] + Components!Cost(p, S \cup (U \ {x}))
        BY <1>1, <2>2, <2>3
    <2>6. Components!Cost(p, U) = p.cost[x] + Components!Cost(p, U \ {x})
        BY <1>1, <2>1, <2>3
    <2>7. /\ Components!Cost(p, S) \in Nat /\ Components!Cost(p, U \ {x}) \in Nat /\ p.cost[x] \in Nat
        BY <1>1, <1>2, <2>3
    <2> QED  BY <2>4, <2>5, <2>6, <2>7
<1>5. SUBSET T \subseteq A
    <2> HIDE DEF A
    <2> QED  BY <1>2, <1>3, <1>4, SubsetInduct
<1> QED  BY <1>5

(* Groups are finite sets of light roots.                                      *)
LEMMA GroupFacts ==
    ASSUME NEW p, RootsGiven(p)
    PROVE  /\ IsFiniteSet(Components!LightGroups(p))
           /\ \A g \in Components!LightGroups(p) :
                 /\ g \in SUBSET Light(p) /\ g \in SUBSET p.roots /\ g \in SUBSET Nat
                 /\ IsFiniteSet(g) /\ g # {}
                 /\ Components!Cost(p, g) \in Nat
<1>1. Grouped(p, Components!LightGroups(p), Light(p))
    BY GroupsAre
<1>2. Light(p) \in SUBSET p.roots /\ p.roots \in SUBSET Nat /\ IsFiniteSet(p.roots)
    BY DEF RootsGiven, Light
<1>3. IsFiniteSet(Light(p))
    BY <1>2, FS_Subset
<1>4. Components!LightGroups(p) \in SUBSET SUBSET Light(p)
    <2>1. UNION Components!LightGroups(p) = Light(p)
        BY <1>1 DEF Grouped
    <2> QED  BY <2>1
<1>5. IsFiniteSet(Components!LightGroups(p))
    <2>1. PICK all : all = SUBSET Light(p)
        OBVIOUS
    <2>2. IsFiniteSet(all)
        BY <1>3, <2>1, FS_SUBSET
    <2>3. Components!LightGroups(p) \in SUBSET all
        BY <1>4, <2>1
    <2> QED  BY <2>2, <2>3, FS_Subset
<1>6. ASSUME NEW g \in Components!LightGroups(p)
      PROVE  /\ g \in SUBSET Light(p) /\ g \in SUBSET p.roots /\ g \in SUBSET Nat
             /\ IsFiniteSet(g) /\ g # {} /\ Components!Cost(p, g) \in Nat
    <2>0. {} \notin Components!LightGroups(p)
        BY <1>1 DEF Grouped
    <2>1. g \in SUBSET Light(p) /\ g # {}
        BY <1>4, <2>0
    <2>2. g \in SUBSET p.roots /\ g \in SUBSET Nat
        BY <1>2, <2>1
    <2>3. IsFiniteSet(g)
        BY <1>3, <2>1, FS_Subset
    <2> QED  BY <2>1, <2>2, <2>3, CostIsSum
<1> QED  BY <1>5, <1>6

(* The groups in the order in which they are placed: no group costs more than one *)
(* before it.                                                                *)
InOrder(p, seq) ==
    /\ Lists(seq, Components!LightGroups(p))
    /\ \A i, j \in 1..Len(seq) : i < j => Components!Cost(p, seq[j]) <= Components!Cost(p, seq[i])

Earlier(p) ==
    {e \in Components!LightGroups(p) \X Components!LightGroups(p) : Components!Heavier(p, e[1], e[2])}
Placed(p) == Components!Order(Components!LightGroups(p), Earlier(p))

LEMMA GroupsInOrder ==
    ASSUME NEW p, RootsGiven(p)
    PROVE  InOrder(p, Placed(p))
<1>1. PICK S : S = Components!LightGroups(p)
    OBVIOUS
<1>2. /\ IsFiniteSet(S)
      /\ \A g \in S : /\ g \in SUBSET Nat /\ IsFiniteSet(g) /\ g # {} /\ Components!Cost(p, g) \in Nat
    BY <1>1, GroupFacts
<1>3. \A g \in S : Components!Min(g) \in g /\ Components!Min(g) \in Nat
    BY <1>2, MinIs
<1>4. \A g, h \in S : g # h => g \cap h = {}
    <2>1. \A g, h \in S : g # h => \A i \in g, j \in h : Apart(p, i, j)
        BY <1>1, GroupsAre DEF Grouped
    <2> QED  BY <2>1, ApartFacts
<1>5. PICK R : R = Earlier(p) /\ \A g, h \in S : <<g, h>> \in R <=> Components!Heavier(p, g, h)
    <2>1. PICK R : R = Earlier(p)
        OBVIOUS
    <2>2. R = {e \in S \X S : Components!Heavier(p, e[1], e[2])}
        BY <1>1, <2>1 DEF Earlier
    <2> QED  BY <2>1, <2>2
<1>6. Orders(R, S)
    <2>1. \A g \in S : <<g, g>> \notin R
        BY <1>2, <1>3, <1>5 DEF Components!Heavier
    <2>2. ASSUME NEW g \in S, NEW h \in S, g # h PROVE <<g, h>> \in R \/ <<h, g>> \in R
        <3>1. Components!Min(g) # Components!Min(h)
            BY <1>3, <1>4, <2>2
        <3> QED  BY <1>2, <1>3, <1>5, <3>1 DEF Components!Heavier
    <2>3. ASSUME NEW f \in S, NEW g \in S, NEW h \in S, <<f, g>> \in R, <<g, h>> \in R PROVE <<f, h>> \in R
        BY <1>2, <1>3, <1>5, <2>3 DEF Components!Heavier
    <2> QED  BY <2>1, <2>2, <2>3 DEF Orders
<1>7. PICK s : s = Placed(p)
    OBVIOUS
<1>8. Enumerates(s, R, S) /\ Lists(s, S) /\ Len(s) = Cardinality(S)
    BY <1>1, <1>2, <1>5, <1>6, <1>7, OrderLists DEF Placed
<1>9. PICK n \in Nat : n = Len(s)
    BY <1>8 DEF Lists
<1>10. s \in [1..n -> S] /\ \A i, j \in 1..n : i < j => <<s[i], s[j]>> \in R
    BY <1>8, <1>9 DEF Enumerates
<1>11. ASSUME NEW i \in 1..n, NEW j \in 1..n, i < j
       PROVE  Components!Cost(p, s[j]) <= Components!Cost(p, s[i])
    <2>1. s[i] \in S /\ s[j] \in S /\ Components!Heavier(p, s[i], s[j])
        BY <1>5, <1>10, <1>11
    <2> QED  BY <1>2, <2>1 DEF Components!Heavier
<1> QED  BY <1>1, <1>7, <1>8, <1>9, <1>11 DEF InOrder

Started(p) ==
    [i \in 1..p.count |->
        IF i <= Len(Components!Ascending(p.heavy)) THEN <<Components!Ascending(p.heavy)[i]>> ELSE <<>>]

Shards(p) == [1..p.count -> Seq(p.roots)]

(* The shards after each group: h[k] after the first k.                           *)
Placing(p, seq, h) ==
    /\ h[0] = Started(p) /\ Components!Partition(p) = h[Len(seq)]
    /\ \A k \in 1..Len(seq) : h[k] = Components!Place(p, h[k - 1], seq[k])

(* A joined sequence has the elements of both.                                 *)
LEMMA Joined ==
    ASSUME NEW S, NEW s \in Seq(S), NEW t \in Seq(S)
    PROVE  /\ s \o t \in Seq(S)
           /\ Components!ToSet(s \o t) = Components!ToSet(s) \cup Components!ToSet(t)
<1>1. PICK m \in Nat : m = Len(s) /\ DOMAIN s = 1..m
    OBVIOUS
<1>2. PICK n \in Nat : n = Len(t) /\ DOMAIN t = 1..n
    OBVIOUS
<1>3. s \o t \in Seq(S) /\ DOMAIN (s \o t) = 1..(m + n)
    BY <1>1, <1>2
<1>4. \A i \in 1..(m + n) : (s \o t)[i] = IF i <= m THEN s[i] ELSE t[i - m]
    BY <1>1, <1>2
<1>5. PICK u : u = s \o t
    OBVIOUS
<1>6. ASSUME NEW x \in Components!ToSet(u) PROVE x \in Components!ToSet(s) \cup Components!ToSet(t)
    <2>1. PICK i \in 1..(m + n) : u[i] = x
        BY <1>3, <1>5, <1>6 DEF Components!ToSet
    <2>2. CASE i <= m
        BY <1>1, <1>4, <1>5, <2>1, <2>2 DEF Components!ToSet
    <2>3. CASE i > m
        <3>0. i - m \in 1..n /\ ~ (i <= m)
            BY <2>3
        <3>1. i - m \in 1..n /\ u[i] = t[i - m]
            BY <1>4, <1>5, <3>0
        <3> QED  BY <1>2, <2>1, <3>1 DEF Components!ToSet
    <2> QED  BY <2>2, <2>3
<1>7. ASSUME NEW x \in Components!ToSet(s) PROVE x \in Components!ToSet(u)
    <2>1. PICK i \in 1..m : s[i] = x
        BY <1>1, <1>7 DEF Components!ToSet
    <2>2. i \in 1..(m + n) /\ i <= m
        BY <2>1
    <2>3. u[i] = x
        BY <1>4, <1>5, <2>1, <2>2
    <2> QED  BY <1>3, <1>5, <2>2, <2>3 DEF Components!ToSet
<1>8. ASSUME NEW x \in Components!ToSet(t) PROVE x \in Components!ToSet(u)
    <2>1. PICK i \in 1..n : t[i] = x
        BY <1>2, <1>8 DEF Components!ToSet
    <2>2. i + m \in 1..(m + n) /\ ~ (i + m <= m) /\ (i + m) - m = i
        OBVIOUS
    <2>3. u[i + m] = x
        BY <1>4, <1>5, <2>1, <2>2
    <2> QED  BY <1>3, <1>5, <2>2, <2>3 DEF Components!ToSet
<1>9. Components!ToSet(u) = Components!ToSet(s) \cup Components!ToSet(t)
    BY <1>6, <1>7, <1>8
<1> QED  BY <1>3, <1>5, <1>9

(* Every step gives each shard a sequence of roots.                             *)
LEMMA PlaceIsShards ==
    ASSUME NEW p, RootsGiven(p), NEW shards \in Shards(p), NEW g \in Components!LightGroups(p)
    PROVE  Components!Place(p, shards, g) \in Shards(p)
<1>1. PICK i : i = Components!LeastLoaded(p, shards)
    OBVIOUS
<1>2. Components!Place(p, shards, g) = [shards EXCEPT ![i] = shards[i] \o Components!Ascending(g)]
    BY <1>1 DEF Components!Place
<1>3. Components!Ascending(g) \in Seq(p.roots)
    <2>1. Lists(Components!Ascending(g), g) /\ g \in SUBSET p.roots
        BY GroupFacts, AscendingLists
    <2> QED  BY <2>1 DEF Lists
<1>4. i \in 1..p.count => shards[i] \o Components!Ascending(g) \in Seq(p.roots)
    <2> SUFFICES ASSUME i \in 1..p.count PROVE shards[i] \o Components!Ascending(g) \in Seq(p.roots)
        OBVIOUS
    <2>1. shards[i] \in Seq(p.roots)
        BY DEF Shards
    <2> QED  BY <1>3, <2>1, Joined
<1>5. PICK all : all = Seq(p.roots)
    OBVIOUS
<1>6. shards \in [1..p.count -> all]
    BY <1>5 DEF Shards
<1>7. Components!Place(p, shards, g) \in [1..p.count -> all]
    BY <1>2, <1>4, <1>5, <1>6
<1> QED  BY <1>5, <1>7 DEF Shards

LEMMA StartedIsShards ==
    ASSUME NEW p, RootsGiven(p)
    PROVE  Started(p) \in Shards(p)
<1>1. Lists(Components!Ascending(p.heavy), p.heavy)
    <2>1. p.heavy \in SUBSET Nat
        BY DEF RootsGiven
    <2>2. IsFiniteSet(p.heavy)
        BY FS_Subset DEF RootsGiven
    <2> QED  BY <2>1, <2>2, AscendingLists
<1>2. PICK n \in Nat : n = Len(Components!Ascending(p.heavy))
    BY <1>1 DEF Lists
<1>3. p.count \in Nat /\ p.heavy \in SUBSET p.roots
    BY DEF RootsGiven
<1>4. \A i \in 1..n : Components!Ascending(p.heavy)[i] \in p.roots
    BY <1>1, <1>2, <1>3 DEF Lists
<1>5. ASSUME NEW i \in 1..p.count PROVE Started(p)[i] \in Seq(p.roots)
    <2>1. CASE i <= n
        <3>1. Started(p)[i] = <<Components!Ascending(p.heavy)[i]>> /\ Components!Ascending(p.heavy)[i] \in p.roots
            BY <1>2, <1>4, <2>1 DEF Started
        <3>2. \A S : \A x \in S : <<x>> \in Seq(S)
            OBVIOUS
        <3> QED  BY <3>1, <3>2, Zenon
    <2>2. CASE i > n
        <3>1. Started(p)[i] = <<>>
            BY <1>2, <2>2 DEF Started
        <3>2. \A S : <<>> \in Seq(S)
            OBVIOUS
        <3> QED  BY <3>1, <3>2
    <2> QED  BY <1>2, <2>1, <2>2
<1>6. Started(p) = [i \in 1..p.count |-> Started(p)[i]]
    BY DEF Started
<1>7. PICK all : all = Seq(p.roots)
    OBVIOUS
<1>8. Started(p) \in [1..p.count -> all]
    BY <1>5, <1>6, <1>7
<1> QED  BY <1>7, <1>8 DEF Shards

(* Partition places the groups one after another.                               *)
LEMMA PlacedStepwise ==
    ASSUME NEW p, RootsGiven(p), NEW seq, seq = Placed(p)
    PROVE  \E h : Placing(p, seq, h)
<1>1. InOrder(p, seq)
    BY GroupsInOrder
<1>2. PICK n \in Nat : n = Len(seq)
    BY <1>1 DEF InOrder, Lists
<1>3. DOMAIN seq = 1..n /\ \A k \in 1..n : seq[k] \in Components!LightGroups(p)
    BY <1>1, <1>2 DEF InOrder, Lists
<1> DEFINE Eq(f) == f = [s \in SUBSET (1..n) |->
               IF s = {} THEN Started(p)
               ELSE Components!Place(p, f[s \ {Components!Max(s)}], seq[Components!Max(s)])]
<1>4. Components!Partition(p) = (CHOOSE f : Eq(f))[1..n]
    BY <1>3, Zenon DEF Components!Partition, Components!FoldLeft, Components!MapThenFoldSet, Placed, Earlier, Started
<1>5. \E f : Eq(f)
    <2> DEFINE D == Shards(p)
               step == [x \in (1..n) \X D |-> Components!Place(p, x[2], seq[x[1]])]
    <2>1. \A k \in 1..n, d \in D : Components!Place(p, d, seq[k]) \in D
        BY <1>3, PlaceIsShards
    <2>2. \A k \in 1..n, d \in D : step[<<k, d>>] = Components!Place(p, d, seq[k])
        OBVIOUS
    <2>3. \A k \in 1..n, d \in D : step[<<k, d>>] \in D
        BY <2>1, <2>2
    <2>4. Started(p) \in D
        BY StartedIsShards
    <2> HIDE DEF D, step
    <2>5. PICK f : Stepped(f, n, D, Started(p), step)
        BY <2>3, <2>4, PrefixFold DEF Steps
    <2>6. Eq(f)
        BY <2>2, <2>5 DEF Stepped
    <2> QED  BY <2>6, Zenon
<1>6. PICK F : Eq(F) /\ Components!Partition(p) = F[1..n]
    <2> HIDE DEF Eq
    <2> QED  BY <1>4, <1>5
<1> DEFINE h == [k \in 0..n |-> F[1..k]]
<1>7. F[{}] = Started(p) /\ \A s \in SUBSET (1..n) : s # {} =>
          F[s] = Components!Place(p, F[s \ {Components!Max(s)}], seq[Components!Max(s)])
    <2>1. \A s \in SUBSET (1..n) :
              F[s] = IF s = {} THEN Started(p)
                     ELSE Components!Place(p, F[s \ {Components!Max(s)}], seq[Components!Max(s)])
        BY <1>6, Zenon
    <2> QED  BY <2>1
<1> HIDE DEF Eq
<1>8. ASSUME NEW k \in 1..n PROVE h[k] = Components!Place(p, h[k - 1], seq[k])
    <2>1. 1..k \in SUBSET (1..n) /\ k \in 0..n /\ k - 1 \in 0..n /\ k \in Nat \ {0}
        OBVIOUS
    <2>2. h[k] = F[1..k] /\ h[k - 1] = F[1..(k - 1)]
        BY <2>1
    <2> HIDE DEF h
    <2>3. 1..k # {} /\ Components!Max(1..k) = k /\ (1..k) \ {k} = 1..(k - 1)
        BY <2>1, Prefixes
    <2> QED  BY <1>7, <2>1, <2>2, <2>3
<1>9. 1..0 = {} /\ 0 \in 0..n /\ n \in 0..n
    OBVIOUS
<1>10. h[0] = Started(p) /\ Components!Partition(p) = h[n]
    BY <1>6, <1>7, <1>9
<1> HIDE DEF h
<1>11. Placing(p, seq, h)
    BY <1>2, <1>8, <1>10 DEF Placing
<1> QED  BY <1>11

(* The shards that groups are placed on, what a shard holds and how much that is.  *)
Lights(p) == (Components!Cardinality(p.heavy) + 1)..p.count
Contents(shards, i) == Components!ToSet(shards[i])
Load(p, shards, i) == Components!Cost(p, Contents(shards, i))

LEMMA LightsAre ==
    ASSUME NEW p, RootsGiven(p), Components!Valid(p)
    PROVE  /\ Cardinality(p.heavy) \in Nat /\ Cardinality(p.heavy) < p.count /\ p.count \in Nat
           /\ Lights(p) = (Cardinality(p.heavy) + 1)..p.count
           /\ Lights(p) \in SUBSET Nat /\ IsFiniteSet(Lights(p)) /\ Lights(p) # {}
           /\ Lights(p) \subseteq 1..p.count
<1>1. p.heavy \in SUBSET p.roots /\ IsFiniteSet(p.roots) /\ p.count \in Nat
    BY DEF RootsGiven
<1>2. PICK n \in Nat : n = Cardinality(p.heavy)
    BY <1>1, FS_Subset, FS_CardinalityType
<1>3. n < p.count /\ Lights(p) = (n + 1)..p.count
    BY <1>2, SameCardinality DEF Components!Valid, Lights
<1>4. n + 1 \in Int /\ p.count \in Int
    BY <1>1
<1>5. IsFiniteSet((n + 1)..p.count)
    BY ONLY <1>4, FS_Interval
<1> QED  BY <1>1, <1>2, <1>3, <1>5

LEMMA ContentsAre ==
    ASSUME NEW p, RootsGiven(p), NEW shards \in Shards(p), NEW i \in 1..p.count
    PROVE  Contents(shards, i) \in SUBSET p.roots /\ Load(p, shards, i) \in Nat
<1>1. shards[i] \in Seq(p.roots)
    BY DEF Shards
<1>2. Contents(shards, i) \in SUBSET p.roots
    BY <1>1 DEF Contents, Components!ToSet
<1> QED  BY <1>2, CostIsSum DEF Load

(* A group goes to a shard on which there is least.                             *)
LEMMA LeastLoadedIs ==
    ASSUME NEW p, RootsGiven(p), Components!Valid(p), NEW shards \in Shards(p)
    PROVE  /\ Components!LeastLoaded(p, shards) \in Lights(p)
           /\ \A j \in Lights(p) : Load(p, shards, Components!LeastLoaded(p, shards)) <= Load(p, shards, j)
<1>1. PICK L : L = Lights(p)
    OBVIOUS
<1>2. L \in SUBSET Nat /\ IsFiniteSet(L) /\ L # {} /\ L \subseteq 1..p.count
    BY <1>1, LightsAre
<1>3. PICK load : load = [i \in L |-> Load(p, shards, i)]
    OBVIOUS
<1>4. \A i \in L : load[i] \in Nat /\ load[i] = Load(p, shards, i)
    BY <1>2, <1>3, ContentsAre
<1> DEFINE R == {e \in L \X L : load[e[2]] < load[e[1]] \/ (load[e[2]] = load[e[1]] /\ e[2] < e[1])}
<1>5. \A i, j \in L : <<i, j>> \in R <=> load[j] < load[i] \/ (load[j] = load[i] /\ j < i)
    OBVIOUS
<1> HIDE DEF R
<1>6. Orders(R, L)
    <2>1. \A i \in L : <<i, i>> \notin R
        BY <1>2, <1>4, <1>5
    <2>2. \A i, j \in L : i # j => <<i, j>> \in R \/ <<j, i>> \in R
        BY <1>2, <1>4, <1>5
    <2>3. ASSUME NEW i \in L, NEW j \in L, NEW k \in L, <<i, j>> \in R, <<j, k>> \in R PROVE <<i, k>> \in R
        <3>1. i \in Nat /\ j \in Nat /\ k \in Nat
            BY <1>2
        <3> QED  BY <1>4, <1>5, <2>3, <3>1
    <2> QED  BY <2>1, <2>2, <2>3 DEF Orders
<1>7. PICK i \in L : \A j \in L \ {i} : <<j, i>> \in R
    <2>0. IsFiniteSet(L) /\ L # {}
        BY <1>2
    <2>1. \E i \in L : \A j \in L \ {i} : <<j, i>> \in R
        BY <2>0, <1>6, LastExists
    <2> QED  BY <2>1
<1> DEFINE P(m) == \A j \in L : Load(p, shards, m) < Load(p, shards, j)
                               \/ (Load(p, shards, m) = Load(p, shards, j) /\ m <= j)
<1>8. P(i)
    <2> SUFFICES ASSUME NEW j \in L
                 PROVE  load[i] < load[j] \/ (load[i] = load[j] /\ i <= j)
        BY <1>4
    <2>1. CASE j = i
        BY <1>2, <2>1
    <2>2. CASE j # i
        <3>1. <<j, i>> \in R /\ i \in Nat /\ j \in Nat
            BY <1>2, <1>7, <2>2
        <3> QED  BY <1>5, <3>1
    <2> QED  BY <2>1, <2>2
<1>9. Components!LeastLoaded(p, shards) = CHOOSE m \in L : P(m)
    BY <1>1 DEF Components!LeastLoaded, Lights, Load, Contents
<1>10. Components!LeastLoaded(p, shards) \in L /\ P(Components!LeastLoaded(p, shards))
    <2> HIDE DEF P
    <2> QED  BY <1>8, <1>9, Zenon
<1>11. PICK m \in L : m = Components!LeastLoaded(p, shards) /\ P(m)
    BY <1>10
<1>12. \A j \in L : load[m] <= load[j]
    BY <1>2, <1>4, <1>11
<1> QED  BY <1>1, <1>4, <1>11, <1>12

(* It is there afterwards, and nothing else has moved.                           *)
LEMMA PlaceAdds ==
    ASSUME NEW p, RootsGiven(p), Components!Valid(p), NEW shards \in Shards(p),
           NEW g \in Components!LightGroups(p), NEW after, after = Components!Place(p, shards, g)
    PROVE  \E i \in Lights(p) :
               /\ after \in Shards(p)
               /\ Contents(after, i) = Contents(shards, i) \cup g
               /\ \A j \in (1..p.count) \ {i} : Contents(after, j) = Contents(shards, j)
               /\ \A j \in Lights(p) : Load(p, shards, i) <= Load(p, shards, j)
<1>1. PICK i \in Lights(p) : /\ i = Components!LeastLoaded(p, shards)
                             /\ \A j \in Lights(p) : Load(p, shards, i) <= Load(p, shards, j)
    BY LeastLoadedIs
<1>2. after = [shards EXCEPT ![i] = shards[i] \o Components!Ascending(g)]
    BY <1>1 DEF Components!Place
<1>3. after \in Shards(p)
    BY PlaceIsShards
<1>4. i \in 1..p.count
    BY LightsAre
<1>5. Lists(Components!Ascending(g), g) /\ g \in SUBSET p.roots
    BY GroupFacts, AscendingLists
<1>6. Components!ToSet(Components!Ascending(g)) = g /\ Components!Ascending(g) \in Seq(p.roots)
    <2>1. PICK s : s = Components!Ascending(g)
        OBVIOUS
    <2>2. s \in Seq(g) /\ DOMAIN s = 1..Len(s) /\ \A x \in g : \E k \in 1..Len(s) : s[k] = x
        BY <1>5, <2>1 DEF Lists
    <2>3. \A k \in DOMAIN s : s[k] \in g
        BY <2>2
    <2>4. Components!ToSet(s) = g
        BY <2>2, <2>3 DEF Components!ToSet
    <2> QED  BY <1>5, <2>1, <2>2, <2>4
<1>7. shards[i] \in Seq(p.roots)
    BY <1>4 DEF Shards
<1>8. DOMAIN shards = 1..p.count
    BY DEF Shards
<1>9. Contents(after, i) = Contents(shards, i) \cup g
    <2>1. after[i] = shards[i] \o Components!Ascending(g)
        BY <1>2, <1>4, <1>8
    <2> QED  BY <1>6, <1>7, <2>1, Joined DEF Contents
<1>10. \A j \in (1..p.count) \ {i} : Contents(after, j) = Contents(shards, j)
    BY <1>2, <1>8 DEF Contents
<1> QED  BY <1>1, <1>3, <1>9, <1>10

(* The shards when the first k groups are placed: a heavy root has one for itself, *)
(* a group is in one of the others, and none is ahead of another by more than the  *)
(* least costly of its groups.                                                 *)
HeavyAlone(p, shards) ==
    \A i \in 1..Cardinality(p.heavy) : Contents(shards, i) = {Components!Ascending(p.heavy)[i]}

GroupsHeld(p, shards, seq, k) ==
    /\ \A m \in 1..k : \E i \in Lights(p) : seq[m] \subseteq Contents(shards, i)
    /\ \A i \in Lights(p) : \A x \in Contents(shards, i) :
          \E m \in 1..k : x \in seq[m] /\ seq[m] \subseteq Contents(shards, i)
    /\ \A i, j \in Lights(p) : i # j => Contents(shards, i) \cap Contents(shards, j) = {}

Balanced(p, shards, seq, k) ==
    \A i, j \in Lights(p) : \A m \in 1..k :
        seq[m] \subseteq Contents(shards, i) =>
            Load(p, shards, i) <= Load(p, shards, j) + Components!Cost(p, seq[m])

Shared(p, shards, seq, k) ==
    /\ shards \in Shards(p)
    /\ HeavyAlone(p, shards)
    /\ GroupsHeld(p, shards, seq, k)
    /\ Balanced(p, shards, seq, k)

LEMMA StartedShares ==
    ASSUME NEW p, RootsGiven(p), Components!Valid(p), NEW seq
    PROVE  Shared(p, Started(p), seq, 0)
<1>1. PICK n \in Nat : n = Cardinality(p.heavy) /\ n < p.count /\ p.count \in Nat /\ Lights(p) = (n + 1)..p.count
    BY LightsAre
<1>2. Lists(Components!Ascending(p.heavy), p.heavy) /\ Len(Components!Ascending(p.heavy)) = n
    <2>1. p.heavy \in SUBSET Nat
        BY DEF RootsGiven
    <2>2. IsFiniteSet(p.heavy)
        BY FS_Subset DEF RootsGiven
    <2> QED  BY <1>1, <2>1, <2>2, AscendingLists
<1>3. ASSUME NEW i \in 1..n PROVE Contents(Started(p), i) = {Components!Ascending(p.heavy)[i]}
    <2>1. Started(p)[i] = <<Components!Ascending(p.heavy)[i]>>
        BY <1>1, <1>2 DEF Started
    <2> QED  BY <2>1 DEF Contents, Components!ToSet
<1>4. ASSUME NEW i \in Lights(p) PROVE Contents(Started(p), i) = {}
    <2>1. Started(p)[i] = <<>>
        BY <1>1, <1>2 DEF Started
    <2> QED  BY <2>1 DEF Contents, Components!ToSet
<1>5. Balanced(p, Started(p), seq, 0) /\ GroupsHeld(p, Started(p), seq, 0)
    BY <1>4 DEF Balanced, GroupsHeld
<1>6. HeavyAlone(p, Started(p))
    BY <1>1, <1>3 DEF HeavyAlone
<1> QED  BY <1>5, <1>6, StartedIsShards DEF Shared

(* The shard that a group is placed on was no fuller than any other, and no group  *)
(* on it costs less than this one: it is ahead by no more than what came last.     *)
LEMMA PlaceShares ==
    ASSUME NEW p, RootsGiven(p), Components!Valid(p), NEW seq, InOrder(p, seq), NEW k \in Nat, k + 1 <= Len(seq),
           NEW shards, Shared(p, shards, seq, k), NEW after, after = Components!Place(p, shards, seq[k + 1])
    PROVE  Shared(p, after, seq, k + 1)
<1>1. PICK n \in Nat : n = Len(seq)
    BY DEF InOrder, Lists
<1>2. /\ \A m \in 1..n : seq[m] \in Components!LightGroups(p)
      /\ \A l, m \in 1..n : seq[l] = seq[m] => l = m
      /\ \A l, m \in 1..n : l < m => Components!Cost(p, seq[m]) <= Components!Cost(p, seq[l])
    BY <1>1 DEF InOrder, Lists
<1>3. PICK g \in Components!LightGroups(p) : g = seq[k + 1]
    BY <1>1, <1>2
<1>4. \A m \in 1..n : Components!Cost(p, seq[m]) \in Nat /\ seq[m] \in SUBSET p.roots
    BY <1>2, GroupFacts
<1>5. \A m \in 1..k : seq[m] # g /\ m \in 1..n
    BY <1>1, <1>2, <1>3
<1>6. \A m \in 1..k : seq[m] \cap g = {}
    <2>1. \A h \in Components!LightGroups(p) : h # g => \A i \in h, j \in g : Apart(p, i, j)
        BY GroupsAre DEF Grouped
    <2> QED  BY <1>2, <1>5, <2>1, ApartFacts
<1>7. shards \in Shards(p) /\ Lights(p) \subseteq 1..p.count
    BY LightsAre DEF Shared
<1>8. PICK i \in Lights(p) :
          /\ after \in Shards(p)
          /\ Contents(after, i) = Contents(shards, i) \cup g
          /\ \A j \in (1..p.count) \ {i} : Contents(after, j) = Contents(shards, j)
          /\ \A j \in Lights(p) : Load(p, shards, i) <= Load(p, shards, j)
    BY <1>3, <1>7, PlaceAdds
<1>9. \A j \in Lights(p) : Contents(shards, j) \cap g = {}
    BY <1>6 DEF Shared, GroupsHeld
<1>10. /\ \A j \in Lights(p) : Load(p, shards, j) \in Nat /\ Load(p, after, j) \in Nat
       /\ Load(p, after, i) = Load(p, shards, i) + Components!Cost(p, g)
       /\ \A j \in Lights(p) \ {i} : Load(p, after, j) = Load(p, shards, j)
    <2>1. \A j \in Lights(p) : Load(p, shards, j) \in Nat /\ Load(p, after, j) \in Nat
        BY <1>7, <1>8, ContentsAre
    <2>2. Contents(shards, i) \in SUBSET p.roots /\ g \in SUBSET p.roots
        BY <1>7, ContentsAre, GroupFacts
    <2>3. Components!Cost(p, Contents(shards, i) \cup g) = Components!Cost(p, Contents(shards, i)) + Components!Cost(p, g)
        BY <1>9, <2>2, CostOfUnion
    <2> QED  BY <1>7, <1>8, <2>1, <2>3 DEF Load
<1>11. HeavyAlone(p, after)
    <2>1. \A j \in 1..Cardinality(p.heavy) : j # i /\ j \in 1..p.count
        BY LightsAre
    <2> QED  BY <1>8, <2>1 DEF Shared, HeavyAlone
<1>12. \A m \in 1..(k + 1) : m \in 1..k \/ (m = k + 1 /\ seq[m] = g)
    BY <1>3
<1>13. \A j \in Lights(p) : Contents(shards, j) \subseteq Contents(after, j)
    BY <1>7, <1>8
<1>14. GroupsHeld(p, after, seq, k + 1)
    <2>1. ASSUME NEW m \in 1..(k + 1) PROVE \E j \in Lights(p) : seq[m] \subseteq Contents(after, j)
        BY <1>8, <1>12, <1>13 DEF Shared, GroupsHeld
    <2>2. ASSUME NEW j \in Lights(p), NEW x \in Contents(after, j)
          PROVE  \E m \in 1..(k + 1) : x \in seq[m] /\ seq[m] \subseteq Contents(after, j)
        <3>1. CASE x \in Contents(shards, j)
            <4>1. PICK m \in 1..k : x \in seq[m] /\ seq[m] \subseteq Contents(shards, j)
                BY <3>1 DEF Shared, GroupsHeld
            <4> QED  BY <1>13, <4>1
        <3>2. CASE x \notin Contents(shards, j)
            <4>1. j = i /\ x \in g /\ k + 1 \in 1..(k + 1)
                BY <1>7, <1>8, <3>2
            <4> QED  BY <1>3, <1>8, <4>1
        <3> QED  BY <3>1, <3>2
    <2>3. ASSUME NEW j \in Lights(p), NEW l \in Lights(p), j # l
          PROVE  Contents(after, j) \cap Contents(after, l) = {}
        <3>1. Contents(shards, j) \cap Contents(shards, l) = {}
            BY <2>3 DEF Shared, GroupsHeld
        <3> QED  BY <1>7, <1>8, <1>9, <2>3, <3>1
    <2> QED  BY <2>1, <2>2, <2>3 DEF GroupsHeld
<1>15. Balanced(p, after, seq, k + 1)
    <2> SUFFICES ASSUME NEW j \in Lights(p), NEW l \in Lights(p), NEW m \in 1..(k + 1), seq[m] \subseteq Contents(after, j)
                 PROVE  Load(p, after, j) <= Load(p, after, l) + Components!Cost(p, seq[m])
        BY DEF Balanced
    <2>1. Load(p, shards, l) <= Load(p, after, l)
        BY <1>3, <1>4, <1>10, GroupFacts
    <2>2. Components!Cost(p, g) \in Nat /\ Components!Cost(p, seq[m]) \in Nat
        BY <1>1, <1>4, <1>3, GroupFacts
    <2>3. CASE j = i
        <3>1. Components!Cost(p, g) <= Components!Cost(p, seq[m])
            BY <1>1, <1>2, <1>3, <1>12, <2>2
        <3>2. Load(p, shards, i) <= Load(p, shards, l)
            BY <1>8
        <3> QED  BY <1>10, <2>1, <2>2, <2>3, <3>1, <3>2
    <2>4. CASE j # i
        <3>1. Contents(after, j) = Contents(shards, j) /\ Load(p, after, j) = Load(p, shards, j)
            BY <1>7, <1>8, <1>10, <2>4
        <3>2. m \in 1..k
            <4>1. g # {} /\ Contents(shards, j) \cap g = {}
                BY <1>9, GroupFacts
            <4> QED  BY <1>12, <3>1, <4>1
        <3>3. Load(p, shards, j) <= Load(p, shards, l) + Components!Cost(p, seq[m])
            BY <3>1, <3>2 DEF Shared, Balanced
        <3> QED  BY <1>10, <2>1, <2>2, <3>1, <3>3
    <2> QED  BY <2>3, <2>4
<1> QED  BY <1>8, <1>11, <1>14, <1>15 DEF Shared

LEMMA PartitionShares ==
    ASSUME NEW p, RootsGiven(p), Components!Valid(p), NEW seq, seq = Placed(p)
    PROVE  InOrder(p, seq) /\ Shared(p, Components!Partition(p), seq, Len(seq))
<1>1. InOrder(p, seq) /\ \E h : Placing(p, seq, h)
    BY GroupsInOrder, PlacedStepwise
<1>2. PICK n \in Nat : n = Len(seq)
    BY <1>1 DEF InOrder, Lists
<1>3. PICK h : /\ h[0] = Started(p) /\ Components!Partition(p) = h[n]
               /\ \A k \in 1..n : h[k] = Components!Place(p, h[k - 1], seq[k])
    BY <1>1, <1>2 DEF Placing
<1> DEFINE A == {k \in Nat : k <= n => Shared(p, h[k], seq, k)}
<1>4. 0 \in A
    BY <1>3, StartedShares
<1>5. ASSUME NEW k \in Nat, k \in A PROVE k + 1 \in A
    <2> SUFFICES ASSUME k + 1 <= n PROVE Shared(p, h[k + 1], seq, k + 1)
        OBVIOUS
    <2>1. h[k + 1] = Components!Place(p, h[k], seq[k + 1])
        BY <1>2, <1>3
    <2>2. Shared(p, h[k], seq, k)
        BY <1>2, <1>5
    <2> QED  BY <1>1, <1>2, <2>1, <2>2, PlaceShares
<1>6. n \in A
    <2> HIDE DEF A
    <2> QED  BY <1>2, <1>4, <1>5, Induct
<1> QED  BY <1>1, <1>2, <1>3, <1>6

(* What a partition shares out, whatever the costs.                              *)
Divides(p, shards) ==
    /\ shards \in Shards(p) /\ DOMAIN shards = 1..p.count
    /\ UNION {Contents(shards, i) : i \in DOMAIN shards} = p.roots
    /\ \A i, j \in DOMAIN shards : i # j => Contents(shards, i) \cap Contents(shards, j) = {}
    /\ \A i \in DOMAIN shards : i \in Lights(p) <=> Contents(shards, i) \cap p.heavy = {}
    /\ \A i \in DOMAIN shards \ Lights(p) : \E r : Contents(shards, i) = {r}

LEMMA PartitionDivides ==
    ASSUME NEW p, RootsGiven(p), Components!Valid(p), NEW shards, shards = Components!Partition(p)
    PROVE  Divides(p, shards)
<1>1. PICK seq : seq = Placed(p)
    OBVIOUS
<1>2. InOrder(p, seq) /\ Shared(p, shards, seq, Len(seq))
    BY <1>1, PartitionShares
<1>3. PICK m \in Nat : m = Len(seq)
    BY <1>2 DEF InOrder, Lists
<1>4. PICK n \in Nat : n = Cardinality(p.heavy) /\ n < p.count /\ p.count \in Nat /\ Lights(p) = (n + 1)..p.count
    BY LightsAre
<1>5. PICK s : s = Components!Ascending(p.heavy)
    OBVIOUS
<1>6. /\ \A i \in 1..n : s[i] \in p.heavy
      /\ \A i, j \in 1..n : s[i] = s[j] => i = j
      /\ \A x \in p.heavy : \E i \in 1..n : s[i] = x
    <2>1. p.heavy \in SUBSET Nat
        BY DEF RootsGiven
    <2>2. IsFiniteSet(p.heavy)
        BY FS_Subset DEF RootsGiven
    <2>3. Lists(s, p.heavy) /\ Len(s) = n
        BY <1>4, <1>5, <2>1, <2>2, AscendingLists
    <2> QED  BY <2>3 DEF Lists
<1>7. shards \in Shards(p) /\ DOMAIN shards = 1..p.count
    BY <1>2 DEF Shared, Shards
<1>8. \A i \in 1..n : Contents(shards, i) = {s[i]}
    BY <1>2, <1>4, <1>5 DEF Shared, HeavyAlone
<1>9. \A k \in 1..m : seq[k] \in Components!LightGroups(p) /\ seq[k] \subseteq Light(p)
    BY <1>2, <1>3, GroupFacts DEF InOrder, Lists
<1>10. \A i \in Lights(p) : Contents(shards, i) \subseteq Light(p)
    BY <1>2, <1>3, <1>9 DEF Shared, GroupsHeld
<1>11. Light(p) \cap p.heavy = {} /\ Light(p) \cup p.heavy = p.roots
    BY DEF Light, RootsGiven
<1>12. \A i \in 1..p.count : i \in 1..n \/ i \in Lights(p)
    BY <1>4
<1>13. \A i \in 1..p.count : i \in Lights(p) <=> Contents(shards, i) \cap p.heavy = {}
    <2>1. \A i \in 1..n : i \notin Lights(p)
        BY <1>4
    <2> QED  BY <1>6, <1>8, <1>10, <1>11, <1>12, <2>1
<1>14. ASSUME NEW i \in 1..p.count, NEW j \in 1..p.count, i # j
       PROVE  Contents(shards, i) \cap Contents(shards, j) = {}
    <2>1. CASE i \in 1..n /\ j \in 1..n
        BY <1>6, <1>8, <1>14, <2>1
    <2>2. CASE i \in Lights(p) /\ j \in Lights(p)
        BY <1>2, <1>14, <2>2 DEF Shared, GroupsHeld
    <2>3. CASE (i \in 1..n /\ j \in Lights(p)) \/ (i \in Lights(p) /\ j \in 1..n)
        BY <1>6, <1>8, <1>10, <1>11, <2>3
    <2> QED  BY <1>12, <2>1, <2>2, <2>3
<1>15. UNION {Contents(shards, i) : i \in 1..p.count} = p.roots
    <2>1. \A i \in 1..p.count : Contents(shards, i) \subseteq p.roots
        BY <1>7, ContentsAre
    <2>2. ASSUME NEW x \in p.roots PROVE \E i \in 1..p.count : x \in Contents(shards, i)
        <3>1. CASE x \in p.heavy
            <4>1. PICK i \in 1..n : s[i] = x
                BY <1>6, <3>1
            <4> QED  BY <1>4, <1>8, <4>1
        <3>2. CASE x \in Light(p)
            <4>1. PICK g \in Components!LightGroups(p) : x \in g
                BY <3>2, GroupsAre DEF Grouped
            <4>2. PICK k \in 1..m : seq[k] = g
                BY <1>2, <1>3 DEF InOrder, Lists
            <4>3. PICK i \in Lights(p) : seq[k] \subseteq Contents(shards, i)
                BY <1>2, <1>3 DEF Shared, GroupsHeld
            <4> QED  BY <1>4, <4>1, <4>2, <4>3
        <3> QED  BY <1>11, <3>1, <3>2
    <2> QED  BY <2>1, <2>2
<1> QED  BY <1>7, <1>8, <1>12, <1>13, <1>14, <1>15 DEF Divides

Sharing(p, S) == \A q \in S, t \in Light(p) \ S : Apart(p, q, t)

(* The roots that share something with r, directly or through others, are its group. *)
LEMMA RelatedIsGroup ==
    ASSUME RootsGiven(policy), NEW g \in Components!LightGroups(policy), NEW r \in g
    PROVE  Components!Related(r) = g
<1> DEFINE P(S) == /\ r \in S /\ Sharing(policy, S)
                   /\ \A T \in SUBSET S : r \in T /\ Sharing(policy, T) => T = S
<1>1. Components!Related(r) = CHOOSE S \in SUBSET Light(policy) : P(S)
    BY DEF Components!Related, Sharing, Light, Apart
<1>2. /\ \A h \in Components!LightGroups(policy) : h # g => \A i \in g, j \in h : Apart(policy, i, j)
      /\ \A T \in SUBSET g : T # {} /\ (\A i \in T, j \in g \ T : Apart(policy, i, j)) => T = g
      /\ UNION Components!LightGroups(policy) = Light(policy)
    BY GroupsAre DEF Grouped
<1>3. g \in SUBSET Light(policy)
    BY <1>2
<1>4. Sharing(policy, g)
    <2> SUFFICES ASSUME NEW q \in g, NEW t \in Light(policy) \ g PROVE Apart(policy, q, t)
        BY DEF Sharing
    <2>1. PICK h \in Components!LightGroups(policy) : t \in h
        BY <1>2
    <2> QED  BY <1>2, <2>1
<1>5. ASSUME NEW T \in SUBSET g, r \in T, Sharing(policy, T) PROVE T = g
    <2>1. \A i \in T, j \in g \ T : Apart(policy, i, j)
        BY <1>3, <1>5 DEF Sharing
    <2> QED  BY <1>2, <1>5, <2>1
<1>6. P(g)
    BY <1>4, <1>5
<1>7. ASSUME NEW S \in SUBSET Light(policy), P(S) PROVE S = g
    <2>1. Sharing(policy, S \cap g)
        BY <1>4, <1>7 DEF Sharing
    <2>2. S \cap g = S
        BY <1>7, <2>1
    <2> QED  BY <1>5, <1>7, <2>2
<1> HIDE DEF P
<1>8. Components!Related(r) \in SUBSET Light(policy) /\ P(Components!Related(r))
    BY <1>1, <1>3, <1>6, Zenon
<1> QED  BY <1>7, <1>8

(* The shards of any plan are as balanced as its groups allow.                    *)
LEMMA PartitionIsBalanced ==
    ASSUME RootsGiven(policy), Components!Valid(policy)
    PROVE  Components!ShardsAreBalanced
<1> DEFINE shards == Components!Partition(policy)
           light == {i \in DOMAIN shards : Contents(shards, i) \cap policy.heavy = {}}
<1>1. shards = Components!Partition(policy)
    OBVIOUS
<1> HIDE DEF shards, light
<1>2. Divides(policy, shards)
    BY <1>1, PartitionDivides
<1>3. /\ shards \in Shards(policy) /\ DOMAIN shards = 1..policy.count
      /\ \A i \in DOMAIN shards : i \in Lights(policy) <=> Contents(shards, i) \cap policy.heavy = {}
      /\ \A i \in DOMAIN shards \ Lights(policy) : \E r : Contents(shards, i) = {r}
    BY <1>2 DEF Divides
<1>4. \A i \in DOMAIN shards \ Lights(policy) : Components!Cardinality(Contents(shards, i)) = 1
    BY <1>3, SameCardinality, FS_Singleton
<1>5. ASSUME NEW i \in Lights(policy), NEW k \in Lights(policy), NEW r \in Contents(shards, i)
      PROVE  /\ Components!Related(r) \subseteq Contents(shards, i)
             /\ Load(policy, shards, i) - Components!Cost(policy, Components!Related(r)) <= Load(policy, shards, k)
    <2>1. PICK seq : seq = Placed(policy)
        OBVIOUS
    <2>2. InOrder(policy, seq) /\ Shared(policy, shards, seq, Len(seq))
        BY <1>1, <2>1, PartitionShares
    <2>3. PICK m \in 1..Len(seq) : r \in seq[m] /\ seq[m] \subseteq Contents(shards, i)
        BY <2>2 DEF Shared, GroupsHeld
    <2>4. seq[m] \in Components!LightGroups(policy)
        BY <2>2, <2>3 DEF InOrder, Lists
    <2>5. Components!Related(r) = seq[m]
        BY <2>3, <2>4, RelatedIsGroup
    <2>6. Load(policy, shards, i) <= Load(policy, shards, k) + Components!Cost(policy, seq[m])
        BY <2>2, <2>3 DEF Shared, Balanced
    <2>7. Components!Cost(policy, seq[m]) \in Nat
        BY <2>4, GroupFacts
    <2>8. Load(policy, shards, i) \in Nat /\ Load(policy, shards, k) \in Nat
        BY <1>3, ContentsAre, LightsAre
    <2> QED  BY <2>3, <2>5, <2>6, <2>7, <2>8
<1>6. Lights(policy) \subseteq DOMAIN shards
    BY <1>3, LightsAre
<1>8. light = Lights(policy)
    BY <1>3, <1>6 DEF light
<1>9. /\ UNION {Contents(shards, i) : i \in DOMAIN shards} = policy.roots
      /\ \A i, k \in DOMAIN shards : i # k => Contents(shards, i) \cap Contents(shards, k) = {}
      /\ \A i \in DOMAIN shards \ light : Components!Cardinality(Contents(shards, i)) = 1
      /\ \A i, k \in light : \A r \in Contents(shards, i) :
            /\ Components!Related(r) \subseteq Contents(shards, i)
            /\ Load(policy, shards, i) - Components!Cost(policy, Components!Related(r)) <= Load(policy, shards, k)
    BY <1>2, <1>4, <1>5, <1>8 DEF Divides
<1> QED  BY <1>9, Zenon DEF Components!ShardsAreBalanced, Contents, Load, shards, light

-----------------------------------------------------------------------------
(* Farm: the batches of a shard and of a job.                                   *)

(* What a sequence of batches has in it.                                         *)
Listing(seqs) == UNION {Components!ToSet(s) : s \in Components!ToSet(seqs)}

LEMMA ListingFacts ==
    ASSUME NEW S
    PROVE  /\ <<>> \in Seq(S) /\ Components!ToSet(<<>>) = {}
           /\ \A x \in S : <<x>> \in Seq(S) /\ Components!ToSet(<<x>>) = {x}
           /\ \A s \in Seq(S) : \A x \in S :
                 Append(s, x) \in Seq(S) /\ Components!ToSet(Append(s, x)) = Components!ToSet(s) \cup {x}
<1>1. <<>> \in Seq(S) /\ Components!ToSet(<<>>) = {}
    BY DEF Components!ToSet
<1>2. ASSUME NEW x \in S PROVE <<x>> \in Seq(S) /\ Components!ToSet(<<x>>) = {x}
    BY DEF Components!ToSet
<1>3. ASSUME NEW s \in Seq(S), NEW x \in S
      PROVE  Append(s, x) \in Seq(S) /\ Components!ToSet(Append(s, x)) = Components!ToSet(s) \cup {x}
    <2>1. Append(s, x) = s \o <<x>>
        OBVIOUS
    <2>2. <<x>> \in Seq(S)
        BY <1>2
    <2>3. s \o <<x>> \in Seq(S) /\ Components!ToSet(s \o <<x>>) = Components!ToSet(s) \cup Components!ToSet(<<x>>)
        BY <2>2, Joined
    <2> QED  BY <1>2, <2>1, <2>3
<1> QED  BY <1>1, <1>2, <1>3

Cuts(p) == [closed : Seq(Seq(p.roots)), open : Seq(p.roots)]
Holding(acc) == Listing(acc.closed) \cup Components!ToSet(acc.open)

(* A cut takes one root more, and loses none.                                  *)
LEMMA CutHolds ==
    ASSUME NEW p, NEW acc \in Cuts(p), NEW r \in p.roots
    PROVE  Components!Cut(p, acc, r) \in Cuts(p) /\ Holding(Components!Cut(p, acc, r)) = Holding(acc) \cup {r}
<1>1. PICK all : all = Seq(p.roots)
    OBVIOUS
<1>2. acc.closed \in Seq(all) /\ acc.open \in all /\ acc.open \in Seq(p.roots)
    BY <1>1 DEF Cuts
<1>3. <<r>> \in Seq(p.roots) /\ Components!ToSet(<<r>>) = {r} /\ <<>> \in Seq(p.roots) /\ Components!ToSet(<<>>) = {}
    BY ListingFacts
<1>4. PICK one : one = <<r>> /\ one \in all /\ <<>> \in all /\ Components!ToSet(one) = {r}
    BY <1>1, <1>3
<1>5. PICK open : open = IF acc.open = <<>> THEN <<>> ELSE <<acc.open>>
    OBVIOUS
<1>6. open \in Seq(all) /\ Listing(open) = Components!ToSet(acc.open)
    <2>1. CASE acc.open = <<>>
        <3>1. open = <<>> /\ open \in Seq(all) /\ Components!ToSet(open) = {}
            BY <1>5, <2>1, ListingFacts
        <3> QED  BY <1>3, <2>1, <3>1 DEF Listing
    <2>2. CASE acc.open # <<>>
        <3>1. open = <<acc.open>>
            BY <1>5, <2>2
        <3>2. open \in Seq(all) /\ Components!ToSet(open) = {acc.open}
            BY <1>2, <3>1, ListingFacts
        <3> QED  BY <3>2 DEF Listing
    <2> QED  BY <2>1, <2>2
<1>7. PICK two : two = <<one>> /\ two \in Seq(all) /\ Components!ToSet(two) = {one}
    BY <1>4, ListingFacts
<1>8. /\ acc.closed \o open \in Seq(all)
      /\ Components!ToSet(acc.closed \o open) = Components!ToSet(acc.closed) \cup Components!ToSet(open)
    BY <1>2, <1>6, Joined
<1>9. Listing(acc.closed \o open) = Holding(acc)
    BY <1>6, <1>8 DEF Holding, Listing
<1>10. PICK joined \in Seq(all) : joined = acc.closed \o open /\ Listing(joined) = Holding(acc)
    BY <1>8, <1>9
<1>11. PICK whole \in Seq(all) :
           /\ whole = joined \o two
           /\ Components!ToSet(whole) = Components!ToSet(joined) \cup Components!ToSet(two)
    BY <1>7, Joined
<1>12. Listing(whole) = Holding(acc) \cup {r}
    <2>1. Components!ToSet(whole) = Components!ToSet(joined) \cup {one}
        BY <1>7, <1>11
    <2>2. Listing(whole) = Listing(joined) \cup Components!ToSet(one)
        BY <2>1 DEF Listing
    <2> QED  BY <1>4, <1>10, <2>2
<1>13. PICK longer : /\ longer = Append(acc.open, r) /\ longer \in all
                     /\ Components!ToSet(longer) = Components!ToSet(acc.open) \cup {r}
    <2>1. Append(acc.open, r) \in Seq(p.roots)
        BY <1>2, ListingFacts
    <2>2. Components!ToSet(Append(acc.open, r)) = Components!ToSet(acc.open) \cup {r}
        BY <1>2, ListingFacts
    <2> QED  BY <1>1, <2>1, <2>2
<1>14. ASSUME NEW c \in Seq(all), NEW o \in all, Listing(c) \cup Components!ToSet(o) = Holding(acc) \cup {r},
              Components!Cut(p, acc, r) = [closed |-> c, open |-> o]
       PROVE  Components!Cut(p, acc, r) \in Cuts(p) /\ Holding(Components!Cut(p, acc, r)) = Holding(acc) \cup {r}
    <2>1. [closed |-> c, open |-> o] \in Cuts(p)
        BY <1>1 DEF Cuts
    <2>2. Holding([closed |-> c, open |-> o]) = Listing(c) \cup Components!ToSet(o)
        BY DEF Holding
    <2> QED  BY <1>14, <2>1, <2>2
<1>15. PICK none : none = <<>> /\ none \in all /\ Components!ToSet(none) = {}
    BY <1>1, <1>3
<1>16. PICK sum : sum = Components!Cost(p, Components!ToSet(acc.open)) + p.cost[r]
    OBVIOUS
<1>17. acc = [closed |-> acc.closed, open |-> acc.open]
    BY DEF Cuts
<1>18. [acc EXCEPT !.open = longer] = [closed |-> acc.closed, open |-> longer]
    BY <1>17
<1>19. Components!Cut(p, acc, r) =
           IF p.cost[r] > p.limit THEN [closed |-> whole, open |-> none]
           ELSE IF acc.open # none /\ sum > p.limit THEN [closed |-> joined, open |-> one]
           ELSE [closed |-> acc.closed, open |-> longer]
    <2>1. Components!Cut(p, acc, r) =
              IF p.cost[r] > p.limit THEN [closed |-> acc.closed \o open \o <<<<r>>>>, open |-> <<>>]
              ELSE IF acc.open # <<>> /\ Components!Cost(p, Components!ToSet(acc.open)) + p.cost[r] > p.limit
              THEN [closed |-> acc.closed \o open, open |-> <<r>>]
              ELSE [acc EXCEPT !.open = Append(acc.open, r)]
        BY <1>5 DEF Components!Cut
    <2> QED  BY <1>4, <1>7, <1>10, <1>11, <1>13, <1>15, <1>16, <1>18, <2>1
<1>20. CASE p.cost[r] > p.limit
    <2>1. Components!Cut(p, acc, r) = [closed |-> whole, open |-> none]
        BY <1>19, <1>20
    <2> QED  BY <1>12, <1>14, <1>15, <2>1
<1>21. CASE ~ (p.cost[r] > p.limit) /\ acc.open # none /\ sum > p.limit
    <2>1. Components!Cut(p, acc, r) = [closed |-> joined, open |-> one]
        BY <1>19, <1>21
    <2> QED  BY <1>4, <1>10, <1>14, <2>1
<1>22. CASE ~ (p.cost[r] > p.limit) /\ ~ (acc.open # none /\ sum > p.limit)
    <2>1. Components!Cut(p, acc, r) = [closed |-> acc.closed, open |-> longer]
        BY <1>19, <1>22
    <2>2. Listing(acc.closed) \cup Components!ToSet(longer) = Holding(acc) \cup {r}
        BY <1>13 DEF Holding
    <2> QED  BY <1>2, <1>13, <1>14, <2>1, <2>2
<1> QED  BY <1>20, <1>21, <1>22

Uncut == [closed |-> <<>>, open |-> <<>>]
Cutting(p, shard) ==
    Components!FoldLeft(LAMBDA acc, r : Components!Cut(p, acc, r), [closed |-> <<>>, open |-> <<>>], shard)

(* All roots of a shard are in its increments, however they are cut.             *)
LEMMA CuttingHolds ==
    ASSUME NEW p, NEW shard \in Seq(p.roots)
    PROVE  Cutting(p, shard) \in Cuts(p) /\ Holding(Cutting(p, shard)) = Components!ToSet(shard)
<1>1. PICK n \in Nat : n = Len(shard) /\ DOMAIN shard = 1..n /\ \A k \in 1..n : shard[k] \in p.roots
    OBVIOUS
<1> DEFINE Eq(f) == f = [s \in SUBSET (1..n) |->
               IF s = {} THEN Uncut
               ELSE Components!Cut(p, f[s \ {Components!Max(s)}], shard[Components!Max(s)])]
<1>2. Cutting(p, shard) = (CHOOSE f : Eq(f))[1..n]
    BY <1>1, Zenon DEF Cutting, Components!FoldLeft, Components!MapThenFoldSet, Uncut
<1>3. Uncut \in Cuts(p) /\ Holding(Uncut) = {}
    <2>1. PICK all : all = Seq(p.roots)
        OBVIOUS
    <2>2. <<>> \in Seq(all) /\ <<>> \in all /\ Components!ToSet(<<>>) = {}
        BY <2>1, ListingFacts
    <2>3. PICK none : none = <<>> /\ none \in Seq(all) /\ none \in all /\ Components!ToSet(none) = {}
        BY <2>2
    <2>4. Uncut = [closed |-> none, open |-> none]
        BY <2>3 DEF Uncut
    <2>5. Uncut \in Cuts(p)
        BY <2>1, <2>3, <2>4 DEF Cuts
    <2>6. Uncut.closed = none /\ Uncut.open = none
        BY <2>4
    <2> QED  BY <2>3, <2>5, <2>6 DEF Holding, Listing
<1>4. \E f : Eq(f)
    <2> DEFINE D == Cuts(p)
               step == [x \in (1..n) \X D |-> Components!Cut(p, x[2], shard[x[1]])]
    <2>1. \A k \in 1..n, d \in D : step[<<k, d>>] = Components!Cut(p, d, shard[k])
        OBVIOUS
    <2>2. \A k \in 1..n, d \in D : step[<<k, d>>] \in D
        BY <1>1, <2>1, CutHolds
    <2> HIDE DEF D, step
    <2>3. Steps(n, D, Uncut, step)
        BY <1>3, <2>2 DEF D, Steps
    <2>4. PICK f : Stepped(f, n, D, Uncut, step)
        BY <2>3, PrefixFold
    <2>5. Eq(f)
        BY <2>1, <2>4 DEF Stepped
    <2> QED  BY <2>5, Zenon
<1>5. PICK F : Eq(F) /\ Cutting(p, shard) = F[1..n]
    <2> HIDE DEF Eq
    <2> QED  BY <1>2, <1>4
<1>6. \A s \in SUBSET (1..n) :
          F[s] = IF s = {} THEN Uncut
                 ELSE Components!Cut(p, F[s \ {Components!Max(s)}], shard[Components!Max(s)])
    BY <1>5, Zenon
<1> HIDE DEF Eq
<1> DEFINE Taken(k) == {shard[i] : i \in 1..k}
           A == {k \in Nat : k <= n => F[1..k] \in Cuts(p) /\ Holding(F[1..k]) = Taken(k)}
<1>7. 0 \in A
    <2>1. 1..0 = {} /\ Taken(0) = {}
        OBVIOUS
    <2>2. F[1..0] = Uncut
        BY <1>6, <2>1
    <2> QED  BY <1>3, <2>1, <2>2
<1>8. ASSUME NEW k \in Nat, k \in A PROVE k + 1 \in A
    <2> SUFFICES ASSUME k + 1 <= n PROVE F[1..(k + 1)] \in Cuts(p) /\ Holding(F[1..(k + 1)]) = Taken(k + 1)
        OBVIOUS
    <2>1. 1..(k + 1) # {} /\ Components!Max(1..(k + 1)) = k + 1 /\ (1..(k + 1)) \ {k + 1} = 1..k
        BY Prefixes
    <2>2. 1..(k + 1) \in SUBSET (1..n) /\ shard[k + 1] \in p.roots
        BY <1>1
    <2>3. F[1..(k + 1)] = Components!Cut(p, F[1..k], shard[k + 1])
        BY <1>6, <2>1, <2>2
    <2>4. F[1..k] \in Cuts(p) /\ Holding(F[1..k]) = Taken(k)
        BY <1>8
    <2>5. Taken(k + 1) = Taken(k) \cup {shard[k + 1]}
        BY <2>1
    <2>6. PICK acc \in Cuts(p) : acc = F[1..k] /\ Holding(acc) = Taken(k)
        BY <2>4
    <2>7. PICK r \in p.roots : r = shard[k + 1]
        BY <2>2
    <2>8. Components!Cut(p, acc, r) \in Cuts(p) /\ Holding(Components!Cut(p, acc, r)) = Holding(acc) \cup {r}
        BY CutHolds
    <2> HIDE DEF Taken
    <2> QED  BY <2>3, <2>5, <2>6, <2>7, <2>8
<1>9. n \in A
    <2> HIDE DEF A
    <2> QED  BY <1>7, <1>8, Induct
<1>10. Taken(n) = Components!ToSet(shard)
    BY <1>1 DEF Components!ToSet
<1> HIDE DEF Taken
<1> QED  BY <1>5, <1>9, <1>10

(* The batches of a shard have all of its roots, and each those of the ones before. *)
LEMMA IncrementsCover ==
    ASSUME NEW p, NEW shard \in Seq(p.roots), NEW inc, inc = Components!Increments(p, shard)
    PROVE  /\ Len(inc) \in Nat /\ DOMAIN inc = 1..Len(inc)
           /\ Listing(inc) = Components!ToSet(shard)
<1>1. PICK cut \in Cuts(p) : cut = Cutting(p, shard) /\ Holding(cut) = Components!ToSet(shard)
    BY CuttingHolds
<1>2. inc = cut.closed \o (IF cut.open = <<>> THEN <<>> ELSE <<cut.open>>)
    BY <1>1 DEF Components!Increments, Cutting
<1>3. PICK all : all = Seq(p.roots)
    OBVIOUS
<1>4. cut.closed \in Seq(all) /\ cut.open \in all
    BY <1>3 DEF Cuts
<1>5. PICK open : open = IF cut.open = <<>> THEN <<>> ELSE <<cut.open>>
    OBVIOUS
<1>6. open \in Seq(all) /\ Listing(open) = Components!ToSet(cut.open)
    <2>1. CASE cut.open = <<>>
        <3>1. open = <<>> /\ open \in Seq(all) /\ Components!ToSet(open) = {}
            BY <1>5, <2>1, ListingFacts
        <3>2. Components!ToSet(cut.open) = {}
            BY <2>1, ListingFacts
        <3> QED  BY <3>1, <3>2 DEF Listing
    <2>2. CASE cut.open # <<>>
        <3>1. open = <<cut.open>>
            BY <1>5, <2>2
        <3>2. open \in Seq(all) /\ Components!ToSet(open) = {cut.open}
            BY <1>4, <3>1, ListingFacts
        <3> QED  BY <3>2 DEF Listing
    <2> QED  BY <2>1, <2>2
<1>7. inc \in Seq(all) /\ Components!ToSet(inc) = Components!ToSet(cut.closed) \cup Components!ToSet(open)
    <2>1. PICK closed \in Seq(all) : closed = cut.closed
        BY <1>4
    <2>2. inc = closed \o open
        BY <1>2, <1>5, <2>1
    <2> QED  BY <1>6, <2>1, <2>2, Joined
<1>8. Listing(inc) = Listing(cut.closed) \cup Listing(open)
    BY <1>7 DEF Listing
<1> QED  BY <1>1, <1>6, <1>7, <1>8 DEF Holding

(* What a job is to build in all, and what its last batch therefore is.           *)
Members(j) == IF j = 0 THEN {0} ELSE Contents(Components!Partition(policy), j)

LEMMA PlanIs ==
    ASSUME RootsGiven(policy), Components!Valid(policy), NEW j \in Components!Jobs
    PROVE  /\ Len(Components!Plan(j)) \in Nat \ {0}
           /\ Components!Plan(j)[Len(Components!Plan(j))] = Members(j)
<1>1. CASE j = 0
    <2>1. Components!Plan(j) = <<{0}>>
        BY <1>1 DEF Components!Plan, Components!Core
    <2> QED  BY <1>1, <2>1 DEF Members
<1>2. CASE j # 0
    <2>1. PICK shards : shards = Components!Partition(policy)
        OBVIOUS
    <2>2. Divides(policy, shards)
        BY <2>1, PartitionDivides
    <2>3. j \in 1..policy.count
        BY <1>2 DEF Components!Jobs, Components!farm_matrix, Components!Core
    <2>4. PICK shard \in Seq(policy.roots) : shard = shards[j]
        BY <2>2, <2>3 DEF Divides, Shards
    <2>5. Members(j) = Components!ToSet(shard)
        BY <1>2, <2>1, <2>4 DEF Members, Contents
    <2>6. Components!Plan(j) = IF shard = <<>> THEN <<{}>> ELSE Components!Batches(policy, shard)
        BY <1>2, <2>1, <2>4 DEF Components!Plan, Components!Core
    <2>7. CASE shard = <<>>
        <3>1. Components!Plan(j) = <<{}>> /\ Members(j) = {}
            BY <2>5, <2>6, <2>7, ListingFacts
        <3> QED  BY <3>1
    <2>8. CASE shard # <<>>
        <3>1. PICK inc : inc = Components!Increments(policy, shard)
            OBVIOUS
        <3>2. /\ Len(inc) \in Nat /\ DOMAIN inc = 1..Len(inc)
              /\ Listing(inc) = Components!ToSet(shard)
            BY <3>1, IncrementsCover
        <3>3. PICK n \in Nat : n = Len(inc)
            BY <3>2
        <3>4. Components!Plan(j) = [b \in 1..n |-> UNION {Components!ToSet(inc[k]) : k \in 1..b}]
            BY <2>6, <2>8, <3>1, <3>3 DEF Components!Batches
        <3>5. Components!ToSet(shard) # {}
            <4>1. Len(shard) \in Nat \ {0} /\ 1 \in DOMAIN shard
                BY <2>8
            <4>2. shard[1] \in Components!ToSet(shard)
                BY <4>1 DEF Components!ToSet
            <4> QED  BY <4>2
        <3>6. Listing(inc) = UNION {Components!ToSet(inc[k]) : k \in 1..n}
            BY <3>2, <3>3 DEF Listing, Components!ToSet
        <3>7. n # 0
            <4>1. ASSUME n = 0 PROVE FALSE
                <5>1. 1..n = {}
                    BY <4>1
                <5>2. Listing(inc) = {}
                    BY <3>6, <5>1
                <5> QED  BY <3>2, <3>5, <5>2
            <4> QED  BY <4>1
        <3>8. Len(Components!Plan(j)) = n
            BY <3>4
        <3>9. Components!Plan(j)[n] = Listing(inc)
            <4>1. n \in 1..n
                BY <3>7
            <4> QED  BY <3>4, <3>6, <4>1
        <3> QED  BY <2>5, <3>2, <3>3, <3>7, <3>8, <3>9
    <2> QED  BY <2>7, <2>8
<1> QED  BY <1>1, <1>2

(* The jobs are to build every root between them, and none of them twice.         *)
LEMMA MembersAre ==
    ASSUME RootsGiven(policy), Components!Valid(policy), Components!Jobs # {}
    PROVE  /\ UNION {Members(j) : j \in Components!Jobs} =
                  policy.roots \cup (IF Components!Core \in Components!Jobs THEN {0} ELSE {})
           /\ \A i, j \in Components!Jobs : i # j => Members(i) \cap Members(j) = {}
<1>1. PICK shards : shards = Components!Partition(policy)
    OBVIOUS
<1>2. Divides(policy, shards)
    BY <1>1, PartitionDivides
<1>3. /\ DOMAIN shards = 1..policy.count
      /\ UNION {Contents(shards, i) : i \in 1..policy.count} = policy.roots
      /\ \A i, j \in 1..policy.count : i # j => Contents(shards, i) \cap Contents(shards, j) = {}
    BY <1>2 DEF Divides
<1>4. /\ Components!Jobs = 1..policy.count \/ Components!Jobs = 1..policy.count \cup {0}
      /\ 0 \notin 1..policy.count
    <2>1. policy.host # "dedicated"
        BY DEF Components!Jobs, Components!farm_matrix
    <2>2. Components!Jobs = 1..policy.count \cup (IF policy.stage = "system" THEN {0} ELSE {})
        BY <2>1 DEF Components!Jobs, Components!farm_matrix, Components!Core
    <2>3. policy.count \in Nat /\ 0 \notin 1..policy.count
        BY DEF RootsGiven
    <2> QED  BY <2>2, <2>3
<1>5. \A j \in 1..policy.count : Members(j) = Contents(shards, j)
    BY <1>1 DEF Members
<1>6. Members(0) = {0}
    BY DEF Members
<1>7. 0 \notin policy.roots
    BY DEF RootsGiven
<1>8. \A i \in 1..policy.count : 0 \notin Members(i)
    BY <1>3, <1>5, <1>7
<1>9. UNION {Members(j) : j \in 1..policy.count} = policy.roots
    <2>1. {Members(j) : j \in 1..policy.count} = {Contents(shards, i) : i \in 1..policy.count}
        BY <1>5
    <2> QED  BY <1>3, <2>1
<1>10. Components!Core = 0
    BY DEF Components!Core
<1> HIDE DEF Members
<1>11. CASE Components!Jobs = 1..policy.count
    BY <1>3, <1>4, <1>5, <1>9, <1>10, <1>11
<1>12. CASE Components!Jobs = 1..policy.count \cup {0}
    <2>1. UNION {Members(j) : j \in Components!Jobs} = policy.roots \cup {0}
        BY <1>6, <1>9, <1>12
    <2> QED  BY <1>3, <1>5, <1>6, <1>8, <1>10, <1>12, <2>1
<1> QED  BY <1>4, <1>11, <1>12

-----------------------------------------------------------------------------
(* Farm: the checkpoints, for any policies and any number of attempts.            *)

Working == {"build", "verify", "upload"}

(* A worker's record, whatever its fields hold.                                  *)
Record(w) ==
    w \in [stage : {w.stage}, batch : {w.batch}, packages : {w.packages}, attempt : {w.attempt}]

WorkersInv ==
    /\ worker = [j \in Components!Jobs |-> worker[j]]
    /\ \A j \in Components!Jobs :
          /\ Record(worker[j])
          /\ worker[j].batch \in Nat
          /\ worker[j].stage \in Working => worker[j].batch >= 1

(* A job's checkpoints have no gap, and each keeps what the ones before have.     *)
MarkersInv ==
    /\ markers = [k \in DOMAIN markers |-> markers[k]]
    /\ \A k \in DOMAIN markers : k \in Components!Jobs \X (Nat \ {0})
    /\ \A j \in Components!Jobs : \A b, c \in Nat \ {0} :
          (b < c /\ <<j, c>> \in DOMAIN markers) =>
              /\ <<j, b>> \in DOMAIN markers
              /\ Components!Cumulative(markers[<<j, c>>], markers[<<j, b>>])

(* A job that uploads was compared with the checkpoint before, which stands.      *)
UploadsInv ==
    \A j \in Components!Jobs : worker[j].stage = "upload" =>
        \/ worker[j].batch = 1
        \/ /\ <<j, worker[j].batch - 1>> \in DOMAIN markers
           /\ Components!Cumulative(Components!MarkerOf(j), markers[<<j, worker[j].batch - 1>>])

CheckpointsInv == WorkersInv /\ MarkersInv /\ UploadsInv

LEMMA InitCheckpoints == Components!Init => CheckpointsInv
<1> SUFFICES ASSUME Components!Init PROVE CheckpointsInv
    OBVIOUS
<1>1. WorkersInv
    <2>1. Record(Components!Idle(0)) /\ Components!Idle(0).batch = 0 /\ Components!Idle(0).stage = "idle"
        BY DEF Components!Idle, Record
    <2> QED  BY <2>1 DEF Components!Init, WorkersInv, Working
<1>2. MarkersInv
    BY DEF Components!Init, MarkersInv
<1>3. UploadsInv
    BY DEF Components!Init, Components!Idle, UploadsInv
<1> QED  BY <1>1, <1>2, <1>3 DEF CheckpointsInv

(* The policy of a farm is fixed, and with it the jobs and what each is to build.  *)
LEMMA PolicyFixed ==
    ASSUME policy' = policy
    PROVE  /\ Components!Jobs' = Components!Jobs
           /\ \A j : Components!Plan(j)' = Components!Plan(j)
BY DEF Components!Jobs, Components!Plan

LEMMA CumulativeTransitive ==
    ASSUME NEW u, NEW v, NEW w, Components!Cumulative(u, v), Components!Cumulative(v, w)
    PROVE  Components!Cumulative(u, w)
BY DEF Components!Cumulative

(* A step of job j that leaves the checkpoints alone.                            *)
LEMMA WorkerMoves ==
    ASSUME CheckpointsInv, UNCHANGED <<policy, markers>>,
           NEW j \in Components!Jobs, NEW w,
           worker' = [worker EXCEPT ![j] = w],
           Record(w), w.batch \in Nat, w.stage \in Working => w.batch >= 1,
           w.stage = "upload" =>
               \/ w.batch = 1
               \/ /\ <<j, w.batch - 1>> \in DOMAIN markers
                  /\ Components!Cumulative(Components!MarkerOf(j)', markers[<<j, w.batch - 1>>])
    PROVE  CheckpointsInv'
<1>1. /\ Components!Jobs' = Components!Jobs
      /\ \A i : Components!Plan(i)' = Components!Plan(i)
    BY PolicyFixed
<1>2. \A i \in Components!Jobs : worker'[i] = IF i = j THEN w ELSE worker[i]
    BY DEF CheckpointsInv, WorkersInv
<1>3. WorkersInv'
    BY <1>1, <1>2 DEF CheckpointsInv, WorkersInv
<1>4. MarkersInv'
    BY <1>1 DEF CheckpointsInv, MarkersInv
<1>5. ASSUME NEW i \in Components!Jobs, worker'[i].stage = "upload"
      PROVE  \/ worker'[i].batch = 1
             \/ /\ <<i, worker'[i].batch - 1>> \in DOMAIN markers
                /\ Components!Cumulative(Components!MarkerOf(i)', markers[<<i, worker'[i].batch - 1>>])
    <2>1. CASE i = j
        BY <1>2, <1>5, <2>1
    <2>2. CASE i # j
        <3>1. worker'[i] = worker[i]
            BY <1>2, <2>2
        <3>2. Components!MarkerOf(i)' = Components!MarkerOf(i)
            BY <1>1, <3>1 DEF Components!MarkerOf
        <3> QED  BY <1>5, <3>1, <3>2 DEF CheckpointsInv, UploadsInv
    <2> QED  BY <2>1, <2>2
<1>6. UploadsInv'
    BY <1>1, <1>5 DEF UploadsInv
<1> QED  BY <1>3, <1>4, <1>6 DEF CheckpointsInv

LEMMA StartKeeps ==
    ASSUME CheckpointsInv, NEW j \in Components!Jobs, Components!Start(j)
    PROVE  CheckpointsInv'
<1> DEFINE
    begun == [Components!Idle(worker[j].attempt + 1) EXCEPT !.batch = 1, !.stage = "build"]
    last == Components!Latest(j)
    packages == markers[<<j, last>>].packages
    w == IF ~ Components!Resumes(j)
         THEN IF j = Components!Core /\ <<j, 1>> \in DOMAIN markers
              THEN [begun EXCEPT !.stage = "done"] ELSE begun
         ELSE IF Components!Listed(j) = {} THEN begun
         ELSE IF ~ Components!Resumable(j, last) THEN [begun EXCEPT !.stage = "unresumable"]
         ELSE [begun EXCEPT !.batch = last + 1, !.packages = packages,
                            !.stage = IF last = Len(Components!Plan(j)) THEN "done" ELSE "build"]
<1>1. worker' = [worker EXCEPT ![j] = w] /\ UNCHANGED <<policy, markers>>
    BY DEF Components!Start
<1>2. Record(begun) /\ begun.batch = 1 /\ begun.stage = "build"
    BY DEF Components!Idle, Record
<1>3. Components!Resumable(j, last) => last \in Nat
    BY DEF Components!Resumable, Components!Fetchable, CheckpointsInv, MarkersInv
<1> HIDE DEF last, begun, packages
<1>4. Record(w) /\ w.batch \in Nat /\ w.batch >= 1 /\ w.stage # "upload"
    <2>1. \/ w = begun
          \/ \E stage \in {"done", "unresumable"} : w = [begun EXCEPT !.stage = stage]
          \/ /\ last \in Nat
             /\ \E stage \in {"done", "build"} :
                   w = [begun EXCEPT !.batch = last + 1, !.packages = packages, !.stage = stage]
        BY <1>3
    <2> HIDE DEF w
    <2>2. CASE w = begun
        BY <1>2, <2>2
    <2>3. ASSUME NEW stage \in {"done", "unresumable"}, w = [begun EXCEPT !.stage = stage]
          PROVE  Record(w) /\ w.batch = 1 /\ w.stage = stage
        BY <1>2, <2>3 DEF Record
    <2>4. ASSUME NEW stage \in {"done", "build"}, last \in Nat,
                 w = [begun EXCEPT !.batch = last + 1, !.packages = packages, !.stage = stage]
          PROVE  Record(w) /\ w.batch = last + 1 /\ w.stage = stage
        BY <1>2, <2>4 DEF Record
    <2> QED  BY <2>1, <2>2, <2>3, <2>4
<1> HIDE DEF w
<1> QED  BY <1>1, <1>4, WorkerMoves

LEMMA BuildKeeps ==
    ASSUME CheckpointsInv, NEW j \in Components!Jobs, Components!Build(j)
    PROVE  CheckpointsInv'
<1>1. PICK packages :
          /\ worker' = [worker EXCEPT ![j].packages = packages, ![j].stage = "verify"]
          /\ worker[j].stage = "build" /\ UNCHANGED <<policy, markers>>
    BY DEF Components!Build
<1> DEFINE w == [worker[j] EXCEPT !.packages = packages, !.stage = "verify"]
<1>2. worker' = [worker EXCEPT ![j] = w]
    BY <1>1 DEF CheckpointsInv, WorkersInv
<1>3. Record(w) /\ w.batch = worker[j].batch /\ w.stage = "verify"
    BY DEF CheckpointsInv, WorkersInv, Record
<1>4. worker[j].batch \in Nat /\ worker[j].batch >= 1
    BY <1>1 DEF CheckpointsInv, WorkersInv, Working
<1> HIDE DEF w
<1> QED  BY <1>1, <1>2, <1>3, <1>4, WorkerMoves

LEMMA VerifyKeeps ==
    ASSUME CheckpointsInv, NEW j \in Components!Jobs, Components!Verify(j)
    PROVE  CheckpointsInv'
<1> DEFINE before == <<j, worker[j].batch - 1>>
           cumulative == \/ worker[j].batch = 1
                         \/ /\ before \in DOMAIN markers
                            /\ Components!Cumulative(Components!MarkerOf(j), markers[before])
           w == [worker[j] EXCEPT !.stage = IF cumulative THEN "upload" ELSE "idle"]
<1>1. worker[j].stage = "verify" /\ UNCHANGED <<policy, markers>>
    BY DEF Components!Verify
<1>2. worker' = [worker EXCEPT ![j] = w]
    BY DEF Components!Verify, Components!Stage, CheckpointsInv, WorkersInv
<1>3. worker[j].batch \in Nat /\ worker[j].batch >= 1 /\ worker'[j] = w
    BY <1>1, <1>2 DEF CheckpointsInv, WorkersInv, Working
<1> HIDE DEF cumulative
<1>4. /\ Record(w) /\ w.batch = worker[j].batch /\ w.packages = worker[j].packages
      /\ w.stage = "upload" => cumulative
    BY DEF CheckpointsInv, WorkersInv, Record
<1>5. Components!MarkerOf(j)' = Components!MarkerOf(j)
    <2>1. Components!Plan(j)' = Components!Plan(j)
        BY <1>1, PolicyFixed
    <2> HIDE DEF w
    <2> QED  BY <1>3, <1>4, <2>1 DEF Components!MarkerOf
<1> HIDE DEF w
<1>6. w.stage = "upload" =>
          \/ w.batch = 1
          \/ /\ <<j, w.batch - 1>> \in DOMAIN markers
             /\ Components!Cumulative(Components!MarkerOf(j)', markers[<<j, w.batch - 1>>])
    BY <1>4, <1>5 DEF cumulative
<1> QED  BY <1>1, <1>2, <1>3, <1>4, <1>6, WorkerMoves

LEMMA UploadKeeps ==
    ASSUME CheckpointsInv, NEW j \in Components!Jobs, Components!Upload(j)
    PROVE  CheckpointsInv'
<1>1. /\ Components!Jobs' = Components!Jobs
      /\ \A i : Components!MarkerOf(i)' = Components!MarkerOf(i)
    BY PolicyFixed DEF Components!Upload, Components!MarkerOf
<1> QED  BY <1>1 DEF Components!Upload, CheckpointsInv, WorkersInv, MarkersInv, UploadsInv

LEMMA StopKeeps ==
    ASSUME CheckpointsInv, NEW j \in Components!Jobs,
           Components!UploadConflict(j) \/ Components!Kill(j)
    PROVE  CheckpointsInv'
<1> DEFINE stopped == [worker[j] EXCEPT !.stage = "idle"]
           killed == Components!Idle(worker[j].attempt)
<1>1. PICK w \in {stopped, killed} : worker' = [worker EXCEPT ![j] = w]
    BY DEF Components!UploadConflict, Components!Kill, Components!Stage, CheckpointsInv, WorkersInv
<1>2. UNCHANGED <<policy, markers>>
    BY DEF Components!UploadConflict, Components!Kill
<1>3. Record(stopped) /\ stopped.batch \in Nat /\ stopped.stage = "idle"
    BY DEF CheckpointsInv, WorkersInv, Record
<1>4. Record(killed) /\ killed.batch \in Nat /\ killed.stage = "idle"
    BY DEF Components!Idle, Record
<1> HIDE DEF stopped, killed
<1>5. Record(w) /\ w.batch \in Nat /\ w.stage \notin Working /\ w.stage # "upload"
    BY <1>3, <1>4 DEF Working
<1> QED  BY <1>1, <1>2, <1>5, WorkerMoves

(* A checkpoint is completed: it follows the one before, and no later one is there. *)
LEMMA CompleteKeeps ==
    ASSUME CheckpointsInv, NEW j \in Components!Jobs, Components!Complete(j)
    PROVE  CheckpointsInv'
<1> DEFINE n == worker[j].batch
           at == <<j, n>>
           marker == Components!MarkerOf(j)
           fits == at \in DOMAIN markers => markers[at] = marker
           stage == IF ~ fits THEN "idle"
                    ELSE IF n = Len(Components!Plan(j)) THEN "done" ELSE "build"
           w == [worker[j] EXCEPT !.batch = IF fits THEN n + 1 ELSE n, !.stage = stage]
<1>1. /\ worker[j].stage = "upload" /\ policy' = policy
      /\ markers' = IF fits THEN [k \in DOMAIN markers \cup {at} |-> IF k = at THEN marker ELSE markers[k]]
                    ELSE markers
    BY DEF Components!Complete
<1>2. worker' = [worker EXCEPT ![j] = w]
    BY DEF Components!Complete, CheckpointsInv, WorkersInv
<1>3. n \in Nat \ {0}
    BY <1>1 DEF CheckpointsInv, WorkersInv, Working
<1>4. /\ Components!Jobs' = Components!Jobs
      /\ \A i : Components!Plan(i)' = Components!Plan(i)
    BY <1>1, PolicyFixed
<1>5. \/ n = 1
      \/ /\ <<j, n - 1>> \in DOMAIN markers
         /\ Components!Cumulative(marker, markers[<<j, n - 1>>])
    BY <1>1 DEF CheckpointsInv, UploadsInv
<1>6. \A k \in DOMAIN markers : k \in DOMAIN markers' /\ markers'[k] = markers[k]
    BY <1>1
<1>7. MarkersInv'
    <2>1. CASE ~ fits \/ at \in DOMAIN markers
        <3>1. markers' = markers
            BY <1>1, <2>1 DEF CheckpointsInv, MarkersInv
        <3> QED  BY <1>4, <3>1 DEF CheckpointsInv, MarkersInv
    <2>2. CASE at \notin DOMAIN markers
        <3>1. /\ DOMAIN markers' = DOMAIN markers \cup {at} /\ markers'[at] = marker
              /\ markers' = [k \in DOMAIN markers' |-> markers'[k]]
            BY <1>1, <2>2
        <3>2. \A k \in DOMAIN markers' : k \in Components!Jobs \X (Nat \ {0})
            BY <1>3, <3>1 DEF CheckpointsInv, MarkersInv
        <3>3. ASSUME NEW i \in Components!Jobs, NEW b \in Nat \ {0}, NEW c \in Nat \ {0},
                     b < c, <<i, c>> \in DOMAIN markers'
              PROVE  <<i, b>> \in DOMAIN markers' /\ Components!Cumulative(markers'[<<i, c>>], markers'[<<i, b>>])
            <4>1. CASE <<i, c>> \in DOMAIN markers
                BY <1>6, <3>3, <4>1 DEF CheckpointsInv, MarkersInv
            <4>2. CASE <<i, c>> = at /\ b = n - 1
                BY <1>5, <1>6, <3>1, <3>3, <4>2
            <4>3. CASE <<i, c>> = at /\ b # n - 1
                <5>1. i = j /\ c = n /\ n - 1 \in Nat \ {0} /\ b < n - 1
                    BY <1>3, <3>3, <4>3
                <5>2. /\ <<j, n - 1>> \in DOMAIN markers
                      /\ Components!Cumulative(marker, markers[<<j, n - 1>>])
                    BY <1>5, <5>1
                <5>3. /\ <<j, b>> \in DOMAIN markers
                      /\ Components!Cumulative(markers[<<j, n - 1>>], markers[<<j, b>>])
                    BY <3>3, <5>1, <5>2 DEF CheckpointsInv, MarkersInv
                <5>4. Components!Cumulative(marker, markers[<<j, b>>])
                    BY <5>2, <5>3, CumulativeTransitive
                <5> QED  BY <1>6, <3>1, <5>1, <5>3, <5>4
            <4> QED  BY <3>1, <3>3, <4>1, <4>2, <4>3
        <3> QED  BY <1>4, <3>1, <3>2, <3>3 DEF MarkersInv
    <2> QED  BY <2>1, <2>2
<1> HIDE DEF fits
<1>8. /\ Record(w) /\ w.stage = stage
      /\ w.batch = IF fits THEN n + 1 ELSE n
    BY DEF CheckpointsInv, WorkersInv, Record
<1>9. w.batch \in Nat /\ w.batch >= 1 /\ w.stage # "upload"
    BY <1>3, <1>8
<1> HIDE DEF w
<1>10. \A i \in Components!Jobs : worker'[i] = IF i = j THEN w ELSE worker[i]
    BY <1>2 DEF CheckpointsInv, WorkersInv
<1>11. WorkersInv'
    BY <1>2, <1>4, <1>8, <1>9, <1>10 DEF CheckpointsInv, WorkersInv
<1>12. ASSUME NEW i \in Components!Jobs, worker'[i].stage = "upload"
       PROVE  \/ worker'[i].batch = 1
              \/ /\ <<i, worker'[i].batch - 1>> \in DOMAIN markers'
                 /\ Components!Cumulative(Components!MarkerOf(i)', markers'[<<i, worker'[i].batch - 1>>])
    <2>1. i # j /\ worker'[i] = worker[i]
        BY <1>9, <1>10, <1>12
    <2>2. Components!MarkerOf(i)' = Components!MarkerOf(i)
        BY <1>4, <2>1 DEF Components!MarkerOf
    <2> QED  BY <1>6, <1>12, <2>1, <2>2 DEF CheckpointsInv, UploadsInv
<1>13. UploadsInv'
    BY <1>4, <1>12 DEF UploadsInv
<1> QED  BY <1>7, <1>11, <1>13 DEF CheckpointsInv

LEMMA StepCheckpoints ==
    CheckpointsInv /\ [Components!Next]_(Components!vars) => CheckpointsInv'
<1> SUFFICES ASSUME CheckpointsInv, [Components!Next]_(Components!vars) PROVE CheckpointsInv'
    OBVIOUS
<1>1. CASE \E j \in Components!Jobs :
             \/ Components!Start(j) \/ Components!Build(j) \/ Components!Verify(j) \/ Components!Upload(j)
             \/ Components!UploadConflict(j) \/ Components!Complete(j) \/ Components!Kill(j)
    BY <1>1, StartKeeps, BuildKeeps, VerifyKeeps, UploadKeeps, StopKeeps, CompleteKeeps
<1>2. CASE Components!Finalize \/ UNCHANGED Components!vars
    <2>1. UNCHANGED <<policy, markers, worker>>
        BY <1>2 DEF Components!Finalize, Components!vars
    <2>2. /\ Components!Jobs' = Components!Jobs
          /\ \A i : Components!MarkerOf(i)' = Components!MarkerOf(i)
        BY <2>1, PolicyFixed DEF Components!MarkerOf
    <2> QED  BY <2>1, <2>2 DEF CheckpointsInv, WorkersInv, MarkersInv, UploadsInv
<1> QED  BY <1>1, <1>2 DEF Components!Next

LEMMA CheckpointsGrow == CheckpointsInv => Components!CheckpointsAreCumulative
<1> SUFFICES ASSUME CheckpointsInv,
                    NEW k \in DOMAIN markers, NEW m \in DOMAIN markers, k[1] = m[1], k[2] < m[2]
             PROVE  Components!Cumulative(markers[m], markers[k])
    BY DEF Components!CheckpointsAreCumulative, Components!Cumulative
<1>1. /\ k \in Components!Jobs \X (Nat \ {0}) /\ m \in Components!Jobs \X (Nat \ {0})
    BY DEF CheckpointsInv, MarkersInv
<1>2. k = <<k[1], k[2]>> /\ m = <<k[1], m[2]>>
    BY <1>1
<1> QED  BY <1>1, <1>2 DEF CheckpointsInv, MarkersInv

-----------------------------------------------------------------------------
(* Farm: what a job is at, and what is collected.                               *)

(* What a job holds is what its batch is to have, and one that is done has left the *)
(* last checkpoint of its plan.                                                 *)
Owed(j, w) ==
    /\ w.stage \in Working => w.batch <= Len(Components!Plan(j))
    /\ w.stage \in {"verify", "upload"} => DOMAIN w.packages = Components!Plan(j)[w.batch]
    /\ w.stage = "done" => <<j, Len(Components!Plan(j))>> \in DOMAIN markers

PlannedInv ==
    /\ \A k \in DOMAIN markers : /\ k[2] <= Len(Components!Plan(k[1]))
                                 /\ DOMAIN markers[k].packages = Components!Plan(k[1])[k[2]]
    /\ \A k \in DOMAIN stored : /\ k[1] \in Components!Jobs /\ k[2] \in Nat
                                /\ k[2] <= Len(Components!Plan(k[1]))

CollectedInv ==
    collected # Components!NoCollection =>
        /\ Components!Jobs # {}
        /\ \A j \in Components!Jobs : DOMAIN collected[j] = Members(j)

BatchesInv ==
    /\ CheckpointsInv
    /\ policy \in Policies /\ Components!Valid(policy)
    /\ PlannedInv
    /\ \A j \in Components!Jobs : Owed(j, worker[j])
    /\ CollectedInv

LEMMA InitBatches == Components!Init => BatchesInv
<1> SUFFICES ASSUME Components!Init PROVE BatchesInv
    OBVIOUS
<1>1. policy \in Policies /\ Components!Valid(policy)
    BY DEF Components!Init
<1>2. PlannedInv /\ CollectedInv
    BY DEF Components!Init, PlannedInv, CollectedInv
<1>3. \A j \in Components!Jobs : Owed(j, worker[j])
    BY DEF Components!Init, Components!Idle, Owed, Working
<1> QED  BY <1>1, <1>2, <1>3, InitCheckpoints DEF BatchesInv

(* A step of job j that leaves the checkpoints alone.                            *)
LEMMA DueMoves ==
    ASSUME BatchesInv, CheckpointsInv', UNCHANGED <<policy, markers, stored, collected>>,
           NEW j \in Components!Jobs, NEW w, worker' = [worker EXCEPT ![j] = w], Owed(j, w)
    PROVE  BatchesInv'
<1>1. /\ Components!Jobs' = Components!Jobs
      /\ \A i : Components!Plan(i)' = Components!Plan(i)
    BY PolicyFixed
<1>2. \A i \in Components!Jobs : worker'[i] = IF i = j THEN w ELSE worker[i]
    BY DEF BatchesInv, CheckpointsInv, WorkersInv
<1>3. PlannedInv'
    BY <1>1 DEF BatchesInv, PlannedInv
<1>4. CollectedInv'
    BY <1>1 DEF BatchesInv, CollectedInv, Components!NoCollection, Members
<1>5. ASSUME NEW i \in Components!Jobs PROVE Owed(i, worker[i])'
    BY <1>1, <1>2 DEF BatchesInv, Owed
<1>6. policy' \in Policies /\ Components!Valid(policy)'
    BY DEF BatchesInv, Components!Valid
<1> QED  BY <1>1, <1>3, <1>4, <1>5, <1>6 DEF BatchesInv

(* A job that resumes goes on with the batch after its last checkpoint.           *)
LEMMA StartIsDue ==
    ASSUME BatchesInv, NEW j \in Components!Jobs, Components!Start(j)
    PROVE  BatchesInv'
<1> DEFINE
    begun == [Components!Idle(worker[j].attempt + 1) EXCEPT !.batch = 1, !.stage = "build"]
    last == Components!Latest(j)
    packages == markers[<<j, last>>].packages
    w == IF ~ Components!Resumes(j)
         THEN IF j = Components!Core /\ <<j, 1>> \in DOMAIN markers
              THEN [begun EXCEPT !.stage = "done"] ELSE begun
         ELSE IF Components!Listed(j) = {} THEN begun
         ELSE IF ~ Components!Resumable(j, last) THEN [begun EXCEPT !.stage = "unresumable"]
         ELSE [begun EXCEPT !.batch = last + 1, !.packages = packages,
                            !.stage = IF last = Len(Components!Plan(j)) THEN "done" ELSE "build"]
<1>1. worker' = [worker EXCEPT ![j] = w] /\ UNCHANGED <<policy, markers, stored, collected>>
    BY DEF Components!Start
<1>2. Record(begun) /\ begun.batch = 1 /\ begun.stage = "build"
    BY DEF Components!Idle, Record
<1>3. PICK size \in Nat \ {0} : size = Len(Components!Plan(j))
    BY PlanIs, PoliciesAssumption DEF BatchesInv
<1>4. Components!Resumable(j, last) => last \in Nat /\ last <= size /\ <<j, last>> \in DOMAIN markers
    BY <1>3 DEF Components!Resumable, Components!Fetchable, BatchesInv, CheckpointsInv, MarkersInv
<1>5. j = Components!Core => size = 1
    BY <1>3 DEF Components!Plan
<1> HIDE DEF last, begun, packages
<1>6. Owed(j, w)
    <2>1. \/ w = begun
          \/ /\ w = [begun EXCEPT !.stage = "done"] /\ size = 1 /\ <<j, 1>> \in DOMAIN markers
          \/ w = [begun EXCEPT !.stage = "unresumable"]
          \/ /\ last \in Nat /\ last <= size /\ <<j, last>> \in DOMAIN markers
             /\ w = [begun EXCEPT !.batch = last + 1, !.packages = packages,
                                  !.stage = IF last = size THEN "done" ELSE "build"]
        BY <1>3, <1>4, <1>5
    <2> HIDE DEF w
    <2>2. CASE w = begun
        BY <1>2, <1>3, <2>2 DEF Owed
    <2>3. CASE w = [begun EXCEPT !.stage = "done"] /\ size = 1 /\ <<j, 1>> \in DOMAIN markers
        <3>1. w.stage = "done"
            BY <1>2, <2>3 DEF Record
        <3> QED  BY <1>3, <2>3, <3>1 DEF Owed, Working
    <2>4. CASE w = [begun EXCEPT !.stage = "unresumable"]
        <3>1. w.stage = "unresumable"
            BY <1>2, <2>4 DEF Record
        <3> QED  BY <3>1 DEF Owed, Working
    <2>5. CASE /\ last \in Nat /\ last <= size /\ <<j, last>> \in DOMAIN markers
               /\ w = [begun EXCEPT !.batch = last + 1, !.packages = packages,
                                    !.stage = IF last = size THEN "done" ELSE "build"]
        <3>1. w.stage = (IF last = size THEN "done" ELSE "build") /\ w.batch = last + 1
            BY <1>2, <2>5 DEF Record
        <3> QED  BY <1>3, <2>5, <3>1 DEF Owed, Working
    <2> QED  BY <2>1, <2>2, <2>3, <2>4, <2>5
<1> HIDE DEF w
<1>7. CheckpointsInv'
    BY StartKeeps DEF BatchesInv
<1> QED  BY <1>1, <1>6, <1>7, DueMoves

(* What is built is the batch.                                                *)
LEMMA BuildIsDue ==
    ASSUME BatchesInv, NEW j \in Components!Jobs, Components!Build(j)
    PROVE  BatchesInv'
<1> DEFINE roots == Components!Plan(j)[worker[j].batch]
<1>1. PICK packages :
          /\ worker' = [worker EXCEPT ![j].packages = packages, ![j].stage = "verify"]
          /\ DOMAIN packages = roots
          /\ worker[j].stage = "build" /\ UNCHANGED <<policy, markers, stored, collected>>
    <2>1. PICK again : worker' = [worker EXCEPT
              ![j].packages = [r \in roots |-> IF r \in DOMAIN worker[j].packages \ again THEN @[r]
                                               ELSE worker[j].attempt * 10 + worker[j].batch],
              ![j].stage = "verify"]
        BY DEF Components!Build
    <2>2. PICK packages : packages = [r \in roots |->
              IF r \in DOMAIN worker[j].packages \ again THEN worker[j].packages[r]
              ELSE worker[j].attempt * 10 + worker[j].batch]
        OBVIOUS
    <2>3. worker' = [worker EXCEPT ![j].packages = packages, ![j].stage = "verify"]
        BY <2>1, <2>2
    <2>4. DOMAIN packages = roots
        BY <2>2
    <2> QED  BY <2>3, <2>4 DEF Components!Build
<1> DEFINE w == [worker[j] EXCEPT !.packages = packages, !.stage = "verify"]
<1>2. worker' = [worker EXCEPT ![j] = w]
    BY <1>1 DEF BatchesInv, CheckpointsInv, WorkersInv
<1>3. w.batch = worker[j].batch /\ w.stage = "verify" /\ w.packages = packages
    BY DEF BatchesInv, CheckpointsInv, WorkersInv, Record
<1> HIDE DEF w
<1>4. Owed(j, w)
    BY <1>1, <1>3 DEF BatchesInv, Owed, Working
<1>5. CheckpointsInv'
    BY BuildKeeps DEF BatchesInv
<1> QED  BY <1>1, <1>2, <1>4, <1>5, DueMoves

LEMMA VerifyIsDue ==
    ASSUME BatchesInv, NEW j \in Components!Jobs, Components!Verify(j)
    PROVE  BatchesInv'
<1>1. PICK stage \in {"upload", "idle"} : worker' = [worker EXCEPT ![j].stage = stage]
    BY DEF Components!Verify, Components!Stage
<1> DEFINE w == [worker[j] EXCEPT !.stage = stage]
<1>2. worker' = [worker EXCEPT ![j] = w]
    BY <1>1 DEF BatchesInv, CheckpointsInv, WorkersInv
<1>3. w.batch = worker[j].batch /\ w.stage = stage /\ w.packages = worker[j].packages
    BY DEF BatchesInv, CheckpointsInv, WorkersInv, Record
<1> HIDE DEF w
<1>4. worker[j].stage = "verify" /\ UNCHANGED <<policy, markers, stored, collected>>
    BY DEF Components!Verify
<1>5. Owed(j, w)
    BY <1>1, <1>3, <1>4 DEF BatchesInv, Owed, Working
<1>6. CheckpointsInv'
    BY VerifyKeeps DEF BatchesInv
<1> QED  BY <1>2, <1>4, <1>5, <1>6, DueMoves

LEMMA StopIsDue ==
    ASSUME BatchesInv, NEW j \in Components!Jobs,
           Components!UploadConflict(j) \/ Components!Kill(j)
    PROVE  BatchesInv'
<1>1. PICK w : worker' = [worker EXCEPT ![j] = w] /\ w.stage = "idle"
    <2>1. CASE Components!UploadConflict(j)
        <3> DEFINE w == [worker[j] EXCEPT !.stage = "idle"]
        <3>1. worker' = [worker EXCEPT ![j] = w]
            BY <2>1 DEF Components!UploadConflict, Components!Stage, BatchesInv, CheckpointsInv, WorkersInv
        <3>2. w.stage = "idle"
            BY DEF BatchesInv, CheckpointsInv, WorkersInv, Record
        <3> HIDE DEF w
        <3> QED  BY <3>1, <3>2
    <2>2. CASE Components!Kill(j)
        <3>1. worker' = [worker EXCEPT ![j] = Components!Idle(worker[j].attempt)]
            BY <2>2 DEF Components!Kill, BatchesInv, CheckpointsInv, WorkersInv
        <3>2. Components!Idle(worker[j].attempt).stage = "idle"
            BY DEF Components!Idle
        <3> QED  BY <3>1, <3>2
    <2> QED  BY <2>1, <2>2
<1>2. UNCHANGED <<policy, markers, stored, collected>>
    BY DEF Components!UploadConflict, Components!Kill
<1>3. Owed(j, w)
    BY <1>1 DEF Owed, Working
<1>4. CheckpointsInv'
    BY StopKeeps DEF BatchesInv
<1> QED  BY <1>1, <1>2, <1>3, <1>4, DueMoves

LEMMA UploadIsDue ==
    ASSUME BatchesInv, NEW j \in Components!Jobs, Components!Upload(j)
    PROVE  BatchesInv'
<1>1. /\ Components!Jobs' = Components!Jobs
      /\ \A i : Components!Plan(i)' = Components!Plan(i)
    BY PolicyFixed DEF Components!Upload
<1>2. UNCHANGED <<policy, markers, worker, collected>> /\ worker[j].stage = "upload"
    BY DEF Components!Upload
<1>3. PICK r : DOMAIN stored' = DOMAIN stored \cup {<<j, worker[j].batch, r>>}
    BY DEF Components!Upload
<1>4. worker[j].batch \in Nat /\ worker[j].batch <= Len(Components!Plan(j))
    BY <1>2 DEF BatchesInv, CheckpointsInv, WorkersInv, Owed, Working
<1>5. PlannedInv'
    BY <1>1, <1>2, <1>3, <1>4 DEF BatchesInv, PlannedInv
<1>6. CollectedInv'
    BY <1>1, <1>2 DEF BatchesInv, CollectedInv, Components!NoCollection, Members
<1>7. \A i \in Components!Jobs : Owed(i, worker[i])'
    BY <1>1, <1>2 DEF BatchesInv, Owed
<1>8. CheckpointsInv'
    BY UploadKeeps DEF BatchesInv
<1> QED  BY <1>1, <1>2, <1>5, <1>6, <1>7, <1>8 DEF BatchesInv, Components!Valid

(* A job is done with the checkpoint of the last batch of its plan.               *)
LEMMA CompleteIsDue ==
    ASSUME BatchesInv, NEW j \in Components!Jobs, Components!Complete(j)
    PROVE  BatchesInv'
<1> DEFINE n == worker[j].batch
           at == <<j, n>>
           marker == Components!MarkerOf(j)
           fits == at \in DOMAIN markers => markers[at] = marker
           stage == IF ~ fits THEN "idle"
                    ELSE IF n = Len(Components!Plan(j)) THEN "done" ELSE "build"
           w == [worker[j] EXCEPT !.batch = IF fits THEN n + 1 ELSE n, !.stage = stage]
<1>1. /\ worker[j].stage = "upload" /\ UNCHANGED <<policy, stored, collected>>
      /\ markers' = IF fits THEN [k \in DOMAIN markers \cup {at} |-> IF k = at THEN marker ELSE markers[k]]
                    ELSE markers
    BY DEF Components!Complete
<1>2. worker' = [worker EXCEPT ![j] = w]
    BY DEF Components!Complete, BatchesInv, CheckpointsInv, WorkersInv
<1>3. /\ Components!Jobs' = Components!Jobs
      /\ \A i : Components!Plan(i)' = Components!Plan(i)
    BY <1>1, PolicyFixed
<1>4. PICK size \in Nat \ {0} : size = Len(Components!Plan(j))
    BY PlanIs, PoliciesAssumption DEF BatchesInv
<1>5. n \in Nat /\ n <= size /\ DOMAIN marker.packages = Components!Plan(j)[n]
    BY <1>1, <1>4 DEF BatchesInv, CheckpointsInv, WorkersInv, Owed, Working, Components!MarkerOf
<1>6. \A k \in DOMAIN markers : k \in DOMAIN markers' /\ (k # at => markers'[k] = markers[k])
    BY <1>1
<1>7. /\ \A k \in DOMAIN markers' : k \in DOMAIN markers \/ k = at
      /\ fits => at \in DOMAIN markers' /\ markers'[at] = marker
      /\ ~ fits => markers' = markers
    BY <1>1
<1> HIDE DEF fits, marker
<1>8. PlannedInv'
    <2>1. ASSUME NEW k \in DOMAIN markers'
          PROVE  /\ k[2] <= Len(Components!Plan(k[1]))
                 /\ DOMAIN markers'[k].packages = Components!Plan(k[1])[k[2]]
        <3>1. CASE ~ fits
            BY <1>7, <2>1, <3>1 DEF BatchesInv, PlannedInv
        <3>2. CASE fits /\ k # at
            BY <1>6, <1>7, <2>1, <3>2 DEF BatchesInv, PlannedInv
        <3>3. CASE fits /\ k = at
            BY <1>4, <1>5, <1>7, <3>3
        <3> QED  BY <3>1, <3>2, <3>3
    <2> QED  BY <1>1, <1>3, <2>1 DEF BatchesInv, PlannedInv
<1>9. CollectedInv'
    BY <1>1, <1>3 DEF BatchesInv, CollectedInv, Components!NoCollection, Members
<1>10. \A i \in Components!Jobs : worker'[i] = IF i = j THEN w ELSE worker[i]
    BY <1>2 DEF BatchesInv, CheckpointsInv, WorkersInv
<1>11. PICK v : v = w /\ v.stage = stage /\ v.batch = (IF fits THEN n + 1 ELSE n)
    <2>1. w.stage = stage /\ w.batch = (IF fits THEN n + 1 ELSE n)
        BY DEF BatchesInv, CheckpointsInv, WorkersInv, Record
    <2> HIDE DEF w, stage, n
    <2> QED  BY <2>1
<1> HIDE DEF w
<1>12. Owed(j, v)'
    <2>1. stage = "build" => fits /\ n + 1 <= size
        BY <1>4, <1>5
    <2>2. stage = "done" => <<j, size>> \in DOMAIN markers'
        BY <1>4, <1>7
    <2>3. stage \notin {"verify", "upload"}
        OBVIOUS
    <2>4. Len(Components!Plan(j)') = size
        BY <1>3, <1>4
    <2>5. v.stage = stage /\ (v.stage = "build" => v.batch = n + 1)
        BY <1>11, <2>1
    <2>6. v.stage \in Working => v.batch <= size
        BY <2>1, <2>3, <2>5 DEF Working
    <2>7. v.stage \notin {"verify", "upload"} /\ (v.stage = "done" => <<j, size>> \in DOMAIN markers')
        BY <2>2, <2>3, <2>5
    <2> HIDE DEF stage
    <2> QED  BY <2>4, <2>6, <2>7 DEF Owed
<1>13. ASSUME NEW i \in Components!Jobs PROVE Owed(i, worker[i])'
    <2>1. CASE i = j
        <3>1. worker'[i] = v
            BY <1>10, <1>11, <2>1
        <3> QED  BY <1>12, <2>1, <3>1 DEF Owed
    <2>2. CASE i # j
        BY <1>3, <1>6, <1>10, <2>2 DEF BatchesInv, Owed
    <2> QED  BY <2>1, <2>2
<1>14. CheckpointsInv'
    BY CompleteKeeps DEF BatchesInv
<1> QED  BY <1>1, <1>3, <1>8, <1>9, <1>13, <1>14 DEF BatchesInv, Components!Valid

(* The latest checkpoint of a job that is done is that of its last batch.          *)
LEMMA FinalizeIsDue ==
    ASSUME BatchesInv, Components!Finalize
    PROVE  BatchesInv'
<1>1. /\ UNCHANGED <<policy, markers, stored, worker>> /\ Components!Jobs # {}
      /\ \A j \in Components!Jobs : worker[j].stage = "done"
      /\ collected' = [j \in Components!Jobs |-> markers[<<j, Components!Latest(j)>>].packages]
    BY DEF Components!Finalize
<1>2. /\ Components!Jobs' = Components!Jobs
      /\ \A i : Components!Plan(i)' = Components!Plan(i) /\ Members(i)' = Members(i)
    BY <1>1, PolicyFixed DEF Members
<1>3. ASSUME NEW j \in Components!Jobs
      PROVE  DOMAIN markers[<<j, Components!Latest(j)>>].packages = Members(j)
    <2>1. PICK size \in Nat \ {0} : size = Len(Components!Plan(j)) /\ Components!Plan(j)[size] = Members(j)
        BY PlanIs, PoliciesAssumption DEF BatchesInv
    <2>2. <<j, size>> \in DOMAIN markers
        BY <1>1, <2>1 DEF BatchesInv, Owed
    <2>3. PICK listed : listed = Components!Listed(j)
        OBVIOUS
    <2>4. size \in listed /\ listed \subseteq 0..size
        <3>1. size \in listed
            BY <2>2, <2>3 DEF Components!Listed
        <3>2. ASSUME NEW k \in DOMAIN stored \cup DOMAIN markers, k[1] = j PROVE k[2] \in 0..size
            BY <2>1, <3>2 DEF BatchesInv, PlannedInv, CheckpointsInv, MarkersInv
        <3> QED  BY <2>3, <3>1, <3>2 DEF Components!Listed
    <2>5. listed \in SUBSET Nat /\ IsFiniteSet(listed) /\ listed # {}
        <3>1. IsFiniteSet(0..size) /\ 0..size \in SUBSET Nat
            BY <2>1, FS_Interval
        <3> QED  BY <2>4, <3>1, FS_Subset
    <2>6. Components!Max(listed) = size
        <3>1. PICK top : top = Components!Max(listed)
            OBVIOUS
        <3>2. top \in listed /\ size <= top
            BY <2>4, <2>5, <3>1, MaxIs
        <3> QED  BY <2>1, <2>4, <3>1, <3>2
    <2>7. Components!Latest(j) = size
        BY <2>3, <2>6 DEF Components!Latest
    <2> QED  BY <2>1, <2>2, <2>7 DEF BatchesInv, PlannedInv
<1>4. CollectedInv'
    <2>1. \A j \in Components!Jobs : DOMAIN collected'[j] = Members(j)
        BY <1>1, <1>3
    <2> QED  BY <1>1, <1>2, <2>1 DEF CollectedInv
<1>5. PlannedInv'
    BY <1>1, <1>2 DEF BatchesInv, PlannedInv
<1>6. \A i \in Components!Jobs : Owed(i, worker[i])'
    BY <1>1, <1>2 DEF BatchesInv, Owed
<1>7. CheckpointsInv'
    BY StepCheckpoints DEF BatchesInv, Components!Next
<1> QED  BY <1>1, <1>2, <1>4, <1>5, <1>6, <1>7 DEF BatchesInv, Components!Valid

LEMMA StepBatches ==
    BatchesInv /\ [Components!Next]_(Components!vars) => BatchesInv'
<1> SUFFICES ASSUME BatchesInv, [Components!Next]_(Components!vars) PROVE BatchesInv'
    OBVIOUS
<1>1. CASE \E j \in Components!Jobs :
             \/ Components!Start(j) \/ Components!Build(j) \/ Components!Verify(j) \/ Components!Upload(j)
             \/ Components!UploadConflict(j) \/ Components!Complete(j) \/ Components!Kill(j)
    BY <1>1, StartIsDue, BuildIsDue, VerifyIsDue, UploadIsDue, StopIsDue, CompleteIsDue
<1>2. CASE Components!Finalize
    BY <1>2, FinalizeIsDue
<1>3. CASE UNCHANGED Components!vars
    <2>1. UNCHANGED <<policy, stored, markers, worker, collected>>
        BY <1>3 DEF Components!vars
    <2>2. /\ Components!Jobs' = Components!Jobs
          /\ \A i : Components!Plan(i)' = Components!Plan(i)
        BY <2>1, PolicyFixed
    <2>3. CheckpointsInv'
        BY StepCheckpoints DEF BatchesInv
    <2>4. PlannedInv' /\ CollectedInv'
        BY <2>1, <2>2 DEF BatchesInv, PlannedInv, CollectedInv, Components!NoCollection, Members
    <2> QED  BY <2>1, <2>2, <2>3, <2>4 DEF BatchesInv, Owed, Components!Valid
<1> QED  BY <1>1, <1>2, <1>3 DEF Components!Next

(* The last checkpoints of the jobs have what the jobs are to build.              *)
LEMMA BatchesComplete ==
    BatchesInv => Components!ShardsAreBalanced /\ Components!CollectionIsComplete
<1> SUFFICES ASSUME BatchesInv PROVE Components!ShardsAreBalanced /\ Components!CollectionIsComplete
    OBVIOUS
<1>1. RootsGiven(policy) /\ Components!Valid(policy)
    BY PoliciesAssumption DEF BatchesInv
<1>2. Components!ShardsAreBalanced
    BY <1>1, PartitionIsBalanced
<1>3. ASSUME collected # Components!NoCollection
      PROVE  /\ UNION {DOMAIN collected[j] : j \in Components!Jobs} =
                    policy.roots \cup (IF Components!Core \in Components!Jobs THEN {0} ELSE {})
             /\ \A i, j \in Components!Jobs : i # j => DOMAIN collected[i] \cap DOMAIN collected[j] = {}
    <2>1. Components!Jobs # {} /\ \A j \in Components!Jobs : DOMAIN collected[j] = Members(j)
        BY <1>3 DEF BatchesInv, CollectedInv
    <2>2. {DOMAIN collected[j] : j \in Components!Jobs} = {Members(j) : j \in Components!Jobs}
        BY <2>1
    <2> QED  BY <1>1, <2>1, <2>2, MembersAre
<1> QED  BY <1>2, <1>3 DEF Components!CollectionIsComplete

-----------------------------------------------------------------------------
(* Downloads, for any bundles with an image and any number of jobs.             *)

(* A document names images, which have been built and so have a name for good.   *)
Sound(document) ==
    /\ Len(document.images) \in Nat \ {0}
    /\ \A n \in 1..Len(document.images) : document.images[n] \in DOMAIN built

(* Its first m images are stored under the names it gives them.                  *)
Held(document, m) ==
    \A n \in 1..m :
        LET url == Images!Url(document, document.images[n])
        IN  url \in DOMAIN objects /\ objects[url] = document.images[n]

Building(l) ==
    /\ l = "control"
    /\ lane[l] \in [step : {"images", "prepare"}, bundle : Bundles, direct : BOOLEAN, next : Nat \ {0}]
    /\ lane[l].next <= Len(lane[l].bundle.images)
    /\ \A n \in 1..Len(lane[l].bundle.images) :
          lane[l].step = "prepare" \/ n < lane[l].next => lane[l].bundle.images[n] \in DOMAIN built

Uploading(l) ==
    /\ lane[l] \in [step : {"upload", "put", "commit", "copy alias"}, document : {lane[l].document},
                    direct : {lane[l].direct}, next : Nat \ {0}]
    /\ Sound(lane[l].document)
    /\ lane[l].next <= Len(lane[l].document.images)

JobInv(l) == lane[l] = Images!Idle \/ Building(l) \/ Uploading(l)

JobsInv ==
    /\ lane = [l \in Images!Lanes |-> lane[l]]
    /\ \A l \in Images!Lanes : JobInv(l)

Committed == published \cup ({release, alias} \ {Images!None})

DocumentsInv == \A document \in kept \cup Committed : Sound(document)

(* What a job has uploaded so far stays there; a put that is decided on is of a    *)
(* name that nothing has; the aggregate publication has nothing to upload.         *)
Progress(l) ==
    /\ lane[l].step \in {"upload", "put"} => Held(lane[l].document, lane[l].next - 1)
    /\ lane[l].step \in {"commit", "copy alias"} =>
          Held(lane[l].document, Len(lane[l].document.images))
    /\ lane[l].step = "put" =>
          l # "aggregate" /\ Images!Url(lane[l].document, Images!Image(l)) \notin DOMAIN objects
    /\ l = "aggregate" /\ lane[l] # Images!Idle => lane[l].document \in published

HeldInv ==
    /\ lane["control"] = Images!Idle \/ lane["publish"] = Images!Idle
    /\ \A document \in Committed : Held(document, Len(document.images))
    /\ \A l \in Images!Lanes : Progress(l)

ImagesInv == JobsInv /\ DocumentsInv /\ (beside \/ HeldInv)

LEMMA InitImages == Images!Init => ImagesInv
<1> SUFFICES ASSUME Images!Init PROVE ImagesInv
    OBVIOUS
<1>1. JobsInv
    BY DEF Images!Init, JobsInv, JobInv
<1>2. kept \cup Committed = {}
    BY DEF Images!Init, Committed
<1>3. HeldInv
    BY <1>2 DEF Images!Init, Images!Idle, Images!Lanes, HeldInv, Progress
<1> QED  BY <1>1, <1>2, <1>3 DEF ImagesInv, DocumentsInv

(* An image keeps its label, and an object that is stored stays what it is.       *)
BuiltGrows == \A i \in DOMAIN built : i \in DOMAIN built' /\ built'[i] = built[i]
ObjectsGrow == \A u \in DOMAIN objects : u \in DOMAIN objects' /\ objects'[u] = objects[u]

LEMMA SoundStays ==
    ASSUME BuiltGrows, NEW document, Sound(document)
    PROVE  Sound(document)'
BY DEF BuiltGrows, Sound

LEMMA HeldStays ==
    ASSUME BuiltGrows, ObjectsGrow, NEW document, Sound(document),
           NEW m \in Nat, m <= Len(document.images), Held(document, m)
    PROVE  Held(document, m)'
<1> SUFFICES ASSUME NEW n \in 1..m
             PROVE  LET url == Images!Url(document, document.images[n])'
                    IN  url \in DOMAIN objects' /\ objects'[url] = document.images[n]
    BY DEF Held
<1>1. document.images[n] \in DOMAIN built
    BY DEF Sound
<1>2. Images!Url(document, document.images[n])' = Images!Url(document, document.images[n])
    BY <1>1 DEF Images!Url, BuiltGrows
<1> QED  BY <1>2 DEF Held, ObjectsGrow

LEMMA JobFields ==
    ASSUME NEW l, JobInv(l)
    PROVE  /\ Building(l) => /\ l = "control" /\ lane[l].step \in {"images", "prepare"}
                             /\ lane[l].bundle \in Bundles /\ lane[l].next \in Nat \ {0}
           /\ Uploading(l) => /\ lane[l].step \in {"upload", "put", "commit", "copy alias"}
                              /\ lane[l].next \in Nat \ {0}
                              /\ Sound(lane[l].document)
                              /\ Len(lane[l].document.images) \in Nat \ {0}
                              /\ lane[l].next <= Len(lane[l].document.images)
           /\ ~ Building(l) /\ ~ Uploading(l) => lane[l] = Images!Idle /\ lane[l].step = "idle"
<1>1. ASSUME Building(l)
      PROVE  /\ l = "control" /\ lane[l].step \in {"images", "prepare"}
             /\ lane[l].bundle \in Bundles /\ lane[l].next \in Nat \ {0}
    BY <1>1 DEF Building
<1>2. ASSUME Uploading(l)
      PROVE  lane[l].step \in {"upload", "put", "commit", "copy alias"} /\ lane[l].next \in Nat \ {0}
    BY <1>2 DEF Uploading
<1>3. ASSUME Uploading(l)
      PROVE  /\ Sound(lane[l].document) /\ Len(lane[l].document.images) \in Nat \ {0}
             /\ lane[l].next <= Len(lane[l].document.images)
    BY <1>3 DEF Uploading, Sound
<1>4. Images!Idle.step = "idle"
    BY DEF Images!Idle
<1> QED  BY <1>1, <1>2, <1>3, <1>4 DEF JobInv

LEMMA JobStays ==
    ASSUME BuiltGrows, NEW l \in Images!Lanes, lane'[l] = lane[l], JobInv(l)
    PROVE  JobInv(l)'
<1>1. CASE lane[l] = Images!Idle
    BY <1>1 DEF JobInv, Images!Idle
<1>2. CASE Building(l)
    BY <1>2 DEF JobInv, Building, BuiltGrows
<1>3. CASE Uploading(l)
    BY <1>3 DEF JobInv, Uploading, Sound, BuiltGrows
<1> QED  BY <1>1, <1>2, <1>3 DEF JobInv

LEMMA ProgressStays ==
    ASSUME BuiltGrows, ObjectsGrow, published \subseteq published',
           NEW l \in Images!Lanes, lane'[l] = lane[l], JobInv(l), Progress(l),
           objects' = objects \/ lane[l].step # "put"
    PROVE  Progress(l)'
<1>1. CASE ~ Uploading(l)
    <2>1. lane[l].step \notin {"upload", "put", "commit", "copy alias"}
        BY <1>1, JobFields
    <2>2. l = "aggregate" => lane[l] = Images!Idle
        BY <1>1, JobFields
    <2> QED  BY <2>1, <2>2 DEF Progress, Images!Idle
<1>2. CASE Uploading(l)
    <2>1. PICK d, k, full :
              d = lane[l].document /\ k = lane[l].next - 1 /\ full = Len(lane[l].document.images)
        OBVIOUS
    <2>2. d = lane'[l].document /\ k = lane'[l].next - 1 /\ full = Len(lane'[l].document.images)
        BY <2>1
    <2>3. /\ Sound(d) /\ full = Len(d.images) /\ full \in Nat
          /\ k \in Nat /\ k + 1 \in 1..full /\ k <= full /\ lane[l].next = k + 1
        <3>1. /\ lane[l].next \in Nat \ {0} /\ Sound(lane[l].document)
              /\ Len(lane[l].document.images) \in Nat \ {0}
              /\ lane[l].next <= Len(lane[l].document.images)
            BY <1>2, JobFields
        <3> QED  BY <2>1, <3>1
    <2>4. (Held(d, k) => Held(d, k)') /\ (Held(d, full) => Held(d, full)')
        BY <2>3, HeldStays
    <2>5. lane[l].step \in {"upload", "put"} => Held(d, k)'
        BY <2>1, <2>4 DEF Progress
    <2>6. lane[l].step \in {"commit", "copy alias"} => Held(d, full)'
        BY <2>1, <2>4 DEF Progress
    <2>7. Images!Image(l)' = Images!Image(l) /\ Images!Image(l) = d.images[k + 1]
        BY <2>1, <2>2, <2>3 DEF Images!Image
    <2>8. Images!Url(d, d.images[k + 1])' = Images!Url(d, d.images[k + 1])
        BY <2>3 DEF Images!Url, Sound, BuiltGrows
    <2>9. lane[l].step = "put" => l # "aggregate" /\ Images!Url(d, d.images[k + 1])' \notin DOMAIN objects'
        BY <2>1, <2>7, <2>8 DEF Progress
    <2>10. l = "aggregate" /\ lane[l] # Images!Idle => d \in published'
        BY <2>1 DEF Progress
    <2> QED  BY <2>2, <2>5, <2>6, <2>7, <2>9, <2>10 DEF Progress, Images!Idle
<1> QED  BY <1>1, <1>2

(* What a step has to show: its job's new state, and what it commits.            *)
LEMMA JobMoves ==
    ASSUME ImagesInv, BuiltGrows, beside => beside',
           NEW l \in Images!Lanes, NEW w, lane' = [lane EXCEPT ![l] = w], JobInv(l)',
           \A document \in (kept \cup Committed)' : document \in kept \cup Committed \/ Sound(document),
           ~ beside' =>
              /\ ObjectsGrow /\ published \subseteq published'
              /\ lane'["control"] = Images!Idle \/ lane'["publish"] = Images!Idle
              /\ \A k \in Images!Lanes \ {l} : objects' = objects \/ lane[k].step # "put"
              /\ Progress(l)'
              /\ \A document \in Committed' :
                    \/ document \in Committed
                    \/ Sound(document) /\ Held(document, Len(document.images))
    PROVE  ImagesInv'
<1>1. \A k \in Images!Lanes \ {l} : lane'[k] = lane[k]
    BY DEF ImagesInv, JobsInv
<1>2. JobsInv'
    <2>1. \A k \in Images!Lanes : JobInv(k)'
        BY <1>1, JobStays DEF ImagesInv, JobsInv
    <2>2. lane' = [k \in Images!Lanes |-> lane'[k]]
        BY DEF ImagesInv, JobsInv
    <2> QED  BY <2>1, <2>2 DEF JobsInv, Images!Lanes
<1>3. DocumentsInv'
    <2>1. \A document \in (kept \cup Committed)' : Sound(document)
        BY DEF ImagesInv, DocumentsInv
    <2>2. \A document \in (kept \cup Committed)' : Sound(document)'
        BY <2>1, SoundStays
    <2> QED  BY <2>2 DEF DocumentsInv
<1>4. ASSUME ~ beside' PROVE HeldInv'
    <2>1. HeldInv
        BY <1>4 DEF ImagesInv
    <2>2. ASSUME NEW document \in Committed' PROVE Held(document, Len(document.images))'
        <3>1. Sound(document) /\ Held(document, Len(document.images))
            BY <1>4, <2>1, <2>2 DEF ImagesInv, DocumentsInv, HeldInv
        <3>2. PICK m : m = Len(document.images) /\ m \in Nat
            BY <3>1 DEF Sound
        <3>3. Held(document, m)'
            BY <1>4, <3>1, <3>2, HeldStays
        <3> QED  BY <3>2, <3>3
    <2>3. \A k \in Images!Lanes : Progress(k)'
        BY <1>1, <1>4, <2>1, ProgressStays DEF ImagesInv, JobsInv, HeldInv
    <2> QED  BY <1>4, <2>2, <2>3 DEF HeldInv, Images!Lanes
<1> QED  BY <1>2, <1>3, <1>4 DEF ImagesInv

(* A job that has ended, and one that begins to upload.                          *)
LEMMA Ended ==
    ASSUME NEW l, lane'[l] = Images!Idle
    PROVE  JobInv(l)' /\ Progress(l)'
<1>1. lane'[l].step = "idle"
    BY DEF Images!Idle
<1> QED  BY <1>1 DEF JobInv, Progress, Images!Idle

LEMMA Opened ==
    ASSUME NEW l, NEW document, NEW direct \in BOOLEAN, Sound(document), BuiltGrows,
           lane'[l] = Images!Upload(document, direct), l = "aggregate" => document \in published'
    PROVE  JobInv(l)' /\ Progress(l)'
<1>1. lane'[l] = [step |-> "upload", document |-> document, direct |-> direct, next |-> 1]
    BY DEF Images!Upload
<1>2. /\ lane'[l].step = "upload" /\ lane'[l].document = document
      /\ lane'[l].next = 1 /\ lane'[l].direct = direct
    BY <1>1
<1>3. Sound(document)'
    BY SoundStays
<1>4. Uploading(l)'
    <2>1. lane'[l] \in [step : {"upload", "put", "commit", "copy alias"}, document : {lane'[l].document},
                        direct : {lane'[l].direct}, next : Nat \ {0}]
        BY <1>1
    <2>2. 1 <= Len(document.images)
        BY DEF Sound
    <2> QED  BY <1>2, <1>3, <2>1, <2>2 DEF Uploading
<1>5. Progress(l)'
    BY <1>2 DEF Progress, Held
<1> QED  BY <1>4, <1>5 DEF JobInv

(* A job that runs on keeps the other group that may put away.                    *)
LEMMA OneGroup ==
    ASSUME ImagesInv, NEW l \in Images!Lanes, NEW w, lane' = [lane EXCEPT ![l] = w],
           lane[l] # Images!Idle \/ w = Images!Idle, ~ beside
    PROVE  lane'["control"] = Images!Idle \/ lane'["publish"] = Images!Idle
BY DEF ImagesInv, JobsInv, HeldInv, Images!Lanes

(* A job ends without committing.                                             *)
LEMMA JobEnds ==
    ASSUME ImagesInv, NEW l \in Images!Lanes, Images!End(l),
           UNCHANGED <<release, alias, objects, built, kept, published, beside>>
    PROVE  ImagesInv'
<1>1. BuiltGrows /\ ObjectsGrow /\ Committed' = Committed
    BY DEF BuiltGrows, ObjectsGrow, Committed
<1>2. lane' = [lane EXCEPT ![l] = Images!Idle] /\ lane'[l] = Images!Idle
    BY DEF Images!End, ImagesInv, JobsInv
<1>3. JobInv(l)' /\ Progress(l)'
    BY <1>2, Ended
<1>4. ~ beside => lane'["control"] = Images!Idle \/ lane'["publish"] = Images!Idle
    BY <1>2 DEF ImagesInv, JobsInv, HeldInv, Images!Lanes
<1> QED  BY <1>1, <1>2, <1>3, <1>4, JobMoves

LEMMA PlanKeeps ==
    ASSUME ImagesInv, NEW b \in Bundles, NEW direct \in BOOLEAN, Images!Plan(b, direct)
    PROVE  ImagesInv'
<1> DEFINE w == [step |-> "images", bundle |-> b, direct |-> direct, next |-> 1]
<1>1. /\ lane' = [lane EXCEPT !["control"] = w] /\ "control" \in Images!Lanes
      /\ UNCHANGED <<release, alias, objects, built, kept, published>>
      /\ beside' = (beside \/ (direct /\ lane["publish"] # Images!Idle))
    BY DEF Images!Plan, Images!Start, Images!Lanes
<1>2. lane'["control"] = w /\ lane'["publish"] = lane["publish"]
    BY <1>1 DEF ImagesInv, JobsInv, Images!Lanes
<1>3. BuiltGrows /\ ObjectsGrow /\ Committed' = Committed
    BY <1>1 DEF BuiltGrows, ObjectsGrow, Committed
<1>4. JobInv("control")'
    <2>1. Len(b.images) \in Nat \ {0}
        BY BundlesAssumption
    <2>2. Building("control")'
        BY <1>2, <2>1 DEF Building
    <2> QED  BY <2>2 DEF JobInv
<1>5. Progress("control")'
    BY <1>2 DEF Progress
<1>6. ~ beside' => lane'["publish"] = Images!Idle
    BY <1>1, <1>2 DEF Images!Plan, Images!DevelopmentBusy
<1>7. beside => beside'
    BY <1>1
<1> HIDE DEF w
<1> QED  BY <1>1, <1>3, <1>4, <1>5, <1>6, <1>7, JobMoves

LEMMA ImageKeeps ==
    ASSUME ImagesInv, Images!Build
    PROVE  ImagesInv'
<1> DEFINE job == lane["control"]
           images == job.bundle.images
           due == images[job.next]
           w == IF job.next = Len(images) THEN [job EXCEPT !.step = "prepare"]
                ELSE [job EXCEPT !.next = job.next + 1]
<1>1. /\ job.step = "images" /\ lane' = [lane EXCEPT !["control"] = w]
      /\ "control" \in Images!Lanes
      /\ DOMAIN built' = DOMAIN built \cup {due}
      /\ \A i \in DOMAIN built : built'[i] = built[i]
      /\ UNCHANGED <<release, alias, objects, kept, published, beside>>
    BY DEF Images!Build, Images!Lanes
<1>2. BuiltGrows /\ ObjectsGrow /\ Committed' = Committed
    BY <1>1 DEF BuiltGrows, ObjectsGrow, Committed
<1>3. JobInv("control") /\ Building("control")
    BY <1>1, JobFields DEF ImagesInv, JobsInv
<1>4. lane'["control"] = w /\ lane'["publish"] = lane["publish"]
    BY <1>1 DEF ImagesInv, JobsInv, Images!Lanes
<1>5. /\ job.next \in Nat \ {0} /\ job.next <= Len(images) /\ Len(images) \in Nat \ {0}
      /\ \A n \in 1..Len(images) : n < job.next => images[n] \in DOMAIN built
    <2>1. job.bundle \in Bundles /\ job.next \in Nat \ {0}
        BY <1>3, JobFields
    <2> QED  BY <1>3, <2>1, BundlesAssumption DEF Building
<1>6. ~ beside' => lane'["publish"] = Images!Idle
    BY <1>1, <1>4 DEF ImagesInv, HeldInv, Images!Idle
<1>7. CASE job.next = Len(images)
    <2>1. /\ w \in [step : {"prepare"}, bundle : {job.bundle}, direct : BOOLEAN, next : {job.next}]
          /\ job.bundle \in Bundles
        BY <1>3, <1>7 DEF Building
    <2>2. \A n \in 1..Len(images) : images[n] \in DOMAIN built'
        BY <1>1, <1>5, <1>7
    <2>3. Building("control")'
        BY <1>4, <1>5, <2>1, <2>2 DEF Building
    <2>4. Progress("control")' /\ JobInv("control")'
        BY <1>4, <2>1, <2>3 DEF Progress, JobInv
    <2> HIDE DEF w
    <2> QED  BY <1>1, <1>2, <1>6, <2>4, JobMoves
<1>8. CASE job.next # Len(images)
    <2>1. /\ w \in [step : {"images"}, bundle : {job.bundle}, direct : BOOLEAN, next : {job.next + 1}]
          /\ job.bundle \in Bundles
        BY <1>1, <1>3, <1>5, <1>8 DEF Building
    <2>2. \A n \in 1..Len(images) : n < job.next + 1 => images[n] \in DOMAIN built'
        BY <1>1, <1>5, <1>8
    <2>3. Building("control")'
        BY <1>4, <1>5, <1>8, <2>1, <2>2 DEF Building
    <2>4. Progress("control")' /\ JobInv("control")'
        BY <1>4, <2>1, <2>3 DEF Progress, JobInv
    <2> HIDE DEF w
    <2> QED  BY <1>1, <1>2, <1>6, <2>4, JobMoves
<1> QED  BY <1>7, <1>8

(* A document that is prepared is the live one, or names the images just built.   *)
LEMMA PrepareKeeps ==
    ASSUME ImagesInv, Images!Prepare
    PROVE  ImagesInv'
<1> DEFINE job == lane["control"]
           document == Images!Document(job.bundle, Images!Generation(job), release)
           w == Images!Upload(document, TRUE)
<1>1. /\ job.step = "prepare" /\ "control" \in Images!Lanes
      /\ UNCHANGED <<release, alias, objects, built, published, beside>>
    BY DEF Images!Prepare, Images!Lanes
<1>2. BuiltGrows /\ ObjectsGrow /\ Committed' = Committed
    BY <1>1 DEF BuiltGrows, ObjectsGrow, Committed
<1>3. Sound(document)
    <2>1. Building("control")
        BY <1>1, JobFields DEF ImagesInv, JobsInv
    <2>2. /\ Len(job.bundle.images) \in Nat \ {0}
          /\ \A n \in 1..Len(job.bundle.images) : job.bundle.images[n] \in DOMAIN built
        BY <1>1, <2>1, BundlesAssumption DEF Building
    <2>3. CASE Images!FirstImagesStand(job.bundle, Images!Generation(job), release)
        <3>1. document = release /\ release # Images!None
            BY <2>3 DEF Images!Document, Images!FirstImagesStand
        <3> HIDE DEF document
        <3> QED  BY <3>1 DEF ImagesInv, DocumentsInv, Committed
    <2>4. CASE ~ Images!FirstImagesStand(job.bundle, Images!Generation(job), release)
        <3>1. document.images = job.bundle.images
            BY <2>4 DEF Images!Document
        <3> HIDE DEF document
        <3> QED  BY <2>2, <3>1 DEF Sound
    <2> QED  BY <2>3, <2>4
<1> HIDE DEF document
<1>4. \/ Images!End("control") /\ kept' = kept
      \/ lane' = [lane EXCEPT !["control"] = w] /\ kept' = kept
      \/ Images!End("control") /\ kept' = kept \cup {document}
    BY DEF Images!Prepare, document
<1>5. CASE Images!End("control") /\ kept' = kept
    BY <1>1, <1>5, JobEnds
<1>6. CASE lane' = [lane EXCEPT !["control"] = w] /\ kept' = kept
    <2>1. lane'["control"] = w /\ lane'["publish"] = lane["publish"]
        BY <1>6 DEF ImagesInv, JobsInv, Images!Lanes
    <2>2. JobInv("control")' /\ Progress("control")'
        BY <1>1, <1>2, <1>3, <2>1, Opened
    <2>3. ~ beside' => lane'["publish"] = Images!Idle
        BY <1>1, <2>1 DEF ImagesInv, HeldInv, Images!Idle
    <2> HIDE DEF w
    <2> QED  BY <1>1, <1>2, <1>6, <2>2, <2>3, JobMoves
<1>7. CASE Images!End("control") /\ kept' = kept \cup {document}
    <2>1. lane' = [lane EXCEPT !["control"] = Images!Idle] /\ lane'["control"] = Images!Idle
        BY <1>1, <1>7 DEF Images!End, ImagesInv, JobsInv
    <2>2. JobInv("control")' /\ Progress("control")'
        BY <2>1, Ended
    <2> QED  BY <1>1, <1>2, <1>3, <1>7, <2>1, <2>2, JobMoves
<1> QED  BY <1>4, <1>5, <1>6, <1>7

LEMMA PublishKeeps ==
    ASSUME ImagesInv, NEW document \in kept, Images!Publish(document)
    PROVE  ImagesInv'
<1> DEFINE w == Images!Upload(document, FALSE)
<1>1. /\ lane' = [lane EXCEPT !["publish"] = w] /\ "publish" \in Images!Lanes
      /\ UNCHANGED <<release, alias, objects, built, kept, published>>
      /\ beside' = (beside \/ lane["control"] # Images!Idle)
    BY DEF Images!Publish, Images!Start, Images!Lanes
<1>2. BuiltGrows /\ ObjectsGrow /\ Committed' = Committed
    BY <1>1 DEF BuiltGrows, ObjectsGrow, Committed
<1>3. lane'["publish"] = w /\ lane'["control"] = lane["control"]
    BY <1>1 DEF ImagesInv, JobsInv, Images!Lanes
<1>4. JobInv("publish")' /\ Progress("publish")'
    BY <1>1, <1>2, <1>3, Opened DEF ImagesInv, DocumentsInv
<1>5. (beside => beside') /\ (~ beside' => lane'["control"] = Images!Idle)
    BY <1>1, <1>3
<1> HIDE DEF w
<1> QED  BY <1>1, <1>2, <1>4, <1>5, JobMoves

LEMMA AggregateKeeps ==
    ASSUME ImagesInv, NEW document \in published, Images!Aggregate(document)
    PROVE  ImagesInv'
<1> DEFINE w == Images!Upload(document, FALSE)
<1>1. /\ lane' = [lane EXCEPT !["aggregate"] = w] /\ "aggregate" \in Images!Lanes
      /\ UNCHANGED <<release, alias, objects, built, kept, published, beside>>
    BY DEF Images!Aggregate, Images!Start, Images!Lanes
<1>2. BuiltGrows /\ ObjectsGrow /\ Committed' = Committed
    BY <1>1 DEF BuiltGrows, ObjectsGrow, Committed
<1>3. /\ lane'["aggregate"] = w
      /\ lane'["publish"] = lane["publish"] /\ lane'["control"] = lane["control"]
    BY <1>1 DEF ImagesInv, JobsInv, Images!Lanes
<1>4. JobInv("aggregate")' /\ Progress("aggregate")'
    BY <1>1, <1>2, <1>3, Opened DEF ImagesInv, DocumentsInv, Committed
<1>5. ~ beside' => lane'["control"] = Images!Idle \/ lane'["publish"] = Images!Idle
    BY <1>1, <1>3 DEF ImagesInv, HeldInv
<1> HIDE DEF w
<1> QED  BY <1>1, <1>2, <1>4, <1>5, JobMoves

(* The document of a job that uploads, as a constant of the proof.               *)
LEMMA Uploads ==
    ASSUME ImagesInv, NEW l \in Images!Lanes,
           lane[l].step \in {"upload", "put", "commit", "copy alias"}
    PROVE  \E d, k, full :
              /\ d = lane[l].document /\ k = lane[l].next /\ full = Len(d.images)
              /\ Uploading(l) /\ lane[l] # Images!Idle /\ Sound(d)
              /\ full \in Nat \ {0} /\ k \in Nat \ {0} /\ k <= full
              /\ Images!Image(l) = d.images[k]
              /\ ~ beside => Progress(l)
<1>1. Uploading(l)
    BY JobFields DEF ImagesInv, JobsInv
<1>2. PICK d, k, full : d = lane[l].document /\ k = lane[l].next /\ full = Len(d.images)
    OBVIOUS
<1>3. /\ lane[l].next \in Nat \ {0} /\ Sound(lane[l].document)
      /\ Len(lane[l].document.images) \in Nat \ {0}
      /\ lane[l].next <= Len(lane[l].document.images)
    BY <1>1, JobFields DEF JobInv
<1>4. ~ beside => Progress(l)
    BY DEF ImagesInv, HeldInv
<1>5. lane[l] # Images!Idle
    <2>1. Images!Idle.step = "idle"
        BY DEF Images!Idle
    <2> QED  BY <2>1
<1>6. Images!Image(l) = d.images[k]
    BY <1>2 DEF Images!Image
<1>7. Sound(d) /\ full \in Nat \ {0} /\ k \in Nat \ {0} /\ k <= full
    BY <1>2, <1>3
<1> QED  BY <1>1, <1>2, <1>4, <1>5, <1>6, <1>7

(* One more image is known to be stored.                                        *)
LEMMA UploadedKeeps ==
    ASSUME ImagesInv, NEW l \in Images!Lanes, lane[l].step \in {"upload", "put"}, Images!Uploaded(l),
           UNCHANGED <<release, alias, built, kept, published, beside>>,
           ~ beside => /\ ObjectsGrow
                       /\ \A k \in Images!Lanes \ {l} : objects' = objects \/ lane[k].step # "put",
           LET url == Images!Url(lane[l].document, Images!Image(l))
           IN  url \in DOMAIN objects' /\ objects'[url] = Images!Image(l)
    PROVE  ImagesInv'
<1>1. PICK d, k, full :
          /\ d = lane[l].document /\ k = lane[l].next /\ full = Len(d.images)
          /\ Uploading(l) /\ lane[l] # Images!Idle /\ Sound(d)
          /\ full \in Nat \ {0} /\ k \in Nat \ {0} /\ k <= full
          /\ Images!Image(l) = d.images[k]
          /\ ~ beside => Progress(l)
    BY Uploads
<1> DEFINE w == IF k < full THEN [lane[l] EXCEPT !.step = "upload", !.next = k + 1]
                ELSE [lane[l] EXCEPT !.step = "commit"]
<1>2. lane' = [lane EXCEPT ![l] = w] /\ lane'[l] = w
    <2>1. lane' = [lane EXCEPT ![l] =
              IF lane[l].next < Len(lane[l].document.images)
              THEN [lane[l] EXCEPT !.step = "upload", !.next = lane[l].next + 1]
              ELSE [lane[l] EXCEPT !.step = "commit"]]
        BY DEF Images!Uploaded
    <2>2. lane' = [lane EXCEPT ![l] = w]
        BY <1>1, <2>1
    <2> HIDE DEF w
    <2> QED  BY <2>2 DEF ImagesInv, JobsInv
<1>3. BuiltGrows /\ Committed' = Committed
    BY DEF BuiltGrows, Committed
<1>4. /\ w \in [step : {"upload", "commit"}, document : {d}, direct : {w.direct}, next : Nat \ {0}]
      /\ w.document = d /\ w.next = (IF k < full THEN k + 1 ELSE k)
      /\ w.step = (IF k < full THEN "upload" ELSE "commit")
    <2>1. /\ lane[l] \in [step : {"upload", "put", "commit", "copy alias"}, document : {d},
                          direct : {lane[l].direct}, next : Nat \ {0}]
          /\ lane[l].document = d /\ lane[l].next = k
        BY <1>1 DEF Uploading
    <2>2. CASE k < full
        <3>1. w = [lane[l] EXCEPT !.step = "upload", !.next = k + 1] /\ k + 1 \in Nat \ {0}
            BY <1>1, <2>2
        <3> HIDE DEF w
        <3> QED  BY <2>1, <2>2, <3>1
    <2>3. CASE ~ (k < full)
        <3>1. w = [lane[l] EXCEPT !.step = "commit"]
            BY <2>3
        <3> HIDE DEF w
        <3> QED  BY <2>1, <2>3, <3>1
    <2> QED  BY <2>2, <2>3
<1> HIDE DEF w
<1>5. JobInv(l)'
    <2>1. Sound(d)'
        BY <1>1, <1>3, SoundStays
    <2>2. lane'[l].document = d /\ lane'[l].next <= full
        BY <1>1, <1>2, <1>4
    <2>3. lane'[l] \in [step : {"upload", "put", "commit", "copy alias"}, document : {lane'[l].document},
                        direct : {lane'[l].direct}, next : Nat \ {0}]
        BY <1>2, <1>4
    <2> QED  BY <1>1, <2>1, <2>2, <2>3 DEF JobInv, Uploading
<1>6. ASSUME ~ beside PROVE Progress(l)'
    <2>1. Held(d, k - 1)
        BY <1>1, <1>6 DEF Progress
    <2>2. Held(d, k - 1)'
        <3>1. k - 1 \in Nat /\ k - 1 <= Len(d.images)
            BY <1>1
        <3> QED  BY <1>1, <1>3, <1>6, <2>1, <3>1, HeldStays
    <2>3. LET url == Images!Url(d, d.images[k])' IN url \in DOMAIN objects' /\ objects'[url] = d.images[k]
        BY <1>1 DEF Images!Url
    <2>4. Held(d, k)'
        BY <1>1, <2>2, <2>3 DEF Held
    <2>5. l = "aggregate" => d \in published'
        BY <1>1, <1>6 DEF Progress
    <2>6. CASE k < full
        <3>1. lane'[l].step = "upload" /\ lane'[l].document = d /\ lane'[l].next - 1 = k
            BY <1>1, <1>2, <1>4, <2>6
        <3> QED  BY <2>4, <2>5, <3>1 DEF Progress
    <2>7. CASE ~ (k < full)
        <3>1. lane'[l].step = "commit" /\ lane'[l].document = d /\ k = Len(d.images)
            BY <1>1, <1>2, <1>4, <2>7
        <3> QED  BY <2>4, <2>5, <3>1 DEF Progress
    <2> QED  BY <2>6, <2>7
<1>7. ~ beside => lane'["control"] = Images!Idle \/ lane'["publish"] = Images!Idle
    BY <1>1, <1>2, OneGroup
<1> QED  BY <1>2, <1>3, <1>5, <1>6, <1>7, JobMoves

LEMMA HeadObjectKeeps ==
    ASSUME ImagesInv, NEW l \in Images!Lanes, Images!HeadObject(l)
    PROVE  ImagesInv'
<1>1. /\ lane[l].step = "upload"
      /\ UNCHANGED <<release, alias, objects, built, kept, published, beside>>
    BY DEF Images!HeadObject
<1>2. CASE Images!Matches(l)
    <2>1. Images!Uploaded(l)
        BY <1>2 DEF Images!HeadObject
    <2>2. ObjectsGrow
        BY <1>1 DEF ObjectsGrow
    <2>3. LET url == Images!Url(lane[l].document, Images!Image(l))
          IN  url \in DOMAIN objects' /\ objects'[url] = Images!Image(l)
        BY <1>1, <1>2 DEF Images!Matches
    <2> QED  BY <1>1, <2>1, <2>2, <2>3, UploadedKeeps
<1>3. CASE ~ Images!Matches(l) /\ Images!End(l)
    BY <1>1, <1>3, JobEnds
<1>4. CASE /\ ~ Images!Matches(l) /\ Images!Goto(l, "put")
           /\ Images!Url(lane[l].document, Images!Image(l)) \notin DOMAIN objects
    <2>1. PICK d, k, full :
              /\ d = lane[l].document /\ k = lane[l].next /\ full = Len(d.images)
              /\ Uploading(l) /\ lane[l] # Images!Idle /\ Sound(d)
              /\ full \in Nat \ {0} /\ k \in Nat \ {0} /\ k <= full
              /\ Images!Image(l) = d.images[k]
              /\ ~ beside => Progress(l)
        BY <1>1, Uploads
    <2> DEFINE w == [lane[l] EXCEPT !.step = "put"]
    <2>2. lane' = [lane EXCEPT ![l] = w] /\ lane'[l] = w
        BY <1>4 DEF Images!Goto, ImagesInv, JobsInv
    <2>3. BuiltGrows /\ ObjectsGrow /\ Committed' = Committed
        BY <1>1 DEF BuiltGrows, ObjectsGrow, Committed
    <2>4. /\ w \in [step : {"put"}, document : {d}, direct : {w.direct}, next : {k}]
          /\ w.document = d /\ w.next = k /\ w.step = "put"
        BY <2>1 DEF Uploading
    <2> HIDE DEF w
    <2>5. JobInv(l)'
        <3>1. Sound(d)'
            BY <2>1, <2>3, SoundStays
        <3>2. lane'[l].document = d /\ lane'[l].next <= full
            BY <2>1, <2>2, <2>4
        <3>3. lane'[l] \in [step : {"upload", "put", "commit", "copy alias"}, document : {lane'[l].document},
                            direct : {lane'[l].direct}, next : Nat \ {0}]
            BY <2>1, <2>2, <2>4
        <3> QED  BY <2>1, <3>1, <3>2, <3>3 DEF JobInv, Uploading
    <2>6. ASSUME ~ beside PROVE Progress(l)'
        <3>1. Held(d, k - 1)
            BY <1>1, <2>1, <2>6 DEF Progress
        <3>2. Held(d, k - 1)'
            BY <1>1, <3>1 DEF Held, Images!Url
        <3>3. /\ lane'[l].step = "put" /\ lane'[l].document = d /\ lane'[l].next = k
              /\ Images!Image(l)' = d.images[k]
            BY <2>2, <2>4 DEF Images!Image
        <3>4. Images!Url(d, d.images[k])' \notin DOMAIN objects'
            BY <1>1, <1>4, <2>1 DEF Images!Url
        <3>5. l # "aggregate"
            <4>1. SUFFICES ASSUME l = "aggregate" PROVE FALSE
                OBVIOUS
            <4>2. d \in Committed
                BY <1>1, <2>1, <2>6, <4>1 DEF Progress, Committed
            <4>3. Held(d, Len(d.images))
                BY <2>6, <4>2 DEF ImagesInv, HeldInv
            <4> QED  BY <1>4, <2>1, <4>3 DEF Held
        <3> QED  BY <3>2, <3>3, <3>4, <3>5 DEF Progress
    <2>7. ~ beside => lane'["control"] = Images!Idle \/ lane'["publish"] = Images!Idle
        BY <1>1, <2>1, <2>2, OneGroup
    <2> QED  BY <1>1, <2>2, <2>3, <2>5, <2>6, <2>7, JobMoves
<1> QED  BY <1>2, <1>3, <1>4 DEF Images!HeadObject

(* Nothing is overwritten: of the jobs that put, one runs at a time.             *)
LEMMA PutObjectKeeps ==
    ASSUME ImagesInv, NEW l \in Images!Lanes, Images!PutObject(l)
    PROVE  ImagesInv'
<1> DEFINE url == Images!Url(lane[l].document, Images!Image(l))
<1>1. /\ lane[l].step = "put" /\ Images!Uploaded(l)
      /\ UNCHANGED <<release, alias, built, kept, published, beside>>
      /\ objects' = [u \in DOMAIN objects \cup {url} |-> IF u = url THEN Images!Image(l) ELSE objects[u]]
    BY DEF Images!PutObject
<1>2. ASSUME ~ beside PROVE ObjectsGrow
    <2>1. url \notin DOMAIN objects
        BY <1>1, <1>2 DEF ImagesInv, HeldInv, Progress
    <2> HIDE DEF url
    <2> QED  BY <1>1, <2>1 DEF ObjectsGrow
<1>3. ASSUME ~ beside, NEW k \in Images!Lanes \ {l} PROVE lane[k].step # "put"
    <2>1. l # "aggregate" /\ (lane[k].step = "put" => k # "aggregate")
        BY <1>1, <1>3 DEF ImagesInv, HeldInv, Progress
    <2>2. lane["control"] = Images!Idle \/ lane["publish"] = Images!Idle
        BY <1>3 DEF ImagesInv, HeldInv
    <2>3. Images!Idle.step = "idle"
        BY DEF Images!Idle
    <2> QED  BY <1>1, <1>3, <2>1, <2>2, <2>3 DEF Images!Lanes
<1>4. url \in DOMAIN objects' /\ objects'[url] = Images!Image(l)
    BY <1>1
<1> QED  BY <1>1, <1>2, <1>3, <1>4, UploadedKeeps

(* A job that committed ends.  What it committed is stored as a whole.           *)
LEMMA CommitKeeps ==
    ASSUME ImagesInv, NEW l \in Images!Lanes, lane[l].step \in {"commit", "copy alias"},
           UNCHANGED <<objects, built, kept, beside>>, published \subseteq published',
           Committed' \subseteq Committed \cup {lane[l].document},
           \/ Images!End(l)
           \/ l = "control" /\ Images!Goto(l, "copy alias")
    PROVE  ImagesInv'
<1>1. PICK d, k, full :
          /\ d = lane[l].document /\ k = lane[l].next /\ full = Len(d.images)
          /\ Uploading(l) /\ lane[l] # Images!Idle /\ Sound(d)
          /\ full \in Nat \ {0} /\ k \in Nat \ {0} /\ k <= full
          /\ Images!Image(l) = d.images[k]
          /\ ~ beside => Progress(l)
    BY Uploads
<1>2. BuiltGrows /\ ObjectsGrow
    BY DEF BuiltGrows, ObjectsGrow
<1>3. ~ beside => Held(d, full)
    BY <1>1 DEF Progress
<1>4. /\ \A document \in (kept \cup Committed)' : document \in kept \cup Committed \/ Sound(document)
      /\ ~ beside => \A document \in Committed' :
            \/ document \in Committed
            \/ Sound(document) /\ Held(document, Len(document.images))
    BY <1>1, <1>3
<1>5. CASE Images!End(l)
    <2>1. lane' = [lane EXCEPT ![l] = Images!Idle] /\ lane'[l] = Images!Idle
        BY <1>5 DEF Images!End, ImagesInv, JobsInv
    <2>2. JobInv(l)' /\ Progress(l)'
        BY <2>1, Ended
    <2>3. ~ beside => lane'["control"] = Images!Idle \/ lane'["publish"] = Images!Idle
        BY <1>1, <2>1, OneGroup
    <2> QED  BY <1>2, <1>4, <2>1, <2>2, <2>3, JobMoves
<1>6. CASE l = "control" /\ Images!Goto(l, "copy alias")
    <2> DEFINE w == [lane[l] EXCEPT !.step = "copy alias"]
    <2>1. lane' = [lane EXCEPT ![l] = w] /\ lane'[l] = w
        BY <1>6 DEF Images!Goto, ImagesInv, JobsInv
    <2>2. /\ w \in [step : {"copy alias"}, document : {d}, direct : {w.direct}, next : {k}]
          /\ w.document = d /\ w.next = k /\ w.step = "copy alias"
        BY <1>1 DEF Uploading
    <2> HIDE DEF w
    <2>3. JobInv(l)'
        <3>1. Sound(d)'
            BY <1>1, <1>2, SoundStays
        <3>2. lane'[l].document = d /\ lane'[l].next <= full
            BY <1>1, <2>1, <2>2
        <3>3. lane'[l] \in [step : {"upload", "put", "commit", "copy alias"}, document : {lane'[l].document},
                            direct : {lane'[l].direct}, next : Nat \ {0}]
            BY <1>1, <2>1, <2>2
        <3> QED  BY <1>1, <3>1, <3>2, <3>3 DEF JobInv, Uploading
    <2>4. ~ beside => Progress(l)'
        <3>1. ~ beside => Held(d, full)'
            BY <1>3 DEF Held, Images!Url
        <3>2. lane'[l].step = "copy alias" /\ lane'[l].document = d
            BY <2>1, <2>2
        <3> QED  BY <1>1, <1>6, <3>1, <3>2 DEF Progress
    <2>5. ~ beside => lane'["control"] = Images!Idle \/ lane'["publish"] = Images!Idle
        BY <1>1, <2>1, OneGroup
    <2> QED  BY <1>2, <1>4, <2>1, <2>3, <2>4, <2>5, JobMoves
<1> QED  BY <1>5, <1>6

LEMMA StepImages ==
    ImagesInv /\ [Images!Next]_(Images!vars) => ImagesInv'
<1> SUFFICES ASSUME ImagesInv, [Images!Next]_(Images!vars) PROVE ImagesInv'
    OBVIOUS
<1>1. ASSUME NEW l \in Images!Lanes, Images!Fail(l) PROVE ImagesInv'
    BY <1>1, JobEnds DEF Images!Fail
<1>2. ASSUME Images!CommitQualified PROVE ImagesInv'
    <2>1. /\ lane["publish"].step = "commit" /\ Images!End("publish") /\ "publish" \in Images!Lanes
          /\ UNCHANGED <<objects, built, kept, beside>>
        BY <1>2 DEF Images!CommitQualified, Images!Lanes
    <2>2. published \subseteq published' /\ Committed' \subseteq Committed \cup {lane["publish"].document}
        BY <1>2 DEF Images!CommitQualified, Images!Replaced, Committed
    <2> QED  BY <2>1, <2>2, CommitKeeps
<1>3. ASSUME Images!CommitLegacy PROVE ImagesInv'
    <2>1. /\ lane["aggregate"].step = "commit" /\ Images!End("aggregate") /\ "aggregate" \in Images!Lanes
          /\ UNCHANGED <<objects, built, kept, beside>>
        BY <1>3 DEF Images!CommitLegacy, Images!Lanes
    <2>2. published \subseteq published' /\ Committed' \subseteq Committed \cup {lane["aggregate"].document}
        BY <1>3 DEF Images!CommitLegacy, Images!Replaced, Committed
    <2> QED  BY <2>1, <2>2, CommitKeeps
<1>4. ASSUME Images!Copy \/ Images!CopyAlias PROVE ImagesInv'
    <2>1. /\ lane["control"].step \in {"commit", "copy alias"} /\ "control" \in Images!Lanes
          /\ Images!End("control") \/ Images!Goto("control", "copy alias")
          /\ UNCHANGED <<objects, built, kept, beside>>
        BY <1>4 DEF Images!Copy, Images!CopyAlias, Images!Lanes
    <2>2. published \subseteq published' /\ Committed' \subseteq Committed \cup {lane["control"].document}
        BY <1>4 DEF Images!Copy, Images!CopyAlias, Committed
    <2> QED  BY <2>1, <2>2, CommitKeeps
<1>5. ASSUME UNCHANGED Images!vars PROVE ImagesInv'
    <2> DEFINE l == "aggregate"
    <2>1. UNCHANGED <<release, alias, objects, built, lane, kept, published, beside>>
        BY <1>5 DEF Images!vars
    <2>2. BuiltGrows /\ ObjectsGrow /\ Committed' = Committed /\ l \in Images!Lanes
        BY <2>1 DEF BuiltGrows, ObjectsGrow, Committed, Images!Lanes
    <2>3. lane' = [lane EXCEPT ![l] = lane[l]] /\ lane'[l] = lane[l]
        BY <2>1 DEF ImagesInv, JobsInv
    <2>4. JobInv(l)' /\ (~ beside => Progress(l)')
        BY <2>1, <2>2, <2>3, JobStays, ProgressStays DEF ImagesInv, JobsInv, HeldInv
    <2>5. ~ beside => lane'["control"] = Images!Idle \/ lane'["publish"] = Images!Idle
        BY <2>1 DEF ImagesInv, HeldInv
    <2> HIDE DEF l
    <2> QED  BY <2>1, <2>2, <2>3, <2>4, <2>5, JobMoves
<1> QED  BY <1>1, <1>2, <1>3, <1>4, <1>5, PlanKeeps, ImageKeeps, PrepareKeeps, PublishKeeps, AggregateKeeps,
            HeadObjectKeeps, PutObjectKeeps DEF Images!Next

LEMMA ImagesAreThere == ImagesInv => Images!DownloadsHoldTheRelease
<1> SUFFICES ASSUME ImagesInv, ~ beside, NEW document \in {release, alias} \ {Images!None},
                    NEW n \in 1..Len(document.images)
             PROVE  LET url == Images!Url(document, document.images[n])
                    IN  url \in DOMAIN objects /\ objects[url] = document.images[n]
    BY DEF Images!DownloadsHoldTheRelease
<1>1. Held(document, Len(document.images))
    BY DEF ImagesInv, HeldInv, Committed
<1> QED  BY <1>1 DEF Held

(* A document has the version and the pair of a bundle; one of a Development run    *)
(* has the generation of its pair.                                             *)
Named(document) ==
    /\ document.generation \in Nat
    /\ \E b \in Bundles :
          b.channel = channel /\ document.version = b.version /\ document.pair = b.generation

OfRun(document) ==
    channel = "devel" /\ Named(document) /\ document.generation = document.pair

(* What a recovery or a Stable release copies stays newer than what is live, which   *)
(* nothing else replaces while it runs.                                          *)
Newer(document) == document = release \/ Images!Advances(release, document)

UploadSteps == {"upload", "put", "commit", "copy alias"}

ControlInv ==
    /\ lane["control"].step \in {"images", "prepare"} =>
          /\ lane["control"].bundle.channel = channel
          /\ lane["control"].bundle \in DOMAIN reserved
          /\ channel = "stable" => lane["control"].direct
    /\ lane["control"].step \in UploadSteps =>
          /\ Named(lane["control"].document)
          /\ beside \/ lane["control"].step = "copy alias" \/ Newer(lane["control"].document)

AdvanceInv ==
    /\ release = Images!None \/ Named(release)
    /\ \A b \in DOMAIN reserved : reserved[b] \in Nat
    /\ \A document \in kept : OfRun(document)
    /\ lane["publish"].step \in UploadSteps => OfRun(lane["publish"].document)
    /\ ControlInv

LEMMA InitAdvance == Images!Init => AdvanceInv
<1> SUFFICES ASSUME Images!Init PROVE AdvanceInv
    OBVIOUS
<1>1. release = Images!None /\ kept = {} /\ DOMAIN reserved = {}
    BY DEF Images!Init
<1>2. lane["control"].step = "idle" /\ lane["publish"].step = "idle"
    BY DEF Images!Init, Images!Idle, Images!Lanes
<1> QED  BY <1>1, <1>2 DEF AdvanceInv, ControlInv, UploadSteps

LEMMA Numbers ==
    ASSUME AdvanceInv
    PROVE  release.generation \in Nat
BY DEF AdvanceInv, Named, Images!None

(* Nothing that the invariant looks at changes but one lane.                      *)
LEMMA LaneMoves ==
    ASSUME ImagesInv, AdvanceInv, NEW l \in Images!Lanes, NEW w, lane' = [lane EXCEPT ![l] = w],
           UNCHANGED <<channel, release, reserved, kept, beside>>,
           l = "publish" => (w.step \in UploadSteps => OfRun(w.document)),
           l = "control" => ControlInv'
    PROVE  AdvanceInv'
<1>1. lane'[l] = w /\ \A k \in Images!Lanes \ {l} : lane'[k] = lane[k]
    BY DEF ImagesInv, JobsInv
<1>2. ControlInv'
    BY <1>1 DEF AdvanceInv, ControlInv, Named, Newer, Images!Advances, Images!Lanes
<1>3. lane'["publish"].step \in UploadSteps => OfRun(lane'["publish"].document)
    BY <1>1 DEF AdvanceInv, Images!Lanes
<1> QED  BY <1>2, <1>3 DEF AdvanceInv, OfRun, Named

LEMMA EndAdvances ==
    ASSUME ImagesInv, AdvanceInv, NEW l \in Images!Lanes, Images!End(l),
           UNCHANGED <<channel, release, reserved, kept, beside>>
    PROVE  AdvanceInv'
<1>1. lane' = [lane EXCEPT ![l] = Images!Idle] /\ lane'[l] = Images!Idle
    BY DEF Images!End, ImagesInv, JobsInv
<1>2. Images!Idle.step \notin UploadSteps \cup {"images", "prepare"}
    BY DEF Images!Idle, UploadSteps
<1>3. l = "control" => ControlInv'
    BY <1>1, <1>2 DEF ControlInv
<1> QED  BY <1>1, <1>2, <1>3, LaneMoves

LEMMA PlanAdvances ==
    ASSUME ImagesInv, AdvanceInv, NEW b \in Bundles, NEW direct \in BOOLEAN, Images!Plan(b, direct)
    PROVE  AdvanceInv'
<1> DEFINE w == [step |-> "images", bundle |-> b, direct |-> direct, next |-> 1]
<1>1. /\ lane' = [lane EXCEPT !["control"] = w]
      /\ reserved' = [x \in DOMAIN reserved \cup {b} |->
             IF x \in DOMAIN reserved THEN reserved[x] ELSE Images!Proposed(b, direct)]
      /\ UNCHANGED <<channel, release, kept>>
      /\ b.channel = channel /\ (channel = "stable" => direct)
    BY DEF Images!Plan, Images!Start
<1>2. /\ lane'["control"].step = "images" /\ lane'["control"].bundle = b
      /\ lane'["control"].direct = direct /\ lane'["publish"] = lane["publish"]
    BY <1>1 DEF ImagesInv, JobsInv, Images!Lanes
<1>3. Images!Proposed(b, direct) \in Nat
    BY Numbers, VersionsAssumption DEF Images!Proposed
<1>4. \A x \in DOMAIN reserved' : reserved'[x] \in Nat
    BY <1>1, <1>3 DEF AdvanceInv
<1>5. b \in DOMAIN reserved'
    BY <1>1
<1> HIDE DEF w
<1>6. ControlInv'
    BY <1>1, <1>2, <1>5 DEF ControlInv, UploadSteps
<1> QED  BY <1>1, <1>2, <1>4, <1>6 DEF AdvanceInv, OfRun, Named

LEMMA BuildAdvances ==
    ASSUME ImagesInv, AdvanceInv, Images!Build
    PROVE  AdvanceInv'
<1> DEFINE job == lane["control"]
           w == IF job.next = Len(job.bundle.images) THEN [job EXCEPT !.step = "prepare"]
                ELSE [job EXCEPT !.next = job.next + 1]
<1>1. /\ job.step = "images" /\ lane' = [lane EXCEPT !["control"] = w]
      /\ UNCHANGED <<channel, release, reserved, kept, beside>> /\ "control" \in Images!Lanes
    BY DEF Images!Build, Images!Lanes
<1>2. lane'["control"] = w
    BY <1>1 DEF ImagesInv, JobsInv
<1>3. w.step \in {"images", "prepare"} /\ w.bundle = job.bundle /\ w.direct = job.direct
    <2>1. Building("control")
        BY <1>1, JobFields DEF ImagesInv, JobsInv
    <2> QED  BY <1>1, <2>1 DEF Building
<1> HIDE DEF w
<1>4. ControlInv'
    BY <1>1, <1>2, <1>3 DEF AdvanceInv, ControlInv, UploadSteps
<1> QED  BY <1>1, <1>4, LaneMoves

(* What is prepared is the live document or advances it.                          *)
LEMMA PreparedIsNewer ==
    ASSUME AdvanceInv, NEW b \in Bundles, NEW g \in Nat, b.channel = channel, ~ Images!Refused(b, g, release)
    PROVE  Named(Images!Document(b, g, release)) /\ Newer(Images!Document(b, g, release))
<1>1. CASE Images!FirstImagesStand(b, g, release)
    BY <1>1 DEF AdvanceInv, Images!FirstImagesStand, Images!Document, Newer
<1>2. CASE ~ Images!FirstImagesStand(b, g, release)
    <2>1. PICK d : d = Images!Document(b, g, release)
        OBVIOUS
    <2>2. /\ d.version = b.version /\ d.generation = g /\ d.pair = b.generation
          /\ d.images = b.images
        BY <1>2, <2>1 DEF Images!Document
    <2>3. Images!Advances(release, d)
        <3>1. CASE release = Images!None
            BY <3>1 DEF Images!Advances
        <3>2. CASE release # Images!None
            <4>1. release.version \in Nat /\ release.generation \in Nat /\ b.version \in Nat
                BY <3>2, VersionsAssumption DEF AdvanceInv, Named
            <4>2. b.channel \in {"stable", "devel"}
                BY VersionsAssumption
            <4> QED  BY <1>2, <2>2, <3>2, <4>1, <4>2 DEF Images!Refused, Images!FirstImagesStand, Images!Advances
        <3> QED  BY <3>1, <3>2
    <2> QED  BY <2>1, <2>2, <2>3 DEF Named, Newer
<1> QED  BY <1>1, <1>2

LEMMA PrepareAdvances ==
    ASSUME ImagesInv, AdvanceInv, Images!Prepare
    PROVE  AdvanceInv'
<1> DEFINE job == lane["control"]
           g == Images!Generation(job)
           document == Images!Document(job.bundle, g, release)
<1>1. /\ job.step = "prepare" /\ "control" \in Images!Lanes
      /\ UNCHANGED <<channel, release, reserved, beside>>
    BY DEF Images!Prepare, Images!Lanes
<1>2. /\ job.bundle \in Bundles /\ job.direct \in BOOLEAN
      /\ job.bundle.channel = channel /\ job.bundle \in DOMAIN reserved
      /\ channel = "stable" => job.direct
    <2>1. Building("control")
        BY <1>1, JobFields DEF ImagesInv, JobsInv
    <2> QED  BY <1>1, <2>1 DEF Building, AdvanceInv, ControlInv
<1>3. g \in Nat /\ (~ job.direct => g = job.bundle.generation)
    BY <1>2, VersionsAssumption DEF Images!Generation, AdvanceInv
<1> HIDE DEF g
<1>4. CASE Images!End("control") /\ kept' = kept
    BY <1>1, <1>4, EndAdvances
<1>5. ASSUME ~ Images!Refused(job.bundle, g, release)
      PROVE  Named(document) /\ Newer(document)
    BY <1>2, <1>3, <1>5, PreparedIsNewer
<1>6. CASE /\ ~ Images!Refused(job.bundle, g, release) /\ kept' = kept
           /\ lane' = [lane EXCEPT !["control"] = Images!Upload(document, TRUE)]
    <2>1. lane'["control"] = Images!Upload(document, TRUE)
        BY <1>1, <1>6 DEF ImagesInv, JobsInv
    <2>2. lane'["control"].step = "upload" /\ lane'["control"].document = document
        BY <2>1 DEF Images!Upload
    <2> HIDE DEF document
    <2>3. ControlInv'
        BY <1>1, <1>5, <1>6, <2>2 DEF ControlInv, Named, Newer, Images!Advances
    <2> QED  BY <1>1, <1>6, <2>3, LaneMoves
<1>7. CASE /\ ~ Images!Refused(job.bundle, g, release) /\ ~ job.direct
           /\ Images!End("control") /\ kept' = kept \cup {document}
    <2>1. OfRun(document)
        <3>1. channel = "devel"
            BY <1>2, <1>7, VersionsAssumption
        <3>2. document.generation = document.pair
            BY <1>3, <1>7 DEF Images!Document, Images!FirstImagesStand
        <3> QED  BY <1>5, <1>7, <3>1, <3>2 DEF OfRun
    <2> HIDE DEF document
    <2>2. \A d \in kept' : OfRun(d)
        BY <1>7, <2>1 DEF AdvanceInv
    <2>3. lane'["control"] = Images!Idle /\ lane'["publish"] = lane["publish"]
        BY <1>1, <1>7 DEF Images!End, ImagesInv, JobsInv, Images!Lanes
    <2>4. ControlInv'
        BY <2>3 DEF Images!Idle, UploadSteps, ControlInv
    <2>5. /\ release' = Images!None \/ Named(release)'
          /\ lane'["publish"].step \in UploadSteps => OfRun(lane'["publish"].document)
        BY <1>1, <2>3 DEF AdvanceInv, Named
    <2> QED  BY <1>1, <2>2, <2>4, <2>5 DEF AdvanceInv, OfRun, Named
<1>8. \/ Images!End("control") /\ kept' = kept
      \/ /\ ~ Images!Refused(job.bundle, g, release) /\ kept' = kept
         /\ lane' = [lane EXCEPT !["control"] = Images!Upload(document, TRUE)]
      \/ /\ ~ Images!Refused(job.bundle, g, release) /\ ~ job.direct
         /\ Images!End("control") /\ kept' = kept \cup {document}
    BY DEF Images!Prepare, g
<1> HIDE DEF document
<1> QED  BY <1>4, <1>6, <1>7, <1>8

LEMMA UploadAdvances ==
    ASSUME ImagesInv, AdvanceInv, NEW l \in Images!Lanes, lane[l].step \in {"upload", "put"},
           Images!Uploaded(l) \/ Images!Goto(l, "put"),
           UNCHANGED <<channel, release, reserved, kept, beside>>
    PROVE  AdvanceInv'
<1>1. PICK w : /\ lane' = [lane EXCEPT ![l] = w]
               /\ w.step \in UploadSteps \ {"copy alias"} /\ w.document = lane[l].document
    <2>1. PICK job : job = lane[l]
        OBVIOUS
    <2>2. job \in [step : UploadSteps, document : {job.document}, direct : {job.direct}, next : Nat \ {0}]
        BY <2>1, JobFields DEF ImagesInv, JobsInv, Uploading, UploadSteps
    <2>3. \/ lane' = [lane EXCEPT ![l] = [job EXCEPT !.step = "upload", !.next = job.next + 1]]
          \/ lane' = [lane EXCEPT ![l] = [job EXCEPT !.step = "commit"]]
          \/ lane' = [lane EXCEPT ![l] = [job EXCEPT !.step = "put"]]
        BY <2>1 DEF Images!Uploaded, Images!Goto
    <2>4. PICK w : /\ lane' = [lane EXCEPT ![l] = w]
                   /\ \/ w = [job EXCEPT !.step = "upload", !.next = job.next + 1]
                      \/ w = [job EXCEPT !.step = "commit"]
                      \/ w = [job EXCEPT !.step = "put"]
        BY <2>3
    <2>5. w.step \in UploadSteps \ {"copy alias"} /\ w.document = job.document
        BY <2>2, <2>4 DEF UploadSteps
    <2> QED  BY <2>1, <2>4, <2>5
<1>2. lane'[l] = w
    BY <1>1 DEF ImagesInv, JobsInv
<1>3. lane[l].step \in UploadSteps \ {"copy alias"}
    BY DEF UploadSteps
<1>4. l = "publish" => OfRun(w.document)
    BY <1>1, <1>3 DEF AdvanceInv
<1>5. l = "control" => ControlInv'
    BY <1>1, <1>2, <1>3 DEF AdvanceInv, ControlInv, Named, Newer, Images!Advances, UploadSteps
<1> QED  BY <1>1, <1>4, <1>5, LaneMoves

(* The live document changes: what is copied advances it, and so does a pair of a    *)
(* later generation than the one that is live under the generation of its own pair.  *)
LEMMA CommitsForward ==
    ASSUME ImagesInv, AdvanceInv, Images!CommitQualified
    PROVE  Images!Forward /\ (release' = release \/ Named(release'))
<1> DEFINE document == lane["publish"].document
<1>1. lane["publish"].step \in UploadSteps
    BY DEF Images!CommitQualified, UploadSteps
<1>2. OfRun(document)
    BY <1>1 DEF AdvanceInv
<1> HIDE DEF document
<1>3. CASE release' = release
    BY <1>3 DEF Images!Forward
<1>4. CASE release' = document /\ document.generation > release.generation
    <2>1. ASSUME release = Images!None PROVE Images!Forward
        BY <2>1 DEF Images!Forward, Images!Advances
    <2>2. ASSUME release # Images!None PROVE Images!Forward
        <3>1. PICK b \in Bundles : b.channel = channel /\ document.version = b.version /\ document.pair = b.generation
            BY <1>2 DEF OfRun, Named
        <3>2. PICK c \in Bundles : c.channel = channel /\ release.version = c.version /\ release.pair = c.generation
            BY <2>2 DEF AdvanceInv, Named
        <3>3. /\ release.generation \in Nat /\ document.generation = b.generation /\ channel = "devel"
              /\ b.generation \in Nat /\ c.generation \in Nat /\ b.version \in Nat /\ c.version \in Nat
            BY <1>2, <3>1, <3>2, Numbers, VersionsAssumption DEF OfRun
        <3>4. CASE c.generation < b.generation
            <4>1. c.version <= b.version
                BY <3>1, <3>2, <3>3, <3>4, VersionsAssumption
            <4>2. \/ document.version > release.version
                  \/ document.version = release.version /\ document.generation > release.generation
                BY <1>4, <3>1, <3>2, <3>3, <4>1
            <4> QED  BY <1>4, <3>3, <4>2 DEF Images!Forward, Images!Advances
        <3>5. CASE b.generation <= c.generation
            <4>1. document.pair <= release.pair /\ release.generation < release.pair
                BY <1>4, <3>1, <3>2, <3>3, <3>5
            <4> QED  BY <1>4, <2>2, <4>1 DEF Images!Forward, Images!Misnumbered
        <3> QED  BY <3>3, <3>4, <3>5
    <2>3. Named(release')
        BY <1>2, <1>4 DEF OfRun
    <2> QED  BY <2>1, <2>2, <2>3
<1> QED  BY <1>3, <1>4 DEF Images!CommitQualified, Images!Replaced, document

LEMMA CopiesForward ==
    ASSUME ImagesInv, AdvanceInv, Images!Copy
    PROVE  Images!Forward /\ Named(release')
<1>1. lane["control"].step = "commit" /\ release' = lane["control"].document /\ beside' = beside
    BY DEF Images!Copy
<1>2. Named(lane["control"].document) /\ (beside \/ Newer(lane["control"].document))
    BY <1>1 DEF AdvanceInv, ControlInv, UploadSteps
<1> QED  BY <1>1, <1>2 DEF Newer, Images!Forward

LEMMA StepAdvance ==
    ASSUME ImagesInv, AdvanceInv, [Images!Next]_(Images!vars)
    PROVE  AdvanceInv' /\ Images!Forward
<1>1. ASSUME release' = release PROVE Images!Forward
    BY <1>1 DEF Images!Forward
<1>2. ASSUME NEW b \in Bundles, NEW direct \in BOOLEAN, Images!Plan(b, direct)
      PROVE  AdvanceInv' /\ Images!Forward
    BY <1>1, <1>2, PlanAdvances DEF Images!Plan
<1>3. ASSUME Images!Build PROVE AdvanceInv' /\ Images!Forward
    BY <1>1, <1>3, BuildAdvances DEF Images!Build
<1>4. ASSUME Images!Prepare PROVE AdvanceInv' /\ Images!Forward
    BY <1>1, <1>4, PrepareAdvances DEF Images!Prepare
<1>5. ASSUME NEW document \in kept, Images!Publish(document)
      PROVE  AdvanceInv' /\ Images!Forward
    <2>1. /\ lane' = [lane EXCEPT !["publish"] = Images!Upload(document, FALSE)]
          /\ UNCHANGED <<channel, release, reserved, kept>> /\ (beside => beside')
        BY <1>5 DEF Images!Publish, Images!Start
    <2>2. lane'["publish"].document = document /\ lane'["control"] = lane["control"]
        BY <2>1 DEF ImagesInv, JobsInv, Images!Lanes, Images!Upload
    <2>3. OfRun(document)
        BY DEF AdvanceInv
    <2>4. ControlInv'
        BY <2>1, <2>2 DEF AdvanceInv, ControlInv, Named, Newer, Images!Advances
    <2> QED  BY <1>1, <2>1, <2>2, <2>3, <2>4 DEF AdvanceInv, OfRun, Named
<1>6. ASSUME NEW document \in published, Images!Aggregate(document)
      PROVE  AdvanceInv' /\ Images!Forward
    <2>1. /\ lane' = [lane EXCEPT !["aggregate"] = Images!Upload(document, FALSE)]
          /\ UNCHANGED <<channel, release, reserved, kept, beside>> /\ "aggregate" \in Images!Lanes
        BY <1>6 DEF Images!Aggregate, Images!Start, Images!Lanes
    <2> QED  BY <1>1, <2>1, LaneMoves
<1>7. ASSUME NEW l \in Images!Lanes, Images!HeadObject(l) PROVE AdvanceInv' /\ Images!Forward
    BY <1>1, <1>7, UploadAdvances, EndAdvances DEF Images!HeadObject
<1>8. ASSUME NEW l \in Images!Lanes, Images!PutObject(l) PROVE AdvanceInv' /\ Images!Forward
    BY <1>1, <1>8, UploadAdvances DEF Images!PutObject
<1>9. ASSUME NEW l \in Images!Lanes, Images!Fail(l) PROVE AdvanceInv' /\ Images!Forward
    BY <1>1, <1>9, EndAdvances DEF Images!Fail
<1>10. ASSUME Images!CommitQualified PROVE AdvanceInv' /\ Images!Forward
    <2>1. /\ Images!End("publish") /\ lane["publish"].step = "commit" /\ "publish" \in Images!Lanes
          /\ UNCHANGED <<channel, reserved, kept, beside>>
        BY <1>10 DEF Images!CommitQualified, Images!Lanes
    <2>2. Images!Forward /\ (release' = release \/ Named(release'))
        BY <1>10, CommitsForward
    <2>3. lane'["publish"] = Images!Idle /\ lane'["control"] = lane["control"]
        BY <2>1 DEF Images!End, ImagesInv, JobsInv, Images!Lanes
    <2>4. ~ beside => lane["control"] = Images!Idle
        BY <2>1 DEF ImagesInv, HeldInv, Images!Idle
    <2>5. Images!Idle.step \notin UploadSteps \cup {"images", "prepare"}
        BY DEF Images!Idle, UploadSteps
    <2>6. ControlInv'
        BY <2>1, <2>3, <2>4, <2>5 DEF AdvanceInv, ControlInv, Named
    <2> QED  BY <2>1, <2>2, <2>3, <2>5, <2>6 DEF AdvanceInv, OfRun, Named
<1>11. ASSUME Images!CommitLegacy PROVE AdvanceInv' /\ Images!Forward
    <2>1. "aggregate" \in Images!Lanes
        BY DEF Images!Lanes
    <2> QED  BY <1>1, <1>11, <2>1, EndAdvances DEF Images!CommitLegacy
<1>12. ASSUME Images!Copy PROVE AdvanceInv' /\ Images!Forward
    <2>1. /\ lane["control"].step = "commit" /\ Images!Goto("control", "copy alias")
          /\ UNCHANGED <<channel, reserved, kept, beside>> /\ "control" \in Images!Lanes
        BY <1>12 DEF Images!Copy, Images!Lanes
    <2>2. Images!Forward /\ Named(release')
        BY <1>12, CopiesForward
    <2>3. /\ lane'["control"].step = "copy alias" /\ lane'["control"].document = lane["control"].document
          /\ lane'["publish"] = lane["publish"]
        <3>1. Uploading("control")
            BY <2>1, JobFields DEF ImagesInv, JobsInv
        <3> QED  BY <2>1, <3>1 DEF Images!Goto, ImagesInv, JobsInv, Images!Lanes, Uploading
    <2>4. ControlInv'
        BY <2>1, <2>3 DEF AdvanceInv, ControlInv, UploadSteps, Named
    <2> QED  BY <2>1, <2>2, <2>3, <2>4 DEF AdvanceInv, OfRun, Named
<1>13. ASSUME Images!CopyAlias PROVE AdvanceInv' /\ Images!Forward
    <2>1. "control" \in Images!Lanes
        BY DEF Images!Lanes
    <2> QED  BY <1>1, <1>13, <2>1, EndAdvances DEF Images!CopyAlias
<1>14. ASSUME UNCHANGED Images!vars PROVE AdvanceInv' /\ Images!Forward
    <2>1. UNCHANGED <<channel, release, reserved, lane, kept, beside>>
        BY <1>14 DEF Images!vars
    <2> QED  BY <1>1, <2>1 DEF AdvanceInv, ControlInv, OfRun, Named, Newer, Images!Advances
<1> QED  BY <1>2, <1>3, <1>4, <1>5, <1>6, <1>7, <1>8, <1>9, <1>10, <1>11, <1>12, <1>13, <1>14 DEF Images!Next

-----------------------------------------------------------------------------
(* The composition.                                                         *)

IdentityInv == machine = "identity" => Identity!IInv
FarmInv == machine = "farm" => BatchesInv
DownloadsInv == machine = "downloads" => ImagesInv /\ AdvanceInv
LayersHold == machine = "layers" => LayersInv
ReuseHolds == machine = "reuse" => ReuseInv
MachinesInv == IdentityInv /\ FarmInv /\ DownloadsInv /\ LayersHold /\ ReuseHolds

LEMMA InitHolds == MCInit => MachinesInv
<1> SUFFICES ASSUME MCInit PROVE MachinesInv
    OBVIOUS
<1>1. ASSUME machine = "identity" PROVE Identity!IInv
    <2>1. Identity!Init
        BY <1>1 DEF MCInit
    <2> QED  BY <2>1, Identity!InitIInv
<1>2. ASSUME machine = "farm" PROVE BatchesInv
    <2>1. Components!Init
        BY <1>2 DEF MCInit
    <2> QED  BY <2>1, InitBatches
<1>3. ASSUME machine = "downloads" PROVE ImagesInv /\ AdvanceInv
    <2>1. Images!Init
        BY <1>3 DEF MCInit
    <2> QED  BY <2>1, InitImages, InitAdvance
<1>4. ASSUME machine = "layers" PROVE LayersInv
    <2>1. Layers!Init
        BY <1>4 DEF MCInit
    <2> QED  BY <2>1, InitLayers
<1>5. ASSUME machine = "reuse" PROVE ReuseInv
    <2>1. Reuse!Init
        BY <1>5 DEF MCInit
    <2> QED  BY <2>1, InitReuse
<1> QED  BY <1>1, <1>2, <1>3, <1>4, <1>5
         DEF MachinesInv, IdentityInv, FarmInv, DownloadsInv, LayersHold, ReuseHolds

(* A step of the composition is one of the machine it runs.                     *)
LEMMA OwnSteps ==
    ASSUME [MCNext]_MCvars
    PROVE  /\ machine' = machine
           /\ machine = "identity" => [Identity!Next]_(Identity!vars)
           /\ machine = "farm" => [Components!Next]_(Components!vars)
           /\ machine = "downloads" => [Images!Next]_(Images!vars)
           /\ machine = "layers" => [Layers!Next]_(Layers!vars)
           /\ machine = "reuse" => [Reuse!Next]_(Reuse!vars)
<1>1. CASE MCNext
    BY <1>1 DEF MCNext
<1>2. CASE UNCHANGED MCvars
    BY <1>2 DEF MCvars, layersVars, reuseVars, Layers!vars, Reuse!vars, identityVars, farmVars, downloadsVars,
                Identity!vars, Components!vars, Images!vars
<1> QED  BY <1>1, <1>2

LEMMA StepHolds == MachinesInv /\ [MCNext]_MCvars => MachinesInv'
<1> SUFFICES ASSUME MachinesInv, [MCNext]_MCvars PROVE MachinesInv'
    OBVIOUS
<1>1. ASSUME machine' = "identity" PROVE Identity!IInv'
    <2>1. Identity!IInv /\ [Identity!Next]_(Identity!vars)
        BY <1>1, OwnSteps DEF MachinesInv, IdentityInv
    <2> QED  BY <2>1, Identity!StepIInv
<1>2. ASSUME machine' = "farm" PROVE BatchesInv'
    <2>1. BatchesInv /\ [Components!Next]_(Components!vars)
        BY <1>2, OwnSteps DEF MachinesInv, FarmInv
    <2> QED  BY <2>1, StepBatches
<1>3. ASSUME machine' = "downloads" PROVE ImagesInv' /\ AdvanceInv'
    <2>1. ImagesInv /\ AdvanceInv /\ [Images!Next]_(Images!vars)
        BY <1>3, OwnSteps DEF MachinesInv, DownloadsInv
    <2> QED  BY <2>1, StepImages, StepAdvance
<1>4. ASSUME machine' = "layers" PROVE LayersInv'
    <2>1. LayersInv /\ [Layers!Next]_(Layers!vars)
        BY <1>4, OwnSteps DEF MachinesInv, LayersHold
    <2> QED  BY <2>1, StepLayers
<1>5. ASSUME machine' = "reuse" PROVE ReuseInv'
    <2>1. ReuseInv /\ [Reuse!Next]_(Reuse!vars)
        BY <1>5, OwnSteps DEF MachinesInv, ReuseHolds
    <2> QED  BY <2>1, StepReuse
<1> QED  BY <1>1, <1>2, <1>3, <1>4, <1>5
         DEF MachinesInv, IdentityInv, FarmInv, DownloadsInv, LayersHold, ReuseHolds

LEMMA Holds == MCSpec => []MachinesInv
<1> QED  BY InitHolds, StepHolds, PTL DEF MCSpec

-----------------------------------------------------------------------------
(* A component that a plan reuses is what the plan would build.                  *)
THEOREM ReusedAsPlanned == MCSpec => []ReuseIsExact
<1>1. MachinesInv => ReuseIsExact
    BY Identity!Exact DEF MachinesInv, IdentityInv, ReuseIsExact
<1> QED  BY <1>1, Holds, PTL

(* An image joins a System and Packages of one base.                            *)
THEOREM OneBase == MCSpec => []ImagesAreOneBase
<1>1. Identity!IInv => Identity!ImagesAreOneBase
    BY DEF Identity!IInv
<1>2. MachinesInv => ImagesAreOneBase
    BY <1>1 DEF MachinesInv, IdentityInv, ImagesAreOneBase
<1> QED  BY <1>2, Holds, PTL

(* What FreeSense builds is closed under dependents and no larger than that demands, *)
(* in whatever order the work lists of the collection and the closure go.         *)
THEOREM LeastClosure == MCSpec => []LayersAreExact
<1>1. MachinesInv => LayersAreExact
    BY LayersAreIt DEF MachinesInv, LayersHold, LayersAreExact
<1> QED  BY <1>1, Holds, PTL

(* The older seed has what its packages link, and the mirror has what it has, save    *)
(* for packages that reach a port with overridden OPTIONS.                        *)
THEOREM SeedIsComplete == MCSpec => []SeedIsSound
<1>1. MachinesInv => SeedIsSound
    BY SeedIsIt DEF MachinesInv, LayersHold, SeedIsSound
<1> QED  BY <1>1, Holds, PTL

(* A package that a component reaches is missing from what a worker makes of the    *)
(* sealed plan only where another flavor of its path was built in its place.       *)
THEOREM LossesAreFlavors == MCSpec => []NothingIsLost
<1>1. MachinesInv => NothingIsLost
    BY NothingIs DEF MachinesInv, LayersHold, NothingIsLost
<1> QED  BY <1>1, Holds, PTL

(* A seeded build publishes what a build without a seed would have made, whatever was *)
(* changed and changed back, and however many builds a package came through.      *)
THEOREM BuildsAreFresh == MCSpec => RepositoryIsFresh
<1>1. MachinesInv /\ [MCNext]_MCvars => (machine = "reuse" => Reuse!FreshBuild)
    BY OwnSteps, FreshIs DEF MachinesInv, ReuseHolds
<1> QED  BY <1>1, Holds, PTL DEF MCSpec, RepositoryIsFresh

(* A package that is no module of a kernel, whose inputs are as they were down to the  *)
(* last dependency, and whose version is its port's, is kept: with it, what it depends *)
(* on is.                                                                      *)
THEOREM RebuildsHaveReasons == MCSpec => []NothingRebuiltForARelease
<1>1. MachinesInv => NothingRebuiltForARelease
    BY NothingRebuilt DEF MachinesInv, ReuseHolds, NothingRebuiltForARelease
<1> QED  BY <1>1, Holds, PTL

(* A later checkpoint of a job has every package of an earlier one as it was,       *)
(* whatever is killed and built again.                                         *)
THEOREM CheckpointsKeepPackages == MCSpec => []CheckpointsAreCumulative
<1>1. MachinesInv => CheckpointsAreCumulative
    BY CheckpointsGrow DEF MachinesInv, FarmInv, BatchesInv, CheckpointsAreCumulative
<1> QED  BY <1>1, Holds, PTL

(* Whatever the roots, what they share and what they cost: the shards share them out, *)
(* related ones stay together, a heavy one is alone, and no shard is ahead of another *)
(* by more than the least of the groups on it.                                   *)
THEOREM ShardsBalance == MCSpec => []ShardsAreBalanced
<1>1. MachinesInv => ShardsAreBalanced
    BY BatchesComplete DEF MachinesInv, FarmInv, ShardsAreBalanced
<1> QED  BY <1>1, Holds, PTL

(* What the finalizer merges has every root of the component once, whichever attempts  *)
(* built its checkpoints and wherever they were killed.                          *)
THEOREM CollectionCompletes == MCSpec => []CollectionIsComplete
<1>1. MachinesInv => CollectionIsComplete
    BY BatchesComplete DEF MachinesInv, FarmInv, CollectionIsComplete
<1> QED  BY <1>1, Holds, PTL

(* What a live document names is stored under its name, whichever bundles share     *)
(* names and whatever was left half uploaded, unless a recovery ran beside a        *)
(* Development run's publish job.                                              *)
THEOREM LiveImagesAreStored == MCSpec => []DownloadsHoldTheRelease
<1>1. MachinesInv => DownloadsHoldTheRelease
    BY ImagesAreThere DEF MachinesInv, DownloadsInv, DownloadsHoldTheRelease
<1> QED  BY <1>1, Holds, PTL

(* A published release is not taken back to an earlier one nor given other images,   *)
(* whichever jobs run again and whatever fails, unless a recovery ran beside a       *)
(* publish job or had numbered the live release below its pair.                   *)
THEOREM ReleasesAdvance == MCSpec => ReleasesOnlyAdvance
<1>1. MachinesInv /\ [MCNext]_MCvars => (machine = "downloads" => Images!Forward)
    BY OwnSteps, StepAdvance DEF MachinesInv, DownloadsInv
<1> QED  BY <1>1, Holds, PTL DEF MCSpec, ReleasesOnlyAdvance

=============================================================================
