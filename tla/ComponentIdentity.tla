-------------------------- MODULE ComponentIdentity --------------------------
(***************************************************************************)
(* What a System, an Optional Packages repository and an image are identified *)
(* by (scripts/plan.py), and what the identities are relied upon for: a         *)
(* component whose fingerprint is stored is never built again, for whatever     *)
(* run plans it; and an image joins a System and Packages that were built by    *)
(* different runs, selected from a channel (channel.py) or named by their       *)
(* fingerprints (staged_system_closure.py).                                  *)
(*                                                                         *)
(* A fingerprint is the record that is hashed.  Each input has two contents,     *)
(* and changes back and forth.                                               *)
(***************************************************************************)
EXTENDS Integers, FiniteSets

CONSTANTS
    Architectures,
    MaxEdits,      \* bound: edits of inputs
    MaxStored      \* bound: stored components

VARIABLES
    inputs,     \* [Inputs -> their content now]
    edits,
    plan,       \* the running coordinator plan, or NoPlan
    store,      \* completion markers; their content is what the build read
    channels,   \* [line, architecture -> the pair it names, or NoPair]
    image       \* the last image that was built: its System and Packages marker

vars == <<inputs, edits, plan, store, channels, image>>

\* What a commit can change.  "unread" stands for SOURCE_UNREAD, the top-level
\* entries no build reads, and "version" for the patch number of the next Stable
\* or Testing release.
Inputs == {"source", "package config", "system ports", "packages", "unread",
           "freebsd", "stable mirror", "mirror", "recipe", "version"}

Lines == {"devel", "testing", "stable"}
NoPlan == [line |-> "none"]
NoPair == [system |-> {}]
NoImage == {}

Train(line) == IF line = "devel" THEN "1.2" ELSE "1.1"

\* mirror_for: a train whose sources differ has a mirror of its own.
MirrorOf(in, train) == IF train = "1.2" THEN in["mirror"] ELSE in["stable mirror"]

\* A version belongs to the one train its channel is configured with.
release_policy(channel, train) == train = Train(channel)

\* What plan.py plans for an image: the mirror of the selected System's train.
mirror_train_for(kind, policyTrain, closureTrain) ==
    IF kind = "image" THEN closureTrain ELSE policyTrain

-----------------------------------------------------------------------------
(* The identities.                                                           *)

\* Mutant: the pin identity does not name the mirror the build layers on.
PinWithoutMirror(in, train, arch) == [freebsd |-> in["freebsd"], abi |-> arch]

PinId(in, train, arch) ==
    [freebsd |-> in["freebsd"], mirror |-> MirrorOf(in, train), abi |-> arch]

\* A sealed release and a Testing build are told apart by their version; the
\* rolling Development identities do not name theirs.
ReleaseIdentity(in, line) ==
    CASE line = "stable"  -> [release |-> in["version"]]
      [] line = "testing" -> [line |-> "testing", release |-> in["version"]]
      [] OTHER            -> [line |-> "devel"]

\* source_tree_digest: what a build reads of the two repositories.
Trees(in) == [source |-> in["source"], config |-> in["package config"],
              ports |-> in["system ports"]]

PlatformId(in, line, arch) ==
    [freebsd |-> in["freebsd"], mirror |-> MirrorOf(in, Train(line)), trees |-> Trees(in),
     train |-> Train(line), recipe |-> in["recipe"], target |-> arch,
     identity |-> ReleaseIdentity(in, line)]

SystemId(in, line, arch) ==
    [kind |-> "system", platform |-> PlatformId(in, line, arch), trees |-> Trees(in),
     train |-> Train(line), recipe |-> in["recipe"], identity |-> ReleaseIdentity(in, line)]

\* Independent of the System that the packages are built against, and of all
\* System sources except the one file of package configuration.
PackagesId(in, line, arch, pin) ==
    [kind |-> "packages", pin |-> pin, tree |-> in["packages"], config |-> in["package config"],
     train |-> Train(line), recipe |-> in["recipe"], arch |-> arch,
     line |-> IF line = "testing" THEN "testing" ELSE "any"]

-----------------------------------------------------------------------------
(* What a worker reads (worker-common.sh, stages/system.sh, packages.sh): the    *)
(* trees at the planned commits, the mirror plan, the recipe it runs, and the     *)
(* product version it writes into the sources.                                *)

SystemReads(in, line, arch) ==
    [trees |-> Trees(in), freebsd |-> in["freebsd"], mirror |-> MirrorOf(in, Train(line)),
     recipe |-> in["recipe"], arch |-> arch, train |-> Train(line),
     version |-> IF line = "devel" THEN "rolling" ELSE <<line, in["version"]>>]

PackagesReads(in, line, arch) ==
    [tree |-> in["packages"], config |-> in["package config"], freebsd |-> in["freebsd"],
     mirror |-> MirrorOf(in, Train(line)), recipe |-> in["recipe"], arch |-> arch,
     train |-> Train(line), development |-> line # "stable"]

-----------------------------------------------------------------------------
(* One coordinator plan: the sources are resolved once, and every build of the    *)
(* plan works from them however the branches move on.                          *)

Planned(p) == PinId(p.inputs, Train(p.line), p.arch)
PlannedSystem(p) == SystemId(p.inputs, p.line, p.arch)
PlannedPackages(p) == PackagesId(p.inputs, p.line, p.arch, Planned(p))

Stored(id) == \E m \in store : m.id = id
MarkerOf(id) == CHOOSE m \in store : m.id = id

Marker(p, stage, id, reads) ==
    [stage |-> stage, id |-> id, arch |-> p.arch, train |-> Train(p.line), pin |-> Planned(p),
     jail |-> p.inputs["freebsd"], system |-> PlannedSystem(p), reads |-> reads]

Edit ==
    /\ edits < MaxEdits
    /\ edits' = edits + 1
    /\ \E f \in Inputs : inputs' = [inputs EXCEPT ![f] = 1 - @]
    /\ UNCHANGED <<plan, store, channels, image>>

Plan(line, arch) ==
    /\ plan' = [line |-> line, arch |-> arch, inputs |-> inputs]
    /\ UNCHANGED <<inputs, edits, store, channels, image>>

\* Reuse completed immutable result: nothing is built when the marker is there.
Store(m) ==
    /\ ~Stored(m.id) /\ Cardinality(store) < MaxStored
    /\ store' = store \cup {m}
    /\ UNCHANGED <<inputs, edits, plan, channels, image>>

BuildSystem ==
    /\ plan # NoPlan
    /\ Store(Marker(plan, "system", PlannedSystem(plan),
                    SystemReads(plan.inputs, plan.line, plan.arch)))

\* Verify required System result.
BuildPackages ==
    /\ plan # NoPlan
    /\ Stored(PlannedSystem(plan))
    /\ Store(Marker(plan, "packages", PlannedPackages(plan),
                    PackagesReads(plan.inputs, plan.line, plan.arch)))

\* The pair goes into its channel.  The Packages may have been built long ago,
\* against another System.
Publish ==
    /\ plan # NoPlan
    /\ Stored(PlannedSystem(plan)) /\ Stored(PlannedPackages(plan))
    /\ channels' = [channels EXCEPT ![<<plan.line, plan.arch>>] =
           [system |-> PlannedSystem(plan), packages |-> PlannedPackages(plan),
            train |-> Train(plan.line), arch |-> plan.arch, pin |-> Planned(plan),
            builtAgainst |-> MarkerOf(PlannedPackages(plan)).system]]
    /\ UNCHANGED <<inputs, edits, plan, store, image>>

-----------------------------------------------------------------------------
(* Selecting the System and Packages of an image.                             *)

\* channel.py: the pair in one signed document ...
Entry(line, arch) == {c \in {channels[line, arch]} \ {NoPair} : c.arch = arch}

\* ... and the completion markers it names.
SystemOf(c, s) ==
    /\ s.stage = "system" /\ s.id = c.system /\ s.train = c.train
    /\ s.system = s.id /\ s.pin = c.pin

PackagesOf(c, s, p) ==
    /\ p.stage = "packages" /\ p.id = c.packages /\ p.train = c.train
    /\ p.system = c.builtAgainst /\ p.pin = s.pin

Selected(line, arch, s, p) ==
    \E c \in Entry(line, arch) : SystemOf(c, s) /\ PackagesOf(c, s, p)

\* Mutant: the Packages marker is not compared with the System's.
StagedApart(arch, s, p) ==
    /\ s.stage = "system" /\ s.arch = arch /\ s.system = s.id
    /\ s.jail = inputs["freebsd"]
    /\ p.stage = "packages" /\ p.arch = arch

\* staged_system_closure.py: two fingerprints that somebody names.  The Packages
\* are read from the prefix of the policy's own train.
Staged(arch, s, p) ==
    /\ s.stage = "system" /\ s.arch = arch /\ s.system = s.id
    /\ s.jail = inputs["freebsd"]
    /\ p.stage = "packages" /\ p.arch = arch
    /\ p.pin = s.pin /\ p.train = s.train

\* plan.py for an image: the selected System is still on the active pin, and the
\* version that is released belongs to the train of the channel it comes from.
ImagePlan(channel, arch, s) ==
    /\ s.pin = PinId(inputs, mirror_train_for("image", Train("devel"), s.train), arch)
    /\ release_policy(channel, s.train)

BuildImage(arch) ==
    /\ \E channel \in {"devel", "stable"}, s \in store, p \in store :
          /\ \/ Selected(channel, arch, s, p)
             \/ channel = "devel" /\ p.train = Train("devel") /\ Staged(arch, s, p)
          /\ ImagePlan(channel, arch, s)
          /\ image' = {s, p}
    /\ UNCHANGED <<inputs, edits, plan, store, channels>>

-----------------------------------------------------------------------------
Init ==
    /\ inputs = [f \in Inputs |-> 0] /\ edits = 0
    /\ plan = NoPlan /\ store = {}
    /\ channels = [c \in Lines \X Architectures |-> NoPair]
    /\ image = NoImage

Next ==
    \/ Edit \/ BuildSystem \/ BuildPackages \/ Publish
    \/ \E line \in Lines, arch \in Architectures : Plan(line, arch)
    \/ \E arch \in Architectures : BuildImage(arch)

Spec == Init /\ [][Next]_vars

-----------------------------------------------------------------------------
(* A stored component that a plan reuses was made from what the plan would build  *)
(* it from: whoever built it, for whichever line, and whatever changed and changed *)
(* back in between.  "an artifact built over one mirror is reused for a plan        *)
(* naming another" was such a fault (plan.py:471-473).                             *)
ReuseIsExact ==
    plan # NoPlan =>
        /\ Stored(PlannedSystem(plan)) =>
              MarkerOf(PlannedSystem(plan)).reads = SystemReads(plan.inputs, plan.line, plan.arch)
        /\ Stored(PlannedPackages(plan)) =>
              MarkerOf(PlannedPackages(plan)).reads =
                  PackagesReads(plan.inputs, plan.line, plan.arch)

(* An image never joins a System and Packages of two FreeBSD bases, mirrors,         *)
(* architectures or trains, however they were selected.                         *)
ImagesAreOneBase ==
    \A s, p \in image :
        /\ s.reads.freebsd = p.reads.freebsd /\ s.reads.mirror = p.reads.mirror
        /\ s.reads.arch = p.reads.arch /\ s.reads.train = p.reads.train
=============================================================================
