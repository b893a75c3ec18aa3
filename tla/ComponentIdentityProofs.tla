----------------------- MODULE ComponentIdentityProofs -----------------------
(***************************************************************************)
(* What ComponentIdentity states, for any set of architectures, any number of  *)
(* edits and any size of the store.                                          *)
(*                                                                         *)
(* A fingerprint is trusted because it leaves out nothing that the build reads. *)
(* As an invariant: every completion marker was written by a plan, of some line *)
(* and architecture at some content of the inputs, and says what that plan read. *)
(* Two plans with one fingerprint read the same (SystemIdTells, PackagesIdTells), *)
(* so the one that stored the component may be another than the one that reuses  *)
(* it.                                                                     *)
(***************************************************************************)
EXTENDS ComponentIdentity, TLAPS

Contents == [Inputs -> {0, 1}]
Plans == [line : Lines, arch : Architectures, inputs : Contents]

SystemMarker(p) ==
    Marker(p, "system", PlannedSystem(p), SystemReads(p.inputs, p.line, p.arch))

PackagesMarker(p) ==
    Marker(p, "packages", PlannedPackages(p), PackagesReads(p.inputs, p.line, p.arch))

-----------------------------------------------------------------------------
PlanInv == inputs \in Contents /\ (plan = NoPlan \/ plan \in Plans)

\* Every marker was written by a plan.
MarkerInv == \A m \in store : \E p \in Plans : m = SystemMarker(p) \/ m = PackagesMarker(p)

\* A fingerprint is stored once.
OnceInv == \A m, n \in store : m.id = n.id => m = n

IInv == PlanInv /\ MarkerInv /\ OnceInv /\ ImagesAreOneBase

-----------------------------------------------------------------------------
(* What a fingerprint tells.                                                 *)

(* Two releases with one identity on one train are the same version of one line, *)
(* or both rolling builds (ReleaseIdentity).                                  *)
LEMMA IdentityTells ==
    ASSUME NEW a, NEW b, NEW k \in Lines, NEW l \in Lines,
           ReleaseIdentity(a, k) = ReleaseIdentity(b, l), Train(k) = Train(l)
    PROVE  k = l /\ (k # "devel" => a["version"] = b["version"])
<1>1. CASE k = "devel"
    BY <1>1 DEF Train, Lines
<1>2. CASE k = "stable" /\ l = "stable"
    BY <1>2 DEF ReleaseIdentity
<1>3. CASE k = "testing" /\ l = "testing"
    BY <1>3 DEF ReleaseIdentity
<1>4. CASE k = "stable" /\ l = "testing"
    <2>1. ReleaseIdentity(a, k) = [release |-> a["version"]] /\
          ReleaseIdentity(b, l) = [line |-> "testing", release |-> b["version"]]
        BY <1>4 DEF ReleaseIdentity
    <2>2. DOMAIN [release |-> a["version"]] # DOMAIN [line |-> "testing", release |-> b["version"]]
        OBVIOUS
    <2> QED  BY <2>1, <2>2
<1>5. CASE k = "testing" /\ l = "stable"
    <2>1. ReleaseIdentity(b, l) = [release |-> b["version"]] /\
          ReleaseIdentity(a, k) = [line |-> "testing", release |-> a["version"]]
        BY <1>5 DEF ReleaseIdentity
    <2>2. DOMAIN [release |-> b["version"]] # DOMAIN [line |-> "testing", release |-> a["version"]]
        OBVIOUS
    <2> QED  BY <2>1, <2>2
<1>6. CASE l = "devel" /\ k # "devel"
    BY <1>6 DEF Train, Lines
<1> QED  BY <1>1, <1>2, <1>3, <1>4, <1>5, <1>6 DEF Lines

(* Two plans with one System fingerprint read the same.                       *)
LEMMA SystemIdTells ==
    ASSUME NEW p \in Plans, NEW q \in Plans, PlannedSystem(p) = PlannedSystem(q)
    PROVE  SystemReads(p.inputs, p.line, p.arch) = SystemReads(q.inputs, q.line, q.arch)
<1> DEFINE A == SystemId(p.inputs, p.line, p.arch)
           B == SystemId(q.inputs, q.line, q.arch)
<1>1. A = B
    BY DEF PlannedSystem
<1>2. /\ A.trees = Trees(p.inputs) /\ A.train = Train(p.line) /\ A.recipe = p.inputs["recipe"]
      /\ A.identity = ReleaseIdentity(p.inputs, p.line)
      /\ A.platform = PlatformId(p.inputs, p.line, p.arch)
    BY DEF SystemId
<1>3. /\ B.trees = Trees(q.inputs) /\ B.train = Train(q.line) /\ B.recipe = q.inputs["recipe"]
      /\ B.identity = ReleaseIdentity(q.inputs, q.line)
      /\ B.platform = PlatformId(q.inputs, q.line, q.arch)
    BY DEF SystemId
<1> HIDE DEF A, B
<1>4. /\ Trees(p.inputs) = Trees(q.inputs) /\ Train(p.line) = Train(q.line)
      /\ p.inputs["recipe"] = q.inputs["recipe"]
      /\ ReleaseIdentity(p.inputs, p.line) = ReleaseIdentity(q.inputs, q.line)
      /\ PlatformId(p.inputs, p.line, p.arch) = PlatformId(q.inputs, q.line, q.arch)
    BY <1>1, <1>2, <1>3
<1>5. /\ p.inputs["freebsd"] = q.inputs["freebsd"] /\ p.arch = q.arch
      /\ MirrorOf(p.inputs, Train(p.line)) = MirrorOf(q.inputs, Train(q.line))
    BY <1>4 DEF PlatformId
<1>6. p.line \in Lines /\ q.line \in Lines
    BY DEF Plans
<1>7. p.line = q.line /\ (p.line # "devel" => p.inputs["version"] = q.inputs["version"])
    BY <1>4, <1>6, IdentityTells
<1> QED  BY <1>4, <1>5, <1>7 DEF SystemReads

(* Two plans with one Packages fingerprint read the same.                     *)
LEMMA PackagesIdTells ==
    ASSUME NEW p \in Plans, NEW q \in Plans, PlannedPackages(p) = PlannedPackages(q)
    PROVE  PackagesReads(p.inputs, p.line, p.arch) = PackagesReads(q.inputs, q.line, q.arch)
<1> DEFINE Any(l) == IF l = "testing" THEN "testing" ELSE "any"
<1>1. /\ Planned(p) = Planned(q) /\ p.inputs["packages"] = q.inputs["packages"]
      /\ p.inputs["package config"] = q.inputs["package config"]
      /\ Train(p.line) = Train(q.line) /\ p.inputs["recipe"] = q.inputs["recipe"]
      /\ p.arch = q.arch /\ Any(p.line) = Any(q.line)
    BY DEF PlannedPackages, PackagesId
<1>2. /\ p.inputs["freebsd"] = q.inputs["freebsd"]
      /\ MirrorOf(p.inputs, Train(p.line)) = MirrorOf(q.inputs, Train(q.line))
    BY <1>1 DEF Planned, PinId
<1>3. (p.line # "stable") = (q.line # "stable")
    BY <1>1 DEF Train, Plans, Lines
<1> QED  BY <1>1, <1>2, <1>3 DEF PackagesReads

(* A System and a repository of Packages never have one fingerprint.           *)
LEMMA KindTells ==
    ASSUME NEW p, NEW q
    PROVE  PlannedSystem(p) # PlannedPackages(q)
<1>1. PlannedSystem(p).kind = "system" /\ PlannedPackages(q).kind = "packages"
    BY DEF PlannedSystem, SystemId, PlannedPackages, PackagesId
<1> QED  BY <1>1

(* What a marker says of the base: its pin and train are those of the build.    *)
LEMMA MarkerTells ==
    ASSUME NEW p \in Plans, NEW m, m = SystemMarker(p) \/ m = PackagesMarker(p)
    PROVE  /\ m.reads.freebsd = m.pin.freebsd /\ m.reads.mirror = m.pin.mirror
           /\ m.reads.arch = m.pin.abi /\ m.reads.train = m.train
<1>1. /\ m.pin = Planned(p) /\ m.train = Train(p.line)
      /\ \/ m.reads = SystemReads(p.inputs, p.line, p.arch)
         \/ m.reads = PackagesReads(p.inputs, p.line, p.arch)
    BY DEF SystemMarker, PackagesMarker, Marker
<1>2. /\ Planned(p).freebsd = p.inputs["freebsd"] /\ Planned(p).abi = p.arch
      /\ Planned(p).mirror = MirrorOf(p.inputs, Train(p.line))
    BY DEF Planned, PinId
<1>3. CASE m.reads = SystemReads(p.inputs, p.line, p.arch)
    BY <1>1, <1>2, <1>3 DEF SystemReads
<1>4. CASE m.reads = PackagesReads(p.inputs, p.line, p.arch)
    <2>1. \A in, l, a : /\ PackagesReads(in, l, a).freebsd = in["freebsd"]
                        /\ PackagesReads(in, l, a).mirror = MirrorOf(in, Train(l))
                        /\ PackagesReads(in, l, a).arch = a
                        /\ PackagesReads(in, l, a).train = Train(l)
        BY Zenon DEF PackagesReads
    <2> QED  BY <1>1, <1>2, <1>4, <2>1
<1> QED  BY <1>1, <1>3, <1>4

-----------------------------------------------------------------------------
LEMMA InitIInv == Init => IInv
<1> SUFFICES ASSUME Init PROVE IInv
    OBVIOUS
<1>1. inputs \in Contents
    BY DEF Init, Contents
<1> QED  BY <1>1 DEF Init, IInv, PlanInv, MarkerInv, OnceInv, ImagesAreOneBase, NoImage

(* A component that is stored was not stored before (Store).                  *)
LEMMA StoreStep ==
    ASSUME IInv, NEW m, Store(m), NEW p \in Plans, m = SystemMarker(p) \/ m = PackagesMarker(p)
    PROVE  IInv'
<1>1. MarkerInv'
    BY DEF IInv, MarkerInv, Store
<1>2. OnceInv'
    BY DEF IInv, OnceInv, Store, Stored
<1>3. PlanInv' /\ ImagesAreOneBase'
    BY DEF IInv, PlanInv, ImagesAreOneBase, Store
<1> QED  BY <1>1, <1>2, <1>3 DEF IInv

(* However an image's two components were selected, their pins and trains agree. *)
LEMMA ImageStep ==
    ASSUME IInv, NEW arch \in Architectures, BuildImage(arch)
    PROVE  ImagesAreOneBase'
<1>1. PICK s \in store, p \in store :
          /\ image' = {s, p}
          /\ \/ \E channel \in {"devel", "stable"} : Selected(channel, arch, s, p)
             \/ Staged(arch, s, p)
    BY DEF BuildImage
<1>2. p.pin = s.pin /\ p.train = s.train
    BY <1>1 DEF Selected, SystemOf, PackagesOf, Staged
<1>3. \A m \in {s, p} : /\ m.reads.freebsd = m.pin.freebsd /\ m.reads.mirror = m.pin.mirror
                        /\ m.reads.arch = m.pin.abi /\ m.reads.train = m.train
    BY MarkerTells DEF IInv, MarkerInv
<1> QED  BY <1>1, <1>2, <1>3 DEF ImagesAreOneBase

LEMMA StepIInv == IInv /\ [Next]_vars => IInv'
<1> SUFFICES ASSUME IInv, [Next]_vars PROVE IInv'
    OBVIOUS
<1>1. CASE Edit
    <2>1. inputs' \in Contents
        BY <1>1 DEF Edit, IInv, PlanInv, Contents
    <2> QED  BY <1>1, <2>1 DEF Edit, IInv, PlanInv, MarkerInv, OnceInv, ImagesAreOneBase
<1>2. ASSUME NEW line \in Lines, NEW arch \in Architectures, Plan(line, arch)
      PROVE  IInv'
    <2>1. plan' \in Plans
        BY <1>2 DEF Plan, IInv, PlanInv, Plans
    <2> QED  BY <1>2, <2>1 DEF Plan, IInv, PlanInv, MarkerInv, OnceInv, ImagesAreOneBase
<1>3. CASE BuildSystem
    <2>1. plan \in Plans /\ Store(SystemMarker(plan))
        BY <1>3 DEF BuildSystem, SystemMarker, IInv, PlanInv
    <2> QED  BY <2>1, StoreStep
<1>4. CASE BuildPackages
    <2>1. plan \in Plans /\ Store(PackagesMarker(plan))
        BY <1>4 DEF BuildPackages, PackagesMarker, IInv, PlanInv
    <2> QED  BY <2>1, StoreStep
<1>5. CASE Publish
    BY <1>5 DEF Publish, IInv, PlanInv, MarkerInv, OnceInv, ImagesAreOneBase
<1>6. ASSUME NEW arch \in Architectures, BuildImage(arch)
      PROVE  IInv'
    <2>1. ImagesAreOneBase'
        BY <1>6, ImageStep
    <2> QED  BY <1>6, <2>1 DEF BuildImage, IInv, PlanInv, MarkerInv, OnceInv
<1>7. CASE UNCHANGED vars
    BY <1>7 DEF vars, IInv, PlanInv, MarkerInv, OnceInv, ImagesAreOneBase
<1> QED  BY <1>1, <1>2, <1>3, <1>4, <1>5, <1>6, <1>7 DEF Next

LEMMA Exact == IInv => ReuseIsExact
<1> SUFFICES ASSUME IInv, plan # NoPlan
             PROVE  /\ Stored(PlannedSystem(plan)) =>
                          MarkerOf(PlannedSystem(plan)).reads =
                              SystemReads(plan.inputs, plan.line, plan.arch)
                    /\ Stored(PlannedPackages(plan)) =>
                          MarkerOf(PlannedPackages(plan)).reads =
                              PackagesReads(plan.inputs, plan.line, plan.arch)
    BY DEF ReuseIsExact
<1>1. plan \in Plans
    BY DEF IInv, PlanInv
<1>2. ASSUME NEW p \in Plans
      PROVE  /\ SystemMarker(p).id = PlannedSystem(p)
             /\ SystemMarker(p).reads = SystemReads(p.inputs, p.line, p.arch)
             /\ PackagesMarker(p).id = PlannedPackages(p)
             /\ PackagesMarker(p).reads = PackagesReads(p.inputs, p.line, p.arch)
    BY DEF SystemMarker, PackagesMarker, Marker
<1>3. ASSUME NEW id, Stored(id)
      PROVE  /\ MarkerOf(id).id = id
             /\ \E p \in Plans : MarkerOf(id) = SystemMarker(p) \/ MarkerOf(id) = PackagesMarker(p)
    BY <1>3 DEF Stored, MarkerOf, IInv, MarkerInv
<1>4. ASSUME Stored(PlannedSystem(plan))
      PROVE  MarkerOf(PlannedSystem(plan)).reads = SystemReads(plan.inputs, plan.line, plan.arch)
    <2>1. PICK p \in Plans : \/ MarkerOf(PlannedSystem(plan)) = SystemMarker(p)
                             \/ MarkerOf(PlannedSystem(plan)) = PackagesMarker(p)
        BY <1>3, <1>4
    <2>2. MarkerOf(PlannedSystem(plan)).id = PlannedSystem(plan)
        BY <1>3, <1>4
    <2>3. MarkerOf(PlannedSystem(plan)) = SystemMarker(p) /\ PlannedSystem(p) = PlannedSystem(plan)
        BY <1>2, <2>1, <2>2, KindTells
    <2> QED  BY <1>1, <1>2, <2>3, SystemIdTells
<1>5. ASSUME Stored(PlannedPackages(plan))
      PROVE  MarkerOf(PlannedPackages(plan)).reads =
                 PackagesReads(plan.inputs, plan.line, plan.arch)
    <2>1. PICK p \in Plans : \/ MarkerOf(PlannedPackages(plan)) = SystemMarker(p)
                             \/ MarkerOf(PlannedPackages(plan)) = PackagesMarker(p)
        BY <1>3, <1>5
    <2>2. MarkerOf(PlannedPackages(plan)).id = PlannedPackages(plan)
        BY <1>3, <1>5
    <2>3. /\ MarkerOf(PlannedPackages(plan)) = PackagesMarker(p)
          /\ PlannedPackages(p) = PlannedPackages(plan)
        BY <1>2, <2>1, <2>2, KindTells
    <2> QED  BY <1>1, <1>2, <2>3, PackagesIdTells
<1> QED  BY <1>4, <1>5

-----------------------------------------------------------------------------
(* Every completion marker says what a plan with its fingerprint reads, and no    *)
(* fingerprint is stored twice: what plan.py and the workers rely on when they     *)
(* skip a build.                                                             *)
THEOREM Invariance == Spec => []IInv
<1> QED  BY InitIInv, StepIInv, PTL DEF Spec

(* A stored component that a plan reuses is what the plan would build.          *)
THEOREM ReusedAsPlanned == Spec => []ReuseIsExact
<1> QED  BY Invariance, Exact, PTL

(* An image joins a System and Packages of one FreeBSD base, mirror, architecture *)
(* and train, selected from a channel or by fingerprint.                       *)
THEOREM OneBase == Spec => []ImagesAreOneBase
<1>1. IInv => ImagesAreOneBase
    BY DEF IInv
<1> QED  BY <1>1, Invariance, PTL
=============================================================================
