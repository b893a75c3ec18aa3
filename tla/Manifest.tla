------------------------------ MODULE Manifest ------------------------------
(***************************************************************************)
(* The signed repository-channel manifest of internal/control/control.go   *)
(* and what each publication does to it: sealing Stable, publishing        *)
(* Testing, signing a Development pair next to both, and replacing the     *)
(* live manifest by the signed one.                                        *)
(*                                                                         *)
(* A System or Packages component is reserved one generation per           *)
(* fingerprint, so its generation stands for its identity; URLs, ABI       *)
(* fields and timestamps follow from it.  Release versions are ordered, so *)
(* they are natural numbers.  Generation and version 0 mean "not there".   *)
(***************************************************************************)
EXTENDS Naturals

Pair == [system : Nat, packages : Nat]

NoPair == [system |-> 0, packages |-> 0]

\* The newest generation among the components of a pair.
pairGeneration(pair) == IF pair.packages > pair.system THEN pair.packages ELSE pair.system

ChannelNames == {"devel", "stable", "testing"}

\* schema "v2" is a manifest from before the current payload schema; stale is
\* the wrong description the staged closure once gave the devel channel.
ManifestType ==
    [schema : {"v2", "v3"}, devel : Pair, stale : BOOLEAN,
     stableVersion : Nat, stable : Pair,
     testingVersion : Nat, testing : Pair,
     default : SUBSET ChannelNames]

\* A manifest that does not exist has no channels, and no manifest that
\* exists has none.
EmptyManifest ==
    [schema |-> "v3", devel |-> NoPair, stale |-> FALSE,
     stableVersion |-> 0, stable |-> NoPair,
     testingVersion |-> 0, testing |-> NoPair,
     default |-> {}]

HasDevel(m)   == m.devel # NoPair
HasStable(m)  == m.stableVersion # 0
HasTesting(m) == m.testingVersion # 0

\* releasePair: a channel of an older schema cannot be mixed into this one.
Migrated(m) == IF m.schema = "v2" THEN EmptyManifest ELSE m

(***************************************************************************)
(* SealStable                                                              *)
(***************************************************************************)
SealIsRerun(m, version, pair) ==
    Migrated(m).stableVersion = version /\ Migrated(m).stable = pair

\* Mutant: a published version can be sealed again.
MaySealAgain(m, version) == version >= Migrated(m).stableVersion

MaySealStable(m, version) == version > Migrated(m).stableVersion

\* Mutant: the sealed release is always a default.
SealAsDefault(m, version, pair) ==
    [Migrated(m) EXCEPT
        !.stableVersion = version,
        !.stable = pair,
        !.default = @ \cup {"stable"}]

\* The first default stands, the previous Stable channel's own included.
SealStable(m, version, pair) ==
    [Migrated(m) EXCEPT
        !.stableVersion = version,
        !.stable = pair,
        !.default = IF @ = {} THEN {"stable"} ELSE @ \ {"stable"}]

(***************************************************************************)
(* PublishTesting                                                          *)
(***************************************************************************)
TestingIsOlder(m, version, pair) ==
    \/ version < m.testingVersion
    \/ version = m.testingVersion /\ pairGeneration(pair) < pairGeneration(m.testing)

TestingIsRerun(m, version, pair) ==
    /\ Migrated(m).testingVersion = version
    /\ Migrated(m).testing = pair
    /\ "testing" \notin Migrated(m).default

MayPublishTesting(m, version, pair) ==
    /\ ~TestingIsOlder(Migrated(m), version, pair)
    /\ Migrated(m).default \ {"testing"} # {}

PublishTesting(m, version, pair) ==
    [Migrated(m) EXCEPT
        !.testingVersion = version,
        !.testing = pair,
        !.default = @ \ {"testing"}]

(***************************************************************************)
(* Development                                                             *)
(***************************************************************************)
\* A verified pair signed with --preserve-stable: the Stable and Testing
\* channels of the live manifest come along, and devel is the default unless
\* that Stable channel is.
PreserveStable(live, pair) ==
    [live EXCEPT
        !.schema = "v3",
        !.devel = pair,
        !.stale = FALSE,
        !.default = IF HasStable(live) /\ "stable" \in live.default
                    THEN {"stable"} ELSE {"devel"}]

\* keepStable
KeepsStable(old, new) ==
    HasStable(old) =>
        \/ new.stableVersion = old.stableVersion /\ new.stable = old.stable
        \/ new.stableVersion > old.stableVersion

\* Mutant: only the Stable channel is compared.
KeepsStableOnly(old, new) == KeepsStable(old, new)

\* keepRetained
KeepsRetained(old, new) ==
    /\ KeepsStable(old, new)
    /\ HasTesting(old) =>
          /\ new.testingVersion = old.testingVersion
          /\ new.testing = old.testing
          /\ ("testing" \in new.default) = ("testing" \in old.default)

\* putQualifiedDocument on a signed manifest, for a pair published with this
\* generation.
ReplaceIsRerun(old, new, generation) ==
    /\ KeepsRetained(old, new)
    /\ HasDevel(old)
    /\ generation = pairGeneration(old.devel)
    /\ new.devel = old.devel
    /\ ~old.stale

\* Mutant: generations are not compared.
MayReplaceAny(old, new, generation) ==
    old = EmptyManifest \/ (KeepsRetained(old, new) /\ HasDevel(old))

MayReplace(old, new, generation) ==
    \/ old = EmptyManifest
    \/ /\ KeepsRetained(old, new)
       /\ HasDevel(old)
       /\ \/ generation > pairGeneration(old.devel)
          \/ generation = pairGeneration(old.devel) /\ new.devel = old.devel /\ old.stale

(***************************************************************************)
(* What publication may never do to a manifest                             *)
(***************************************************************************)
\* Stable is immutable per version and moves forward only.
StableAdvances(old, new) ==
    HasStable(old) =>
        \/ new.stableVersion > old.stableVersion
        \/ new.stableVersion = old.stableVersion /\ new.stable = old.stable

\* Testing moves forward only: by version, then by generation.
TestingAdvances(old, new) ==
    HasTesting(old) =>
        \/ new.testingVersion > old.testingVersion
        \/ /\ new.testingVersion = old.testingVersion
           /\ pairGeneration(new.testing) >= pairGeneration(old.testing)

\* Devices refuse a selected channel whose generation drops.
DevelAdvances(old, new) ==
    HasDevel(old) /\ HasDevel(new) => pairGeneration(new.devel) >= pairGeneration(old.devel)
=============================================================================
