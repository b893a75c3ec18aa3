--------------------------- MODULE RetentionProofs ---------------------------
(***************************************************************************)
(* What Retention states of the deletions, for any objects, releases, locks,   *)
(* limits and grace periods, and any interleaving with the publishing runs.    *)
(*                                                                         *)
(* A sweep deletes what it planned from an inventory that is old by then.  That *)
(* is sound for a permanent artifact since no marker is put beside a file that   *)
(* is past the orphan grace period, and no marked permanent artifact is a        *)
(* candidate; and it is announced since the keys that go are those of the       *)
(* recorded observation.                                                     *)
(***************************************************************************)
EXTENDS Retention, FiniteSetTheorems, TLAPS

-----------------------------------------------------------------------------
(* The invariant *)

\* The records have their fields, and the times are numbers.
ShapeInv ==
    /\ clock \in Nat
    /\ \A k \in DOMAIN objects : objects[k] \in Nat
    /\ sweep = [stage |-> sweep.stage, listed |-> sweep.listed, batch |-> sweep.batch, left |-> sweep.left]
    /\ observation = [keys |-> observation.keys, batch |-> observation.batch,
                      count |-> observation.count, last |-> observation.last]
    /\ observation.count \in Nat /\ observation.last \in Nat

\* Keys were recorded in the past.
RecordedInv == \A k \in DOMAIN recorded : recorded[k] \in Nat /\ recorded[k] <= clock

\* The observation is that of its batch, and every key of it was recorded by then.
ObservationInv ==
    /\ observation.keys = KeysOf(observation.batch)
    /\ \A k \in observation.keys : k \in DOMAIN recorded /\ recorded[k] <= observation.last

\* What a sweep is about to delete is the batch that was observed before.
PlannedInv ==
    sweep.stage = "planned" =>
        /\ Ready(sweep.batch, observation, clock)
        /\ sweep.left \subseteq KeysOf(sweep.batch)
        /\ observation.batch # {} /\ observation.batch \subseteq sweep.batch =>
              sweep.batch = observation.batch

\* What was listed is still there; a marker that was not listed was put beside a
\* file that was not yet an orphan.
ListedInv ==
    sweep.stage = "listed" =>
        /\ \A k \in DOMAIN sweep.listed : k \in DOMAIN objects /\ objects[k] = sweep.listed[k]
        /\ \A g \in Groups : <<g, "data">> \in DOMAIN sweep.listed /\ IsComplete(g) =>
              \/ <<g, "complete">> \in DOMAIN sweep.listed
              \/ clock - objects[<<g, "data">>] < OrphanGrace

\* A file without a marker, too old to be completed.
IsOrphan(k) ==
    /\ k = <<k[1], "data">> /\ k \in DOMAIN objects
    /\ objects[k] <= clock - OrphanGrace
    /\ ~IsComplete(k[1])

\* What a sweep is about to delete of a permanent artifact is an orphan.
LeftInv == sweep.stage = "planned" => \A k \in sweep.left : Permanent(k[1]) => IsOrphan(k)

IInv == ShapeInv /\ RecordedInv /\ ObservationInv /\ PlannedInv /\ ListedInv /\ LeftInv

-----------------------------------------------------------------------------
(* The plan.                                                                 *)

(* A batch holds candidates of this inventory, the one kept from before too.    *)
LEMMA BatchIsOfCandidates ==
    ASSUME NEW inv, NEW E, NEW previous
    PROVE  /\ \A c \in Batch(inv, E, previous) : \E g \in E : c = Candidate(inv, g)
           /\ previous # {} /\ previous \subseteq Batch(inv, E, previous) =>
                 Batch(inv, E, previous) = previous
<1> DEFINE C == {Candidate(inv, g) : g \in E}
<1>1. {Candidate(inv, g) : g \in OldestThatFit(inv, E)} \subseteq C
    BY DEF OldestThatFit
<1>2. Batch(inv, E, previous) \subseteq C
    BY <1>1 DEF Batch
<1>3. ASSUME previous # {}, previous \subseteq Batch(inv, E, previous)
      PROVE  Batch(inv, E, previous) = previous
    <2>1. previous \subseteq C
        BY <1>2, <1>3
    <2> QED  BY <1>3, <2>1 DEF Batch
<1> QED  BY <1>2, <1>3

(* A permanent artifact is a root from the moment its marker is listed.         *)
LEMMA MarkedIsProtected ==
    ASSUME NEW inv, NEW g \in Artifacts, Permanent(g), <<g, "complete">> \in DOMAIN inv.objects
    PROVE  g \in Protected(inv, Locks)
<1>1. g \in Markers(inv) /\ g \in Groups
    BY DEF Markers, Artifacts
<1>2. g \in ReleaseRoots(inv, Locks) \cup ForeignRoots(inv) \cup StableImages(inv)
    BY <1>1 DEF Permanent, ReleaseRoots, ForeignRoots, StableImages, OfKind
<1>3. g \in Roots(inv, Locks)
    BY <1>2 DEF Roots
<1>4. \A P : P \subseteq Closure(inv, P)
    BY DEF Closure, AddReferences
<1> QED  BY <1>3, <1>4 DEF Protected

(* An artifact without a marker that is a candidate is one file, and old.       *)
LEMMA UnmarkedIsOld ==
    ASSUME NEW inv, NEW P, NEW inputs, NEW now, NEW g \in Artifacts,
           g \in Eligible(inv, P, inputs, now), <<g, "complete">> \notin DOMAIN inv.objects
    PROVE  /\ Listed(inv, g) = {<<g, "data">>} /\ <<g, "data">> \in DOMAIN inv.objects
           /\ inv.objects[<<g, "data">>] <= now - OrphanGrace
<1>1. /\ g \in Present(inv) /\ g \notin P
      /\ OldEnough(inv, g, now, IF g \in Markers(inv) THEN CompletedGrace ELSE OrphanGrace)
    BY DEF Eligible, OfKind, Downloads, Artifacts, Components, ReleaseImages
<1>2. g \notin Markers(inv) /\ Listed(inv, g) # {}
    BY <1>1 DEF Markers, Present
<1>3. Keys(g) = {<<g, "data">>, <<g, "complete">>}
    BY DEF Keys
<1>4. Listed(inv, g) = {<<g, "data">>} /\ <<g, "data">> \in DOMAIN inv.objects
    BY <1>2, <1>3 DEF Listed
<1>5. NewestTime(inv, g) = inv.objects[<<g, "data">>]
    <2>1. {inv.objects[k] : k \in Listed(inv, g)} = {inv.objects[<<g, "data">>]}
        BY <1>4
    <2>2. NewestTime(inv, g) = CHOOSE t \in {inv.objects[<<g, "data">>]} : inv.objects[<<g, "data">>] <= t
        BY <1>4, <2>1 DEF NewestTime
    <2> QED  BY <2>2
<1>6. NewestTime(inv, g) <= now - OrphanGrace
    BY <1>1, <1>2 DEF OldEnough
<1> QED  BY <1>4, <1>5, <1>6

(* No artifact that is protected is a candidate.                               *)
LEMMA ProtectedIsSpared ==
    ASSUME NEW inv, NEW P, NEW inputs, NEW now, NEW g \in Artifacts, g \in Eligible(inv, P, inputs, now)
    PROVE  g \notin P
BY DEF Eligible, OfKind, Downloads, Artifacts, Components, ReleaseImages

(* A permanent artifact that is a candidate is an orphan: one file, no marker.   *)
LEMMA CandidateIsOrphan ==
    ASSUME NEW inv, NEW now, NEW g, Permanent(g),
           g \in Eligible(inv, Protected(inv, Locks), pinned, now)
    PROVE  /\ g \in Groups /\ <<g, "complete">> \notin DOMAIN inv.objects
           /\ Listed(inv, g) = {<<g, "data">>} /\ <<g, "data">> \in DOMAIN inv.objects
           /\ inv.objects[<<g, "data">>] <= now - OrphanGrace
<1>1. About[g].kind \in Components \cup ReleaseImages
    BY DEF Permanent
<1>2. g \in Artifacts /\ g \in Groups
    BY <1>1 DEF Eligible, OfKind, Downloads, Components, ReleaseImages, Artifacts, Present
<1>3. <<g, "complete">> \notin DOMAIN inv.objects
    BY <1>2, ProtectedIsSpared, MarkedIsProtected
<1> DEFINE P == Protected(inv, Locks)
<1>4. g \in Eligible(inv, P, pinned, now)
    OBVIOUS
<1> HIDE DEF P
<1> QED  BY <1>2, <1>3, <1>4, UnmarkedIsOld

-----------------------------------------------------------------------------
(* The publishing runs.                                                      *)

\* A step that takes no object and puts a marker only beside a file that is no orphan.
Growing ==
    /\ UNCHANGED <<clock, retaining>>
    /\ \A k \in DOMAIN objects : k \in DOMAIN objects' /\ objects'[k] = objects[k]
    /\ \A k \in DOMAIN objects' : objects'[k] \in Nat
    /\ \A g : IsComplete(g)' =>
          \/ IsComplete(g)
          \/ <<g, "data">> \in DOMAIN objects /\ clock - objects[<<g, "data">>] < OrphanGrace

(* What Put changes.                                                          *)
LEMMA PutAdds ==
    ASSUME ShapeInv, NEW k, objects' = Put(k)
    PROVE  /\ DOMAIN objects' = DOMAIN objects \cup {k}
           /\ \A x \in DOMAIN objects : objects'[x] = objects[x]
           /\ \A x \in DOMAIN objects' : objects'[x] \in Nat
BY DEF Put, ShapeInv

(* Publishing and merging only add objects.                                   *)
LEMMA PublishingGrows ==
    ASSUME IInv, Publish \/ \E g \in Pins : MergePin(g)
    PROVE  Growing
<1>1. ShapeInv
    BY DEF IInv
<1>2. CASE UNCHANGED <<objects, clock, retaining>>
    BY <1>1, <1>2 DEF Growing, ShapeInv, IsComplete
<1>3. ASSUME NEW g, objects' = Put(<<g, "data">>), UNCHANGED <<clock, retaining>>
      PROVE  Growing
    <2>1. \A h : IsComplete(h)' => IsComplete(h)
        <3>1. DOMAIN objects' = DOMAIN objects \cup {<<g, "data">>}
            BY <1>1, <1>3, PutAdds
        <3> QED  BY <3>1 DEF IsComplete
    <2>2. /\ DOMAIN objects' = DOMAIN objects \cup {<<g, "data">>}
          /\ \A x \in DOMAIN objects : objects'[x] = objects[x]
          /\ \A x \in DOMAIN objects' : objects'[x] \in Nat
        BY <1>1, <1>3, PutAdds
    <2> QED  BY <1>3, <2>1, <2>2 DEF Growing
<1>4. CASE UploadMarker
    <2> DEFINE t == Target
    <2> HIDE DEF t
    <2>1. /\ objects' = Put(<<t, "complete">>) /\ <<t, "data">> \in DOMAIN objects
          /\ clock - objects[<<t, "data">>] < OrphanGrace
          /\ UNCHANGED <<clock, retaining>>
        BY <1>4 DEF UploadMarker, Stored, t
    <2>2. /\ DOMAIN objects' = DOMAIN objects \cup {<<t, "complete">>}
          /\ \A x \in DOMAIN objects : objects'[x] = objects[x]
          /\ \A x \in DOMAIN objects' : objects'[x] \in Nat
        BY <1>1, <2>1, PutAdds
    <2>3. \A h : IsComplete(h)' => IsComplete(h) \/ h = t
        BY <2>2 DEF IsComplete
    <2> QED  BY <2>1, <2>2, <2>3 DEF Growing
<1>5. CASE UploadData
    BY <1>3, <1>5 DEF UploadData
<1>6. CASE PublishImages
    BY <1>3, <1>6 DEF PublishImages
<1>7. CASE \E r \in Releases : Begin(r)
    BY <1>2, <1>7 DEF Begin
<1>8. CASE Supersede \/ Reuse \/ Sign \/ CommitChannel \/ Abandon
    BY <1>2, <1>8 DEF Supersede, Reuse, Sign, CommitChannel, Abandon
<1>9. CASE \E g \in Pins : MergePin(g)
    BY <1>2, <1>9 DEF MergePin, retaining
<1> QED  BY <1>4, <1>5, <1>6, <1>7, <1>8, <1>9 DEF Publish

(* Nothing that is added lets a sweep delete what it should not.              *)
LEMMA GrowingKeepsIInv ==
    ASSUME IInv, Growing
    PROVE  IInv'
<1>1. UNCHANGED <<clock, observation, sweep, recorded>>
    BY DEF Growing, retaining
<1>2. /\ \A k \in DOMAIN objects : k \in DOMAIN objects' /\ objects'[k] = objects[k]
      /\ \A k \in DOMAIN objects' : objects'[k] \in Nat
    BY DEF Growing
<1>3. \A g : IsComplete(g)' =>
          \/ IsComplete(g)
          \/ <<g, "data">> \in DOMAIN objects /\ clock - objects[<<g, "data">>] < OrphanGrace
    BY DEF Growing
<1>4. ShapeInv'
    BY <1>1, <1>2 DEF IInv, ShapeInv
<1>5. RecordedInv' /\ ObservationInv'
    BY <1>1 DEF IInv, RecordedInv, ObservationInv
<1>6. PlannedInv'
    BY <1>1 DEF IInv, PlannedInv
<1>7. ListedInv'
    BY <1>1, <1>2, <1>3 DEF IInv, ListedInv
<1>8. LeftInv'
    <2> SUFFICES ASSUME sweep.stage = "planned", NEW k \in sweep.left, Permanent(k[1])
                 PROVE  IsOrphan(k)'
        BY <1>1 DEF LeftInv, Permanent, IsLocked
    <2>1. /\ k = <<k[1], "data">> /\ k \in DOMAIN objects
          /\ objects[k] <= clock - OrphanGrace
          /\ ~IsComplete(k[1])
        BY DEF IInv, LeftInv, IsOrphan
    <2>2. objects[k] \in Nat /\ clock \in Nat /\ OrphanGrace \in Nat
        BY <2>1, TimesAreNumbers DEF IInv, ShapeInv
    <2>3. ~ (clock - objects[k] < OrphanGrace)
        BY <2>1, <2>2
    <2>4. ~IsComplete(k[1])'
        BY <1>3, <2>1, <2>3
    <2> QED  BY <1>1, <1>2, <2>1, <2>4 DEF IsOrphan
<1> QED  BY <1>4, <1>5, <1>6, <1>7, <1>8 DEF IInv

-----------------------------------------------------------------------------
(* The sweep.                                                                *)

(* What the inventory tells of a file: no marker is missing beside an orphan.    *)
LEMMA InventoryTells ==
    ASSUME IInv, sweep.stage = "listed", NEW g \in Groups,
           <<g, "data">> \in DOMAIN Inventory.objects,
           <<g, "complete">> \notin DOMAIN Inventory.objects,
           Inventory.objects[<<g, "data">>] <= clock - OrphanGrace
    PROVE  IsOrphan(<<g, "data">>)
<1> DEFINE downloads == {k \in DOMAIN objects : About[k[1]].bucket = "downloads"}
           file == <<g, "data">>
<1>1. /\ DOMAIN Inventory.objects = DOMAIN sweep.listed \cup downloads
      /\ Inventory.objects[file] = IF file \in downloads THEN objects[file] ELSE sweep.listed[file]
    BY DEF Inventory
<1>2. /\ \A k \in DOMAIN sweep.listed : k \in DOMAIN objects /\ objects[k] = sweep.listed[k]
      /\ file \in DOMAIN sweep.listed /\ IsComplete(g) =>
            \/ <<g, "complete">> \in DOMAIN sweep.listed
            \/ clock - objects[file] < OrphanGrace
    BY DEF IInv, ListedInv
<1>3. file \in DOMAIN objects /\ objects[file] = Inventory.objects[file]
    BY <1>1, <1>2
<1>4. objects[file] \in Nat /\ clock \in Nat /\ OrphanGrace \in Nat
    BY <1>3, TimesAreNumbers DEF IInv, ShapeInv
<1>5. ~ (clock - objects[file] < OrphanGrace)
    BY <1>3, <1>4
<1>6. file \in downloads => ~IsComplete(g)
    <2> SUFFICES ASSUME file \in downloads, IsComplete(g) PROVE FALSE
        OBVIOUS
    <2>1. <<g, "complete">> \in downloads
        BY DEF IsComplete
    <2> QED  BY <1>1, <2>1
<1>7. ~IsComplete(g)
    BY <1>1, <1>2, <1>5, <1>6
<1> QED  BY <1>3, <1>7 DEF IsOrphan

(* What a planned batch may take.                                            *)
LEMMA PlanIsSound ==
    ASSUME IInv, sweep.stage = "listed", NEW batch \in Batches
    PROVE  /\ \A k \in KeysOf(batch) : Permanent(k[1]) => IsOrphan(k)
           /\ observation.batch # {} /\ observation.batch \subseteq batch => batch = observation.batch
<1> DEFINE inv == Inventory
           E == Eligible(inv, Protected(inv, Locks), pinned, clock)
<1>1. batch = Batch(inv, E, observation.batch)
    BY DEF Batches, Candidates
<1> HIDE DEF inv, E
<1>2. /\ \A c \in batch : \E g \in E : c = Candidate(inv, g)
      /\ observation.batch # {} /\ observation.batch \subseteq batch => batch = observation.batch
    BY <1>1, BatchIsOfCandidates
<1>3. ASSUME NEW k \in KeysOf(batch), Permanent(k[1]) PROVE IsOrphan(k)
    <2>1. PICK c \in batch : k \in c.keys
        BY DEF KeysOf
    <2>2. PICK g \in E : c = Candidate(inv, g)
        BY <1>2
    <2>3. k \in Listed(inv, g) /\ k \in DOMAIN inv.objects
        BY <2>1, <2>2 DEF Candidate, Listed
    <2>4. k[1] = g
        BY <2>3 DEF Listed, Keys
    <2>5. /\ g \in Groups /\ <<g, "complete">> \notin DOMAIN inv.objects
          /\ Listed(inv, g) = {<<g, "data">>} /\ <<g, "data">> \in DOMAIN inv.objects
          /\ inv.objects[<<g, "data">>] <= clock - OrphanGrace
        BY <1>3, <2>4, CandidateIsOrphan DEF E
    <2>6. IsOrphan(<<g, "data">>)
        BY <2>5, InventoryTells DEF inv
    <2> QED  BY <2>3, <2>5, <2>6
<1> QED  BY <1>2, <1>3

(* What a recording run leaves in retention.json.                              *)
LEMMA RecordingKeeps ==
    ASSUME IInv, NEW batch, RecordObservation(batch)
    PROVE  /\ observation'.batch = batch /\ observation'.keys = KeysOf(batch)
           /\ observation' = [keys |-> observation'.keys, batch |-> observation'.batch,
                              count |-> observation'.count, last |-> observation'.last]
           /\ observation'.count \in Nat /\ observation'.last \in Nat
           /\ observation.keys = KeysOf(batch) => observation'.count >= observation.count
           /\ \A k \in DOMAIN recorded' : recorded'[k] \in Nat /\ recorded'[k] <= clock
           /\ \A k \in KeysOf(batch) : k \in DOMAIN recorded' /\ recorded'[k] <= observation'.last
<1>1. /\ clock \in Nat /\ observation.count \in Nat /\ observation.last \in Nat
      /\ MinimumInterval \in Nat
      /\ observation = [keys |-> observation.keys, batch |-> observation.batch,
                        count |-> observation.count, last |-> observation.last]
    BY TimesAreNumbers DEF IInv, ShapeInv
<1>2. \A k \in DOMAIN recorded : recorded[k] \in Nat /\ recorded[k] <= clock
    BY DEF IInv, RecordedInv
<1>3. \A k \in observation.keys : k \in DOMAIN recorded /\ recorded[k] <= observation.last
    BY DEF IInv, ObservationInv
<1>4. /\ DOMAIN recorded' = DOMAIN recorded \cup KeysOf(batch)
      /\ \A k \in DOMAIN recorded' :
            recorded'[k] = IF k \in DOMAIN recorded THEN recorded[k] ELSE clock
    BY DEF RecordObservation
<1>5. \A k \in DOMAIN recorded' : recorded'[k] \in Nat /\ recorded'[k] <= clock
    BY <1>1, <1>2, <1>4
<1> DEFINE same == observation.count > 0 /\ observation.keys = KeysOf(batch)
           due == clock - observation.last >= MinimumInterval
<1>6. observation' = IF same
                     THEN IF due
                          THEN [keys |-> observation.keys, batch |-> batch,
                                count |-> observation.count + 1, last |-> clock]
                          ELSE [observation EXCEPT !.batch = batch]
                     ELSE [keys |-> KeysOf(batch), batch |-> batch, count |-> 1, last |-> clock]
    BY DEF RecordObservation, Confirm
<1>7. CASE ~same
    <2>1. observation' = [keys |-> KeysOf(batch), batch |-> batch, count |-> 1, last |-> clock]
        BY <1>6, <1>7
    <2> HIDE DEF due
    <2>2. observation.keys = KeysOf(batch) => observation.count = 0
        BY <1>1, <1>7
    <2> QED  BY <1>1, <1>4, <1>5, <2>1, <2>2
<1>8. CASE same /\ due
    <2>1. observation' = [keys |-> observation.keys, batch |-> batch,
                          count |-> observation.count + 1, last |-> clock]
        BY <1>6, <1>8
    <2> QED  BY <1>1, <1>4, <1>5, <1>8, <2>1
<1>9. CASE same /\ ~due
    <2>1. observation' = [keys |-> observation.keys, batch |-> batch,
                          count |-> observation.count, last |-> observation.last]
        BY <1>1, <1>6, <1>9
    <2>2. \A k \in KeysOf(batch) : recorded'[k] = recorded[k] /\ recorded[k] <= observation.last
        BY <1>3, <1>4, <1>9
    <2> QED  BY <1>1, <1>4, <1>5, <1>9, <2>1, <2>2
<1> QED  BY <1>7, <1>8, <1>9

(* The invariant says nothing of a run that is over.                            *)
LEMMA EndKeepsIInv ==
    ASSUME IInv, sweep' = NoSweep, clock' = clock,
           \A k \in DOMAIN objects' : k \in DOMAIN objects /\ objects'[k] = objects[k],
           \/ UNCHANGED <<observation, recorded>>
           \/ \E batch : RecordObservation(batch)
    PROVE  IInv'
<1>1. CASE UNCHANGED <<observation, recorded>>
    <2>1. ShapeInv'
        BY <1>1 DEF IInv, ShapeInv, NoSweep
    <2>2. RecordedInv' /\ ObservationInv'
        BY <1>1 DEF IInv, RecordedInv, ObservationInv
    <2>3. PlannedInv' /\ ListedInv' /\ LeftInv'
        BY DEF PlannedInv, ListedInv, LeftInv, NoSweep
    <2> QED  BY <2>1, <2>2, <2>3 DEF IInv
<1>2. CASE \E batch : RecordObservation(batch)
    <2>1. PICK batch : RecordObservation(batch)
        BY <1>2
    <2>2. /\ observation'.batch = batch /\ observation'.keys = KeysOf(batch)
          /\ observation' = [keys |-> observation'.keys, batch |-> observation'.batch,
                             count |-> observation'.count, last |-> observation'.last]
          /\ observation'.count \in Nat /\ observation'.last \in Nat
          /\ \A k \in DOMAIN recorded' : recorded'[k] \in Nat /\ recorded'[k] <= clock
          /\ \A k \in KeysOf(batch) : k \in DOMAIN recorded' /\ recorded'[k] <= observation'.last
        BY <2>1, RecordingKeeps
    <2>3. ShapeInv'
        BY <2>2 DEF IInv, ShapeInv, NoSweep
    <2>4. RecordedInv' /\ ObservationInv'
        BY <2>2 DEF RecordedInv, ObservationInv
    <2>5. PlannedInv' /\ ListedInv' /\ LeftInv'
        BY DEF PlannedInv, ListedInv, LeftInv, NoSweep
    <2> QED  BY <2>3, <2>4, <2>5 DEF IInv
<1> QED  BY <1>1, <1>2

(* What a list request leaves.                                               *)
LEMMA ListingKeepsIInv ==
    ASSUME IInv, ListBuild
    PROVE  IInv'
<1> DEFINE build == {k \in DOMAIN objects : About[k[1]].bucket = "build"}
<1>1. sweep' = [stage |-> "listed", listed |-> [k \in build |-> objects[k]], batch |-> {}, left |-> {}]
    BY DEF ListBuild, NoSweep
<1>2. UNCHANGED <<objects, clock, observation, recorded>>
    BY DEF ListBuild
<1>3. ShapeInv'
    BY <1>1, <1>2 DEF IInv, ShapeInv
<1>4. RecordedInv' /\ ObservationInv'
    BY <1>2 DEF IInv, RecordedInv, ObservationInv
<1>5. PlannedInv' /\ LeftInv'
    BY <1>1 DEF PlannedInv, LeftInv
<1>6. ListedInv'
    <2>1. DOMAIN sweep'.listed = build /\ \A k \in build : sweep'.listed[k] = objects[k]
        BY <1>1
    <2>2. \A g : <<g, "data">> \in build /\ IsComplete(g) => <<g, "complete">> \in build
        BY DEF IsComplete
    <2>3. \A g : IsComplete(g)' = IsComplete(g)
        BY <1>2 DEF IsComplete
    <2> QED  BY <1>2, <2>1, <2>2, <2>3 DEF ListedInv
<1> QED  BY <1>3, <1>4, <1>5, <1>6 DEF IInv

(* What planning leaves.                                                     *)
LEMMA PlanningKeepsIInv ==
    ASSUME IInv, sweep.stage = "listed", NEW batch \in Batches, Plan(batch), UNCHANGED <<objects, clock>>
    PROVE  IInv'
<1>1. /\ Ready(batch, observation, clock)
      /\ sweep' = [stage |-> "planned", listed |-> <<>>, batch |-> batch, left |-> KeysOf(batch)]
      /\ UNCHANGED <<objects, clock, observation, recorded>>
    BY DEF Plan, NoSweep
<1>2. /\ \A k \in KeysOf(batch) : Permanent(k[1]) => IsOrphan(k)
      /\ observation.batch # {} /\ observation.batch \subseteq batch => batch = observation.batch
    BY PlanIsSound
<1>3. ShapeInv'
    BY <1>1 DEF IInv, ShapeInv
<1>4. RecordedInv' /\ ObservationInv'
    BY <1>1 DEF IInv, RecordedInv, ObservationInv
<1>5. PlannedInv' /\ ListedInv'
    BY <1>1, <1>2 DEF PlannedInv, ListedInv
<1>6. LeftInv'
    <2>1. \A k : IsOrphan(k)' = IsOrphan(k)
        BY <1>1 DEF IsOrphan, IsComplete
    <2> QED  BY <1>1, <1>2, <2>1 DEF LeftInv, Permanent, IsLocked
<1> QED  BY <1>3, <1>4, <1>5, <1>6 DEF IInv

(* What a delete request leaves.                                             *)
LEMMA DeletingKeepsIInv ==
    ASSUME IInv, Delete
    PROVE  IInv'
<1>1. /\ sweep.stage = "planned" /\ objects' = Drop(Request)
      /\ sweep' = [sweep EXCEPT !.left = @ \ Request]
      /\ UNCHANGED <<clock, observation, recorded>>
    BY DEF Delete
<1>2. /\ DOMAIN objects' = DOMAIN objects \ Request
      /\ \A k \in DOMAIN objects' : objects'[k] = objects[k]
    BY <1>1 DEF Drop
<1>3. sweep = [stage |-> sweep.stage, listed |-> sweep.listed, batch |-> sweep.batch, left |-> sweep.left]
    BY DEF IInv, ShapeInv
<1>4. sweep' = [stage |-> "planned", listed |-> sweep.listed, batch |-> sweep.batch,
                left |-> sweep.left \ Request]
    BY <1>1, <1>3
<1>5. ShapeInv'
    BY <1>1, <1>2, <1>4 DEF IInv, ShapeInv
<1>6. RecordedInv' /\ ObservationInv'
    BY <1>1 DEF IInv, RecordedInv, ObservationInv
<1>7. PlannedInv' /\ ListedInv'
    BY <1>1, <1>4 DEF IInv, PlannedInv, ListedInv
<1>8. LeftInv'
    <2> SUFFICES ASSUME NEW k \in sweep.left \ Request, Permanent(k[1]) PROVE IsOrphan(k)'
        BY <1>4 DEF LeftInv, Permanent, IsLocked
    <2>1. IsOrphan(k)
        BY <1>1 DEF IInv, LeftInv
    <2> QED  BY <1>1, <1>2, <2>1 DEF IsOrphan, IsComplete
<1> QED  BY <1>5, <1>6, <1>7, <1>8 DEF IInv

(* Time passes between the retention runs.                                    *)
LEMMA TickKeepsIInv ==
    ASSUME IInv, Tick
    PROVE  IInv'
<1>1. /\ sweep.stage = "idle" /\ clock' = clock + 1
      /\ UNCHANGED <<objects, observation, sweep, recorded>>
    BY DEF Tick, retaining
<1>2. ShapeInv'
    BY <1>1 DEF IInv, ShapeInv
<1>3. RecordedInv'
    BY <1>1 DEF IInv, ShapeInv, RecordedInv
<1>4. ObservationInv'
    BY <1>1 DEF IInv, ObservationInv
<1>5. PlannedInv' /\ ListedInv' /\ LeftInv'
    BY <1>1 DEF PlannedInv, ListedInv, LeftInv
<1> QED  BY <1>2, <1>3, <1>4, <1>5 DEF IInv

(* What goes was left to delete, of a planned sweep.                            *)
LEMMA OnlyTheSweepTakes ==
    ASSUME IInv, [Next]_vars, NEW k \in DOMAIN objects \ DOMAIN objects'
    PROVE  sweep.stage = "planned" /\ k \in sweep.left /\ clock' = clock
<1>1. CASE Publish \/ \E g \in Pins : MergePin(g)
    <2>1. Growing
        BY <1>1, PublishingGrows
    <2> QED  BY <2>1 DEF Growing
<1>2. CASE Delete \/ DeleteFails
    BY <1>2 DEF Delete, DeleteFails, Drop, Request
<1>3. CASE UNCHANGED objects
    BY <1>3
<1> QED  BY <1>1, <1>2, <1>3 DEF Next, Sweep, ListBuild, PlanAndConfirm, Record, SweepFails, Tick, vars

(* The initial states.                                                       *)
LEMMA InitIInv == Init => IInv
<1> SUFFICES ASSUME Init PROVE IInv
    OBVIOUS
<1>1. ShapeInv
    BY DEF Init, ShapeInv, NoSweep, NoObservation
<1>2. RecordedInv
    BY DEF Init, RecordedInv
<1>3. ObservationInv
    BY DEF Init, ObservationInv, NoObservation, KeysOf
<1>4. PlannedInv /\ ListedInv /\ LeftInv
    BY DEF Init, PlannedInv, ListedInv, LeftInv, NoSweep
<1> QED  BY <1>1, <1>2, <1>3, <1>4 DEF IInv

(* Every step.                                                               *)
LEMMA StepIInv == IInv /\ [Next]_vars => IInv'
<1> SUFFICES ASSUME IInv, [Next]_vars PROVE IInv'
    OBVIOUS
<1>1. CASE Publish \/ \E g \in Pins : MergePin(g)
    BY <1>1, PublishingGrows, GrowingKeepsIInv
<1>2. CASE ListBuild
    BY <1>2, ListingKeepsIInv
<1>3. CASE PlanAndConfirm
    <2>1. PICK batch \in Batches : Observe(batch) \/ Plan(batch)
        BY <1>3 DEF PlanAndConfirm
    <2>2. sweep.stage = "listed" /\ UNCHANGED <<objects, clock>>
        BY <1>3 DEF PlanAndConfirm
    <2>3. CASE Observe(batch)
        BY <2>2, <2>3, EndKeepsIInv DEF Observe
    <2>4. CASE Plan(batch)
        BY <2>2, <2>4, PlanningKeepsIInv
    <2> QED  BY <2>1, <2>3, <2>4
<1>4. CASE Delete
    BY <1>4, DeletingKeepsIInv
<1>5. CASE DeleteFails
    <2>1. \A k \in DOMAIN objects' : k \in DOMAIN objects /\ objects'[k] = objects[k]
        BY <1>5 DEF DeleteFails, Drop
    <2> QED  BY <1>5, <2>1, EndKeepsIInv DEF DeleteFails
<1>6. CASE Record
    BY <1>6, EndKeepsIInv DEF Record
<1>7. CASE SweepFails
    BY <1>7, EndKeepsIInv DEF SweepFails
<1>8. CASE Tick
    BY <1>8, TickKeepsIInv
<1>9. CASE UNCHANGED vars
    <2>1. Growing
        BY <1>9 DEF Growing, vars, retaining, IInv, ShapeInv, IsComplete
    <2> QED  BY <2>1, GrowingKeepsIInv
<1> QED  BY <1>1, <1>2, <1>3, <1>4, <1>5, <1>6, <1>7, <1>8, <1>9 DEF Next, Sweep

-----------------------------------------------------------------------------
(* What is reachable *)

\* What the next runs of a line would use again.
Usable == WithNeeds(built_against, Found(last, DOMAIN objects))
Reachable == Live \cup Usable

\* The releases that were started and published, and the stage of the run.
ReleasesInv ==
    /\ last \in [Lines -> Nat]
    /\ channels \in [Lines -> Nat]
    /\ \A line \in Lines : channels[line] # None => IsRelease(channels[line])
    /\ images # None => IsRelease(images) /\ Line(images) = "devel"
    /\ pinned \subseteq Pins

JobInv ==
    \/ job = NoJob
    \/ /\ job = [release |-> job.release, stage |-> job.stage]
       /\ job.release \in Releases /\ last[Line(job.release)] = job.release
       /\ job.stage \in {"system", "packages", "sign", "commit", "image", "images"}
       /\ job.stage \in {"image", "images"} => Line(job.release) = "devel"
       /\ \A g \in Finished : IsComplete(g)

BuiltInv == built_against \in [Groups -> OfKind({"system"}) \cup {NoGroup}]

\* No stored artifact is newer than those of a release that may still be started.
NewestInv == \A r \in Startable(last) : IsNewest(r, DOMAIN objects)

\* No System that was listed with its marker is newer than h.
Unsuperseded(h) ==
    /\ h \in OfKind({"system"}) /\ About[h].train \in {StableTrain, DevelopmentTrain}
    /\ \A g \in OfKind({"system"}) :
          /\ <<g, "complete">> \in DOMAIN sweep.listed
          /\ About[g].train = About[h].train /\ About[g].arch = About[h].arch
          => ~ Precedes(h, g)

\* Packages whose marker a sweep has not seen were built against a System that
\* it keeps for its own sake.
UnlistedInv ==
    sweep.stage = "listed" =>
        \A p \in OfKind({"packages"}) : IsComplete(p) =>
            <<p, "complete">> \in DOMAIN sweep.listed \/ Unsuperseded(built_against[p])

ReachableInv == \A g \in Reachable : Whole(g)

\* A sweep is about to delete nothing that is reachable, or that could become so:
\* of the artifacts of releases to come only orphans, and no input that could
\* still be merged.
SparedInv ==
    sweep.stage = "planned" => \A k \in sweep.left :
        /\ k \in DOMAIN objects /\ k[1] \notin Reachable
        /\ \A r \in Startable(last) :
              /\ k[1] \in ArtifactsOf(r) => IsOrphan(k)
              /\ Line(r) = "devel" => k[1] # Contents[r].download
        /\ k[1] \in Pins => k = <<k[1], "data">> /\ objects[k] <= clock - OrphanGrace

WholeInv == ReleasesInv /\ JobInv /\ BuiltInv /\ NewestInv /\ UnlistedInv /\ ReachableInv /\ SparedInv

-----------------------------------------------------------------------------
(* What the groups are.                                                      *)

(* The artifacts of a release.                                                *)
LEMMA ReleaseArtifacts ==
    ASSUME NEW r, IsRelease(r), r # None
    PROVE  /\ \A c \in ComponentsOf(r) : \E kind \in Components :
                 /\ c = Contents[r][kind] /\ c \in OfKind({kind}) /\ c \in Artifacts
                 /\ About[c].train = TrainOf(Line(r))
                 /\ About[c].train \in {StableTrain, DevelopmentTrain}
           /\ Line(r) = "devel" =>
                 /\ Contents[r].image \in Artifacts /\ Contents[r].image \in OfKind(ReleaseImages)
                 /\ \A built : References(built, Contents[r].image) = ComponentsOf(r)
                 /\ Contents[r].download \in Groups /\ About[Contents[r].download].kind = "download"
                 /\ About[Contents[r].download].train = DevelopmentTrain
<1>1. ComponentsOf(r) = {Contents[r]["system"], Contents[r]["packages"]}
    BY DEF ComponentsOf
<1>2. ASSUME NEW kind \in Components
      PROVE  LET c == Contents[r][kind] IN
                 /\ c \in OfKind({kind}) /\ c \in Artifacts /\ About[c].train = TrainOf(Line(r))
                 /\ About[c].train \in {StableTrain, DevelopmentTrain}
    BY <1>2 DEF IsRelease, OfKind, Artifacts, TrainOf
<1>3. \A c \in ComponentsOf(r) : \E kind \in Components : c = Contents[r][kind]
    BY <1>1 DEF Components
<1>4. ASSUME Line(r) = "devel"
      PROVE  /\ Contents[r].image \in Artifacts /\ Contents[r].image \in OfKind(ReleaseImages)
             /\ \A built : References(built, Contents[r].image) = ComponentsOf(r)
             /\ Contents[r].download \in Groups /\ About[Contents[r].download].kind = "download"
             /\ About[Contents[r].download].train = DevelopmentTrain
    <2>1. /\ Contents[r].image \in OfKind(ReleaseImages)
          /\ About[Contents[r].image].system = Contents[r].system
          /\ About[Contents[r].image].packages = Contents[r].packages
          /\ Contents[r].download \in OfKind({"download"})
          /\ About[Contents[r].download].train = DevelopmentTrain
        BY <1>4 DEF IsRelease
    <2>2. NoGroup \notin Groups
        BY GroupsAreNumbers DEF NoGroup
    <2>3. Contents[r].system \in Groups /\ Contents[r].packages \in Groups
        BY <1>1, <1>2 DEF OfKind, Components
    <2>4. \A built : References(built, Contents[r].image) = ComponentsOf(r)
        BY <1>1, <2>1, <2>2, <2>3 DEF References, OfKind
    <2>5. Contents[r].image \in Artifacts
        BY <2>1 DEF OfKind, Artifacts
    <2> QED  BY <2>1, <2>4, <2>5 DEF OfKind
<1> QED  BY <1>2, <1>3, <1>4

(* What Packages and Systems were built against.                               *)
LEMMA NeedsOfComponents ==
    ASSUME BuiltInv, NEW p, p \in OfKind(Components), NEW h \in References(built_against, p)
    PROVE  About[p].kind = "packages" /\ h = built_against[p] /\ h \in OfKind({"system"}) /\ h \in Artifacts
<1>1. About[p].kind \in {"system", "packages"} /\ p \in Groups
    BY DEF OfKind, Components
<1>2. About[p].kind = "packages" /\ h \in {built_against[p]} \ {NoGroup}
    BY <1>1 DEF References, ReleaseImages
<1>3. built_against[p] \in OfKind({"system"}) \cup {NoGroup}
    BY <1>1 DEF BuiltInv
<1>4. h \in OfKind({"system"})
    BY <1>2, <1>3
<1> QED  BY <1>2, <1>4 DEF OfKind, Artifacts, Components

(* Markers are seen in the listing.                                           *)
LEMMA InventoryMarkers ==
    ASSUME IInv, sweep.stage = "listed"
    PROVE  \A g \in Artifacts :
              /\ g \in Markers(Inventory) <=> <<g, "complete">> \in DOMAIN sweep.listed
              /\ g \in Markers(Inventory) => IsComplete(g)
<1> DEFINE downloads == {k \in DOMAIN objects : About[k[1]].bucket = "downloads"}
<1>1. DOMAIN Inventory.objects = DOMAIN sweep.listed \cup downloads
    BY DEF Inventory
<1>2. \A g \in Artifacts : <<g, "complete">> \notin downloads
    BY ArtifactsAreInBuild
<1>3. \A k \in DOMAIN sweep.listed : k \in DOMAIN objects
    BY DEF IInv, ListedInv
<1> QED  BY <1>1, <1>2, <1>3 DEF Markers, IsComplete

(* A whole artifact has its marker.                                           *)
LEMMA WholeIsComplete ==
    ASSUME NEW g \in Artifacts, Whole(g)
    PROVE  IsComplete(g)
BY DEF Whole, Keys, IsComplete

-----------------------------------------------------------------------------
(* The roots of a plan.                                                      *)

(* The newest is kept.                                                        *)
LEMMA NewestIsKept ==
    ASSUME NEW S, NEW g \in S, \A h \in S : About[h].arch = About[g].arch => ~ Precedes(g, h)
    PROVE  g \in NewestPerArchitecture(S, KeepDevelopment)
<1>1. {h \in S : About[h].arch = About[g].arch /\ Precedes(g, h)} = {}
    OBVIOUS
<1>2. Cardinality({h \in S : About[h].arch = About[g].arch /\ Precedes(g, h)}) < KeepDevelopment
    BY <1>1, FS_EmptySet, SomeAreKept
<1> QED  BY <1>2 DEF NewestPerArchitecture

(* The newest System or Packages of a train, locked ones too.                  *)
LEMMA NewestComponentIsRoot ==
    ASSUME NEW inv, NEW kind \in Components, NEW g \in Markers(inv) \cap OfKind({kind}),
           About[g].train \in {StableTrain, DevelopmentTrain},
           \A h \in Markers(inv) \cap OfKind({kind}) :
               About[h].train = About[g].train /\ About[h].arch = About[g].arch => ~ Precedes(g, h)
    PROVE  g \in Roots(inv, Locks)
<1> DEFINE rolling == RollingOnStable(inv, kind, Locks)
<1>1. CASE IsLocked(g, Locks)
    <2>1. g \in ReleaseRoots(inv, Locks)
        BY <1>1 DEF ReleaseRoots, OfKind
    <2> QED  BY <2>1 DEF Roots
<1>2. CASE ~ IsLocked(g, Locks) /\ About[g].train = StableTrain
    <2>1. g \in rolling /\ \A h \in rolling : About[h].arch = About[g].arch => ~ Precedes(g, h)
        BY <1>2 DEF OfTrain, RollingOnStable
    <2>2. g \in NewestPerArchitecture(rolling, KeepDevelopment)
        <3> HIDE DEF rolling
        <3> QED  BY <2>1, NewestIsKept
    <2>3. NewestPerArchitecture(rolling, KeepDevelopment) \subseteq RollingRoots(inv, Locks)
        BY DEF RollingRoots
    <2> QED  BY <2>2, <2>3 DEF Roots
<1>3. CASE About[g].train = DevelopmentTrain
    <2> DEFINE S == OfTrain(inv, kind, DevelopmentTrain)
    <2>1. g \in S /\ \A h \in S : About[h].arch = About[g].arch => ~ Precedes(g, h)
        BY <1>3 DEF OfTrain
    <2>2. g \in NewestPerArchitecture(S, KeepDevelopment)
        <3> HIDE DEF S
        <3> QED  BY <2>1, NewestIsKept
    <2>3. NewestPerArchitecture(S, KeepDevelopment) \subseteq RollingRoots(inv, Locks)
        BY DEF RollingRoots
    <2> QED  BY <2>2, <2>3 DEF Roots
<1> QED  BY <1>1, <1>2, <1>3

(* The newest image.                                                          *)
LEMMA NewestImageIsRoot ==
    ASSUME NEW inv, NEW g \in Markers(inv) \cap OfKind(ReleaseImages),
           \A h \in Markers(inv) \cap OfKind(ReleaseImages) : About[h].channel # "stable" => ~ Precedes(g, h)
    PROVE  g \in Roots(inv, Locks)
<1> DEFINE images_ == DevelopmentImages(inv)
           Mates(f) == {h \in images_ : About[h].bundle = About[f].bundle}
           Above(f, h) == \E i \in Mates(h) : \A j \in Mates(f) : Precedes(j, i)
           Newer(f) == {About[h].bundle : h \in {i \in images_ \ Mates(f) : Above(f, i)}}
<1>1. CASE g \in StableImages(inv)
    BY <1>1 DEF Roots
<1>2. CASE g \notin StableImages(inv)
    <2>1. g \in images_ /\ g \in Mates(g)
        BY <1>2 DEF DevelopmentImages
    <2>2. \A h \in images_ : ~ Precedes(g, h)
        BY DEF DevelopmentImages, StableImages
    <2>3. \A h : ~ Above(g, h)
        BY <2>1, <2>2
    <2>4. Newer(g) = {}
        BY <2>3
    <2>5. Cardinality(Newer(g)) < KeepDevelopment
        <3> HIDE DEF Newer
        <3> QED  BY <2>4, FS_EmptySet, SomeAreKept
    <2>6. BundleRoots(inv) = {f \in images_ : Cardinality(Newer(f)) < KeepDevelopment}
        BY DEF BundleRoots
    <2>7. g \in BundleRoots(inv)
        BY <2>1, <2>5, <2>6
    <2> QED  BY <2>7 DEF Roots
<1> QED  BY <1>1, <1>2

(* Roots are protected, and what a root with a marker was built against.        *)
LEMMA RootsAreProtected ==
    ASSUME NEW inv, NEW p \in Roots(inv, Locks)
    PROVE  /\ p \in Protected(inv, Locks)
           /\ p \in Markers(inv) => References(inv.built_against, p) \subseteq Protected(inv, Locks)
<1> DEFINE P == Roots(inv, Locks) \cup ISORoots(inv, Roots(inv, Locks))
<1>1. Protected(inv, Locks) = Closure(inv, P) /\ p \in P
    BY DEF Protected
<1> HIDE DEF P
<1>2. /\ p \in AddReferences(inv, P)
      /\ p \in Markers(inv) => References(inv.built_against, p) \subseteq AddReferences(inv, P)
    BY <1>1 DEF AddReferences
<1>3. AddReferences(inv, P) \subseteq Closure(inv, P)
    BY DEF Closure, AddReferences
<1> QED  BY <1>1, <1>2, <1>3

-----------------------------------------------------------------------------
(* What a plan spares.                                                       *)

(* A stored artifact that is a candidate was seen with its marker: one that is    *)
(* missing in the listing was put beside a file that is not old.               *)
LEMMA StoredIsMarked ==
    ASSUME IInv, sweep.stage = "listed", NEW P, NEW inputs, NEW g \in Artifacts, IsComplete(g),
           g \in Eligible(Inventory, P, inputs, clock)
    PROVE  g \in Markers(Inventory)
<1> DEFINE inv == Inventory
<1> SUFFICES ASSUME g \notin Markers(inv) PROVE FALSE
    OBVIOUS
<1>1. <<g, "complete">> \notin DOMAIN inv.objects /\ g \in Groups
    BY DEF Markers, Artifacts
<1> HIDE DEF inv
<1>2. <<g, "data">> \in DOMAIN inv.objects /\ inv.objects[<<g, "data">>] <= clock - OrphanGrace
    BY <1>1, UnmarkedIsOld DEF inv
<1>3. IsOrphan(<<g, "data">>)
    BY <1>1, <1>2, InventoryTells DEF inv
<1> QED  BY <1>3 DEF IsOrphan

(* What is still to be built is a candidate only as an orphan.                   *)
LEMMA UnstoredIsOrphan ==
    ASSUME IInv, sweep.stage = "listed", NEW P, NEW inputs, NEW g \in Artifacts, ~ IsComplete(g),
           g \in Eligible(Inventory, P, inputs, clock), NEW k \in Listed(Inventory, g)
    PROVE  IsOrphan(k)
<1> DEFINE inv == Inventory
<1>1. g \notin Markers(inv) /\ g \in Groups
    BY InventoryMarkers DEF Artifacts
<1>2. <<g, "complete">> \notin DOMAIN inv.objects
    BY <1>1 DEF Markers
<1> HIDE DEF inv
<1>3. /\ Listed(inv, g) = {<<g, "data">>} /\ <<g, "data">> \in DOMAIN inv.objects
      /\ inv.objects[<<g, "data">>] <= clock - OrphanGrace
    BY <1>2, UnmarkedIsOld DEF inv
<1>4. IsOrphan(<<g, "data">>)
    BY <1>1, <1>2, <1>3, InventoryTells DEF inv
<1> QED  BY <1>3, <1>4 DEF inv

(* The System and Packages of a release to come are roots as soon as they are     *)
(* marked.                                                                   *)
LEMMA ComponentToComeIsRoot ==
    ASSUME IInv, WholeInv, sweep.stage = "listed",
           NEW r \in Startable(last), NEW c \in ComponentsOf(r), c \in Markers(Inventory)
    PROVE  c \in Roots(Inventory, Locks)
<1>1. r \in Releases /\ r # None /\ IsRelease(r) /\ IsNewest(r, DOMAIN objects)
    BY ReleasesAreReleases, LimitsArePositive DEF Startable, WholeInv, NewestInv, None
<1>2. PICK kind \in Components :
          /\ c = Contents[r][kind] /\ c \in OfKind({kind})
          /\ About[c].train = TrainOf(Line(r)) /\ About[c].train \in {StableTrain, DevelopmentTrain}
    BY <1>1, ReleaseArtifacts
<1>3. \A g \in Markers(Inventory) : <<g, "complete">> \in DOMAIN objects
    BY InventoryMarkers DEF Markers, IsComplete
<1>4. \A g \in Markers(Inventory) \cap OfKind({kind}) :
          About[g].train = About[c].train /\ About[g].arch = About[c].arch => ~ Precedes(c, g)
    BY <1>1, <1>2, <1>3 DEF IsNewest
<1> QED  BY <1>2, <1>4, NewestComponentIsRoot

(* What a component was built against is protected with it.                     *)
LEMMA NeedsAreProtected ==
    ASSUME IInv, WholeInv, sweep.stage = "listed", NEW p, p \in OfKind(Components), IsComplete(p),
           p \in Markers(Inventory) => p \in Roots(Inventory, Locks),
           NEW h \in References(built_against, p), h \in Markers(Inventory)
    PROVE  h \in Protected(Inventory, Locks)
<1>1. BuiltInv /\ UnlistedInv
    BY DEF WholeInv
<1>2. /\ About[p].kind = "packages" /\ h = built_against[p] /\ h \in OfKind({"system"})
      /\ p \in Artifacts
    BY <1>1, NeedsOfComponents DEF OfKind, Artifacts
<1>3. CASE p \in Markers(Inventory)
    <2>1. Inventory.built_against = built_against
        BY DEF Inventory
    <2> QED  BY <1>3, <2>1, RootsAreProtected
<1>4. CASE p \notin Markers(Inventory)
    <2>1. <<p, "complete">> \notin DOMAIN sweep.listed
        BY <1>2, <1>4, InventoryMarkers
    <2>2. Unsuperseded(h)
        BY <1>1, <1>2, <2>1 DEF UnlistedInv, OfKind
    <2>3. \A g \in Markers(Inventory) : <<g, "complete">> \in DOMAIN sweep.listed
        BY InventoryMarkers DEF Markers
    <2>4. \A g \in Markers(Inventory) \cap OfKind({"system"}) :
              About[g].train = About[h].train /\ About[g].arch = About[h].arch => ~ Precedes(h, g)
        BY <2>2, <2>3 DEF Unsuperseded
    <2>5. h \in Roots(Inventory, Locks)
        BY <1>2, <2>2, <2>4, NewestComponentIsRoot DEF Unsuperseded, Components
    <2> QED  BY <2>5, RootsAreProtected
<1> QED  BY <1>3, <1>4

(* What the manifests and the aggregate release name is protected.               *)
LEMMA NamedIsProtected ==
    ASSUME IInv, WholeInv, sweep.stage = "listed",
           NEW g \in WithNeeds(built_against, Named(channels, images)), g \in Markers(Inventory)
    PROVE  g \in Protected(Inventory, Locks) /\ g \in Artifacts
<1>0. g \in Artifacts
    BY DEF Markers
<1>1. /\ \A line \in Lines : channels[line] # None => IsRelease(channels[line])
      /\ images # None => IsRelease(images) /\ Line(images) = "devel"
    BY DEF WholeInv, ReleasesInv
<1>2. Named(channels, images) \cup ComponentsOf(images) \subseteq Roots(Inventory, Locks)
    <2>1. Named(channels, images) \cup ComponentsOf(images) \subseteq PublishedRoots(Inventory)
        <3>1. /\ Inventory.channels = Serving(channels)
              /\ Inventory.completion = ComponentsOf(images) \cup ImagesOf(images)
            BY DEF Inventory
        <3> QED  BY <3>1 DEF Named, PublishedRoots
    <2> QED  BY <2>1 DEF Roots
<1>3. CASE g \in Named(channels, images)
    BY <1>0, <1>2, <1>3, RootsAreProtected
<1>4. ASSUME NEW line \in Lines, NEW p \in ComponentsOf(channels[line]), g \in References(built_against, p)
      PROVE  g \in Protected(Inventory, Locks)
    <2>1. channels[line] # None /\ IsRelease(channels[line])
        BY <1>1, <1>4 DEF ComponentsOf
    <2>2. p \in OfKind(Components) /\ p \in Artifacts
        BY <2>1, ReleaseArtifacts DEF OfKind
    <2>3. p \in Named(channels, images)
        BY DEF Named, Serving
    <2>4. Whole(p)
        BY <2>3 DEF WholeInv, ReachableInv, Reachable, Live, WithNeeds
    <2>5. IsComplete(p)
        BY <2>2, <2>4, WholeIsComplete
    <2> QED  BY <1>2, <1>4, <2>2, <2>3, <2>5, NeedsAreProtected
<1>5. ASSUME NEW p \in ImagesOf(images), g \in References(built_against, p)
      PROVE  g \in Protected(Inventory, Locks)
    <2>1. images # None /\ p = Contents[images].image
        BY DEF ImagesOf
    <2>2. g \in ComponentsOf(images)
        BY <1>1, <1>5, <2>1, ReleaseArtifacts
    <2> QED  BY <1>2, <2>2, RootsAreProtected
<1>6. g \in Named(channels, images)
        \/ \E p \in Named(channels, images) : g \in References(built_against, p)
    BY DEF WithNeeds
<1>7. \A p \in Named(channels, images) :
          (\E line \in Lines : p \in ComponentsOf(channels[line])) \/ p \in ImagesOf(images)
    BY DEF Named, Serving
<1> QED  BY <1>0, <1>3, <1>4, <1>5, <1>6, <1>7

(* What the next runs would find is protected.                                  *)
LEMMA UsableIsProtected ==
    ASSUME IInv, WholeInv, sweep.stage = "listed", NEW g \in Usable, g \in Markers(Inventory)
    PROVE  g \in Protected(Inventory, Locks)
<1>1. ASSUME NEW r \in Startable(last), NEW c \in ComponentsOf(r), IsComplete(c)
      PROVE  /\ c \in Markers(Inventory) => c \in Roots(Inventory, Locks)
             /\ g \in References(built_against, c) => g \in Protected(Inventory, Locks)
    <2>1. c \in Markers(Inventory) => c \in Roots(Inventory, Locks)
        BY ComponentToComeIsRoot
    <2>2. r \in Releases /\ r # None /\ IsRelease(r)
        BY ReleasesAreReleases, LimitsArePositive DEF Startable, None
    <2>3. c \in OfKind(Components)
        BY <2>2, ReleaseArtifacts DEF OfKind
    <2> QED  BY <1>1, <2>1, <2>3, NeedsAreProtected
<1>2. ASSUME NEW r \in Startable(last), Line(r) = "devel", NEW i, i = Contents[r].image, IsComplete(i)
      PROVE  /\ i \in Markers(Inventory) => i \in Roots(Inventory, Locks)
             /\ g \in References(built_against, i) => g \in Protected(Inventory, Locks)
    <2>1. r \in Releases /\ r # None /\ IsRelease(r) /\ IsNewest(r, DOMAIN objects)
        BY ReleasesAreReleases, LimitsArePositive DEF Startable, None, WholeInv, NewestInv
    <2>2. /\ i \in OfKind(ReleaseImages)
          /\ References(built_against, i) = ComponentsOf(r)
        BY <1>2, <2>1, ReleaseArtifacts
    <2>3. \A h \in Markers(Inventory) : <<h, "complete">> \in DOMAIN objects
        BY InventoryMarkers DEF Markers, IsComplete
    <2>4. \A h \in Markers(Inventory) \cap OfKind(ReleaseImages) :
              About[h].channel # "stable" => ~ Precedes(i, h)
        BY <1>2, <2>1, <2>3 DEF IsNewest
    <2>5. i \in Markers(Inventory) => i \in Roots(Inventory, Locks)
        BY <2>2, <2>4, NewestImageIsRoot
    <2>6. g \in ComponentsOf(r) => g \in Roots(Inventory, Locks)
        BY ComponentToComeIsRoot
    <2> QED  BY <2>2, <2>5, <2>6, RootsAreProtected
<1>3. \E p \in Found(last, DOMAIN objects) : g = p \/ g \in References(built_against, p)
    BY DEF Usable, WithNeeds
<1>4. PICK r \in Startable(last) : \E p \in ArtifactsOf(r) :
          IsComplete(p) /\ (g = p \/ g \in References(built_against, p))
    BY <1>3 DEF Found, IsComplete
<1>5. PICK p \in ArtifactsOf(r) : IsComplete(p) /\ (g = p \/ g \in References(built_against, p))
    BY <1>4
<1>6. p \in ComponentsOf(r) \/ (Line(r) = "devel" /\ p = Contents[r].image)
    BY <1>5 DEF ArtifactsOf
<1> QED  BY <1>1, <1>2, <1>5, <1>6, RootsAreProtected

(* What is named or usable is an artifact.                                       *)
LEMMA ReachableArtifacts ==
    ASSUME WholeInv, NEW g \in WithNeeds(built_against, Named(channels, images)) \cup Usable
    PROVE  g \in Artifacts
<1>1. BuiltInv /\ ReleasesInv
    BY DEF WholeInv
<1>2. ASSUME NEW r, IsRelease(r), r # None,
             NEW p, p \in ComponentsOf(r) \/ (Line(r) = "devel" /\ p = Contents[r].image)
      PROVE  p \in Artifacts /\ References(built_against, p) \subseteq Artifacts
    <2>1. CASE p \in ComponentsOf(r)
        <3>1. p \in Artifacts /\ p \in OfKind(Components)
            BY <1>2, <2>1, ReleaseArtifacts DEF OfKind
        <3> QED  BY <1>1, <3>1, NeedsOfComponents
    <2>2. CASE Line(r) = "devel" /\ p = Contents[r].image
        <3>1. /\ Contents[r].image \in Artifacts
              /\ References(built_against, Contents[r].image) = ComponentsOf(r)
              /\ \A c \in ComponentsOf(r) : c \in Artifacts
            BY <1>2, <2>2, ReleaseArtifacts
        <3> QED  BY <2>2, <3>1
    <2> QED  BY <1>2, <2>1, <2>2
<1>3. ASSUME NEW p \in Named(channels, images)
      PROVE  p \in Artifacts /\ References(built_against, p) \subseteq Artifacts
    <2>1. CASE \E line \in Lines : p \in ComponentsOf(channels[line])
        <3>1. PICK line \in Lines : p \in ComponentsOf(channels[line])
            BY <2>1
        <3>2. channels[line] # None /\ IsRelease(channels[line])
            BY <1>1, <3>1 DEF ComponentsOf, ReleasesInv
        <3> QED  BY <1>2, <3>1, <3>2
    <2>2. CASE p \in ImagesOf(images)
        <3>1. images # None /\ IsRelease(images) /\ Line(images) = "devel" /\ p = Contents[images].image
            BY <1>1, <2>2 DEF ImagesOf, ReleasesInv
        <3> QED  BY <1>2, <3>1
    <2> QED  BY <2>1, <2>2 DEF Named, Serving
<1>4. ASSUME NEW p \in Found(last, DOMAIN objects)
      PROVE  p \in Artifacts /\ References(built_against, p) \subseteq Artifacts
    <2>1. PICK r \in Startable(last) : p \in ArtifactsOf(r)
        BY DEF Found
    <2>2. r # None /\ IsRelease(r)
        BY ReleasesAreReleases, LimitsArePositive DEF Startable, None
    <2> QED  BY <1>2, <2>1, <2>2 DEF ArtifactsOf
<1> QED  BY <1>3, <1>4 DEF Usable, WithNeeds

(* The candidates of a plan: neither what is reachable now, nor what publishing    *)
(* and merging could make reachable before they are deleted.                    *)
LEMMA PlanSpares ==
    ASSUME IInv, WholeInv, sweep.stage = "listed", NEW batch \in Batches, NEW k \in KeysOf(batch)
    PROVE  /\ k \in DOMAIN objects /\ k[1] \notin Reachable
           /\ \A r \in Startable(last) :
                 /\ k[1] \in ArtifactsOf(r) => IsOrphan(k)
                 /\ Line(r) = "devel" => k[1] # Contents[r].download
           /\ k[1] \in Pins => k = <<k[1], "data">> /\ objects[k] <= clock - OrphanGrace
<1> DEFINE P == Protected(Inventory, Locks)
           E == Eligible(Inventory, P, pinned, clock)
           downloads == {x \in DOMAIN objects : About[x[1]].bucket = "downloads"}
<1>1. PICK g \in E : k \in Listed(Inventory, g)
    <2>1. batch = Batch(Inventory, E, observation.batch)
        BY DEF Batches, Candidates
    <2> HIDE DEF E
    <2>2. \A c \in batch : \E g \in E : c = Candidate(Inventory, g)
        BY <2>1, BatchIsOfCandidates
    <2> QED  BY <2>2 DEF KeysOf, Candidate
<1>2. k[1] = g /\ k \in DOMAIN Inventory.objects /\ k \in Keys(g)
    BY <1>1 DEF Listed, Keys
<1>3. \A x \in DOMAIN Inventory.objects : x \in DOMAIN objects /\ Inventory.objects[x] = objects[x]
    <2>1. /\ DOMAIN Inventory.objects = DOMAIN sweep.listed \cup downloads
          /\ \A x \in DOMAIN Inventory.objects :
                Inventory.objects[x] = IF x \in downloads THEN objects[x] ELSE sweep.listed[x]
        BY DEF Inventory
    <2> QED  BY <2>1 DEF IInv, ListedInv
<1>4. k \in DOMAIN objects
    BY <1>2, <1>3
<1>5. g \in Artifacts => g \notin P
    BY ProtectedIsSpared
<1>6. /\ About[g].kind = "download" => g \notin ProtectedDownloads(Inventory)
      /\ About[g].kind = "input" =>
            /\ g \notin ProtectedInputs(Inventory, P, pinned)
            /\ OldEnough(Inventory, g, clock, OrphanGrace)
    BY DEF Eligible, OfKind, Downloads, Artifacts, Components, ReleaseImages
<1> HIDE DEF P
<1>7. g \in Artifacts => ~ IsComplete(g) \/ g \notin WithNeeds(built_against, Named(channels, images)) \cup Usable
    BY <1>5, StoredIsMarked, NamedIsProtected, UsableIsProtected DEF P
<1> HIDE DEF E
<1>8. g \notin Reachable
    <2>1. g \notin WithNeeds(built_against, Named(channels, images)) \cup Usable
        <3> SUFFICES ASSUME g \in WithNeeds(built_against, Named(channels, images)) \cup Usable PROVE FALSE
            OBVIOUS
        <3>1. g \in Artifacts
            BY ReachableArtifacts
        <3>2. Whole(g)
            BY DEF WholeInv, ReachableInv, Reachable, Live
        <3> QED  BY <1>7, <3>1, <3>2, WholeIsComplete
    <2>2. g \notin DownloadOf(images)
        <3> SUFFICES ASSUME g \in DownloadOf(images) PROVE FALSE
            OBVIOUS
        <3>1. images # None /\ IsRelease(images) /\ Line(images) = "devel" /\ g = Contents[images].download
            BY DEF DownloadOf, WholeInv, ReleasesInv
        <3>2. About[g].kind = "download"
            BY <3>1, ReleaseArtifacts
        <3>3. g \in ProtectedDownloads(Inventory)
            BY DEF ProtectedDownloads, Inventory
        <3> QED  BY <1>6, <3>2, <3>3
    <2>3. g \notin pinned
        <3> SUFFICES ASSUME g \in pinned PROVE FALSE
            OBVIOUS
        <3>1. About[g].kind = "input"
            BY ReleasesAreReleases DEF WholeInv, ReleasesInv, OfKind
        <3> QED  BY <1>6, <3>1 DEF ProtectedInputs
    <2> QED  BY <2>1, <2>2, <2>3 DEF Reachable, Live
<1>9. ASSUME NEW r \in Startable(last)
      PROVE  /\ g \in ArtifactsOf(r) => IsOrphan(k)
             /\ Line(r) = "devel" => g # Contents[r].download
    <2>1. r \in Releases /\ r # None /\ IsRelease(r) /\ IsNewest(r, DOMAIN objects)
        BY ReleasesAreReleases, LimitsArePositive DEF Startable, None, WholeInv, NewestInv
    <2>2. ASSUME g \in ArtifactsOf(r) PROVE IsOrphan(k)
        <3>1. g \in Artifacts
            BY <2>1, <2>2, ReleaseArtifacts DEF ArtifactsOf
        <3>2. IsComplete(g) => g \in Usable
            BY <2>2 DEF Usable, WithNeeds, Found, IsComplete
        <3>3. ~ IsComplete(g)
            BY <1>8, <3>2 DEF Reachable
        <3> QED  BY <1>1, <3>1, <3>3, UnstoredIsOrphan DEF E
    <2>3. ASSUME Line(r) = "devel", g = Contents[r].download PROVE FALSE
        <3>1. /\ g \in Groups /\ About[g].kind = "download" /\ About[g].train = DevelopmentTrain
            BY <2>1, <2>3, ReleaseArtifacts
        <3>2. g \in Downloads(Inventory)
            BY <1>1, <3>1 DEF Downloads, Present, OfKind
        <3>3. \A h \in Downloads(Inventory) : <<h, "data">> \in DOMAIN objects /\ h \in OfKind({"download"})
            <4> SUFFICES ASSUME NEW h \in Downloads(Inventory)
                         PROVE  <<h, "data">> \in DOMAIN objects /\ h \in OfKind({"download"})
                OBVIOUS
            <4>1. h \in OfKind({"download"}) /\ Listed(Inventory, h) # {}
                BY DEF Downloads, Present
            <4>2. Keys(h) = {<<h, "data">>}
                BY <4>1 DEF OfKind, Keys, Artifacts, Components, ReleaseImages
            <4> QED  BY <1>3, <4>1, <4>2 DEF Listed
        <3>4. {h \in Downloads(Inventory) : About[h].train = DevelopmentTrain /\ Precedes(g, h)} = {}
            BY <2>1, <2>3, <3>3 DEF IsNewest
        <3>5. Cardinality({h \in Downloads(Inventory) :
                              About[h].train = DevelopmentTrain /\ Precedes(g, h)}) < KeepDevelopment
            <4> DEFINE above == {h \in Downloads(Inventory) :
                                    About[h].train = DevelopmentTrain /\ Precedes(g, h)}
            <4>1. above = {}
                BY <3>4
            <4>2. ASSUME NEW x, x = {} PROVE Cardinality(x) < KeepDevelopment
                BY <4>2, FS_EmptySet, SomeAreKept
            <4> HIDE DEF above
            <4>3. Cardinality(above) < KeepDevelopment
                BY <4>1, <4>2
            <4> QED  BY <4>3 DEF above
        <3>6. g \in ProtectedDownloads(Inventory)
            BY <3>1, <3>2, <3>5 DEF ProtectedDownloads
        <3> QED  BY <1>6, <3>1, <3>6
    <2> QED  BY <2>2, <2>3
<1>10. ASSUME g \in Pins PROVE k = <<g, "data">> /\ objects[k] <= clock - OrphanGrace
    <2>1. About[g].kind = "input" /\ Keys(g) = {<<g, "data">>}
        BY <1>10, ReleasesAreReleases DEF OfKind, Keys, Artifacts, Components, ReleaseImages
    <2>2. Listed(Inventory, g) = {k}
        BY <1>1, <2>1 DEF Listed
    <2>3. {Inventory.objects[x] : x \in Listed(Inventory, g)} = {Inventory.objects[k]}
        BY <2>2
    <2>4. NewestTime(Inventory, g) \in {Inventory.objects[k]}
        <3>1. objects[k] \in Nat
            BY <1>4 DEF IInv, ShapeInv
        <3>2. \E t \in {Inventory.objects[k]} : \A x \in Listed(Inventory, g) : Inventory.objects[x] <= t
            BY <1>2, <1>3, <2>2, <3>1
        <3> QED  BY <2>3, <3>2 DEF NewestTime
    <2> QED  BY <1>2, <1>3, <1>6, <2>1, <2>4 DEF OldEnough
<1> QED  BY <1>2, <1>4, <1>8, <1>9, <1>10

-----------------------------------------------------------------------------
(* What publishing leaves.                                                    *)

(* The run works on a release that may be started, and has what it finished.     *)
LEMMA JobFacts ==
    ASSUME WholeInv, job # NoJob
    PROVE  /\ job = [release |-> job.release, stage |-> job.stage]
           /\ job.release \in Startable(last) /\ job.release \in Releases
           /\ job.release # None /\ IsRelease(job.release) /\ Line(job.release) \in Lines
           /\ last[Line(job.release)] = job.release
           /\ \A g \in Finished : IsComplete(g)
           /\ \A g \in ArtifactsOf(job.release) : IsComplete(g) => g \in Found(last, DOMAIN objects)
<1>1. /\ job = [release |-> job.release, stage |-> job.stage]
      /\ job.release \in Releases /\ last[Line(job.release)] = job.release
      /\ \A g \in Finished : IsComplete(g)
    BY DEF WholeInv, JobInv
<1>2. job.release \in Nat \ {0} /\ IsRelease(job.release) /\ Line(job.release) \in Lines
    BY <1>1, ReleasesAreReleases, LimitsArePositive
<1>3. job.release \in Startable(last)
    BY <1>1, <1>2 DEF Startable
<1> QED  BY <1>1, <1>2, <1>3 DEF None, Found, IsComplete

(* The stages follow each other.                                               *)
LEMMA ProceedGoesOn ==
    ASSUME Proceed, job = [release |-> job.release, stage |-> job.stage]
    PROVE  /\ job' = [release |-> job.release, stage |-> job'.stage]
           /\ <<job.stage, job'.stage>> \in
                  {<<"system", "packages">>, <<"packages", "sign">>, <<"sign", "commit">>,
                   <<"commit", "image">>, <<"image", "images">>}
<1>1. PICK i \in 1..5 : Stages[i] = job.stage /\ job' = [job EXCEPT !.stage = Stages[i + 1]]
    BY DEF Proceed, Goto
<1>2. job' = [release |-> job.release, stage |-> Stages[i + 1]]
    BY <1>1
<1>3. /\ Stages[1] = "system" /\ Stages[2] = "packages" /\ Stages[3] = "sign"
      /\ Stages[4] = "commit" /\ Stages[5] = "image" /\ Stages[6] = "images"
    BY DEF Stages
<1>4. i = 1 \/ i = 2 \/ i = 3 \/ i = 4 \/ i = 5
    BY <1>1
<1>5. job.stage = Stages[i] /\ job'.stage = Stages[i + 1]
    BY <1>1, <1>2
<1>6. CASE i = 1
    BY <1>2, <1>3, <1>5, <1>6
<1>7. CASE i = 2
    BY <1>2, <1>3, <1>5, <1>7
<1>8. CASE i = 3
    BY <1>2, <1>3, <1>5, <1>8
<1>9. CASE i = 4
    BY <1>2, <1>3, <1>5, <1>9
<1>10. CASE i = 5
    BY <1>2, <1>3, <1>5, <1>10
<1> QED  BY <1>4, <1>6, <1>7, <1>8, <1>9, <1>10

(* An artifact that is stored when its stage ends is one that the run finished.   *)
LEMMA BuildingFinishes ==
    ASSUME WholeInv, Building, Proceed, last' = last,
           DOMAIN objects \cup {<<Target, "complete">>} \subseteq DOMAIN objects'
    PROVE  JobInv'
<1>1. job # NoJob
    BY DEF Building, NoJob
<1>2. /\ job = [release |-> job.release, stage |-> job.stage] /\ job.release \in Releases
      /\ last[Line(job.release)] = job.release
      /\ job.stage \in {"image", "images"} => Line(job.release) = "devel"
      /\ \A g \in Finished : IsComplete(g)
      /\ job.release # None
    BY <1>1, JobFacts DEF WholeInv, JobInv
<1>3. /\ job' = [release |-> job.release, stage |-> job'.stage]
      /\ <<job.stage, job'.stage>> \in {<<"system", "packages">>, <<"packages", "sign">>, <<"image", "images">>}
    BY <1>2, ProceedGoesOn DEF Building
<1>4. job'.release = job.release /\ last'[Line(job.release)] = job.release
    BY <1>2, <1>3
<1>5. \A g \in Finished' : g \in Finished \/ g = Target
    <2>1. CASE job.stage = "system"
        BY <1>2, <1>3, <1>4, <2>1 DEF Finished, Target
    <2>2. CASE job.stage = "packages"
        BY <1>2, <1>3, <1>4, <2>2 DEF Finished, Target, ComponentsOf
    <2>3. CASE job.stage = "image"
        BY <1>2, <1>3, <1>4, <2>3 DEF Finished, Target, ImagesOf
    <2> QED  BY <1>3, <2>1, <2>2, <2>3
<1>6. \A g \in Finished' : IsComplete(g)'
    BY <1>2, <1>5 DEF IsComplete
<1>7. job'.stage \in {"system", "packages", "sign", "commit", "image", "images"}
    BY <1>3
<1>8. job'.stage \in {"image", "images"} => Line(job.release) = "devel"
    BY <1>2, <1>3
<1> QED  BY <1>2, <1>3, <1>4, <1>6, <1>7, <1>8 DEF JobInv

(* Steps that change nothing but the run and the cycle.                          *)
LEMMA QuietKeepsWhole ==
    ASSUME WholeInv, JobInv', UNCHANGED <<objects, built_against, channels, images, last, pinned, clock, sweep>>
    PROVE  WholeInv'
<1>1. ReleasesInv' /\ BuiltInv' /\ NewestInv'
    BY DEF WholeInv, ReleasesInv, BuiltInv, NewestInv
<1>2. UnlistedInv'
    BY DEF WholeInv, UnlistedInv, Unsuperseded, IsComplete
<1>3. Reachable' = Reachable /\ \A k : IsOrphan(k)' = IsOrphan(k)
    BY DEF Reachable, Live, Usable, IsOrphan, IsComplete
<1>4. ReachableInv'
    BY <1>3 DEF WholeInv, ReachableInv, Whole
<1>5. SparedInv'
    BY <1>3 DEF WholeInv, SparedInv
<1> QED  BY <1>1, <1>2, <1>4, <1>5 DEF WholeInv

(* A publishing step may make reachable what is whole and no sweep is about to     *)
(* delete.                                                                   *)
LEMMA GrowingSpares ==
    ASSUME IInv, WholeInv, Growing, Startable(last') \subseteq Startable(last),
           \A g \in Reachable' : \/ g \in Reachable
                                 \/ /\ Whole(g)'
                                    /\ sweep.stage = "planned" => \A k \in sweep.left : k[1] # g
    PROVE  ReachableInv' /\ SparedInv'
<1>1. /\ UNCHANGED <<clock, sweep>>
      /\ \A k \in DOMAIN objects : k \in DOMAIN objects' /\ objects'[k] = objects[k]
      /\ \A g : IsComplete(g)' =>
            \/ IsComplete(g)
            \/ <<g, "data">> \in DOMAIN objects /\ clock - objects[<<g, "data">>] < OrphanGrace
    BY DEF Growing, retaining
<1>2. ReachableInv'
    <2>1. \A g : Whole(g) => Whole(g)'
        BY <1>1 DEF Whole
    <2> QED  BY <2>1 DEF WholeInv, ReachableInv
<1>3. \A k : IsOrphan(k) => IsOrphan(k)'
    <2> SUFFICES ASSUME NEW k, IsOrphan(k) PROVE IsOrphan(k)'
        OBVIOUS
    <2>1. k = <<k[1], "data">> /\ k \in DOMAIN objects /\ objects[k] <= clock - OrphanGrace /\ ~IsComplete(k[1])
        BY DEF IsOrphan
    <2>2. objects[k] \in Nat /\ clock \in Nat /\ OrphanGrace \in Nat
        BY <2>1, TimesAreNumbers DEF IInv, ShapeInv
    <2>3. ~ (clock - objects[k] < OrphanGrace)
        BY <2>1, <2>2
    <2>4. ~IsComplete(k[1])'
        BY <1>1, <2>1, <2>3
    <2> QED  BY <1>1, <2>1, <2>4 DEF IsOrphan
<1>4. SparedInv'
    <2> SUFFICES ASSUME sweep.stage = "planned", NEW k \in sweep.left
                 PROVE  /\ k \in DOMAIN objects' /\ k[1] \notin Reachable'
                        /\ \A r \in Startable(last') :
                              /\ k[1] \in ArtifactsOf(r) => IsOrphan(k)'
                              /\ Line(r) = "devel" => k[1] # Contents[r].download
                        /\ k[1] \in Pins => k = <<k[1], "data">> /\ objects'[k] <= clock - OrphanGrace
        BY <1>1 DEF SparedInv
    <2>1. /\ k \in DOMAIN objects /\ k[1] \notin Reachable
          /\ \A r \in Startable(last) :
                /\ k[1] \in ArtifactsOf(r) => IsOrphan(k)
                /\ Line(r) = "devel" => k[1] # Contents[r].download
          /\ k[1] \in Pins => k = <<k[1], "data">> /\ objects[k] <= clock - OrphanGrace
        BY DEF WholeInv, SparedInv
    <2> QED  BY <1>1, <1>3, <2>1
<1> QED  BY <1>2, <1>4

(* Starting a run.                                                            *)
LEMMA BeginKeepsWhole ==
    ASSUME IInv, WholeInv, NEW r \in Releases, Begin(r)
    PROVE  WholeInv'
<1>1. /\ r >= last[Line(r)] /\ job' = [release |-> r, stage |-> "system"]
      /\ last' = [last EXCEPT ![Line(r)] = r]
      /\ UNCHANGED <<objects, built_against, channels, images, pinned, clock, retaining>>
    BY DEF Begin
<1>2. ReleasesInv /\ BuiltInv /\ NewestInv /\ UnlistedInv
    BY DEF WholeInv
<1>3. r \in Nat \ {0} /\ Line(r) \in Lines
    BY ReleasesAreReleases, LimitsArePositive
<1>4. last' \in [Lines -> Nat] /\ \A line \in Lines : last'[line] >= last[line]
    BY <1>1, <1>2, <1>3 DEF ReleasesInv
<1>5. Startable(last') \subseteq Startable(last)
    <2> SUFFICES ASSUME NEW s \in Releases, s >= last'[Line(s)] PROVE s >= last[Line(s)]
        BY DEF Startable
    <2>1. s \in Nat /\ Line(s) \in Lines
        BY ReleasesAreReleases, LimitsArePositive
    <2>2. last'[Line(s)] \in Nat /\ last[Line(s)] \in Nat /\ last'[Line(s)] >= last[Line(s)]
        BY <1>2, <1>4, <2>1 DEF ReleasesInv
    <2> QED  BY <2>1, <2>2
<1>6. ReleasesInv'
    BY <1>1, <1>2, <1>4 DEF ReleasesInv
<1>7. JobInv'
    <2>1. last'[Line(r)] = r
        BY <1>1, <1>2, <1>3 DEF ReleasesInv
    <2>2. Finished' = {}
        BY <1>1 DEF Finished
    <2> QED  BY <1>1, <2>1, <2>2 DEF JobInv
<1>8. BuiltInv' /\ NewestInv'
    BY <1>1, <1>2, <1>5 DEF BuiltInv, NewestInv
<1>9. UnlistedInv'
    BY <1>1, <1>2 DEF UnlistedInv, Unsuperseded, IsComplete, retaining
<1>10. Growing
    BY <1>1, PublishingGrows DEF Publish
<1>11. Reachable' \subseteq Reachable
    <2>1. Found(last', DOMAIN objects) \subseteq Found(last, DOMAIN objects)
        BY <1>5 DEF Found
    <2>2. \A A, B : A \subseteq B => WithNeeds(built_against, A) \subseteq WithNeeds(built_against, B)
        BY DEF WithNeeds
    <2>3. Usable' \subseteq Usable
        BY <1>1, <2>1, <2>2 DEF Usable
    <2>4. Live' = Live
        BY <1>1 DEF Live
    <2> QED  BY <2>3, <2>4 DEF Reachable
<1>12. ReachableInv' /\ SparedInv'
    BY <1>5, <1>10, <1>11, GrowingSpares
<1> QED  BY <1>6, <1>7, <1>8, <1>9, <1>12 DEF WholeInv

(* The artifact that is built is one of the run's release.                       *)
LEMMA TargetIsOfRelease ==
    ASSUME WholeInv, Building
    PROVE  /\ job # NoJob /\ Target \in ArtifactsOf(job.release) /\ Target \in Artifacts
           /\ job.stage = "system" => Target = Contents[job.release].system /\ About[Target].kind = "system"
           /\ job.stage = "packages" => Target = Contents[job.release].packages /\ About[Target].kind = "packages"
           /\ job.stage = "image" => /\ Target = Contents[job.release].image
                                     /\ Target \in OfKind(ReleaseImages) /\ Line(job.release) = "devel"
<1>1. job # NoJob
    BY DEF Building, NoJob
<1>2. job.release # None /\ IsRelease(job.release) /\ (job.stage = "image" => Line(job.release) = "devel")
    BY <1>1, JobFacts DEF WholeInv, JobInv
<1>3. /\ Contents[job.release].system \in OfKind({"system"})
      /\ Contents[job.release].packages \in OfKind({"packages"})
      /\ ComponentsOf(job.release) = {Contents[job.release].system, Contents[job.release].packages}
    BY <1>2 DEF IsRelease, Components, ComponentsOf
<1>4. CASE job.stage = "system"
    BY <1>1, <1>3, <1>4 DEF Target, ArtifactsOf, OfKind, Artifacts, Components
<1>5. CASE job.stage = "packages"
    BY <1>1, <1>3, <1>5 DEF Target, ArtifactsOf, OfKind, Artifacts, Components
<1>6. CASE job.stage = "image"
    <2>1. Target = Contents[job.release].image
        BY <1>6 DEF Target
    <2>2. Target \in Artifacts /\ Target \in OfKind(ReleaseImages)
        BY <1>2, <1>6, <2>1, ReleaseArtifacts
    <2> QED  BY <1>1, <1>2, <1>6, <2>1, <2>2 DEF ArtifactsOf
<1> QED  BY <1>4, <1>5, <1>6 DEF Building

(* Files without a marker are not reachable, and supersede nothing.               *)
LEMMA UploadDataKeepsWhole ==
    ASSUME IInv, WholeInv, UploadData
    PROVE  WholeInv'
<1> DEFINE t == Target
<1>1. /\ Building /\ objects' = Put(<<t, "data">>)
      /\ UNCHANGED <<built_against, publishing, pinned, clock, retaining>>
    BY DEF UploadData
<1>2. t \in Artifacts
    BY <1>1, TargetIsOfRelease
<1> HIDE DEF t
<1>3. DOMAIN objects' = DOMAIN objects \cup {<<t, "data">>}
    BY <1>1, PutAdds DEF IInv
<1>4. ReleasesInv' /\ BuiltInv'
    BY <1>1 DEF WholeInv, ReleasesInv, BuiltInv, publishing
<1>5. \A g : IsComplete(g)' = IsComplete(g)
    BY <1>3 DEF IsComplete
<1>6. JobInv'
    <2>1. Finished' = Finished
        BY <1>1 DEF Finished, publishing
    <2> QED  BY <1>1, <1>5, <2>1 DEF WholeInv, JobInv, publishing
<1>7. NewestInv'
    <2> SUFFICES ASSUME NEW r \in Startable(last), IsNewest(r, DOMAIN objects)
                 PROVE  IsNewest(r, DOMAIN objects')
        BY <1>1 DEF WholeInv, NewestInv, publishing
    <2>1. \A g : <<g, "complete">> \in DOMAIN objects' => <<g, "complete">> \in DOMAIN objects
        BY <1>3
    <2>2. \A g \in OfKind({"download"}) : <<g, "data">> \in DOMAIN objects' => <<g, "data">> \in DOMAIN objects
        BY <1>2, <1>3 DEF OfKind, Artifacts, Components, ReleaseImages
    <2> QED  BY <2>1, <2>2 DEF IsNewest
<1>8. UnlistedInv'
    BY <1>1, <1>5 DEF WholeInv, UnlistedInv, Unsuperseded, publishing, retaining
<1>9. Growing
    BY PublishingGrows DEF Publish
<1>10. Reachable' = Reachable
    <2>1. Found(last, DOMAIN objects') = Found(last, DOMAIN objects)
        BY <1>3 DEF Found
    <2> QED  BY <1>1, <2>1 DEF Reachable, Live, Usable, publishing
<1>11. ReachableInv' /\ SparedInv'
    BY <1>1, <1>9, <1>10, GrowingSpares DEF publishing
<1> QED  BY <1>4, <1>6, <1>7, <1>8, <1>11 DEF WholeInv

(* A marker makes its artifact usable, and the newest.                            *)
LEMMA MarkerStaysNewest ==
    ASSUME WholeInv, Building, DOMAIN objects' = DOMAIN objects \cup {<<Target, "complete">>},
           NEW s \in Startable(last)
    PROVE  IsNewest(s, DOMAIN objects')
<1> DEFINE t == Target
           r == job.release
<1>1. /\ job # NoJob /\ r \in Releases /\ IsRelease(r) /\ r # None /\ Line(r) \in Lines
      /\ last[Line(r)] = r
    BY TargetIsOfRelease, JobFacts
<1>2. /\ job.stage = "system" => t = Contents[r].system /\ About[t].kind = "system"
      /\ job.stage = "packages" => t = Contents[r].packages /\ About[t].kind = "packages"
      /\ job.stage = "image" => t = Contents[r].image /\ t \in OfKind(ReleaseImages) /\ Line(r) = "devel"
    BY TargetIsOfRelease
<1>3. DOMAIN objects' = DOMAIN objects \cup {<<t, "complete">>}
    OBVIOUS
<1>4. job.stage \in {"system", "packages", "image"}
    BY DEF Building
<1> HIDE DEF t
<1>5. s \in Releases /\ s >= last[Line(s)] /\ Line(s) \in Lines /\ IsNewest(s, DOMAIN objects)
    BY ReleasesAreReleases DEF Startable, WholeInv, NewestInv
<1>6. Line(s) = Line(r) => r <= s
    BY <1>1, <1>5, LimitsArePositive
<1>7. ASSUME NEW kind \in Components, t \in OfKind({kind}), About[t].train = TrainOf(Line(s))
      PROVE  ~ Precedes(Contents[s][kind], t)
    <2>1. t = Contents[r][kind]
        <3>1. About[t].kind = kind
            BY <1>7 DEF OfKind
        <3>2. job.stage # "image"
            BY <1>2, <3>1 DEF Components, OfKind, ReleaseImages
        <3> QED  BY <1>2, <1>4, <3>1, <3>2
    <2>2. About[t].train = TrainOf(Line(r))
        BY <1>1, <2>1 DEF IsRelease
    <2>3. Line(s) = Line(r)
        BY <1>1, <1>5, <1>7, <2>2, TrainsDiffer DEF TrainOf, Lines
    <2> QED  BY <1>1, <1>5, <1>6, <2>1, <2>3, SourcesMoveForward
<1>8. ASSUME t \in OfKind(ReleaseImages), Line(s) = "devel"
      PROVE  ~ Precedes(Contents[s].image, t)
    <2>1. t = Contents[r].image /\ Line(r) = "devel"
        BY <1>2, <1>4, <1>8 DEF OfKind, ReleaseImages
    <2> QED  BY <1>1, <1>5, <1>6, <1>8, <2>1, SourcesMoveForward
<1>9. \A g : <<g, "complete">> \in DOMAIN objects' => g = t \/ <<g, "complete">> \in DOMAIN objects
    BY <1>3
<1>10. \A g : <<g, "data">> \in DOMAIN objects' => <<g, "data">> \in DOMAIN objects
    BY <1>3
<1>11. \A kind \in Components : \A g \in OfKind({kind}) :
           /\ <<g, "complete">> \in DOMAIN objects'
           /\ About[g].train = TrainOf(Line(s)) /\ About[g].arch = About[Contents[s][kind]].arch
           => ~ Precedes(Contents[s][kind], g)
    BY <1>5, <1>7, <1>9 DEF IsNewest
<1>12. Line(s) = "devel" =>
           /\ \A g \in OfKind(ReleaseImages) :
                  <<g, "complete">> \in DOMAIN objects' /\ About[g].channel # "stable" => ~ Precedes(Contents[s].image, g)
           /\ \A g \in OfKind({"download"}) :
                  <<g, "data">> \in DOMAIN objects' /\ About[g].train = DevelopmentTrain => ~ Precedes(Contents[s].download, g)
    BY <1>5, <1>8, <1>9, <1>10 DEF IsNewest
<1> QED  BY <1>11, <1>12 DEF IsNewest

LEMMA UploadMarkerKeepsWhole ==
    ASSUME IInv, WholeInv, UploadMarker
    PROVE  WholeInv'
<1> DEFINE r == job.release
<1>0. PICK t : t = Target
    OBVIOUS
<1>1. /\ Building /\ ~ IsComplete(t) /\ <<t, "data">> \in DOMAIN objects
      /\ clock - objects[<<t, "data">>] < OrphanGrace
      /\ objects' = Put(<<t, "complete">>) /\ Proceed
      /\ built_against' = IF job.stage = "packages"
                          THEN [built_against EXCEPT ![t] = Contents[r].system]
                          ELSE built_against
      /\ UNCHANGED <<cycle, channels, images, last, runs, pinned, clock, retaining>>
    BY <1>0 DEF UploadMarker, Stored, IsComplete
<1>2. /\ t \in ArtifactsOf(r) /\ t \in Artifacts /\ job # NoJob
      /\ job.stage = "system" => t = Contents[r].system /\ About[t].kind = "system"
      /\ job.stage = "packages" => t = Contents[r].packages /\ About[t].kind = "packages"
      /\ job.stage = "image" => t = Contents[r].image /\ t \in OfKind(ReleaseImages) /\ Line(r) = "devel"
    BY <1>0, <1>1, TargetIsOfRelease
<1>3. /\ r \in Startable(last) /\ r # None /\ IsRelease(r)
      /\ \A g \in Finished : IsComplete(g)
      /\ \A g \in ArtifactsOf(r) : IsComplete(g) => g \in Found(last, DOMAIN objects)
    BY <1>2, JobFacts
<1>4. DOMAIN objects' = DOMAIN objects \cup {<<t, "complete">>}
    BY <1>1, PutAdds DEF IInv
<1>5. JobInv'
    BY <1>0, <1>1, <1>4, BuildingFinishes
<1>6. NewestInv'
    BY <1>0, <1>1, <1>4, MarkerStaysNewest DEF NewestInv
<1>7. \A g : IsComplete(g)' <=> IsComplete(g) \/ g = t
    BY <1>4 DEF IsComplete
<1>8. /\ Contents[r].system \in OfKind({"system"}) /\ About[Contents[r].system].train = TrainOf(Line(r))
      /\ ComponentsOf(r) = {Contents[r].system, Contents[r].packages}
    BY <1>3 DEF IsRelease, Components, ComponentsOf
<1>9. BuiltInv' /\ \A p \in Groups : p # t => built_against'[p] = built_against[p]
    <2>1. BuiltInv /\ t \in Groups
        BY <1>2 DEF WholeInv, Artifacts
    <2> QED  BY <1>1, <1>8, <2>1 DEF BuiltInv
<1>10. ReleasesInv'
    BY <1>1 DEF WholeInv, ReleasesInv
<1>11. UnlistedInv'
    <2> SUFFICES ASSUME sweep.stage = "listed", NEW p \in OfKind({"packages"}), IsComplete(p)'
                 PROVE  <<p, "complete">> \in DOMAIN sweep.listed \/ Unsuperseded(built_against'[p])
        BY <1>1 DEF UnlistedInv, Unsuperseded, retaining
    <2>1. CASE p # t
        <3>1. IsComplete(p) /\ built_against'[p] = built_against[p]
            BY <1>7, <1>9, <2>1 DEF OfKind
        <3> QED  BY <3>1 DEF WholeInv, UnlistedInv
    <2>2. CASE p = t
        <3>1. job.stage = "packages"
            BY <1>1, <1>2, <2>2 DEF OfKind, Building, ReleaseImages
        <3>2. built_against'[t] = Contents[r].system
            BY <1>1, <2>2, <3>1 DEF WholeInv, BuiltInv, OfKind
        <3>3. IsNewest(r, DOMAIN objects)
            BY <1>3 DEF WholeInv, NewestInv
        <3>4. \A k \in DOMAIN sweep.listed : k \in DOMAIN objects
            BY DEF IInv, ListedInv
        <3>5. Unsuperseded(Contents[r].system)
            BY <1>8, <3>3, <3>4 DEF Unsuperseded, IsNewest, Components, TrainOf
        <3> QED  BY <2>2, <3>2, <3>5
    <2> QED  BY <2>1, <2>2
<1>12. Growing
    BY PublishingGrows DEF Publish
<1>13. \A p \in Artifacts : p # t => References(built_against', p) = References(built_against, p)
    BY <1>9 DEF References, Artifacts
<1>14. References(built_against', t) \subseteq Usable
    <2>1. CASE job.stage = "system"
        BY <1>2, <2>1 DEF References, ReleaseImages
    <2>2. CASE job.stage = "packages"
        <3>1. built_against'[t] = Contents[r].system
            BY <1>1, <1>2, <2>2 DEF WholeInv, BuiltInv, Artifacts
        <3>2. References(built_against', t) \subseteq {Contents[r].system}
            BY <1>2, <2>2, <3>1 DEF References, ReleaseImages
        <3>3. Contents[r].system \in Finished
            BY <2>2 DEF Finished
        <3> QED  BY <1>3, <1>8, <3>2, <3>3 DEF Usable, WithNeeds, ArtifactsOf
    <2>3. CASE job.stage = "image"
        <3>1. References(built_against', t) = ComponentsOf(r)
            BY <1>2, <1>3, <2>3, ReleaseArtifacts
        <3>2. Finished = ComponentsOf(r)
            BY <2>3 DEF Finished
        <3> QED  BY <1>3, <3>1, <3>2 DEF Usable, WithNeeds, ArtifactsOf
    <2> QED  BY <1>1, <2>1, <2>2, <2>3 DEF Building
<1>15. \A p \in Found(last, DOMAIN objects) \cup Named(channels, images) : p \in Artifacts /\ p # t
    <2> SUFFICES ASSUME NEW p \in Found(last, DOMAIN objects) \cup Named(channels, images)
                 PROVE  p \in Artifacts /\ p # t
        OBVIOUS
    <2>1. p \in WithNeeds(built_against, Named(channels, images)) \cup Usable
        BY DEF Usable, WithNeeds
    <2>2. p \in Artifacts
        BY <2>1, ReachableArtifacts
    <2>3. Whole(p)
        BY <2>1 DEF WholeInv, ReachableInv, Reachable, Live
    <2>4. IsComplete(p)
        BY <2>2, <2>3, WholeIsComplete
    <2> QED  BY <1>1, <2>2, <2>4
<1>16. Found(last, DOMAIN objects') \subseteq Found(last, DOMAIN objects) \cup {t}
    BY <1>4 DEF Found
<1>17. \A g \in Reachable' : g \in Reachable \/ g = t
    <2>1. /\ channels' = channels /\ images' = images /\ last' = last /\ pinned' = pinned
        BY <1>1
    <2>2. WithNeeds(built_against', Named(channels, images)) \subseteq WithNeeds(built_against, Named(channels, images))
        BY <1>13, <1>15 DEF WithNeeds
    <2>3. WithNeeds(built_against', Found(last, DOMAIN objects')) \subseteq Usable \cup {t}
        BY <1>13, <1>14, <1>15, <1>16 DEF WithNeeds, Usable
    <2> QED  BY <2>1, <2>2, <2>3 DEF Reachable, Live, Usable
<1>18. Whole(t)'
    BY <1>1, <1>4 DEF Whole, Keys
<1>19. sweep.stage = "planned" => \A k \in sweep.left : k[1] # t
    <2> SUFFICES ASSUME sweep.stage = "planned", NEW k \in sweep.left, k[1] = t PROVE FALSE
        OBVIOUS
    <2>1. IsOrphan(k)
        BY <1>2, <1>3 DEF WholeInv, SparedInv
    <2>2. k = <<t, "data">> /\ objects[k] <= clock - OrphanGrace
        BY <2>1 DEF IsOrphan
    <2>3. objects[k] \in Nat /\ clock \in Nat /\ OrphanGrace \in Nat
        BY <1>1, <2>2, TimesAreNumbers DEF IInv, ShapeInv
    <2> QED  BY <1>1, <2>2, <2>3
<1>20. ReachableInv' /\ SparedInv'
    BY <1>1, <1>12, <1>17, <1>18, <1>19, GrowingSpares
<1> QED  BY <1>5, <1>6, <1>9, <1>10, <1>11, <1>20 DEF WholeInv

(* A manifest names what the run finished.                                       *)
LEMMA CommitKeepsWhole ==
    ASSUME IInv, WholeInv, CommitChannel
    PROVE  WholeInv'
<1> DEFINE r == job.release
<1>1. /\ job.stage = "commit" /\ channels' = [channels EXCEPT ![Line(r)] = r]
      /\ (ImagesDue /\ Proceed) \/ job' = NoJob
      /\ UNCHANGED <<objects, built_against, cycle, images, last, runs, pinned, clock, retaining>>
    BY DEF CommitChannel
<1>2. job # NoJob
    BY <1>1 DEF NoJob
<1>3. /\ job = [release |-> r, stage |-> job.stage] /\ r \in Releases /\ r \in Startable(last)
      /\ r # None /\ IsRelease(r) /\ Line(r) \in Lines /\ last[Line(r)] = r
      /\ \A g \in Finished : IsComplete(g)
      /\ \A g \in ArtifactsOf(r) : IsComplete(g) => g \in Found(last, DOMAIN objects)
    BY <1>2, JobFacts
<1>4. Finished = ComponentsOf(r)
    BY <1>1 DEF Finished
<1>5. ComponentsOf(r) \subseteq Found(last, DOMAIN objects)
    BY <1>3, <1>4 DEF ArtifactsOf
<1>6. ReleasesInv'
    BY <1>1, <1>3, LimitsArePositive DEF WholeInv, ReleasesInv
<1>7. JobInv'
    <2>1. CASE job' = NoJob
        BY <2>1 DEF JobInv
    <2>2. CASE ImagesDue /\ Proceed
        <3>1. job' = [release |-> r, stage |-> job'.stage] /\ job'.stage = "image"
            BY <1>1, <1>3, <2>2, ProceedGoesOn
        <3>2. job'.release = r
            BY <3>1
        <3>3. Finished' = ComponentsOf(r)
            BY <3>1, <3>2 DEF Finished
        <3>4. Line(r) = "devel"
            BY <2>2 DEF ImagesDue
        <3>5. \A g \in Finished' : IsComplete(g)'
            BY <1>1, <1>3, <1>4, <3>3 DEF IsComplete
        <3> QED  BY <1>1, <1>3, <3>1, <3>2, <3>4, <3>5 DEF JobInv
    <2> QED  BY <1>1, <2>1, <2>2
<1>8. BuiltInv' /\ NewestInv'
    BY <1>1 DEF WholeInv, BuiltInv, NewestInv
<1>9. UnlistedInv'
    BY <1>1 DEF WholeInv, UnlistedInv, Unsuperseded, IsComplete, retaining
<1>10. Growing
    BY PublishingGrows DEF Publish
<1>11. Reachable' \subseteq Reachable
    <2>1. \A p \in Named(channels', images) : p \in Named(channels, images) \/ p \in ComponentsOf(r)
        <3>1. \A line \in Lines : channels'[line] = channels[line] \/ channels'[line] = r
            BY <1>1, <1>3 DEF WholeInv, ReleasesInv
        <3> QED  BY <3>1 DEF Named, Serving
    <2>2. \A g \in WithNeeds(built_against, Named(channels', images)) :
              g \in WithNeeds(built_against, Named(channels, images)) \cup Usable
        BY <1>5, <2>1 DEF WithNeeds, Usable
    <2>3. Usable' = Usable
        BY <1>1 DEF Usable
    <2> QED  BY <1>1, <2>2, <2>3 DEF Reachable, Live
<1>12. ReachableInv' /\ SparedInv'
    <2>1. last' = last
        BY <1>1
    <2> QED  BY <1>10, <1>11, <2>1, GrowingSpares
<1> QED  BY <1>6, <1>7, <1>8, <1>9, <1>12 DEF WholeInv

(* So does the aggregate release; the download files come with it.                *)
LEMMA PublishImagesKeepsWhole ==
    ASSUME IInv, WholeInv, PublishImages
    PROVE  WholeInv'
<1>0. PICK r : r = job.release
    OBVIOUS
<1>1. PICK d : d = Contents[r].download
    OBVIOUS
<1>2. /\ job.stage = "images" /\ objects' = Put(<<d, "data">>) /\ images' = r /\ job' = NoJob
      /\ UNCHANGED <<built_against, cycle, channels, last, runs, pinned, clock, retaining>>
    BY <1>0, <1>1 DEF PublishImages
<1>3. job # NoJob
    BY <1>2 DEF NoJob
<1>4. /\ r \in Releases /\ r \in Startable(last) /\ r # None /\ IsRelease(r)
      /\ last[Line(r)] = r /\ Line(r) = "devel"
      /\ \A g \in Finished : IsComplete(g)
      /\ \A g \in ArtifactsOf(r) : IsComplete(g) => g \in Found(last, DOMAIN objects)
    BY <1>0, <1>2, <1>3, JobFacts DEF WholeInv, JobInv
<1>5. ImagesOf(r) \subseteq Found(last, DOMAIN objects)
    <2>1. Finished = ComponentsOf(r) \cup ImagesOf(r)
        BY <1>0, <1>2 DEF Finished
    <2>2. ImagesOf(r) \subseteq ArtifactsOf(r)
        BY <1>4 DEF ImagesOf, ArtifactsOf
    <2> QED  BY <1>4, <2>1, <2>2
<1>6. d \in Groups /\ About[d].kind = "download" /\ About[d].train = DevelopmentTrain
    BY <1>1, <1>4, ReleaseArtifacts
<1>7. DOMAIN objects' = DOMAIN objects \cup {<<d, "data">>}
    BY <1>2, PutAdds DEF IInv
<1>8. \A g : IsComplete(g)' = IsComplete(g)
    BY <1>7 DEF IsComplete
<1>9. ReleasesInv' /\ JobInv' /\ BuiltInv'
    BY <1>2, <1>4 DEF WholeInv, ReleasesInv, JobInv, BuiltInv
<1>10. NewestInv'
    <2> SUFFICES ASSUME NEW s \in Startable(last), IsNewest(s, DOMAIN objects)
                 PROVE  IsNewest(s, DOMAIN objects')
        BY <1>2 DEF WholeInv, NewestInv
    <2>1. \A g : <<g, "complete">> \in DOMAIN objects' => <<g, "complete">> \in DOMAIN objects
        BY <1>7
    <2>2. Line(s) = "devel" => ~ Precedes(Contents[s].download, d)
        <3> SUFFICES ASSUME Line(s) = "devel" PROVE ~ Precedes(Contents[s].download, d)
            OBVIOUS
        <3>1. s \in Releases /\ s >= r
            BY <1>4 DEF Startable
        <3>2. r <= s
            BY <1>4, <3>1, LimitsArePositive
        <3> QED  BY <1>1, <1>4, <3>1, <3>2, SourcesMoveForward
    <2>3. \A g : <<g, "data">> \in DOMAIN objects' => g = d \/ <<g, "data">> \in DOMAIN objects
        BY <1>7
    <2> QED  BY <2>1, <2>2, <2>3 DEF IsNewest
<1>11. UnlistedInv'
    BY <1>2, <1>8 DEF WholeInv, UnlistedInv, Unsuperseded, retaining
<1>12. Growing
    BY PublishingGrows DEF Publish
<1>13. \A g \in Reachable' : g \in Reachable \/ g = d
    <2>1. Found(last, DOMAIN objects') = Found(last, DOMAIN objects)
        BY <1>7 DEF Found
    <2>2. Usable' = Usable
        BY <1>2, <2>1 DEF Usable
    <2>3. \A p \in Named(channels, r) : p \in Named(channels, images) \/ p \in Found(last, DOMAIN objects)
        BY <1>5 DEF Named
    <2>4. \A g \in WithNeeds(built_against, Named(channels, r)) :
              g \in WithNeeds(built_against, Named(channels, images)) \cup Usable
        BY <2>3 DEF WithNeeds, Usable
    <2>5. DownloadOf(r) = {d}
        BY <1>1, <1>4 DEF DownloadOf
    <2>6. Live' = WithNeeds(built_against, Named(channels, r)) \cup {d} \cup pinned
        BY <1>2, <2>5 DEF Live
    <2> QED  BY <2>2, <2>4, <2>6 DEF Reachable, Live
<1>14. Whole(d)'
    BY <1>6, <1>7 DEF Whole, Keys, Artifacts, Components, ReleaseImages
<1>15. sweep.stage = "planned" => \A k \in sweep.left : k[1] # d
    BY <1>1, <1>4 DEF WholeInv, SparedInv
<1>16. ReachableInv' /\ SparedInv'
    <2>1. last' = last
        BY <1>2
    <2> QED  BY <1>12, <1>13, <1>14, <1>15, <2>1, GrowingSpares
<1> QED  BY <1>9, <1>10, <1>11, <1>16 DEF WholeInv

(* An input that is merged is too young to be a candidate.                        *)
LEMMA MergePinKeepsWhole ==
    ASSUME IInv, WholeInv, NEW g \in Pins, MergePin(g)
    PROVE  WholeInv'
<1>1. /\ <<g, "data">> \in DOMAIN objects /\ clock - objects[<<g, "data">>] < OrphanGrace
      /\ pinned' = pinned \cup {g}
      /\ UNCHANGED <<objects, built_against, publishing, clock, observation, sweep, recorded>>
    BY DEF MergePin
<1>2. ReleasesInv' /\ BuiltInv' /\ NewestInv'
    BY <1>1 DEF WholeInv, ReleasesInv, BuiltInv, NewestInv, publishing
<1>3. JobInv'
    BY <1>1 DEF WholeInv, JobInv, Finished, IsComplete, publishing
<1>4. UnlistedInv'
    BY <1>1 DEF WholeInv, UnlistedInv, Unsuperseded, IsComplete
<1>5. Growing
    BY PublishingGrows
<1>6. \A h \in Reachable' : h \in Reachable \/ h = g
    BY <1>1 DEF Reachable, Live, Usable, publishing
<1>7. Whole(g)'
    <2>1. Keys(g) = {<<g, "data">>}
        BY ReleasesAreReleases DEF OfKind, Keys, Artifacts, Components, ReleaseImages
    <2> QED  BY <1>1, <2>1 DEF Whole
<1>8. sweep.stage = "planned" => \A k \in sweep.left : k[1] # g
    <2> SUFFICES ASSUME sweep.stage = "planned", NEW k \in sweep.left, k[1] = g PROVE FALSE
        OBVIOUS
    <2>1. k = <<g, "data">> /\ objects[k] <= clock - OrphanGrace
        BY DEF WholeInv, SparedInv
    <2>2. objects[k] \in Nat /\ clock \in Nat /\ OrphanGrace \in Nat
        BY <1>1, <2>1, TimesAreNumbers DEF IInv, ShapeInv
    <2> QED  BY <1>1, <2>1, <2>2
<1>9. ReachableInv' /\ SparedInv'
    <2>1. last' = last
        BY <1>1 DEF publishing
    <2> QED  BY <1>5, <1>6, <1>7, <1>8, <2>1, GrowingSpares
<1> QED  BY <1>2, <1>3, <1>4, <1>9 DEF WholeInv

(* Publishing and merging.                                                      *)
LEMMA PublishingKeepsWhole ==
    ASSUME IInv, WholeInv, Publish \/ \E g \in Pins : MergePin(g)
    PROVE  WholeInv'
<1>1. CASE \E r \in Releases : Begin(r)
    BY <1>1, BeginKeepsWhole
<1>2. CASE UploadData
    BY <1>2, UploadDataKeepsWhole
<1>3. CASE UploadMarker
    BY <1>3, UploadMarkerKeepsWhole
<1>4. CASE CommitChannel
    BY <1>4, CommitKeepsWhole
<1>5. CASE PublishImages
    BY <1>5, PublishImagesKeepsWhole
<1>6. CASE \E g \in Pins : MergePin(g)
    BY <1>6, MergePinKeepsWhole
<1>7. CASE Supersede
    <2>1. JobInv'
        BY <1>7 DEF Supersede, WholeInv, JobInv, Finished, IsComplete
    <2> QED  BY <1>7, <2>1, QuietKeepsWhole DEF Supersede, retaining
<1>8. CASE Reuse
    <2>1. Building /\ Proceed /\ last' = last /\ objects' = objects /\ <<Target, "complete">> \in DOMAIN objects
        BY <1>8 DEF Reuse, Stored
    <2>2. JobInv'
        BY <2>1, BuildingFinishes
    <2> QED  BY <1>8, <2>2, QuietKeepsWhole DEF Reuse, retaining
<1>9. CASE Sign
    <2>1. /\ job.stage = "sign" /\ Proceed
          /\ UNCHANGED <<objects, built_against, channels, images, last, pinned, clock, sweep>>
        BY <1>9 DEF Sign, retaining
    <2>2. job # NoJob
        BY <2>1 DEF NoJob
    <2>3. /\ job = [release |-> job.release, stage |-> job.stage] /\ job.release \in Releases
          /\ last[Line(job.release)] = job.release
          /\ \A g \in Finished : IsComplete(g)
        BY <2>2, JobFacts
    <2>4. job' = [release |-> job.release, stage |-> job'.stage] /\ job'.stage = "commit"
        BY <2>1, <2>3, ProceedGoesOn
    <2>5. job'.release = job.release
        BY <2>4
    <2>6. Finished' = Finished
        BY <2>1, <2>4, <2>5 DEF Finished
    <2>7. JobInv'
        BY <2>1, <2>3, <2>4, <2>5, <2>6 DEF JobInv, IsComplete
    <2> QED  BY <2>1, <2>7, QuietKeepsWhole
<1>10. CASE Abandon
    <2>1. JobInv'
        BY <1>10 DEF Abandon, JobInv
    <2> QED  BY <1>10, <2>1, QuietKeepsWhole DEF Abandon, retaining
<1> QED  BY <1>1, <1>2, <1>3, <1>4, <1>5, <1>6, <1>7, <1>8, <1>9, <1>10 DEF Publish

-----------------------------------------------------------------------------
(* What a sweep leaves.                                                       *)

(* Deletions spare what is reachable, and so what the run has finished.           *)
LEMMA DeletionsKeepWhole ==
    ASSUME IInv, WholeInv, sweep.stage = "planned", NEW gone, gone \subseteq sweep.left,
           objects' = Drop(gone), UNCHANGED <<built_against, publishing, pinned, clock>>,
           sweep'.stage # "listed",
           sweep'.stage = "planned" => sweep'.left \subseteq sweep.left \ gone
    PROVE  WholeInv'
<1>1. /\ DOMAIN objects' = DOMAIN objects \ gone
      /\ \A k \in DOMAIN objects' : objects'[k] = objects[k]
    BY DEF Drop
<1>2. \A k \in gone : k[1] \notin Reachable
    BY DEF WholeInv, SparedInv
<1>3. ReleasesInv' /\ BuiltInv'
    BY DEF WholeInv, ReleasesInv, BuiltInv, publishing
<1>4. JobInv'
    <2>1. CASE job = NoJob
        BY <2>1 DEF JobInv, publishing
    <2>2. CASE job # NoJob
        <3>1. \A g \in Finished : g \in ArtifactsOf(job.release)
            BY <2>2, JobFacts DEF WholeInv, JobInv, Finished, ArtifactsOf, ComponentsOf, ImagesOf
        <3>2. \A g \in Finished : g \in Reachable /\ <<g, "complete">> \in DOMAIN objects
            BY <2>2, <3>1, JobFacts DEF Reachable, Usable, WithNeeds, IsComplete
        <3>3. \A g \in Finished : <<g, "complete">> \notin gone
            BY <1>2, <3>2
        <3>4. Finished' = Finished
            BY DEF Finished, publishing
        <3>5. \A g \in Finished' : IsComplete(g)'
            BY <1>1, <3>2, <3>3, <3>4 DEF IsComplete
        <3> QED  BY <2>2, <3>5 DEF WholeInv, JobInv, publishing
    <2> QED  BY <2>1, <2>2
<1>5. NewestInv'
    <2>1. \A r : IsNewest(r, DOMAIN objects) => IsNewest(r, DOMAIN objects')
        BY <1>1 DEF IsNewest
    <2> QED  BY <2>1 DEF WholeInv, NewestInv, publishing
<1>6. UnlistedInv'
    BY DEF UnlistedInv
<1>7. Reachable' \subseteq Reachable
    <2>1. Found(last, DOMAIN objects') \subseteq Found(last, DOMAIN objects)
        BY <1>1 DEF Found
    <2>2. \A A, B : A \subseteq B => WithNeeds(built_against, A) \subseteq WithNeeds(built_against, B)
        BY DEF WithNeeds
    <2>3. Usable' \subseteq Usable
        BY <2>1, <2>2 DEF Usable, publishing
    <2>4. Live' = Live
        BY DEF Live, publishing
    <2> QED  BY <2>3, <2>4 DEF Reachable
<1>8. ReachableInv'
    <2>1. \A g : \A k \in Keys(g) : k[1] = g
        BY DEF Keys
    <2>2. \A g \in Reachable : Whole(g)'
        BY <1>1, <1>2, <2>1 DEF WholeInv, ReachableInv, Whole
    <2> QED  BY <1>7, <2>2 DEF ReachableInv
<1>9. SparedInv'
    <2> SUFFICES ASSUME sweep'.stage = "planned", NEW k \in sweep'.left
                 PROVE  /\ k \in DOMAIN objects' /\ k[1] \notin Reachable'
                        /\ \A r \in Startable(last) :
                              /\ k[1] \in ArtifactsOf(r) => IsOrphan(k)'
                              /\ Line(r) = "devel" => k[1] # Contents[r].download
                        /\ k[1] \in Pins => k = <<k[1], "data">> /\ objects'[k] <= clock - OrphanGrace
        BY DEF SparedInv, publishing
    <2>1. k \in sweep.left /\ k \notin gone
        OBVIOUS
    <2>2. /\ k \in DOMAIN objects /\ k[1] \notin Reachable
          /\ \A r \in Startable(last) :
                /\ k[1] \in ArtifactsOf(r) => IsOrphan(k)
                /\ Line(r) = "devel" => k[1] # Contents[r].download
          /\ k[1] \in Pins => k = <<k[1], "data">> /\ objects[k] <= clock - OrphanGrace
        BY <2>1 DEF WholeInv, SparedInv
    <2>3. IsOrphan(k) => IsOrphan(k)'
        BY <1>1, <2>1 DEF IsOrphan, IsComplete
    <2> QED  BY <1>1, <1>7, <2>1, <2>2, <2>3
<1> QED  BY <1>3, <1>4, <1>5, <1>6, <1>8, <1>9 DEF WholeInv

(* Every step of a sweep, and the time between sweeps.                            *)
LEMMA SweepKeepsWhole ==
    ASSUME IInv, WholeInv, Sweep \/ Tick \/ UNCHANGED vars
    PROVE  WholeInv'
<1>1. ASSUME UNCHANGED <<objects, built_against, publishing, pinned>>,
             UnlistedInv', SparedInv'
      PROVE  WholeInv'
    <2>1. ReleasesInv' /\ BuiltInv' /\ NewestInv'
        BY <1>1 DEF WholeInv, ReleasesInv, BuiltInv, NewestInv, publishing
    <2>2. JobInv'
        BY <1>1 DEF WholeInv, JobInv, Finished, IsComplete, publishing
    <2>3. ReachableInv'
        BY <1>1 DEF WholeInv, ReachableInv, Reachable, Live, Usable, Whole, publishing
    <2> QED  BY <1>1, <2>1, <2>2, <2>3 DEF WholeInv
<1>2. ASSUME UNCHANGED <<objects, built_against, publishing, pinned>>, sweep'.stage = "idle"
      PROVE  WholeInv'
    BY <1>1, <1>2 DEF UnlistedInv, SparedInv
<1>3. CASE ListBuild
    <2> DEFINE build == {k \in DOMAIN objects : About[k[1]].bucket = "build"}
    <2>1. /\ sweep' = [stage |-> "listed", listed |-> [k \in build |-> objects[k]], batch |-> {}, left |-> {}]
          /\ UNCHANGED <<objects, built_against, publishing, pinned>>
        BY <1>3 DEF ListBuild, NoSweep
    <2>2. DOMAIN sweep'.listed = build
        BY <2>1
    <2>3. \A p \in OfKind({"packages"}) : p \in Artifacts
        BY DEF OfKind, Artifacts, Components
    <2>4. \A p \in OfKind({"packages"}) : IsComplete(p)' => <<p, "complete">> \in DOMAIN sweep'.listed
        BY <2>1, <2>2, <2>3, ArtifactsAreInBuild DEF IsComplete
    <2>5. UnlistedInv' /\ SparedInv'
        BY <2>1, <2>4 DEF UnlistedInv, SparedInv
    <2> QED  BY <1>1, <2>1, <2>5
<1>4. CASE PlanAndConfirm
    <2>1. PICK batch \in Batches : Observe(batch) \/ Plan(batch)
        BY <1>4 DEF PlanAndConfirm
    <2>2. sweep.stage = "listed" /\ UNCHANGED <<objects, built_against, publishing, pinned, clock>>
        BY <1>4 DEF PlanAndConfirm
    <2>3. CASE Observe(batch)
        BY <1>2, <2>2, <2>3 DEF Observe, NoSweep
    <2>4. CASE Plan(batch)
        <3>1. sweep' = [stage |-> "planned", listed |-> <<>>, batch |-> batch, left |-> KeysOf(batch)]
            BY <2>4 DEF Plan, NoSweep
        <3>2. Reachable' = Reachable /\ \A k : IsOrphan(k)' = IsOrphan(k)
            BY <2>2 DEF Reachable, Live, Usable, IsOrphan, IsComplete, publishing
        <3>3. SparedInv'
            BY <2>2, <3>1, <3>2, PlanSpares DEF SparedInv, publishing
        <3>4. UnlistedInv'
            BY <3>1 DEF UnlistedInv
        <3> QED  BY <1>1, <2>2, <3>3, <3>4
    <2> QED  BY <2>1, <2>3, <2>4
<1>5. CASE Delete
    <2>1. /\ sweep' = [stage |-> "planned", listed |-> sweep.listed, batch |-> sweep.batch,
                       left |-> sweep.left \ Request]
          /\ sweep.stage = "planned" /\ Request \subseteq sweep.left
        BY <1>5 DEF Delete, Request, IInv, ShapeInv
    <2> QED  BY <1>5, <2>1, DeletionsKeepWhole DEF Delete
<1>6. CASE DeleteFails
    <2>1. PICK gone \in SUBSET Request : objects' = Drop(gone)
        BY <1>6 DEF DeleteFails
    <2>2. gone \subseteq sweep.left
        BY DEF Request
    <2>3. sweep.stage = "planned" /\ sweep'.stage = "idle"
        BY <1>6 DEF DeleteFails, NoSweep
    <2> QED  BY <1>6, <2>1, <2>2, <2>3, DeletionsKeepWhole DEF DeleteFails
<1>7. CASE Record \/ SweepFails
    BY <1>2, <1>7 DEF Record, SweepFails, NoSweep
<1>8. CASE Tick
    <2>1. UNCHANGED <<objects, built_against, publishing, pinned>> /\ sweep'.stage = "idle"
        BY <1>8 DEF Tick, retaining
    <2> QED  BY <1>2, <2>1
<1>9. CASE UNCHANGED vars
    <2>1. JobInv'
        BY <1>9 DEF WholeInv, JobInv, Finished, IsComplete, vars
    <2> QED  BY <1>9, <2>1, QuietKeepsWhole DEF vars
<1> QED  BY <1>3, <1>4, <1>5, <1>6, <1>7, <1>8, <1>9 DEF Sweep

(* The first state.                                                           *)
LEMMA InitWhole == Init => WholeInv
<1> SUFFICES ASSUME Init PROVE WholeInv
    OBVIOUS
<1>1. /\ DOMAIN objects = FirstObjects /\ built_against = FirstBuilt
      /\ channels = FirstReleases /\ images = FirstReleases["devel"] /\ last = FirstReleases
      /\ pinned = {} /\ job = NoJob /\ sweep.stage = "idle"
    BY DEF Init, NoSweep
<1>2. ReleasesInv
    BY <1>1, ReleasesAreReleases DEF ReleasesInv, Lines
<1>3. JobInv /\ UnlistedInv /\ SparedInv
    BY <1>1 DEF JobInv, UnlistedInv, SparedInv
<1>4. BuiltInv /\ NewestInv
    BY <1>1, FirstIsWhole DEF BuiltInv, NewestInv
<1>5. ReachableInv
    <2>1. \A A, B : WithNeeds(FirstBuilt, A) \cup WithNeeds(FirstBuilt, B) = WithNeeds(FirstBuilt, A \cup B)
        BY DEF WithNeeds
    <2>2. Reachable = WithNeeds(FirstBuilt, Found(FirstReleases, FirstObjects)
                                            \cup Named(FirstReleases, FirstReleases["devel"]))
                      \cup DownloadOf(FirstReleases["devel"])
        BY <1>1, <2>1 DEF Reachable, Live, Usable
    <2> QED  BY <1>1, <2>2, FirstIsWhole DEF ReachableInv, Whole
<1> QED  BY <1>2, <1>3, <1>4, <1>5 DEF WholeInv

LEMMA StepWhole == IInv /\ WholeInv /\ [Next]_vars => WholeInv'
BY PublishingKeepsWhole, SweepKeepsWhole DEF Next

-----------------------------------------------------------------------------
(* The theorems *)

(* The invariant: what a sweep has listed and planned (plan_retention,          *)
(* deletion_keys) relates to the objects there are now, whatever was uploaded.    *)
THEOREM Invariance == Spec => []IInv
BY InitIInv, StepIInv, PTL DEF Spec

(* "Every Stable artifact remains permanent" (README.md:84): no retention run    *)
(* takes a file of a locked, foreign or Stable artifact whose marker is there,   *)
(* one that was marked after the sweep had listed it either.                    *)
THEOREM PermanentStays == Spec => StableIsPermanent
<1>1. IInv /\ [Next]_vars =>
          \A k \in DOMAIN objects : Permanent(k[1]) /\ IsComplete(k[1]) => k \in DOMAIN objects'
    <2> SUFFICES ASSUME IInv, [Next]_vars,
                        NEW k \in DOMAIN objects \ DOMAIN objects', Permanent(k[1]), IsComplete(k[1])
                 PROVE  FALSE
        OBVIOUS
    <2>1. sweep.stage = "planned" /\ k \in sweep.left
        BY OnlyTheSweepTakes
    <2> QED  BY <2>1 DEF IInv, LeftInv, IsOrphan
<1> QED  BY <1>1, Invariance, PTL DEF Spec, StableIsPermanent

(* A key goes only if a run recorded it as a candidate's MinimumInterval        *)
(* earlier (`confirmation`), though runs fail and are repeated.                 *)
THEOREM Announced == Spec => NothingGoesUnannounced
<1>1. IInv /\ [Next]_vars =>
          \A k \in DOMAIN objects \ DOMAIN objects' :
              k \in DOMAIN recorded /\ clock - recorded[k] >= MinimumInterval
    <2> SUFFICES ASSUME IInv, [Next]_vars, NEW k \in DOMAIN objects \ DOMAIN objects'
                 PROVE  k \in DOMAIN recorded /\ clock - recorded[k] >= MinimumInterval
        OBVIOUS
    <2>1. sweep.stage = "planned" /\ k \in sweep.left
        BY OnlyTheSweepTakes
    <2>2. k \in observation.keys /\ clock - observation.last >= MinimumInterval
        BY <2>1 DEF IInv, PlannedInv, Ready
    <2>3. k \in DOMAIN recorded /\ recorded[k] <= observation.last
        BY <2>2 DEF IInv, ObservationInv
    <2>4. /\ recorded[k] \in Nat /\ clock \in Nat /\ observation.last \in Nat
          /\ MinimumInterval \in Nat
        BY <2>3, TimesAreNumbers DEF IInv, RecordedInv, ShapeInv
    <2> QED  BY <2>2, <2>3, <2>4
<1> QED  BY <1>1, Invariance, PTL DEF Spec, NothingGoesUnannounced

(* An observation whose batch is still all eligible is confirmed or stands       *)
(* (`select_deletion_batch`), however much newer garbage there is.              *)
THEOREM Pinned == Spec => BatchIsPinned
<1>1. IInv /\ [Next]_vars =>
          (observation' # observation /\ observation.batch # {}
              /\ observation.batch \subseteq observation'.batch
           => observation'.batch = observation.batch /\ observation'.count >= observation.count)
    <2> SUFFICES ASSUME IInv, [Next]_vars, observation' # observation, observation.batch # {},
                        observation.batch \subseteq observation'.batch
                 PROVE  observation'.batch = observation.batch /\ observation'.count >= observation.count
        OBVIOUS
    <2>1. PICK batch : /\ RecordObservation(batch)
                       /\ observation.batch \subseteq batch => batch = observation.batch
        <3>1. CASE Publish \/ \E g \in Pins : MergePin(g)
            <4>1. Growing
                BY <3>1, PublishingGrows
            <4> QED  BY <4>1 DEF Growing, retaining
        <3>2. CASE PlanAndConfirm
            <4>1. PICK batch \in Batches : Observe(batch) \/ Plan(batch)
                BY <3>2 DEF PlanAndConfirm
            <4>2. RecordObservation(batch)
                BY <4>1 DEF Observe, Plan
            <4>3. sweep.stage = "listed"
                BY <3>2 DEF PlanAndConfirm
            <4>4. observation.batch \subseteq batch => batch = observation.batch
                BY <4>3, PlanIsSound
            <4> QED  BY <4>2, <4>4
        <3>3. CASE Record
            BY <3>3 DEF Record, IInv, PlannedInv
        <3>4. CASE UNCHANGED observation
            BY <3>4
        <3> QED  BY <3>1, <3>2, <3>3, <3>4
                 DEF Next, Sweep, ListBuild, Delete, DeleteFails, SweepFails, Tick, retaining, vars
    <2>2. /\ observation'.batch = batch
          /\ observation.keys = KeysOf(batch) => observation'.count >= observation.count
        BY <2>1, RecordingKeeps
    <2> QED  BY <2>1, <2>2 DEF IInv, ObservationInv
<1> QED  BY <1>1, Invariance, PTL DEF Spec, BatchIsPinned

(* The invariant of what a sweep spares (plan_retention).                         *)
THEOREM NothingReachableGoes == Spec => []WholeInv
BY Invariance, InitWhole, StepWhole, PTL DEF Spec

(* No manifest, release document or merged pin names what a sweep took, though    *)
(* the sweep planned before it was published or merged (plan_retention,           *)
(* stages/repository.sh).  Sources move forward (SourcesMoveForward).             *)
THEOREM ReachableStays == Spec => []LiveIsWhole
<1>1. WholeInv => LiveIsWhole
    BY DEF WholeInv, ReachableInv, Reachable, LiveIsWhole
<1> QED  BY <1>1, NothingReachableGoes, PTL

(* What a run has found or uploaded is there until it publishes, though nothing   *)
(* names it (`fsbuild result check`, publish_repository).                        *)
THEOREM RunsKeep == Spec => []RunsKeepTheirArtifacts
<1>1. WholeInv => RunsKeepTheirArtifacts
    <2> SUFFICES ASSUME WholeInv, NEW g \in Finished PROVE Whole(g)
        BY DEF RunsKeepTheirArtifacts
    <2>1. job # NoJob
        BY DEF Finished, NoJob
    <2>2. g \in ArtifactsOf(job.release)
        BY <2>1, JobFacts DEF WholeInv, JobInv, Finished, ArtifactsOf, ComponentsOf, ImagesOf
    <2>3. g \in Reachable
        BY <2>1, <2>2, JobFacts DEF Reachable, Usable, WithNeeds
    <2> QED  BY <2>3 DEF WholeInv, ReachableInv
<1> QED  BY <1>1, NothingReachableGoes, PTL
=============================================================================
