----------------------------- MODULE MCRetention -----------------------------
(* One architecture. Development release 2 is published, with the Packages of   *)
(* release 1; 3 changes Packages only, 7 System only, so that a run of 7 uses     *)
(* Packages again that a run of 3 built against another System. Testing release  *)
(* 4 is published, 5 changes System. Group 7 is an earlier Stable System, which a *)
(* release lock names; nothing refers to it. 8 belongs to an earlier train.      *)
EXTENDS Retention, TLC

Component(kind, train, generation) ==
    [kind |-> kind, bucket |-> "build", arch |-> "amd64", train |-> train, generation |-> generation,
     commits |-> generation, channel |-> "none", bundle |-> 0, system |-> NoGroup,
     packages |-> NoGroup, inputs |-> {}]
Installer(generation, system, packages) ==
    [Component("iso", "none", generation) EXCEPT
        !.channel = "devel", !.bundle = generation, !.system = system, !.packages = packages]
Single(kind, bucket, train, generation) ==
    [Component(kind, train, generation) EXCEPT !.bucket = bucket]

AboutGroups ==
    (1 :> Component("system", "1.2", 1)) @@ (2 :> Component("packages", "1.2", 1))
 @@ (3 :> Installer(1, 1, 2))
 @@ (4 :> Component("system", "1.2", 2)) @@ (5 :> Installer(2, 4, 2))
 @@ (6 :> Component("packages", "1.2", 3))
 @@ (7 :> Component("system", "1.1", 1)) @@ (8 :> Component("packages", "1.0", 1))
 @@ (9 :> Installer(3, 4, 6))
 @@ (10 :> Component("system", "1.1", 4)) @@ (11 :> Component("packages", "1.1", 4))
 @@ (12 :> Component("system", "1.1", 5))
 @@ (13 :> Single("input", "build", "none", 0))
 @@ (14 :> Component("system", "1.2", 4)) @@ (15 :> Installer(4, 14, 6))
 @@ (16 :> Installer(3, 1, 6))
 @@ (21 :> Single("download", "downloads", "1.2", 1)) @@ (22 :> Single("download", "downloads", "1.2", 2))
 @@ (23 :> Single("download", "downloads", "1.2", 3)) @@ (24 :> Single("download", "downloads", "1.2", 4))

Release(line, system, packages, image, download, pin) ==
    [line |-> line, system |-> system, packages |-> packages, image |-> image, download |-> download,
     pin |-> pin]
ReleaseContents ==
    (1 :> Release("devel", 1, 2, 3, 21, 1)) @@ (2 :> Release("devel", 4, 2, 5, 22, 1))
 @@ (3 :> Release("devel", 4, 6, 9, 23, 1))
 @@ (4 :> Release("testing", 10, 11, 0, 0, 1)) @@ (5 :> Release("testing", 12, 11, 0, 0, 1))
 @@ (6 :> Release("devel", 1, 6, 16, 23, 2)) @@ (7 :> Release("devel", 14, 6, 15, 24, 1))

GroupNumbers == DOMAIN AboutGroups
MCFirst == [line \in Lines |-> IF line = "devel" THEN 2 ELSE 4]
ObjectsAtStart ==
    UNION {{<<g, "data">>, <<g, "complete">>} : g \in {1, 2, 4, 5, 7, 8, 10, 11}}
    \cup {<<g, "data">> : g \in {13, 22}}
MCLocks == {1}

\* TLC keeps the value of a definition, not of what replaces a constant.
MCAbout == AboutGroups
MCContents == ReleaseContents
MCGroups == GroupNumbers
MCFirstBuilt == [g \in GroupNumbers |-> IF g = 2 THEN 1 ELSE IF g = 11 THEN 10 ELSE NoGroup]
MCFirstObjects == ObjectsAtStart
Forward == {2, 3, 4, 5, 7}
=============================================================================
