------------------------------ MODULE MCLayers ------------------------------
(* Ports trees for DeltaLayers: three ports and pkg, with every mix of the     *)
(* ways a port can differ from upstream, link and need the others.             *)
EXTENDS TLC, Integers

TreePorts == {"p1", "p2", "p3", "pkg"}
PackageNames == {"n1", "n2", "n3", "pkg"}

NameOf == "p1" :> "n1" @@ "p2" :> "n2" @@ "p3" :> "n3" @@ "pkg" :> "pkg"
Plain(name, path) == [name |-> name, path |-> path, version |-> 1, options |-> "default", flags |-> {}]
PathOf == "p1" :> "x/1" @@ "p2" :> "x/2" @@ "p3" :> "x/3" @@ "pkg" :> "x/pkg"

PortAs(profile, plain) ==
    CASE profile \in {"own", "overlay", "patches", "kernel"} -> [plain EXCEPT !.flags = {profile}]
      [] profile = "churned" -> [plain EXCEPT !.version = 2]
      [] profile = "diverged" -> [plain EXCEPT !.options = "changed"]
      [] OTHER -> plain
UpstreamOf(profile, path) ==
    CASE profile \in {"own", "absent"} -> {}
      [] profile = "ambiguous" -> {[path |-> p, version |-> 1, options |-> "default"] : p \in {path, "y/0"}}
      [] OTHER -> {[path |-> path, version |-> 1, options |-> "default"]}

First == {"plain", "overlay", "overridden", "churned"}
Second == {"plain", "patches", "kernel", "overridden", "diverged", "churned", "absent", "ambiguous"}
Third == {"plain", "own", "overridden", "diverged", "churned"}

\* "flavor": p3 is a flavor of p2's port and a root too; "default": it is the
\* default flavor; "same": it produces p2's package.
PortsTree(f, s, t, kind, link, use) ==
    LET path == [PathOf EXCEPT !["p3"] = IF kind = "distinct" THEN @ ELSE PathOf["p2"]]
        as == "p1" :> f @@ "p2" :> s @@ "p3" :> t @@ "pkg" :> "plain"
        name == [NameOf EXCEPT !["p3"] = IF kind = "same" THEN "n2" ELSE @]
        links == "p1" :> link[1] @@ "p2" :> link[2] @@ "p3" :> link[3] @@ "pkg" :> {}
    IN [ports |-> [p \in TreePorts |-> PortAs(as[p], Plain(name[p], path[p]))],
        links |-> links,
        needs |-> [p \in TreePorts |-> links[p] \cup use[p]],
        default |-> "x/1" :> "p1" @@ "x/2" :> (IF kind = "default" THEN "p3" ELSE "p2") @@ "x/3" :> "p3"
                    @@ "x/pkg" :> "pkg",
        roots |-> IF kind = "flavor" THEN "system" :> {"p2"} @@ "packages" :> {"p1", "p2", "p3"}
                 ELSE "system" :> {"p1"} @@ "packages" :> {"p1", "p2"},
        overridden |-> {path[p] : p \in {q \in TreePorts : as[q] = "overridden"}},
        upstream |-> [n \in PackageNames |->
            LET p == CHOOSE p \in TreePorts : NameOf[p] = n IN UpstreamOf(as[p], path[p])],
        claimed |-> IF f = "overlay" /\ t = "own" THEN {"n1"} ELSE {},
        branded |-> s = "churned" /\ t = "churned"]

LinkSets == {<<l1, l2, l3>> : l1 \in {{}, {"p2"}, {"p2", "p3"}}, l2 \in {{}, {"p3"}}, l3 \in {{}, {"p1"}}}
Uses == {"p1" :> {} @@ "p2" :> {} @@ "p3" :> {} @@ "pkg" :> {},
         "p1" :> {"p3"} @@ "p2" :> {"p3"} @@ "p3" :> {} @@ "pkg" :> {}}

PortsTrees ==
    {PortsTree(f, s, t, "distinct", link, use) : f \in First, s \in Second, t \in Third, link \in LinkSets, use \in Uses}
    \cup {PortsTree(f, s, t, kind, link, use) :
              f \in First, s \in {"plain", "kernel"}, t \in {"plain", "own"},
              kind \in {"flavor", "default", "same"},
              link \in {l \in LinkSets : l[3] = {}}, use \in Uses}
=============================================================================
