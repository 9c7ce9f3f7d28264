------------------------------- MODULE MCDsync ------------------------------
(* Small trees for Dsync: a top directory with a file f and a directory d,   *)
(* and a file g in d, in versions that agree and disagree in every way that  *)
(* the comparison tells apart.                                               *)
EXTENDS Dsync

MCPaths == {"r", "f", "d", "g"}
MCParentOf == [r |-> "r", f |-> "r", d |-> "r", g |-> "d"]
MCDepth == [r |-> 0, f |-> 1, d |-> 1, g |-> 2]
MCBytes == {"", "torn", "A", "B", "C", "Z", "f", "g", "x"}

D(sec, p) == [type |-> "dir", size |-> 0, bytes |-> "", mtime |-> <<sec, 5>>, perm |-> p]
F(n, b, sec, nsec) ==
    [type |-> "file", size |-> n, bytes |-> b, mtime |-> <<sec, nsec>>, perm |-> 1]
L(b) == [type |-> "link", size |-> 1, bytes |-> b, mtime |-> <<1, 5>>, perm |-> 3]

MCSrcTrees == {
    [r |-> D(1, 1), f |-> F(1, "A", 1, 5), d |-> D(1, 2), g |-> F(2, "B", 2, 5)],
    [r |-> D(1, 1), f |-> L("g"),          d |-> D(1, 2), g |-> F(2, "B", 2, 5)],
    [r |-> D(1, 1), f |-> F(1, "A", 1, 5), d |-> L("x"),  g |-> Absent],
    [r |-> D(1, 1), f |-> Absent,          d |-> F(1, "C", 1, 5), g |-> Absent],
    [r |-> D(1, 1), f |-> Absent,          d |-> Absent,  g |-> Absent]}
MCDstTrees == {
    [r |-> Absent,  f |-> Absent,          d |-> Absent,  g |-> Absent],
    [r |-> D(1, 1), f |-> L("g"),          d |-> D(1, 2), g |-> F(1, "Z", 2, 5)],
    [r |-> F(1, "Z", 1, 5), f |-> Absent,  d |-> Absent,  g |-> Absent],
    [r |-> D(1, 2), f |-> F(1, "A", 1, 0), d |-> L("f"),  g |-> Absent],
    [r |-> D(1, 1), f |-> F(1, "Z", 1, 5), d |-> D(1, 2), g |-> F(2, "B", 2, 5)],
    [r |-> D(1, 1), f |-> D(1, 1),         d |-> F(1, "C", 3, 5), g |-> Absent]}

\* The same on a file system that keeps whole seconds.
MCCoarseDstTrees ==
    {[p \in MCPaths |-> IF t[p] = Absent THEN Absent ELSE [t[p] EXCEPT !.mtime[2] = 0]]
        : t \in MCDstTrees}

O(del, dry, con, par, bat) ==
    [delete |-> del, dry_run |-> dry, contents |-> con, parent_writable |-> par,
     batch_files |-> bat]
MCOptions == {O(del, dry, con, TRUE, 0) : del \in BOOLEAN, dry \in BOOLEAN, con \in BOOLEAN}
             \cup {O(FALSE, dry, FALSE, FALSE, 0) : dry \in BOOLEAN}
             \cup {O(del, FALSE, FALSE, TRUE, bat) : del \in BOOLEAN, bat \in {1, 2}}

NoFaults == {}
SomeFaults == {"walk_src", "walk_dst", "data", "check", "remove", "mkdir",
               "create", "copy", "meta", "refresh"}
WalkSrcFault == {"walk_src"}
CopyFault == {"copy"}
=============================================================================
