----------------------------- MODULE MCNodeTree ----------------------------
(* Instances of NodeTree for TLC: two files in one folder, and the can's key folder. *)
EXTENDS NodeTree

MCOver == [p \in {"K", "d", "d/a", "d/b"} |-> IF p \in {"d/a", "d/b"} THEN {"d"} ELSE {}]
MCOrder == <<"K", "d", "d/a", "d/b">>
MCSize == [c \in {"c1", "c2"} |-> IF c = "c1" THEN 1 ELSE 2]
MCQuota == [r \in {"libs", "stage", "auto-trashcan"} |-> IF r = "libs" THEN 2 ELSE 0]
MCSeed == [f \in {"d/a", "d/b"} |-> IF f = "d/a" THEN "c1" ELSE "none"]

Job(op, p, c, flag) == [op |-> op, p |-> p, c |-> c, flag |-> flag]
MCJobs ==
    {Job("put", "d/b", "c1", FALSE), Job("put", "d/a", "c2", FALSE),
     Job("delete", "d", "none", TRUE), Job("delete", "d/a", "none", FALSE),
     Job("move", "d", "none", FALSE), Job("move", "d", "none", TRUE), Job("copy", "d/a", "none", FALSE),
     Job("restore", "d", "none", FALSE), Job("purge", "K", "none", FALSE)}
MCFolderDelete == {Job("delete", "d", "none", FALSE)}
=============================================================================
