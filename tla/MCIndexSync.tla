---------------------------- MODULE MCIndexSync ----------------------------
(***************************************************************************)
(* Small drives for TLC: a root, one or two folders and one or two files.  *)
(***************************************************************************)
EXTENDS Listings

CONSTANTS root, d, e, f, g, a, b

Dir(parent, name) == [parent |-> parent, name |-> name, dir |-> TRUE]
File(parent, name) == [parent |-> parent, name |-> name, dir |-> FALSE]
DriveOf(items) ==
    [x \in Ids |-> IF x = root THEN RootNode
                   ELSE IF x \in DOMAIN items THEN items[x] ELSE NoNode]

\* /a is a folder that holds the file /a/b.
NestedDrive == DriveOf([x \in {d, f} |-> IF x = d THEN Dir(root, a) ELSE File(d, b)])

\* /a is a file.
FlatDrive == DriveOf([x \in {f} |-> File(root, a)])

\* Clients address /b, which is free, and /a/b.
NoPaths == {}
ClientPaths == {<<b>>, <<a, b>>}

\* Every path of the small drives.
AllPaths == UNION {[1..n -> Names] : n \in 0..2}
=============================================================================
