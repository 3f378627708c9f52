----------------------------- MODULE Namespace -----------------------------
(***************************************************************************)
(* The vocabulary shared by the drive (GraphDrive) and the index of it     *)
(* (IndexTree): item ids, names, nodes, and the two closures that walk a   *)
(* tree down through child sets and up through parent ids.                 *)
(*                                                                         *)
(* A HashMap<Id, _> is a total function on Ids; a missing key is NoNode in *)
(* the node map and the empty set in the child map (the code never tells a *)
(* missing child set from an empty one).                                   *)
(***************************************************************************)
EXTENDS Integers, Sequences, FiniteSets, Functions

CONSTANTS
    ItemIds,    \* ids Graph gives to drive items
    RootId,     \* the id of the drive's root item
    Folders,    \* the items that are folders; an item never changes type
    Names,      \* names of items other than the root
    Paths,      \* the paths WebDAV clients address: non-empty sequences of names
    None,       \* Option::None
    NoNode      \* an absent key of the node map

(***************************************************************************)
(* "local:{path}", the id upsert_at_path invents for an item whose Graph   *)
(* id it does not know.                                                    *)
(***************************************************************************)
LocalId(path) == <<"local", path>>
LocalIds == {LocalId(path) : path \in Paths}
Ids == ItemIds \cup LocalIds

(***************************************************************************)
(* size, mtime and etag are payload: no decision of the index reads them.  *)
(* The root's name is never read (its path is "/"), so it is None.         *)
(***************************************************************************)
Node == [parent : Ids \cup {None}, name : Names \cup {None}, dir : BOOLEAN]
RootNode == [parent |-> None, name |-> None, dir |-> TRUE]

ASSUME RootAssumption == RootId \in Folders /\ Folders \subseteq ItemIds
ASSUME PathsAssumption == Paths \subseteq Seq(Names) \ {<<>>}
ASSUME FreshValuesAssumption ==
    /\ NoNode \notin Node
    /\ None \notin Ids \cup Names
    /\ LocalIds \cap ItemIds = {}
(***************************************************************************)
(* path_of and sweep_orphans give up after 64 steps; with at most 64 ids   *)
(* that is exactly "the walk never ends".                                  *)
(***************************************************************************)
ASSUME DepthAssumption == IsFiniteSet(Ids) /\ Cardinality(Ids) <= 64

-----------------------------------------------------------------------------
Present(nodes) == {x \in Ids : nodes[x] # NoNode}

\* The child map that node map `nodes` stands for.
KidsOf(nodes) ==
    [p \in Ids |-> {<<nodes[c].name, c>> : c \in {d \in Present(nodes) : nodes[d].parent = p}}]

\* No two entries of one child set have the same name.
UniqueNames(kids) ==
    \A p \in Ids : \A e, f \in kids[p] : e[1] = f[1] => e = f

(***************************************************************************)
(* The ids at or below `id`: the least set that has `id` and the children  *)
(* of its members.  Only ids that are somebody's children can be in it,    *)
(* which is all that `within` is for.                                      *)
(***************************************************************************)
ClosedDown(kids, S) == \A p \in S : \A e \in kids[p] : e[2] \in S
Below(kids, id) ==
    LET within == {id} \cup {x \in Ids : \E p \in Ids : \E e \in kids[p] : e[2] = x}
        closed == {S \in SUBSET within : id \in S /\ ClosedDown(kids, S)}
    IN  IF kids[id] = {} THEN {id} ELSE {x \in within : \A S \in closed : x \in S}

(***************************************************************************)
(* The ids whose parent walk meets `tops`: the least set that has `tops`   *)
(* and the nodes whose parent is a member.                                 *)
(***************************************************************************)
ClosedUp(nodes, S) == \A x \in Present(nodes) : nodes[x].parent \in S => x \in S
Climb(nodes, tops) ==
    LET within == tops \cup Present(nodes)
        closed == {S \in SUBSET within : tops \subseteq S /\ ClosedUp(nodes, S)}
    IN  {x \in within : \A S \in closed : x \in S}

(***************************************************************************)
(* The id that a path names, walking child sets from `root` one segment    *)
(* after another; None where a segment is missing.  Sibling names are      *)
(* unique, so there is at most one walk.                                   *)
(***************************************************************************)
Walks(kids, root, path) ==
    {w \in [1..Len(path) -> Ids] :
        \A k \in 1..Len(path) : <<path[k], w[k]>> \in kids[IF k = 1 THEN root ELSE w[k - 1]]}
WalkTo(kids, root, path) ==
    LET walks == Walks(kids, root, path)
    IN  IF path = <<>> THEN root
        ELSE IF walks = {} THEN None
        ELSE (CHOOSE w \in walks : TRUE)[Len(path)]

ParentPath(path) == SubSeq(path, 1, Len(path) - 1)
LastSegment(path) == path[Len(path)]

(***************************************************************************)
(* A drive item as Graph reports it, in a delta page or in the answer to a *)
(* mutation (DeltaItem).                                                   *)
(***************************************************************************)
DeltaItem == [id : Ids, parent : Ids \cup {None}, name : Names \cup {None},
              dir : BOOLEAN, deleted : BOOLEAN, is_root : BOOLEAN]

(***************************************************************************)
(* The URLs of the delta feed, opaque to the code: where an enumeration    *)
(* starts, a nextLink with what is left of one, a deltaLink after it.      *)
(* `begun` is the drive version the enumeration saw when it started.       *)
(***************************************************************************)
Link == [kind : {"initial", "next", "delta"}, begun : Nat, todo : SUBSET ItemIds]
InitialLink == [kind |-> "initial", begun |-> 0, todo |-> {}]
NextLink(begun, todo) == [kind |-> "next", begun |-> begun, todo |-> todo]
DeltaLink(begun) == [kind |-> "delta", begun |-> begun, todo |-> {}]
ASSUME NoLinkAssumption == None \notin Link
ASSUME NoItemAssumption == None \notin DeltaItem
=============================================================================
