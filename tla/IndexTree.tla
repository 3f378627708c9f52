----------------------------- MODULE IndexTree -----------------------------
(***************************************************************************)
(* The metadata index: src/index.rs (operations on the in-memory index)    *)
(* and what a save followed by a load does to it (src/snapshot.rs).        *)
(***************************************************************************)
EXTENDS Namespace

Index == [nodes : [Ids -> Node \cup {NoNode}],
          kids : [Ids -> SUBSET (Names \X Ids)],
          root : Ids \cup {None},
          delta_token : Link \cup {None},
          pending_next_link : Link \cup {None},
          crawl_complete : BOOLEAN,
          generation : Nat]

\* Index::default() with a generation.
Blank(generation) ==
    [nodes |-> [x \in Ids |-> NoNode], kids |-> [x \in Ids |-> {}], root |-> None,
     delta_token |-> None, pending_next_link |-> None,
     crawl_complete |-> FALSE, generation |-> generation]

-----------------------------------------------------------------------------
(***************************************************************************)
(* Index::remove.  The recursion through child sets removes every id below *)
(* `id`; the order of the calls does not show in the result.               *)
(***************************************************************************)
\* Mutant of Remove: the entry stays in its parent's child set.
RemoveKeepingEntry(idx, id) ==
    LET gone == Below(idx.kids, id)
    IN  [idx EXCEPT
            !.nodes = [x \in Ids |-> IF x \in gone THEN NoNode ELSE idx.nodes[x]],
            !.kids  = [p \in Ids |-> IF p \in gone THEN {} ELSE idx.kids[p]],
            !.root  = IF idx.root \in gone THEN None ELSE idx.root]

Remove(idx, id) ==
    LET gone == Below(idx.kids, id)
        entries(p) == {<<idx.nodes[x].name, x>> :
                          x \in {y \in gone \cap Present(idx.nodes) : idx.nodes[y].parent = p}}
    IN  [idx EXCEPT
            !.nodes = [x \in Ids |-> IF x \in gone THEN NoNode ELSE idx.nodes[x]],
            !.kids  = [p \in Ids |-> IF p \in gone THEN {} ELSE idx.kids[p] \ entries(p)],
            !.root  = IF idx.root \in gone THEN None ELSE idx.root]

(***************************************************************************)
(* Index::apply.  A moved entry leaves its old parent's child set before   *)
(* the entry that has its name under the new parent, if any, is removed.   *)
(***************************************************************************)
\* Mutant of Detach: a moved entry stays in its old parent's child set.
DetachNothing(idx, it) == idx

Detach(idx, it) ==
    LET old == idx.nodes[it.id]
        moved == /\ old # NoNode
                 /\ old.parent # None
                 /\ old.parent # it.parent \/ old.name # it.name
    IN  IF moved THEN [idx EXCEPT !.kids[old.parent] = @ \ {<<old.name, it.id>>}]
        ELSE idx

Evict(idx, it) ==
    LET clash == {c \in Ids \ {it.id} : <<it.name, c>> \in idx.kids[it.parent]}
    IN  IF clash = {} THEN idx ELSE Remove(idx, CHOOSE c \in clash : TRUE)

Attach(idx, it) ==
    [idx EXCEPT !.kids[it.parent] = @ \cup {<<it.name, it.id>>},
                !.nodes[it.id] = [parent |-> it.parent, name |-> it.name, dir |-> it.dir]]

InsertRoot(idx, it) ==
    [idx EXCEPT !.root = it.id,
                !.nodes[it.id] = [parent |-> None, name |-> it.name, dir |-> it.dir]]

Apply(idx, it) ==
    CASE it.deleted -> Remove(idx, it.id)
      [] ~it.deleted /\ it.is_root -> InsertRoot(idx, it)
      [] ~it.deleted /\ ~it.is_root /\ it.parent = None -> idx
      [] OTHER -> Attach(Evict(Detach(idx, it), it), it)

\* Index::resolve
Resolve(idx, path) == IF idx.root = None THEN None ELSE WalkTo(idx.kids, idx.root, path)

\* Mutant of SweepOrphans: the walk to the root gives up after one step.
SweepToChildren(idx) ==
    LET reachable == {x \in Present(idx.nodes) : x = idx.root \/ idx.nodes[x].parent = idx.root}
    IN  [idx EXCEPT
            !.nodes = [x \in Ids |-> IF x \in reachable THEN idx.nodes[x] ELSE NoNode],
            !.kids  = [p \in Ids |-> IF p \in reachable
                                     THEN {e \in idx.kids[p] : e[2] \in reachable}
                                     ELSE {}]]

\* Index::sweep_orphans
SweepOrphans(idx) ==
    LET reachable == Climb(idx.nodes, {idx.root}) \cap Present(idx.nodes)
    IN  IF idx.root = None THEN idx
        ELSE [idx EXCEPT
                !.nodes = [x \in Ids |-> IF x \in reachable THEN idx.nodes[x] ELSE NoNode],
                !.kids  = [p \in Ids |-> IF p \in reachable
                                         THEN {e \in idx.kids[p] : e[2] \in reachable}
                                         ELSE {}]]

(***************************************************************************)
(* The write-through edits by path.  Each is an index and whether the      *)
(* closure given to snapshot::mutate returned true, that is, whether the   *)
(* edited index is saved.                                                  *)
(***************************************************************************)
Edit(ok, idx) == [ok |-> ok, idx |-> idx]

\* Index::upsert_at_path: new metadata for the entry at `path`, or a "local:" entry there.
UpsertAtPath(idx, path, dir) ==
    LET id == Resolve(idx, path)
        parent == Resolve(idx, ParentPath(path))
    IN  IF id # None /\ idx.nodes[id] # NoNode
        THEN Edit(TRUE, [idx EXCEPT !.nodes[id].dir = dir])
        ELSE IF parent = None THEN Edit(FALSE, idx)
        ELSE Edit(TRUE, Apply(idx, [id |-> LocalId(path), parent |-> parent,
                                    name |-> LastSegment(path), dir |-> dir,
                                    deleted |-> FALSE, is_root |-> FALSE]))

\* Mutants of RemoveAtPath: one segment short, and not reporting that it edited.
RemoveParentAtPath(idx, path) ==
    LET id == Resolve(idx, ParentPath(path))
    IN  IF id = None THEN Edit(FALSE, idx) ELSE Edit(TRUE, Remove(idx, id))
RemoveAtPathUnsaved(idx, path) ==
    LET id == Resolve(idx, path)
    IN  IF id = None THEN Edit(FALSE, idx) ELSE Edit(FALSE, Remove(idx, id))

\* Index::remove_at_path
RemoveAtPath(idx, path) ==
    LET id == Resolve(idx, path)
    IN  IF id = None THEN Edit(FALSE, idx) ELSE Edit(TRUE, Remove(idx, id))

\* Index::move_at_path
MoveAtPath(idx, from, to) ==
    LET id == Resolve(idx, from)
        parent == Resolve(idx, ParentPath(to))
    IN  IF id = None \/ parent = None THEN Edit(FALSE, idx)
        ELSE IF idx.nodes[id] = NoNode THEN Edit(FALSE, idx)
        ELSE Edit(TRUE, Apply(idx, [id |-> id, parent |-> parent,
                                    name |-> LastSegment(to), dir |-> idx.nodes[id].dir,
                                    deleted |-> FALSE, is_root |-> FALSE]))

-----------------------------------------------------------------------------
(***************************************************************************)
(* The directory rows snapshot::encode writes: folders (and the recorded   *)
(* root) that path_of can walk to a node without parent.                   *)
(***************************************************************************)
DirRows(idx) ==
    LET tops == {x \in Present(idx.nodes) : idx.nodes[x].parent = None}
        withPath == Climb(idx.nodes, tops) \cap Present(idx.nodes)
    IN  {x \in withPath : idx.nodes[x].dir \/ idx.root = x}

\* Mutant of Reload: the rows are not linked to their parents' rows again.
ReloadUnlinked(idx) ==
    LET rows == DirRows(idx)
    IN  [idx EXCEPT
            !.nodes = [x \in Ids |->
                          IF x \in rows THEN [parent |-> None, name |-> idx.nodes[x].name, dir |-> TRUE]
                          ELSE IF idx.nodes[x] # NoNode /\ idx.nodes[x].parent \in rows
                          THEN idx.nodes[x]
                          ELSE NoNode],
            !.kids = [p \in Ids |->
                          IF p \in rows
                          THEN {e \in idx.kids[p] : idx.nodes[e[2]] # NoNode}
                          ELSE {}]]

(***************************************************************************)
(* What snapshot::load gives for an index that snapshot::save wrote: the   *)
(* rows and the children of the rows, nothing else.  The code finds a      *)
(* row's parent by its parent path; that is its parent if that is a row,   *)
(* as long as one row only has the path "/" (Rooted).                      *)
(***************************************************************************)
Reload(idx) ==
    LET rows == DirRows(idx)
        rowNode(x) == [parent |-> IF idx.nodes[x].parent \in rows THEN idx.nodes[x].parent ELSE None,
                       name |-> IF idx.nodes[x].parent = None THEN None ELSE idx.nodes[x].name,
                       dir |-> TRUE]
        tops == {x \in rows : idx.nodes[x].parent = None}
    IN  [idx EXCEPT
            !.root = IF idx.root = None /\ tops # {} THEN CHOOSE x \in tops : TRUE ELSE idx.root,
            !.nodes = [x \in Ids |->
                          IF x \in rows THEN rowNode(x)
                          ELSE IF idx.nodes[x] # NoNode /\ idx.nodes[x].parent \in rows
                          THEN idx.nodes[x]
                          ELSE NoNode],
            !.kids = [p \in Ids |->
                          IF p \in rows
                          THEN {e \in idx.kids[p] : idx.nodes[e[2]] # NoNode}
                          ELSE {}]]

-----------------------------------------------------------------------------
(***************************************************************************)
(* The child sets are the parent ids read backwards, with sibling names    *)
(* unique; the root, when recorded, is the only entry without parent.      *)
(***************************************************************************)
Matched(idx) == idx.kids = KidsOf(idx.nodes) /\ UniqueNames(idx.kids)
Rooted(idx) ==
    /\ \A x \in Present(idx.nodes) : idx.nodes[x].parent = None => x = RootId
    /\ idx.root = RootId <=> idx.nodes[RootId] # NoNode
=============================================================================
