------------------------------ MODULE Listings ------------------------------
(***************************************************************************)
(* PROPFIND and HEAD (src/dav.rs) and the plugin's tree (src/api.rs):      *)
(* answered from index.bin, whose rows are searched by path and child      *)
(* blocks by name without loading the index (src/snapshot.rs lookup_file), *)
(* and else from Graph; and the plugin's search, which loads it.  A read   *)
(* changes no state, and the index cannot change under it, so it is a      *)
(* function of the state.                                                  *)
(***************************************************************************)
EXTENDS IndexSync

CONSTANT ReadPaths  \* the paths clients read; <<>> is "/"
ASSUME ReadPathsAssumption == ReadPaths \subseteq Seq(Names)
ASSUME NoPathAssumption == None \notin Seq(Names)

\* The nodes whose path_of is `path`: found by parent ids, not by child sets.
Named(idx, path) ==
    LET at[k \in 0..Len(path)] ==
            IF k = 0 THEN {x \in Present(idx.nodes) : idx.nodes[x].parent = None}
            ELSE {x \in Present(idx.nodes) :
                     idx.nodes[x].parent \in at[k - 1] /\ idx.nodes[x].name = path[k]}
    IN  at[Len(path)]

\* find_dir: a binary search, which may end at any of the rows of one path.
FindDir(idx, rows, path) == rows \cap Named(idx, path)

\* parse_child_block of the blocks of some rows.
ChildBlocks(idx, rows) ==
    {[name |-> e[1], id |-> e[2], dir |-> idx.nodes[e[2]].dir] :
        e \in {c \in UNION {idx.kids[row] : row \in rows} : idx.nodes[c[2]] # NoNode}}

Listed(id, dir, children) == [id |-> id, dir |-> dir, children |-> children]

AsDir(idx, found) == {Listed(row, TRUE, ChildBlocks(idx, {row})) : row \in found}
AsFile(idx, rows, path) ==
    IF path = <<>> THEN {}
    ELSE {Listed(c.id, c.dir, {}) :
             c \in {k \in ChildBlocks(idx, FindDir(idx, rows, ParentPath(path))) :
                       k.name = LastSegment(path)}}

\* Mutant of Lookup: the parent's block before the path's own row.
LookupParentFirst(idx, rows, path) ==
    LET files == AsFile(idx, rows, path)
    IN  IF files # {} THEN files ELSE AsDir(idx, FindDir(idx, rows, path))

\* lookup_with: the row of the path, else the entry in its parent's block; {} is a miss.
Lookup(idx, rows, path) ==
    LET found == FindDir(idx, rows, path)
    IN  IF found # {} THEN AsDir(idx, found) ELSE AsFile(idx, rows, path)

\* graph::stat, and graph::children of a folder, with no change between their requests; {} is a 404.
FromGraph(path) ==
    LET x == RemoteAt(path)
    IN  IF x = None THEN {}
        ELSE {Listed(x, x \in Folders,
                     {[name |-> e[1], id |-> e[2], dir |-> e[2] \in Folders] : e \in RemoteKids[x]})}

\* lookup_file; no index.bin is a miss.
LookupFile(rows, path) == IF IsIndex(live) THEN Lookup(live, rows, path) ELSE {}

\* propfind (Depth: 1): what it may answer.  Depth: 0 answers the same without the children.
Propfind(rows, path) ==
    LET hits == LookupFile(rows, path)
    IN  IF hits # {} THEN hits ELSE FromGraph(path)

\* head: the content type, of a folder (TRUE) or a file; {} is a 404.
DavHead(rows, path) ==
    LET hits == {hit.dir : hit \in LookupFile(rows, path)}
    IN  IF hits # {} THEN hits
        ELSE IF RemoteAt(path) = None THEN {} ELSE {RemoteAt(path) \in Folders}

(***************************************************************************)
(* tree: lookup_to_tree of a hit, else graph_tree.  Of the children the    *)
(* folders only.                                                           *)
(***************************************************************************)
OnlyFolders(listing) == [listing EXCEPT !.children = {child \in @ : child.dir}]
PluginTree(rows, path) == {OnlyFolders(hit) : hit \in Propfind(rows, path)}

(***************************************************************************)
(* Index::path_of: the names from a node up to one without parent, None if *)
(* a parent is missing or the walk is longer than 64 steps.                *)
(***************************************************************************)
PathOf(idx, id) ==
    LET segs[at \in Ids \X (0..64)] ==
            LET node == idx.nodes[at[1]]
                above == segs[<<node.parent, at[2] - 1>>]
            IN  IF at[2] = 0 \/ node = NoNode THEN None
                ELSE IF node.parent = None THEN <<>>
                ELSE IF above = None THEN None ELSE Append(above, node.name)
    IN  segs[<<id, 64>>]

\* search_index, for a query that only one name contains.
SearchIndex(idx, name) ==
    LET named == {x \in Present(idx.nodes) : idx.nodes[x].parent # None /\ idx.nodes[x].name = name}
    IN  {hit \in {[id |-> x, path |-> PathOf(idx, x)] : x \in named} : hit.path # None}

-----------------------------------------------------------------------------
(***************************************************************************)
(* A path is answered in three ways: lookup_file searches the rows of the  *)
(* file, Index::resolve walks child sets down, and search walks parent ids *)
(* up.  They agree on every path in every live index, halfway through a    *)
(* crawl as well: what a listing shows can be found and opened, nothing    *)
(* else is, and a folder of the plugin's tree opens as that folder.  A     *)
(* read is an invocation of its own: it runs when no other does (Host).    *)
(***************************************************************************)
LookupsResolve ==
    (pc = "idle" /\ IsIndex(live)) =>
        LET rows == DirRows(live)
            found == UNION {SearchIndex(live, name) : name \in Names}
        IN  /\ \A path \in ReadPaths :
                  {hit.id : hit \in Lookup(live, rows, path)} = {Resolve(live, path)} \ {None}
            /\ \A hit \in found : Resolve(live, hit.path) = hit.id
            /\ \A path \in ReadPaths \ {<<>>} :
                  Resolve(live, path) # None => \E hit \in found : hit.path = path
            /\ \A path \in {p \in ReadPaths : Resolve(live, p) # None} :
                  \A hit \in PluginTree(rows, path) : \A child \in hit.children :
                     \E down \in Lookup(live, rows, Append(path, child.name)) :
                        down.id = child.id /\ down.dir

(***************************************************************************)
(* README: "ONEDRIVE_INDEX_ENABLED=0 restores live Graph listings".  The   *)
(* switch changes no answer while the index is complete and the feed owes  *)
(* it nothing: the same entries of the same types, and a 404 for the rest. *)
(* Again a read runs when no other invocation does.                        *)
(***************************************************************************)
ReadsAreGraphs ==
    (IsIndex(live) /\ UpToDate(live) /\ pc = "idle") =>
        LET rows == DirRows(live)
        IN  \A path \in ReadPaths :
                /\ Propfind(rows, path) = FromGraph(path)
                /\ DavHead(rows, path) = {item.dir : item \in FromGraph(path)}
=============================================================================
