----------------------------- MODULE GraphDrive -----------------------------
(***************************************************************************)
(* The drive behind Microsoft Graph, as src/graph.rs uses it (external):   *)
(* a tree of items that other devices also change, path-addressed          *)
(* mutations, and the delta feed.                                          *)
(*                                                                         *)
(* The feed promises little.  An enumeration is fixed when it starts: the  *)
(* live items (initial) or the items changed since the deltaLink.  It is   *)
(* served in pages of any cut; an item appears in the state it has when    *)
(* its page is served; an item changed meanwhile comes again in the next   *)
(* enumeration.                                                            *)
(***************************************************************************)
EXTENDS Namespace

CONSTANTS
    InitialDrive,   \* the drive's items at the start
    MaxChanges,     \* bound: drive changes, by other devices and by clients
    PageSize,       \* bound: items in a delta page
    ParentsFirst,   \* TRUE: an enumeration never serves an item before its parent
    Movable         \* the items that are ever moved or renamed

ASSUME DriveAssumption ==
    /\ InitialDrive \in [Ids -> Node \cup {NoNode}]
    /\ InitialDrive[RootId] = RootNode
    /\ \A x \in Present(InitialDrive) \ {RootId} :
          /\ x \in ItemIds
          /\ InitialDrive[x].parent \in Folders \cap Present(InitialDrive)
          /\ InitialDrive[x].name \in Names
    /\ \A x \in Present(InitialDrive) : InitialDrive[x].dir = (x \in Folders)
    /\ UniqueNames(KidsOf(InitialDrive))
    /\ Present(InitialDrive) \subseteq Climb(InitialDrive, {RootId})
ASSUME BoundsAssumption == MaxChanges \in Nat /\ PageSize \in Nat \ {0}
ASSUME FeedAssumption == ParentsFirst \in BOOLEAN /\ Movable \subseteq ItemIds \ {RootId}

VARIABLES
    remote,     \* the drive: node map
    version,    \* number of the last change
    changed     \* when each item last changed; 0 if it never existed
driveVars == <<remote, version, changed>>

DriveTypeOK ==
    /\ remote \in [Ids -> Node \cup {NoNode}]
    /\ version \in Nat
    /\ changed \in [ItemIds -> Nat]

DriveInit ==
    /\ remote = InitialDrive
    /\ version = 1
    /\ changed = [x \in ItemIds |-> IF InitialDrive[x] = NoNode THEN 0 ELSE 1]

RemoteKids == KidsOf(remote)
RemoteAt(path) == WalkTo(RemoteKids, RootId, path)
IsFolder(x) == x \in Folders /\ remote[x] # NoNode
NameFree(parent, name) == \A e \in RemoteKids[parent] : e[1] # name

-----------------------------------------------------------------------------
\* One change of the drive: `drive` is its next tree, `items` what the feed owes for it.
Changes(drive, items) ==
    /\ version <= MaxChanges
    /\ remote' = drive
    /\ version' = version + 1
    /\ changed' = [x \in ItemIds |-> IF x \in items THEN version + 1 ELSE changed[x]]

Create(x, parent, name) ==
    /\ changed[x] = 0
    /\ IsFolder(parent) /\ NameFree(parent, name)
    /\ Changes([remote EXCEPT ![x] = [parent |-> parent, name |-> name, dir |-> x \in Folders]], {x})

\* New content of a file: the tree stays, the feed owes the item.
Rewrite(x) == remote[x] # NoNode /\ x \notin Folders /\ Changes(remote, {x})

Move(x, parent, name) ==
    /\ remote[x] # NoNode /\ x \in Movable
    /\ IsFolder(parent) /\ parent \notin Below(RemoteKids, x)
    /\ NameFree(parent, name)
    /\ Changes([remote EXCEPT ![x].parent = parent, ![x].name = name], {x})

\* A folder is deleted with everything in it; the feed owes each item.
Delete(x) ==
    /\ remote[x] # NoNode /\ x # RootId
    /\ LET gone == Below(RemoteKids, x)
       IN  Changes([y \in Ids |-> IF y \in gone THEN NoNode ELSE remote[y]], gone \cap ItemIds)

(***************************************************************************)
(* The mutations by path of src/graph.rs, where Graph carries them out.    *)
(***************************************************************************)
\* New content, for the item at the path or for a new file x.
PutContent(x, path) ==
    IF RemoteAt(path) # None THEN x = RemoteAt(path) /\ Rewrite(x)
    ELSE /\ RemoteAt(ParentPath(path)) # None /\ x \notin Folders
         /\ Create(x, RemoteAt(ParentPath(path)), LastSegment(path))

\* conflictBehavior "fail": nothing has the name.
CreateFolder(x, path) ==
    /\ RemoteAt(ParentPath(path)) # None /\ x \in Folders
    /\ Create(x, RemoteAt(ParentPath(path)), LastSegment(path))

\* A 404 is success.
DeleteAt(path) ==
    IF RemoteAt(path) # None THEN Delete(RemoteAt(path)) ELSE UNCHANGED driveVars

MoveOrRename(path, to) ==
    /\ RemoteAt(path) # None /\ RemoteAt(ParentPath(to)) # None
    /\ Move(RemoteAt(path), RemoteAt(ParentPath(to)), LastSegment(to))

\* A change by another device.
OtherDevice ==
    \/ \E x \in ItemIds, p \in Folders, n \in Names : Create(x, p, n)
    \/ \E x \in ItemIds, p \in Folders, n \in Names : Move(x, p, n)
    \/ \E x \in ItemIds : Delete(x)

-----------------------------------------------------------------------------
\* to_delta_item of what Graph says of item x when the drive is `drive`.
ItemOf(drive, x) ==
    LET gone == drive[x] = NoNode
    IN  [id |-> x, deleted |-> gone, is_root |-> x = RootId,
         parent |-> IF gone THEN None ELSE drive[x].parent,
         name |-> IF gone THEN None ELSE drive[x].name,
         dir |-> x \in Folders]

\* The items an enumeration at `link` still has to serve, and the version it began at.
Todo(link) ==
    CASE link.kind = "initial" -> Present(remote) \cap ItemIds
      [] link.kind = "next"    -> link.todo
      [] link.kind = "delta"   -> {x \in ItemIds : changed[x] > link.begun}
Begun(link) == IF link.kind = "next" THEN link.begun ELSE version

(***************************************************************************)
(* The pages Graph may answer to a GET of `link`: items, and a nextLink or *)
(* a deltaLink.                                                            *)
(***************************************************************************)
Page(items, next, token) == [items |-> items, next_link |-> next, delta_token |-> token]
Served(served, link) ==
    LET rest == Todo(link) \ served
        items == {ItemOf(remote, x) : x \in served}
    IN  IF rest = {} THEN Page(items, None, DeltaLink(Begun(link)))
        ELSE Page(items, NextLink(Begun(link), rest), None)

InFeedOrder(served, link) ==
    ParentsFirst => \A x \in served : \A y \in Todo(link) \ served :
                        remote[x] # NoNode => remote[x].parent # y
Pages(link) ==
    {Served(served, link) :
        served \in {S \in SUBSET Todo(link) :
                       /\ Cardinality(S) <= PageSize
                       /\ S = {} <=> Todo(link) = {}
                       /\ InFeedOrder(S, link)}}
=============================================================================
