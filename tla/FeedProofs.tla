----------------------------- MODULE FeedProofs -----------------------------
(***************************************************************************)
(* Proofs that the delta feed makes good whatever index.bin has wrong.     *)
(*                                                                         *)
(* The invariant FeedInv says, of a snapshot and of the index of a tick:   *)
(* every entry has a type and a place that the drive had (Typed), and      *)
(* whatever differs from the drive is owed by the link at which the crawl  *)
(* goes on (Told), where a link that owes a folder owes its contents       *)
(* (Family).  While a page is applied the rest of the page counts too      *)
(* (PageTold).  A mutation between its answer and its patch keeps what it  *)
(* takes to find its place by path (CallTold).  A save keeps only what     *)
(* leads up to a root (Climbs), and an entry that a failed parse left is   *)
(* told apart by Hangs.                                                    *)
(*                                                                         *)
(* In this order: the drive and its changes; what a link owes; a save and  *)
(* a load; an item of a page; the steps of a tick; a mutation of the drive *)
(* by a client; the patch that follows it; the theorems; what a read       *)
(* finds, by the rows of the file, the child sets and the parent ids; and  *)
(* that the patch of a mutation shows it at once.                          *)
(***************************************************************************)
EXTENDS Listings, IndexSyncProofs, FiniteSetTheorems, WellFoundedInduction, SequenceTheorems

-----------------------------------------------------------------------------
\* What the drive has, and when each item last changed.
Now == [tree |-> remote, version |-> version, changed |-> changed]

\* Item x is on the drive.
On(now, x) == now.tree[x] # NoNode

(***************************************************************************)
(* The drive is a tree of typed items below the root, and an item is never *)
(* older than its folder.                                                  *)
(***************************************************************************)
DriveTree(now) ==
    /\ now.tree \in [Ids -> Node \cup {NoNode}] /\ now.version \in Nat /\ now.changed \in [ItemIds -> Nat]
    /\ now.tree[RootId] = RootNode
    /\ \A x \in Ids : On(now, x) =>
          x \in ItemIds /\ now.tree[x].dir = (x \in Folders) /\ now.changed[x] > 0
    /\ \A x \in Ids \ {RootId} : On(now, x) =>
          /\ now.tree[x].parent \in Folders /\ On(now, now.tree[x].parent)
          /\ now.tree[x].name \in Names
          /\ now.changed[now.tree[x].parent] <= now.changed[x]
    /\ \A x, y \in Ids \ {RootId} : (/\ On(now, x) /\ On(now, y)
                                     /\ now.tree[x].parent = now.tree[y].parent
                                     /\ now.tree[x].name = now.tree[y].name) => x = y
    /\ \A x \in ItemIds : now.changed[x] <= now.version
    /\ Present(now.tree) \subseteq Climb(now.tree, {RootId})

(***************************************************************************)
(* How a drive goes on: what changes is numbered, a folder never changes   *)
(* but from absent to present and back, and what was deleted stays away.   *)
(***************************************************************************)
Grows(now, next) ==
    /\ DriveTree(now) /\ DriveTree(next)
    /\ now.version <= next.version
    /\ \A x \in ItemIds : now.changed[x] <= next.changed[x]
    /\ \A x \in ItemIds : now.tree[x] # next.tree[x] => next.changed[x] > now.version
    /\ \A x \in Folders : On(next, x) => now.tree[x] = next.tree[x] \/ now.changed[x] = 0
    /\ \A x \in ItemIds : (now.changed[x] > 0 /\ ~On(now, x)) => ~On(next, x)

\* The root is an item and a folder, folders are items, items are ids.
LEMMA FolderIsItem ==
    /\ RootId \in Folders /\ RootId \in ItemIds /\ RootId \in Ids
    /\ Folders \subseteq ItemIds /\ ItemIds \subseteq Ids
    /\ Ids = ItemIds \cup LocalIds /\ LocalIds \cap ItemIds = {}
    /\ None \notin Ids
  BY RootAssumption, FreshValuesAssumption DEF Ids

\* The root has no parent and is there.
LEMMA RootNodeIs ==
    RootNode \in Node /\ RootNode # NoNode /\ RootNode.parent = None /\ RootNode.name = None /\ RootNode.dir = TRUE
<1>1. RootNode \in Node
  BY DEF RootNode, Node
<1> QED
  BY <1>1, RootIsId DEF RootNode

\* An item other than the root gets a place, or new content where it is.
LEMMA PlaceGrows ==
  ASSUME NEW now, DriveTree(now), NEW x \in ItemIds \ {RootId}, NEW node \in Node,
         node.parent \in Folders, On(now, node.parent), node.parent # x,
         node.name \in Names, node.dir = (x \in Folders),
         x \in Folders => now.changed[x] = 0,
         now.changed[x] > 0 => On(now, x),
         \A y \in Ids \ {RootId, x} : ~(/\ On(now, y) /\ now.tree[y].parent = node.parent
                                        /\ now.tree[y].name = node.name),
         NEW next, next.tree = [now.tree EXCEPT ![x] = node], next.version = now.version + 1,
         next.changed = [y \in ItemIds |-> IF y \in {x} THEN now.version + 1 ELSE now.changed[y]]
  PROVE  Grows(now, next)
<1> DEFINE p == node.parent
<1>1. /\ now.tree \in [Ids -> Node \cup {NoNode}] /\ now.version \in Nat /\ now.changed \in [ItemIds -> Nat]
      /\ x \in Ids /\ x # RootId /\ p \in ItemIds /\ p \in Ids /\ node # NoNode
  BY FolderIsItem, RootIsId DEF DriveTree
<1>2. /\ next.tree \in [Ids -> Node \cup {NoNode}] /\ next.tree[x] = node
      /\ \A y \in Ids \ {x} : next.tree[y] = now.tree[y]
  BY <1>1
<1>3. /\ next.version \in Nat /\ next.changed \in [ItemIds -> Nat]
      /\ next.changed[x] = now.version + 1
      /\ \A y \in ItemIds \ {x} : next.changed[y] = now.changed[y]
      /\ \A y \in ItemIds : next.changed[y] <= next.version /\ now.changed[y] <= next.changed[y]
  <2>1. \A y \in ItemIds : now.changed[y] <= now.version /\ now.changed[y] \in Nat
    BY <1>1 DEF DriveTree
  <2>2. next.version \in Nat /\ next.changed \in [ItemIds -> Nat]
    BY <1>1
  <2>3. \A y \in ItemIds : next.changed[y] = IF y = x THEN now.version + 1 ELSE now.changed[y]
    OBVIOUS
  <2> QED
    BY <1>1, <2>1, <2>2, <2>3
(* x has no children: its folder, if it is one, is new. *)
<1>4. ASSUME NEW y \in Ids \ {RootId}, On(now, y) PROVE now.tree[y].parent # x
  <2> SUFFICES ASSUME now.tree[y].parent = x PROVE FALSE
    OBVIOUS
  <2>1. x \in Folders /\ On(now, x)
    BY <1>4 DEF DriveTree
  <2>2. now.changed[x] > 0 /\ now.changed[x] = 0
    BY <1>1, <2>1 DEF DriveTree
  <2> QED
    BY <2>2
<1>5. ASSUME NEW y \in Ids, On(next, y)
      PROVE  y \in ItemIds /\ next.tree[y].dir = (y \in Folders) /\ next.changed[y] > 0
  <2>1. CASE y = x
    BY <1>1, <1>2, <1>3, <2>1
  <2>2. CASE y # x
    <3>1. On(now, y) /\ next.tree[y] = now.tree[y]
      BY <1>2, <1>5, <2>2 DEF On
    <3>2. y \in ItemIds /\ now.tree[y].dir = (y \in Folders) /\ now.changed[y] > 0
      BY <3>1 DEF DriveTree
    <3> QED
      BY <1>3, <2>2, <3>1, <3>2
  <2> QED
    BY <2>1, <2>2
<1>6. ASSUME NEW y \in Ids \ {RootId}, On(next, y)
      PROVE  /\ next.tree[y].parent \in Folders /\ On(next, next.tree[y].parent)
             /\ next.tree[y].name \in Names
             /\ next.changed[next.tree[y].parent] <= next.changed[y]
  <2>1. CASE y = x
    <3>1. On(next, p)
      BY <1>1, <1>2 DEF On
    <3>2. next.changed[p] <= next.changed[x]
      BY <1>1, <1>3 DEF DriveTree
    <3> QED
      BY <1>2, <2>1, <3>1, <3>2
  <2>2. CASE y # x
    <3>1. On(now, y) /\ next.tree[y] = now.tree[y]
      BY <1>2, <1>6, <2>2 DEF On
    <3>2. /\ now.tree[y].parent \in Folders /\ On(now, now.tree[y].parent)
          /\ now.tree[y].name \in Names
          /\ now.changed[now.tree[y].parent] <= now.changed[y]
      BY <3>1 DEF DriveTree
    <3>3. now.tree[y].parent # x
      BY <1>4, <3>1
    <3>4. y \in ItemIds /\ now.tree[y].parent \in ItemIds /\ now.tree[y].parent \in Ids
      BY <1>5, <1>6, <3>2, FolderIsItem
    <3>5. On(next, now.tree[y].parent)
      BY <1>2, <3>2, <3>3, <3>4 DEF On
    <3> QED
      BY <1>3, <2>2, <3>1, <3>2, <3>3, <3>4, <3>5
  <2> QED
    BY <2>1, <2>2
<1>7. ASSUME NEW y \in Ids \ {RootId}, NEW z \in Ids \ {RootId}, On(next, y), On(next, z),
             next.tree[y].parent = next.tree[z].parent, next.tree[y].name = next.tree[z].name
      PROVE  y = z
  <2>1. ASSUME NEW u \in Ids \ {RootId, x}, On(next, u)
        PROVE  On(now, u) /\ next.tree[u] = now.tree[u]
    BY <1>2, <2>1 DEF On
  <2>2. CASE y # x /\ z # x
    <3>1. /\ On(now, y) /\ On(now, z) /\ next.tree[y] = now.tree[y] /\ next.tree[z] = now.tree[z]
      BY <1>7, <2>1, <2>2
    <3> QED
      BY <1>7, <3>1 DEF DriveTree
  <2>3. CASE y = x /\ z # x
    <3>1. On(now, z) /\ next.tree[z] = now.tree[z]
      BY <1>7, <2>1, <2>3
    <3> QED
      BY <1>2, <1>7, <2>3, <3>1
  <2>4. CASE y # x /\ z = x
    <3>1. On(now, y) /\ next.tree[y] = now.tree[y]
      BY <1>7, <2>1, <2>4
    <3> QED
      BY <1>2, <1>7, <2>4, <3>1
  <2> QED
    BY <2>2, <2>3, <2>4
<1>8. Present(next.tree) \subseteq Climb(next.tree, {RootId})
  <2> DEFINE T == Climb(next.tree, {RootId})
  <2>1. /\ RootId \in T
        /\ \A c \in Present(next.tree) : next.tree[c].parent \in T => c \in T
    BY FolderIsItem, ClimbIsLeast
  <2> HIDE DEF T
  <2>2. ASSUME NEW c \in Ids, now.tree[c] # NoNode, now.tree[c].parent \in T \cup {x}
        PROVE  c \in T \cup {x}
    <3>1. CASE c = RootId
      BY <2>1, <3>1
    <3>2. CASE c # RootId /\ c # x
      <4>1. now.tree[c].parent # x
        BY <1>4, <2>2, <3>2 DEF On
      <4>2. next.tree[c] = now.tree[c]
        BY <1>2, <3>2
      <4> QED
        BY <2>1, <2>2, <4>1, <4>2 DEF Present
    <3> QED
      BY <3>1, <3>2
  <2>3. Climb(now.tree, {RootId}) \subseteq T \cup {x}
    <3>1. {RootId} \in SUBSET Ids /\ {RootId} \subseteq T \cup {x}
      BY <2>1, FolderIsItem
    <3>2. \A c \in Ids : (/\ now.tree[c] # NoNode /\ now.tree[c].parent \in Climb(now.tree, {RootId})
                          /\ now.tree[c].parent \in T \cup {x}) => c \in T \cup {x}
      BY <2>2
    <3> QED
      BY <3>1, <3>2, ClimbLeast
  <2>4. p \in T
    <3>1. p \in Present(now.tree)
      BY <1>1 DEF Present, On
    <3> QED
      BY <2>3, <3>1 DEF DriveTree
  <2>5. x \in T
    BY <1>1, <1>2, <2>1, <2>4 DEF Present
  <2>6. ASSUME NEW c \in Present(next.tree) PROVE c \in T
    <3>1. CASE c = x
      BY <2>5, <3>1
    <3>2. CASE c # x
      <4>1. c \in Present(now.tree)
        BY <1>2, <2>6, <3>2 DEF Present
      <4> QED
        BY <2>3, <2>5, <4>1 DEF DriveTree
    <3> QED
      BY <3>1, <3>2
  <2> QED
    BY <2>6 DEF T
<1>9. next.tree[RootId] = RootNode
  BY <1>1, <1>2, FolderIsItem DEF DriveTree
<1>10. DriveTree(next)
  BY <1>2, <1>3, <1>5, <1>6, <1>7, <1>8, <1>9 DEF DriveTree
<1>11. \A y \in ItemIds : now.tree[y] # next.tree[y] => next.changed[y] > now.version
  BY <1>1, <1>2, <1>3, FolderIsItem
<1>12. \A y \in Folders : On(next, y) => now.tree[y] = next.tree[y] \/ now.changed[y] = 0
  BY <1>2, FolderIsItem
<1>13. \A y \in ItemIds : (now.changed[y] > 0 /\ ~On(now, y)) => ~On(next, y)
  BY <1>2, FolderIsItem DEF On
<1>14. now.version <= next.version
  BY <1>1
<1> QED
  BY <1>3, <1>10, <1>11, <1>12, <1>13, <1>14 DEF Grows

\* The drive's child sets, elementwise.
LEMMA DriveKids ==
  ASSUME NEW now, DriveTree(now)
  PROVE  /\ KidsOf(now.tree) \in [Ids -> SUBSET (Names \X Ids)]
         /\ UniqueNames(KidsOf(now.tree))
         /\ \A p, c \in Ids, m \in Names : <<m, c>> \in KidsOf(now.tree)[p] <=>
               c # RootId /\ On(now, c) /\ now.tree[c].parent = p /\ now.tree[c].name = m
<1> DEFINE kids == KidsOf(now.tree)
<1>1. /\ \A c \in Ids \ {RootId} : On(now, c) => now.tree[c].name \in Names
      /\ now.tree[RootId].parent = None
  BY RootNodeIs DEF DriveTree
<1>2. \A p \in Ids : kids[p] = {<<now.tree[c].name, c>> : c \in {d \in Present(now.tree) : now.tree[d].parent = p}}
  BY DEF KidsOf
<1>3. ASSUME NEW p \in Ids, NEW e \in kids[p]
      PROVE  \E c \in Ids \ {RootId} : /\ On(now, c) /\ now.tree[c].parent = p
                                       /\ e = <<now.tree[c].name, c>>
  <2>1. PICK c \in Present(now.tree) : now.tree[c].parent = p /\ e = <<now.tree[c].name, c>>
    BY <1>2, <1>3
  <2>2. c \in Ids /\ c # RootId
    BY <1>1, <2>1, RootIsId DEF Present
  <2> QED
    BY <2>1, <2>2 DEF Present, On
<1>4. \A p \in Ids : kids[p] \in SUBSET (Names \X Ids)
  BY <1>1, <1>3
<1>5. kids \in [Ids -> SUBSET (Names \X Ids)]
  <2>1. kids = [p \in Ids |-> kids[p]]
    BY DEF KidsOf
  <2> HIDE DEF kids
  <2> QED
    BY <1>4, <2>1
<1>6. ASSUME NEW p \in Ids, NEW c \in Ids, NEW m \in Names
      PROVE  <<m, c>> \in kids[p] <=>
               c # RootId /\ On(now, c) /\ now.tree[c].parent = p /\ now.tree[c].name = m
  <2>1. <<m, c>> \in kids[p] => c # RootId /\ On(now, c) /\ now.tree[c].parent = p /\ now.tree[c].name = m
    <3> HIDE DEF kids
    <3> QED
      BY <1>3
  <2>2. (c # RootId /\ On(now, c) /\ now.tree[c].parent = p /\ now.tree[c].name = m) => <<m, c>> \in kids[p]
    BY <1>2 DEF Present, On
  <2> QED
    BY <2>1, <2>2
<1>7. UniqueNames(kids)
  <2> SUFFICES ASSUME NEW p \in Ids, NEW e \in kids[p], NEW f \in kids[p], e[1] = f[1] PROVE e = f
    BY DEF UniqueNames
  <2>1. PICK c \in Ids \ {RootId} : On(now, c) /\ now.tree[c].parent = p /\ e = <<now.tree[c].name, c>>
    BY <1>3
  <2>2. PICK d \in Ids \ {RootId} : On(now, d) /\ now.tree[d].parent = p /\ f = <<now.tree[d].name, d>>
    BY <1>3
  <2>3. now.tree[c].name = now.tree[d].name
    BY <2>1, <2>2
  <2>4. c = d
    BY <2>1, <2>2, <2>3 DEF DriveTree
  <2> QED
    BY <2>1, <2>2, <2>4
<1> QED
  BY <1>5, <1>6, <1>7

\* A deletion takes an item with what is in it.
LEMMA DeleteGrows ==
  ASSUME NEW now, DriveTree(now), NEW x \in Ids \ {RootId}, NEW next,
         next.tree = [y \in Ids |-> IF y \in Below(KidsOf(now.tree), x) THEN NoNode ELSE now.tree[y]],
         next.version = now.version + 1,
         next.changed = [y \in ItemIds |-> IF y \in Below(KidsOf(now.tree), x) \cap ItemIds
                                           THEN now.version + 1 ELSE now.changed[y]]
  PROVE  Grows(now, next) /\ (x \in ItemIds => next.changed[x] > now.version)
<1> DEFINE gone == Below(KidsOf(now.tree), x)
           kids == KidsOf(now.tree)
<1>1. /\ now.tree \in [Ids -> Node \cup {NoNode}] /\ now.version \in Nat /\ now.changed \in [ItemIds -> Nat]
      /\ now.tree[RootId] = RootNode
  BY DEF DriveTree
<1>2. /\ kids \in [Ids -> SUBSET (Names \X Ids)]
      /\ \A p, c \in Ids, m \in Names : <<m, c>> \in kids[p] <=>
            c # RootId /\ On(now, c) /\ now.tree[c].parent = p /\ now.tree[c].name = m
  BY DriveKids
<1> HIDE DEF kids
<1>3. /\ gone \subseteq Ids /\ x \in gone
      /\ \A p \in gone, m \in Names, c \in Ids : <<m, c>> \in kids[p] => c \in gone
      /\ RootId \notin gone
  <2>1. \A p \in Ids : kids[p] \subseteq Names \X Ids
    BY <1>2
  <2>2. \A p \in Ids, m \in Names : <<m, RootId>> \notin kids[p]
    BY <1>2, FolderIsItem
  <2> QED
    BY <2>1, <2>2, BelowIsClosed, RootNotBelow DEF kids
<1>4. /\ \A y \in Ids : next.tree[y] = IF y \in gone THEN NoNode ELSE now.tree[y]
      /\ next.tree \in [Ids -> Node \cup {NoNode}]
  BY <1>1
<1>5. /\ next.version \in Nat /\ next.changed \in [ItemIds -> Nat]
      /\ \A y \in ItemIds : next.changed[y] = IF y \in gone THEN now.version + 1 ELSE now.changed[y]
  BY <1>1
<1> HIDE DEF gone
<1>6. \A y \in ItemIds : next.changed[y] <= next.version /\ now.changed[y] <= next.changed[y]
  <2>1. \A y \in ItemIds : now.changed[y] <= now.version /\ now.changed[y] \in Nat
    BY <1>1 DEF DriveTree
  <2> QED
    BY <1>1, <1>5, <2>1
<1>7. ASSUME NEW y \in Ids, On(next, y)
      PROVE  On(now, y) /\ next.tree[y] = now.tree[y] /\ y \in ItemIds /\ y \notin gone
             /\ next.changed[y] = now.changed[y]
  <2>1. y \notin gone /\ On(now, y) /\ next.tree[y] = now.tree[y]
    BY <1>4, <1>7 DEF On
  <2>2. y \in ItemIds
    BY <2>1 DEF DriveTree
  <2> QED
    BY <1>5, <2>1, <2>2
<1>8. ASSUME NEW y \in Ids \ {RootId}, On(now, y), y \notin gone
      PROVE  now.tree[y].parent \notin gone /\ now.tree[y].parent \in Folders /\ On(next, now.tree[y].parent)
  <2> DEFINE p == now.tree[y].parent
  <2>1. p \in Folders /\ p \in Ids /\ On(now, p) /\ now.tree[y].name \in Names
    BY <1>8, FolderIsItem DEF DriveTree
  <2>2. <<now.tree[y].name, y>> \in kids[p]
    BY <1>2, <1>8, <2>1
  <2>3. p \notin gone
    BY <1>3, <1>8, <2>1, <2>2
  <2> QED
    BY <1>4, <2>1, <2>3 DEF On
<1>9. \A y \in Ids : On(next, y) =>
        y \in ItemIds /\ next.tree[y].dir = (y \in Folders) /\ next.changed[y] > 0
  BY <1>7 DEF DriveTree
<1>10. ASSUME NEW y \in Ids \ {RootId}, On(next, y)
       PROVE  /\ next.tree[y].parent \in Folders /\ On(next, next.tree[y].parent)
              /\ next.tree[y].name \in Names
              /\ next.changed[next.tree[y].parent] <= next.changed[y]
  <2>1. On(now, y) /\ next.tree[y] = now.tree[y] /\ y \notin gone /\ next.changed[y] = now.changed[y]
    BY <1>7, <1>10
  <2>2. next.tree[y].parent \in Folders /\ On(next, next.tree[y].parent)
    BY <1>8, <2>1
  <2>3. next.changed[next.tree[y].parent] = now.changed[next.tree[y].parent]
    BY <1>7, <2>2, FolderIsItem
  <2> QED
    BY <2>1, <2>2, <2>3 DEF DriveTree
<1>11. \A y, z \in Ids \ {RootId} : (/\ On(next, y) /\ On(next, z)
                                     /\ next.tree[y].parent = next.tree[z].parent
                                     /\ next.tree[y].name = next.tree[z].name) => y = z
  <2> SUFFICES ASSUME NEW y \in Ids \ {RootId}, NEW z \in Ids \ {RootId}, On(next, y), On(next, z),
                      next.tree[y].parent = next.tree[z].parent, next.tree[y].name = next.tree[z].name
               PROVE  y = z
    OBVIOUS
  <2>1. /\ On(now, y) /\ next.tree[y] = now.tree[y]
        /\ On(now, z) /\ next.tree[z] = now.tree[z]
    BY <1>7
  <2>2. now.tree[y].parent = now.tree[z].parent /\ now.tree[y].name = now.tree[z].name
    BY <2>1
  <2> QED
    BY <2>1, <2>2 DEF DriveTree
<1>12. Present(next.tree) \subseteq Climb(next.tree, {RootId})
  <2> DEFINE T == Climb(next.tree, {RootId})
  <2>1. /\ RootId \in T
        /\ \A c \in Present(next.tree) : next.tree[c].parent \in T => c \in T
    BY FolderIsItem, ClimbIsLeast
  <2> HIDE DEF T
  <2>2. ASSUME NEW c \in Ids, now.tree[c] # NoNode, now.tree[c].parent \in T \cup gone
        PROVE  c \in T \cup gone
    <3>1. CASE c = RootId
      BY <2>1, <3>1
    <3>2. CASE c # RootId /\ c \notin gone
      <4>1. now.tree[c].parent \notin gone
        BY <1>8, <2>2, <3>2 DEF On
      <4>2. next.tree[c] = now.tree[c]
        BY <1>4, <3>2
      <4> QED
        BY <2>1, <2>2, <4>1, <4>2 DEF Present
    <3> QED
      BY <3>1, <3>2
  <2>3. Climb(now.tree, {RootId}) \subseteq T \cup gone
    <3>1. {RootId} \in SUBSET Ids /\ {RootId} \subseteq T \cup gone
      BY <2>1, FolderIsItem
    <3>2. \A c \in Ids : (/\ now.tree[c] # NoNode /\ now.tree[c].parent \in Climb(now.tree, {RootId})
                          /\ now.tree[c].parent \in T \cup gone) => c \in T \cup gone
      BY <2>2
    <3> QED
      BY <3>1, <3>2, ClimbLeast
  <2>4. ASSUME NEW c \in Present(next.tree) PROVE c \in T
    <3>1. c \in Ids /\ On(next, c)
      BY <2>4 DEF Present, On
    <3>2. c \notin gone /\ c \in Present(now.tree)
      BY <1>7, <3>1 DEF Present, On
    <3> QED
      BY <2>3, <3>2 DEF DriveTree
  <2> QED
    BY <2>4 DEF T
<1>13. next.tree[RootId] = RootNode
  BY <1>1, <1>3, <1>4, FolderIsItem
<1>14. DriveTree(next)
  BY <1>4, <1>5, <1>6, <1>9, <1>10, <1>11, <1>12, <1>13 DEF DriveTree
<1>15. \A y \in ItemIds : now.tree[y] # next.tree[y] => next.changed[y] > now.version
  BY <1>1, <1>4, <1>5, FolderIsItem
<1>16. \A y \in Folders : On(next, y) => now.tree[y] = next.tree[y] \/ now.changed[y] = 0
  BY <1>7, FolderIsItem
<1>17. \A y \in ItemIds : (now.changed[y] > 0 /\ ~On(now, y)) => ~On(next, y)
  BY <1>7, FolderIsItem
<1>18. now.version <= next.version
  BY <1>1
<1>19. Grows(now, next)
  BY <1>6, <1>14, <1>15, <1>16, <1>17, <1>18, <1>1 DEF Grows
<1>20. x \in ItemIds => next.changed[x] > now.version
  BY <1>1, <1>3, <1>5
<1> QED
  BY <1>19, <1>20

\* A node is its fields.
LEMMA NodesAgree ==
  ASSUME NEW m \in Node, NEW n \in Node, m.parent = n.parent, m.name = n.name, m.dir = n.dir
  PROVE  m = n
  BY DEF Node

\* The drive is a tree at the start.
LEMMA DriveStarts == DriveInit => DriveTree(Now)
<1> SUFFICES ASSUME DriveInit PROVE DriveTree(Now)
  OBVIOUS
<1>1. /\ Now.tree = InitialDrive /\ Now.version = 1
      /\ Now.changed = [x \in ItemIds |-> IF InitialDrive[x] = NoNode THEN 0 ELSE 1]
  BY DEF DriveInit, Now
<1> DEFINE now == Now
<1> HIDE DEF now
<1>2. /\ now.tree = InitialDrive /\ now.version = 1 /\ now.changed \in [ItemIds -> Nat]
      /\ \A x \in ItemIds : now.changed[x] = IF InitialDrive[x] = NoNode THEN 0 ELSE 1
  BY <1>1 DEF now
<1>3. /\ InitialDrive \in [Ids -> Node \cup {NoNode}]
      /\ InitialDrive[RootId] = RootNode
      /\ \A x \in Present(InitialDrive) \ {RootId} :
            /\ x \in ItemIds
            /\ InitialDrive[x].parent \in Folders \cap Present(InitialDrive)
            /\ InitialDrive[x].name \in Names
      /\ \A x \in Present(InitialDrive) : InitialDrive[x].dir = (x \in Folders)
      /\ UniqueNames(KidsOf(InitialDrive))
      /\ Present(InitialDrive) \subseteq Climb(InitialDrive, {RootId})
  BY DriveAssumption
<1>4. \A x \in Ids : On(now, x) <=> x \in Present(InitialDrive)
  BY <1>2 DEF On, Present
<1>5. \A x \in Ids : On(now, x) => x \in ItemIds /\ now.tree[x].dir = (x \in Folders) /\ now.changed[x] > 0
  <2> SUFFICES ASSUME NEW x \in Ids, On(now, x)
               PROVE  x \in ItemIds /\ now.tree[x].dir = (x \in Folders) /\ now.changed[x] > 0
    OBVIOUS
  <2>1. x \in ItemIds /\ now.tree[x].dir = (x \in Folders)
    BY <1>2, <1>3, <1>4, FolderIsItem
  <2>2. now.changed[x] = 1
    BY <1>2, <2>1 DEF On
  <2> QED
    BY <2>1, <2>2
<1>6. ASSUME NEW x \in Ids \ {RootId}, On(now, x)
      PROVE  /\ now.tree[x].parent \in Folders /\ On(now, now.tree[x].parent)
             /\ now.tree[x].name \in Names
             /\ now.changed[now.tree[x].parent] <= now.changed[x]
  <2>1. /\ now.tree[x].parent \in Folders /\ now.tree[x].parent \in Present(InitialDrive)
        /\ now.tree[x].name \in Names /\ x \in ItemIds
    BY <1>2, <1>3, <1>4, <1>6
  <2>2. now.changed[x] = 1 /\ now.changed[now.tree[x].parent] = 1
    BY <1>2, <1>6, <2>1, FolderIsItem DEF On, Present
  <2> QED
    BY <1>4, <2>1, <2>2, FolderIsItem
<1>7. ASSUME NEW x \in Ids \ {RootId}, NEW y \in Ids \ {RootId}, On(now, x), On(now, y),
             now.tree[x].parent = now.tree[y].parent, now.tree[x].name = now.tree[y].name
      PROVE  x = y
  <2> DEFINE p == now.tree[x].parent
             kids == KidsOf(InitialDrive)
  <2>1. p \in Ids /\ x \in Present(InitialDrive) /\ y \in Present(InitialDrive)
    BY <1>4, <1>6, <1>7, FolderIsItem
  <2>2. kids[p] = {<<InitialDrive[c].name, c>> : c \in {d \in Present(InitialDrive) : InitialDrive[d].parent = p}}
    BY <2>1 DEF KidsOf
  <2>3. <<InitialDrive[x].name, x>> \in kids[p] /\ <<InitialDrive[y].name, y>> \in kids[p]
    BY <1>2, <1>7, <2>1, <2>2
  <2> HIDE DEF kids, p
  <2>4. <<InitialDrive[x].name, x>> = <<InitialDrive[y].name, y>>
    BY <1>2, <1>3, <1>7, <2>1, <2>3 DEF UniqueNames, kids
  <2> QED
    BY <2>4
<1>8. \A x \in ItemIds : now.changed[x] <= now.version
  BY <1>2
<1>9. DriveTree(now)
  <2>1. now.tree = InitialDrive /\ now.version \in Nat /\ now.changed \in [ItemIds -> Nat]
    BY <1>2
  <2>2. InitialDrive \in [Ids -> Node \cup {NoNode}] /\ InitialDrive[RootId] = RootNode
    BY DriveAssumption
  <2>3. Present(InitialDrive) \subseteq Climb(InitialDrive, {RootId})
    BY DriveAssumption
  <2>4. Present(now.tree) \subseteq Climb(now.tree, {RootId})
    BY <2>1, <2>3
  <2>5. now.tree \in [Ids -> Node \cup {NoNode}] /\ now.tree[RootId] = RootNode
    BY <2>1, <2>2
  <2> QED
    BY <2>1, <2>4, <2>5, <1>5, <1>6, <1>7, <1>8 DEF DriveTree
<1> QED
  BY <1>9 DEF now

\* Files are all that clients and other devices move.
FilesMove == Movable \cap Folders = {}

\* What Changes says of the drive after it.
LEMMA ChangesNow ==
  ASSUME NEW drive, NEW items, Changes(drive, items)
  PROVE  /\ Now'.tree = drive /\ Now'.version = Now.version + 1
         /\ Now'.changed = [y \in ItemIds |-> IF y \in items THEN Now.version + 1 ELSE Now.changed[y]]
  BY DEF Changes, Now

\* A new item.
LEMMA CreateGrows ==
  ASSUME DriveTree(Now), NEW x \in ItemIds, NEW p \in Folders, NEW n \in Names, Create(x, p, n)
  PROVE  /\ Grows(Now, Now') /\ x # RootId /\ Now.changed[x] = 0 /\ ~On(Now, x) /\ Now'.changed[x] > Now.version
         /\ Now'.tree[x] = [parent |-> p, name |-> n, dir |-> x \in Folders]
<1> DEFINE node == [parent |-> p, name |-> n, dir |-> x \in Folders]
           now == Now
           next == Now'
<1>1. /\ now.changed[x] = 0 /\ On(now, p) /\ \A e \in KidsOf(now.tree)[p] : e[1] # n
      /\ Changes([now.tree EXCEPT ![x] = node], {x})
  BY DEF Create, IsFolder, On, Now, NameFree, RemoteKids
<1>2. /\ next.tree = [now.tree EXCEPT ![x] = node] /\ next.version = now.version + 1
      /\ next.changed = [y \in ItemIds |-> IF y \in {x} THEN now.version + 1 ELSE now.changed[y]]
  BY <1>1, ChangesNow
<1>3. DriveTree(now)
  OBVIOUS
<1> HIDE DEF now, next
<1>4. x \in Ids /\ ~On(now, x) /\ x # RootId /\ node \in Node /\ node.dir = (x \in Folders)
      /\ node.parent = p /\ node.name = n
  <2>1. x \in Ids /\ p \in Ids
    BY FolderIsItem
  <2>2. On(now, x) => now.changed[x] > 0
    BY <1>3, <2>1 DEF DriveTree
  <2>3. On(now, RootId)
    BY <1>3, RootNodeIs DEF DriveTree, On
  <2> QED
    BY <1>1, <2>1, <2>2, <2>3 DEF Node
<1>5. p # x
  BY <1>1, <1>4
<1>6. ASSUME NEW y \in Ids \ {RootId, x}, On(now, y), now.tree[y].parent = p, now.tree[y].name = n PROVE FALSE
  <2>1. <<n, y>> \in KidsOf(now.tree)[p]
    BY <1>3, <1>6, DriveKids, FolderIsItem
  <2> QED
    BY <1>1, <2>1
<1> HIDE DEF node
<1>7. Grows(now, next)
  BY <1>1, <1>2, <1>3, <1>4, <1>5, <1>6, PlaceGrows
<1>8. next.changed[x] > now.version /\ next.tree[x] = node
  <2>1. now.version \in Nat /\ now.tree \in [Ids -> Node \cup {NoNode}]
    BY <1>3 DEF DriveTree
  <2> QED
    BY <1>2, <1>4, <2>1
<1> QED
  BY <1>1, <1>4, <1>7, <1>8 DEF now, next, node

\* A file with a new parent or name.
LEMMA MoveGrows ==
  ASSUME FilesMove, DriveTree(Now), NEW x, NEW p \in Folders, NEW n \in Names, Move(x, p, n)
  PROVE  /\ x \in ItemIds /\ x # RootId /\ x \notin Folders /\ On(Now, x)
         /\ Grows(Now, Now') /\ Now'.changed[x] > Now.version
         /\ Now'.tree[x] = [parent |-> p, name |-> n, dir |-> FALSE]
<1> DEFINE now == Now
           next == Now'
           node == [parent |-> p, name |-> n, dir |-> FALSE]
<1>1. /\ On(now, p) /\ \A e \in KidsOf(now.tree)[p] : e[1] # n
      /\ On(now, x) /\ x \in Movable
      /\ Changes([now.tree EXCEPT ![x].parent = p, ![x].name = n], {x})
  BY DEF Move, IsFolder, On, Now, NameFree, RemoteKids
<1>2. /\ next.tree = [now.tree EXCEPT ![x].parent = p, ![x].name = n] /\ next.version = now.version + 1
      /\ next.changed = [y \in ItemIds |-> IF y \in {x} THEN now.version + 1 ELSE now.changed[y]]
  BY <1>1, ChangesNow
<1>3. DriveTree(now)
  OBVIOUS
<1> HIDE DEF now, next
<1>4. x \in ItemIds /\ x # RootId /\ x \notin Folders /\ x \in Ids /\ p # x /\ p \in Ids
  BY <1>1, FeedAssumption, FolderIsItem DEF FilesMove
<1>5. node \in Node /\ node.dir = (x \in Folders) /\ node.parent = p /\ node.name = n
  <2>1. (x \in Folders) = FALSE
    BY <1>4
  <2>2. node \in Node /\ node.dir = FALSE /\ node.parent = p /\ node.name = n
    BY <1>4 DEF Node
  <2> QED
    BY <2>1, <2>2
<1>6. next.tree = [now.tree EXCEPT ![x] = node]
  <2>1. now.tree \in [Ids -> Node \cup {NoNode}] /\ now.tree[x] \in Node /\ now.tree[x].dir = FALSE
    <3>1. now.tree \in [Ids -> Node \cup {NoNode}] /\ now.tree[x].dir = (x \in Folders)
      BY <1>1, <1>3, <1>4 DEF DriveTree
    <3>2. (x \in Folders) = FALSE
      BY <1>4
    <3> QED
      BY <1>1, <1>4, <3>1, <3>2 DEF On
  <2>2. [[now.tree[x] EXCEPT !.parent = p] EXCEPT !.name = n] = node
    <3> DEFINE r == now.tree[x]
    <3>1. r \in Node /\ r.dir = FALSE
      BY <2>1
    <3> HIDE DEF r
    <3> DEFINE new == [[r EXCEPT !.parent = p] EXCEPT !.name = n]
    <3>2. new \in Node /\ new.parent = p /\ new.name = n /\ new.dir = FALSE
      BY <1>4, <3>1 DEF Node
    <3>3. node \in Node /\ node.parent = p /\ node.name = n /\ node.dir = FALSE
      BY <1>4 DEF Node
    <3> HIDE DEF new, node
    <3>4. new = node
      BY <3>2, <3>3, NodesAgree
    <3> QED
      BY <3>4 DEF r, new
  <2>3. next.tree = [now.tree EXCEPT ![x] = [[now.tree[x] EXCEPT !.parent = p] EXCEPT !.name = n]]
    BY <1>2, <1>4, <2>1
  <2> HIDE DEF node
  <2> QED
    BY <2>2, <2>3
<1>7. ASSUME NEW y \in Ids \ {RootId, x}, On(now, y), now.tree[y].parent = p, now.tree[y].name = n PROVE FALSE
  <2>1. <<n, y>> \in KidsOf(now.tree)[p]
    BY <1>3, <1>7, DriveKids, FolderIsItem
  <2> QED
    BY <1>1, <2>1
<1> HIDE DEF node
<1>8. Grows(now, next)
  BY <1>1, <1>2, <1>3, <1>4, <1>5, <1>6, <1>7, PlaceGrows
<1>9. next.changed[x] > now.version /\ next.tree[x] = node
  <2>1. now.version \in Nat /\ now.tree \in [Ids -> Node \cup {NoNode}]
    BY <1>3 DEF DriveTree
  <2> QED
    BY <1>2, <1>4, <1>6, <2>1
<1> QED
  BY <1>1, <1>4, <1>8, <1>9 DEF now, next, node

\* New content of a file.
LEMMA RewriteGrows ==
  ASSUME DriveTree(Now), NEW x \in ItemIds, Rewrite(x)
  PROVE  /\ x # RootId /\ x \notin Folders /\ On(Now, x)
         /\ Grows(Now, Now') /\ Now'.changed[x] > Now.version
         /\ Now'.tree = Now.tree
<1> DEFINE now == Now
           next == Now'
           node == now.tree[x]
<1>1. On(now, x) /\ x \notin Folders /\ Changes(now.tree, {x})
  BY DEF Rewrite, On, Now
<1>2. /\ next.tree = now.tree /\ next.version = now.version + 1
      /\ next.changed = [y \in ItemIds |-> IF y \in {x} THEN now.version + 1 ELSE now.changed[y]]
  BY <1>1, ChangesNow
<1>3. DriveTree(now)
  OBVIOUS
<1> HIDE DEF now, next
<1>4. x \in Ids /\ x # RootId
  BY <1>1, FolderIsItem
<1>5. /\ node \in Node /\ node.dir = (x \in Folders) /\ node.parent \in Folders /\ On(now, node.parent)
      /\ node.name \in Names /\ node.parent # x
  BY <1>1, <1>3, <1>4 DEF DriveTree, On
<1>6. next.tree = [now.tree EXCEPT ![x] = node]
  BY <1>2, <1>3 DEF DriveTree
<1>7. ASSUME NEW y \in Ids \ {RootId, x}, On(now, y), now.tree[y].parent = node.parent,
             now.tree[y].name = node.name PROVE FALSE
  BY <1>1, <1>3, <1>4, <1>7 DEF DriveTree
<1>8. Grows(now, next)
  <2> HIDE DEF node
  <2> QED
    BY <1>1, <1>2, <1>3, <1>4, <1>5, <1>6, <1>7, PlaceGrows
<1>9. next.changed[x] > now.version
  <2>1. now.version \in Nat
    BY <1>3 DEF DriveTree
  <2> QED
    BY <1>2, <2>1
<1> QED
  BY <1>1, <1>2, <1>4, <1>8, <1>9 DEF now, next

\* An item deleted with what is in it.
LEMMA DeletedGrows ==
  ASSUME DriveTree(Now), NEW x \in Ids, Delete(x)
  PROVE  Grows(Now, Now') /\ (x \in ItemIds => Now'.changed[x] > Now.version)
<1> DEFINE now == Now
           next == Now'
           gone == Below(KidsOf(now.tree), x)
<1>1. x # RootId /\ Changes([y \in Ids |-> IF y \in gone THEN NoNode ELSE now.tree[y]], gone \cap ItemIds)
  BY DEF Delete, Now, RemoteKids
<1>2. /\ next.tree = [y \in Ids |-> IF y \in gone THEN NoNode ELSE now.tree[y]]
      /\ next.version = now.version + 1
      /\ next.changed = [y \in ItemIds |-> IF y \in gone \cap ItemIds THEN now.version + 1 ELSE now.changed[y]]
  BY <1>1, ChangesNow
<1>3. DriveTree(now)
  OBVIOUS
<1> HIDE DEF now, next
<1>4. Grows(now, next) /\ (x \in ItemIds => next.changed[x] > now.version)
  BY <1>1, <1>2, <1>3, DeleteGrows
<1> QED
  BY <1>4 DEF now, next

\* A drive that does not change.
LEMMA StayGrows == ASSUME DriveTree(Now), UNCHANGED driveVars PROVE Now' = Now /\ Grows(Now, Now')
<1>1. Now' = Now
  BY DEF Now, driveVars
<1>2. ASSUME NEW now, DriveTree(now) PROVE Grows(now, now)
  <2>1. now.version \in Nat /\ now.changed \in [ItemIds -> Nat]
    BY <1>2 DEF DriveTree
  <2>2. \A x \in ItemIds : now.changed[x] \in Nat
    BY <2>1
  <2> QED
    BY <1>2, <2>1, <2>2 DEF Grows
<1> DEFINE now == Now
<1>3. DriveTree(now)
  OBVIOUS
<1> HIDE DEF now
<1>4. Grows(now, now)
  BY <1>2, <1>3
<1> QED
  BY <1>1, <1>4 DEF now

\* A change by another device.
LEMMA OtherDeviceGrows == ASSUME FilesMove, DriveTree(Now), OtherDevice PROVE Grows(Now, Now')
<1>1. ASSUME NEW x \in ItemIds, NEW p \in Folders, NEW n \in Names, Create(x, p, n) PROVE Grows(Now, Now')
  BY <1>1, CreateGrows
<1>2. ASSUME NEW x \in ItemIds, NEW p \in Folders, NEW n \in Names, Move(x, p, n) PROVE Grows(Now, Now')
  BY <1>2, MoveGrows
<1>3. ASSUME NEW x \in ItemIds, Delete(x) PROVE Grows(Now, Now')
  BY <1>3, DeletedGrows, FolderIsItem
<1> QED
  BY <1>1, <1>2, <1>3 DEF OtherDevice

\* What the feed will still say to a crawl that goes on from `link`.
LinkOwes(link, now) ==
    LET since == {x \in ItemIds : now.changed[x] > link.begun}
    IN  CASE link.kind = "initial" -> ItemIds
          [] link.kind = "next"    -> link.todo \cup since
          [] link.kind = "delta"   -> since

(***************************************************************************)
(* With a folder, the feed owes all that is in it: an item is not older    *)
(* than its folder, and a page never serves an item before its folder.     *)
(***************************************************************************)
Family(link, now) ==
    /\ link.begun <= now.version
    /\ \A x \in Ids \ {RootId} :
          (On(now, x) /\ now.tree[x].parent \in LinkOwes(link, now)) => x \in LinkOwes(link, now)

(***************************************************************************)
(* The entries of an index: items that were on the drive, of their type,   *)
(* under folders; only the root has no parent; a folder that still exists  *)
(* is where it is on the drive (folders do not move).                      *)
(***************************************************************************)
Typed(idx, now) ==
    \A x \in Ids : HasNode(idx, x) =>
        /\ x \in ItemIds => idx.nodes[x].dir = (x \in Folders) /\ now.changed[x] > 0
        /\ idx.nodes[x].parent \in ItemIds =>
              idx.nodes[x].parent \in Folders /\ now.changed[idx.nodes[x].parent] > 0
        /\ (idx.nodes[x].parent \in LocalIds /\ HasNode(idx, idx.nodes[x].parent)) =>
              idx.nodes[idx.nodes[x].parent].dir
        /\ idx.nodes[x].parent = None => x = RootId
        /\ (x \in Folders /\ On(now, x)) => idx.nodes[x] = now.tree[x]

\* A "local:" entry whose place no parsed answer ever took: its folder is gone, or local too.
Hangs(idx, now) ==
    \A x \in LocalIds : HasNode(idx, x) =>
        \/ idx.nodes[x].parent \in LocalIds
        \/ idx.nodes[x].parent \in Folders /\ ~On(now, idx.nodes[x].parent)

\* Before the first page an index has nothing.
Begins(idx) == ResumeUrl(idx).kind = "initial" => \A x \in Ids : ~HasNode(idx, x)
\* The feed owes what the index has wrong.
Told(idx, now) ==
    /\ Begins(idx) /\ Family(ResumeUrl(idx), now)
    /\ \A x \in ItemIds : idx.nodes[x] = now.tree[x] \/ x \in LinkOwes(ResumeUrl(idx), now)

\* What leads up to an entry without parent.
Up(nodes) == Climb(nodes, {x \in Present(nodes) : nodes[x].parent = None})
Climbs(idx) == Present(idx.nodes) \subseteq Up(idx.nodes)

\* A snapshot file.
FileTold(file, now) ==
    file # Missing =>
        Typed(file, now) /\ Told(file, now) /\ Climbs(file) /\ (Unparsed \/ Hangs(file, now))

-----------------------------------------------------------------------------
\* What LinkOwes is, link by link.
LEMMA OwesCases ==
  ASSUME NEW now, NEW link \in Link
  PROVE  /\ link.kind = "initial" => LinkOwes(link, now) = ItemIds
         /\ link.kind = "next" => LinkOwes(link, now) = link.todo \cup {x \in ItemIds : now.changed[x] > link.begun}
         /\ link.kind = "delta" => LinkOwes(link, now) = {x \in ItemIds : now.changed[x] > link.begun}
         /\ link.kind \in {"initial", "next", "delta"} /\ link.begun \in Nat
         /\ link.todo \subseteq ItemIds
         /\ LinkOwes(link, now) \subseteq ItemIds
         /\ \A x \in ItemIds : now.changed[x] > link.begun => x \in LinkOwes(link, now)
<1>1. link.kind \in {"initial", "next", "delta"} /\ link.begun \in Nat /\ link.todo \subseteq ItemIds
  BY DEF Link
<1> DEFINE since == {x \in ItemIds : now.changed[x] > link.begun}
<1>2. LinkOwes(link, now) = CASE link.kind = "initial" -> ItemIds
                              [] link.kind = "next"    -> link.todo \cup since
                              [] link.kind = "delta"   -> since
  BY DEF LinkOwes
<1>3. since \subseteq ItemIds /\ \A x \in ItemIds : now.changed[x] > link.begun => x \in since
  OBVIOUS
<1> HIDE DEF since
<1>4. /\ link.kind = "initial" => LinkOwes(link, now) = ItemIds
      /\ link.kind = "next" => LinkOwes(link, now) = link.todo \cup since
      /\ link.kind = "delta" => LinkOwes(link, now) = since
  BY <1>2
<1> QED
  BY <1>1, <1>3, <1>4 DEF since

\* What the feed owes only grows with the drive, by all that changes.
LEMMA OwesGrow ==
  ASSUME NEW now, NEW next, Grows(now, next), NEW link \in Link
  PROVE  /\ LinkOwes(link, now) \subseteq LinkOwes(link, next)
         /\ link.begun <= now.version =>
               \A x \in ItemIds : (now.tree[x] # next.tree[x] \/ next.changed[x] > now.version)
                                     => x \in LinkOwes(link, next)
<1>1. /\ now.changed \in [ItemIds -> Nat] /\ next.changed \in [ItemIds -> Nat] /\ now.version \in Nat
      /\ \A x \in ItemIds : now.changed[x] <= next.changed[x]
      /\ \A x \in ItemIds : now.tree[x] # next.tree[x] => next.changed[x] > now.version
  BY DEF Grows, DriveTree
<1>2. /\ link.kind = "initial" => LinkOwes(link, now) = ItemIds
      /\ link.kind = "next" => LinkOwes(link, now) = link.todo \cup {x \in ItemIds : now.changed[x] > link.begun}
      /\ link.kind = "delta" => LinkOwes(link, now) = {x \in ItemIds : now.changed[x] > link.begun}
      /\ link.kind \in {"initial", "next", "delta"} /\ link.begun \in Nat
  BY OwesCases
<1>3. /\ link.kind = "initial" => LinkOwes(link, next) = ItemIds
      /\ link.kind = "next" => LinkOwes(link, next) = link.todo \cup {x \in ItemIds : next.changed[x] > link.begun}
      /\ link.kind = "delta" => LinkOwes(link, next) = {x \in ItemIds : next.changed[x] > link.begun}
      /\ \A x \in ItemIds : next.changed[x] > link.begun => x \in LinkOwes(link, next)
  BY OwesCases
<1>4. \A x \in ItemIds : now.changed[x] > link.begun => next.changed[x] > link.begun
  BY <1>1, <1>2
<1>5. LinkOwes(link, now) \subseteq LinkOwes(link, next)
  BY <1>2, <1>3, <1>4
<1>6. ASSUME link.begun <= now.version, NEW x \in ItemIds,
             now.tree[x] # next.tree[x] \/ next.changed[x] > now.version
      PROVE  x \in LinkOwes(link, next)
  <2>1. next.changed[x] > now.version /\ next.changed[x] \in Nat
    BY <1>1, <1>6
  <2>2. next.changed[x] > link.begun
    BY <1>1, <1>2, <1>6, <2>1
  <2> QED
    BY <1>3, <2>2
<1> QED
  BY <1>5, <1>6

\* A family stays one.
LEMMA FamilyGrows ==
  ASSUME NEW now, NEW next, Grows(now, next), NEW link \in Link, Family(link, now)
  PROVE  Family(link, next)
<1>1. link.begun <= now.version /\ now.version <= next.version /\ now.version \in Nat /\ next.version \in Nat
      /\ link.begun \in Nat
  BY OwesCases DEF Family, Grows, DriveTree
<1>2. ASSUME NEW x \in Ids \ {RootId}, On(next, x), next.tree[x].parent \in LinkOwes(link, next)
      PROVE  x \in LinkOwes(link, next)
  <2> DEFINE p == next.tree[x].parent
  <2>1. /\ x \in ItemIds /\ p \in ItemIds
        /\ next.changed[p] <= next.changed[x]
    BY <1>2, FolderIsItem DEF Grows, DriveTree
  <2>2. CASE now.tree[x] # next.tree[x]
    BY <1>1, <2>1, <2>2, OwesGrow
  <2>3. CASE now.tree[x] = next.tree[x]
    <3>1. CASE p \in LinkOwes(link, now)
      <4>1. On(now, x) /\ now.tree[x].parent = p
        BY <1>2, <2>3 DEF On
      <4>2. x \in LinkOwes(link, now)
        BY <3>1, <4>1 DEF Family
      <4> QED
        BY <4>2, OwesGrow
    <3>2. CASE p \notin LinkOwes(link, now)
      <4>1. next.changed[p] > link.begun
        BY <1>2, <2>1, <3>2, OwesCases
      <4>2. next.changed[x] > link.begun
        <5>1. next.changed[p] \in Nat /\ next.changed[x] \in Nat
          BY <2>1 DEF Grows, DriveTree
        <5> QED
          BY <1>1, <2>1, <4>1, <5>1
      <4> QED
        BY <2>1, <4>2, OwesCases
    <3> QED
      BY <3>1, <3>2
  <2> QED
    BY <2>2, <2>3
<1>3. link.begun <= next.version
  BY <1>1
<1> QED
  BY <1>2, <1>3 DEF Family

\* The entries stay typed: a folder they were typed by was not made again elsewhere.
LEMMA TypedGrows ==
  ASSUME NEW now, NEW next, Grows(now, next), NEW idx, Typed(idx, now)
  PROVE  Typed(idx, next)
<1>1. ASSUME NEW x \in ItemIds, now.changed[x] > 0 PROVE next.changed[x] > 0
  <2>1. now.changed[x] \in Nat /\ next.changed[x] \in Nat /\ now.changed[x] <= next.changed[x]
    BY DEF Grows, DriveTree
  <2> QED
    BY <1>1, <2>1
<1>2. ASSUME NEW x \in Folders, On(next, x), now.changed[x] > 0 PROVE On(now, x) /\ next.tree[x] = now.tree[x]
  BY <1>2 DEF Grows, On
<1> QED
  BY <1>1, <1>2, FolderIsItem DEF Typed

\* A folder that is gone stays gone.
LEMMA HangsGrows ==
  ASSUME NEW now, NEW next, Grows(now, next), NEW idx, Typed(idx, now), Hangs(idx, now)
  PROVE  Hangs(idx, next)
<1> SUFFICES ASSUME NEW x \in LocalIds, HasNode(idx, x), idx.nodes[x].parent \notin LocalIds
             PROVE  idx.nodes[x].parent \in Folders /\ ~On(next, idx.nodes[x].parent)
  BY DEF Hangs
<1>1. idx.nodes[x].parent \in Folders /\ ~On(now, idx.nodes[x].parent)
  BY DEF Hangs
<1>2. x \in Ids /\ idx.nodes[x].parent \in ItemIds
  BY <1>1, FolderIsItem
<1>3. now.changed[idx.nodes[x].parent] > 0
  BY <1>2 DEF Typed
<1> QED
  BY <1>1, <1>2, <1>3 DEF Grows

\* What the feed owed it still owes, and what changed it owes too.
LEMMA ToldGrows ==
  ASSUME NEW now, NEW next, Grows(now, next), NEW idx \in Index, Told(idx, now)
  PROVE  Told(idx, next)
<1> DEFINE link == ResumeUrl(idx)
<1>1. link \in Link
  BY ResumeIsLink
<1>2. Begins(idx) /\ Family(link, now)
  BY DEF Told
<1> HIDE DEF link
<1>3. Family(link, next)
  BY <1>1, <1>2, FamilyGrows
<1>4. ASSUME NEW x \in ItemIds PROVE idx.nodes[x] = next.tree[x] \/ x \in LinkOwes(link, next)
  <2>1. link.begun <= now.version
    BY <1>2 DEF Family
  <2>2. CASE now.tree[x] # next.tree[x]
    BY <1>1, <2>1, <2>2, OwesGrow
  <2>3. CASE now.tree[x] = next.tree[x]
    BY <1>1, <2>3, OwesGrow DEF Told, link
  <2> QED
    BY <2>2, <2>3
<1> QED
  BY <1>2, <1>3, <1>4 DEF Told, link

\* A file is as true after a change of the drive as before it.
LEMMA FileGrows ==
  ASSUME NEW now, NEW next, Grows(now, next), NEW file, FileOK(file), FileTold(file, now)
  PROVE  FileTold(file, next)
<1> SUFFICES ASSUME file # Missing
             PROVE  Typed(file, next) /\ Told(file, next) /\ Climbs(file) /\ (Unparsed \/ Hangs(file, next))
  BY DEF FileTold
<1>1. file \in Index /\ Typed(file, now) /\ Told(file, now) /\ Climbs(file) /\ (Unparsed \/ Hangs(file, now))
  BY DEF FileTold, FileOK, Sound
<1> QED
  BY <1>1, TypedGrows, ToldGrows, HangsGrows

\* What leads up to the root: present entries, with their parents.
LEMMA UpFacts ==
  ASSUME NEW nodes
  PROVE  /\ Up(nodes) \subseteq Present(nodes)
         /\ \A c \in Present(nodes) : nodes[c].parent = None => c \in Up(nodes)
         /\ \A c \in Present(nodes) : nodes[c].parent \in Up(nodes) => c \in Up(nodes)
         /\ \A c \in Up(nodes) : nodes[c].parent = None \/ nodes[c].parent \in Up(nodes)
         /\ \A S : (/\ \A c \in Present(nodes) : nodes[c].parent = None => c \in S
                    /\ \A c \in Up(nodes) : nodes[c].parent \in S \cap Up(nodes) => c \in S)
                      => Up(nodes) \subseteq S
<1> DEFINE tops == {x \in Present(nodes) : nodes[x].parent = None}
<1>1. tops \in SUBSET Ids /\ tops \subseteq Present(nodes)
  BY DEF Present
<1>2. Up(nodes) = Climb(nodes, tops)
  BY DEF Up
<1>3. \A c \in Present(nodes) : c \in tops <=> nodes[c].parent = None
  OBVIOUS
<1> HIDE DEF tops
<1>4. /\ tops \subseteq Climb(nodes, tops)
      /\ Climb(nodes, tops) \subseteq tops \cup Present(nodes)
      /\ \A c \in Present(nodes) : nodes[c].parent \in Climb(nodes, tops) => c \in Climb(nodes, tops)
      /\ \A c \in Climb(nodes, tops) \ tops : nodes[c].parent \in Climb(nodes, tops)
  BY <1>1, ClimbIsLeast
<1>5. ASSUME NEW S,
             \A c \in Present(nodes) : nodes[c].parent = None => c \in S,
             \A c \in Up(nodes) : nodes[c].parent \in S \cap Up(nodes) => c \in S
      PROVE  Up(nodes) \subseteq S
  <2>1. tops \subseteq S
    BY <1>1, <1>3, <1>5
  <2>2. \A c \in Ids : (nodes[c] # NoNode /\ nodes[c].parent \in Climb(nodes, tops) /\ nodes[c].parent \in S)
                          => c \in S
    BY <1>2, <1>4, <1>5 DEF Present
  <2>3. Climb(nodes, tops) \subseteq S
    BY <1>1, <2>1, <2>2, ClimbLeast
  <2> QED
    BY <1>2, <2>3
<1> QED
  BY <1>1, <1>2, <1>3, <1>4, <1>5

\* The recorded root is the drive's root as it is.
LEMMA RootEntry ==
  ASSUME NEW now, DriveTree(now), NEW idx, Sound(idx), Typed(idx, now), HasNode(idx, RootId)
  PROVE  idx.root = RootId /\ idx.nodes[RootId] = RootNode
<1>1. now.tree[RootId] = RootNode /\ On(now, RootId)
  BY RootNodeIs DEF DriveTree, On
<1> QED
  BY <1>1, FolderIsItem DEF Sound, RootKnown, Typed

(***************************************************************************)
(* A save and a load keep what leads up to the root, and nothing else:     *)
(* a parent on the way is a folder, so it has its row.                     *)
(***************************************************************************)
LEMMA ReloadNodes ==
  ASSUME NEW now, DriveTree(now), NEW idx, Sound(idx), Typed(idx, now)
  PROVE  /\ \A c \in Ids : Reload(idx).nodes[c] = IF c \in Up(idx.nodes) THEN idx.nodes[c] ELSE NoNode
         /\ SameLinks(Reload(idx), idx)
<1> DEFINE rows == DirRows(idx)
           up == Up(idx.nodes)
           new == Reload(idx)
           rowNode(x) == [parent |-> IF idx.nodes[x].parent \in rows THEN idx.nodes[x].parent ELSE None,
                          name |-> IF idx.nodes[x].parent = None THEN None ELSE idx.nodes[x].name,
                          dir |-> TRUE]
<1>1. /\ \A c \in Ids : new.nodes[c] = IF c \in rows THEN rowNode(c)
                                        ELSE IF idx.nodes[c] # NoNode /\ idx.nodes[c].parent \in rows
                                        THEN idx.nodes[c]
                                        ELSE NoNode
      /\ SameLinks(new, idx)
  BY DEF Reload, SameLinks, Sound, Index
<1>2. rows = {x \in up : idx.nodes[x].dir \/ idx.root = x}
  <2>1. up \cap Present(idx.nodes) = up
    BY UpFacts
  <2> QED
    BY <2>1 DEF DirRows, Up
<1> HIDE DEF rows, up, new
<1>3. /\ up \subseteq Ids /\ \A c \in up : HasNode(idx, c)
      /\ \A c \in Ids : (HasNode(idx, c) /\ idx.nodes[c].parent \in up) => c \in up
      /\ \A c \in up : idx.nodes[c].parent = None \/ idx.nodes[c].parent \in up
  BY UpFacts DEF up, Present, HasNode
<1>4. idx.nodes \in [Ids -> Node \cup {NoNode}]
  BY IndexFields DEF Sound
<1>5. ASSUME NEW c \in up, idx.nodes[c].parent # None PROVE idx.nodes[c].parent \in rows
  <2> DEFINE p == idx.nodes[c].parent
  <2>1. p \in up /\ p \in Ids /\ HasNode(idx, p) /\ c \in Ids /\ HasNode(idx, c)
    BY <1>3, <1>5
  <2>2. CASE p \in ItemIds
    <3>1. p \in Folders
      BY <2>1, <2>2 DEF Typed
    <3>2. idx.nodes[p].dir = (p \in Folders)
      BY <2>1, <2>2 DEF Typed
    <3> QED
      BY <1>2, <2>1, <3>1, <3>2
  <2>3. CASE p \in LocalIds
    BY <1>2, <2>1, <2>3 DEF Typed
  <2> QED
    BY <2>1, <2>2, <2>3, FolderIsItem
<1>6. ASSUME NEW c \in up, c \in rows PROVE rowNode(c) = idx.nodes[c]
  <2>1. c \in Ids /\ HasNode(idx, c) /\ idx.nodes[c] \in Node
    BY <1>3, <1>4 DEF HasNode
  <2>2. CASE idx.nodes[c].parent = None
    <3>1. c = RootId
      BY <2>1, <2>2 DEF Typed
    <3>2. idx.nodes[c] = RootNode
      BY <2>1, <3>1, RootEntry
    <3>3. None \notin rows
      BY <1>2, <1>3, FolderIsItem
    <3> QED
      BY <2>2, <3>2, <3>3 DEF RootNode
  <2>3. CASE idx.nodes[c].parent # None
    <3>1. idx.nodes[c].parent \in rows
      BY <1>5, <2>3
    <3>2. idx.root # c
      BY <2>1, <2>3, RootIsId DEF Sound, RootKnown
    <3>3. idx.nodes[c].dir = TRUE
      <4>1. idx.nodes[c].dir \in BOOLEAN
        BY <2>1 DEF Node
      <4> QED
        BY <1>2, <1>6, <3>2, <4>1
    <3>4. rowNode(c) = [parent |-> idx.nodes[c].parent, name |-> idx.nodes[c].name, dir |-> TRUE]
      BY <2>3, <3>1
    <3>5. rowNode(c) \in Node /\ rowNode(c).parent = idx.nodes[c].parent
          /\ rowNode(c).name = idx.nodes[c].name /\ rowNode(c).dir = idx.nodes[c].dir
      BY <2>1, <3>3, <3>4 DEF Node
    <3> HIDE DEF rowNode
    <3> QED
      BY <2>1, <3>5, NodesAgree
  <2> QED
    BY <2>2, <2>3
<1>7. ASSUME NEW c \in Ids PROVE new.nodes[c] = IF c \in up THEN idx.nodes[c] ELSE NoNode
  <2>1. CASE c \in rows
    <3>1. c \in up
      BY <1>2, <2>1
    <3> QED
      BY <1>1, <1>6, <2>1, <3>1
  <2>2. CASE c \notin rows /\ c \in up
    <3>1. idx.nodes[c].parent # None
      <4> SUFFICES ASSUME idx.nodes[c].parent = None PROVE FALSE
        OBVIOUS
      <4>1. c = RootId /\ HasNode(idx, RootId)
        BY <1>3, <2>2 DEF Typed
      <4>2. idx.root = c
        BY <4>1, RootEntry
      <4> QED
        BY <1>2, <2>2, <4>2
    <3>2. idx.nodes[c].parent \in rows
      BY <1>5, <2>2, <3>1
    <3> QED
      BY <1>1, <1>3, <2>2, <3>2 DEF HasNode
  <2>3. CASE c \notin rows /\ c \notin up
    <3>1. ~(idx.nodes[c] # NoNode /\ idx.nodes[c].parent \in rows)
      BY <1>2, <1>3, <2>3 DEF HasNode
    <3> QED
      BY <1>1, <2>3, <3>1
  <2> QED
    BY <2>1, <2>2, <2>3
<1> QED
  BY <1>1, <1>7 DEF up, new

\* The sweep at the end of a crawl keeps the same, once the root is there.
LEMMA SweepNodes ==
  ASSUME NEW now, DriveTree(now), NEW idx, Sound(idx), Typed(idx, now)
  PROVE  /\ \/ SweepOrphans(idx) = idx
            \/ \A c \in Ids : SweepOrphans(idx).nodes[c] =
                                 IF c \in Up(idx.nodes) THEN idx.nodes[c] ELSE NoNode
         /\ SameLinks(SweepOrphans(idx), idx)
<1>1. CASE idx.root = None
  BY <1>1 DEF SweepOrphans, SameLinks
<1>2. CASE idx.root # None
  <2> DEFINE reachable == Climb(idx.nodes, {idx.root}) \cap Present(idx.nodes)
             new == SweepOrphans(idx)
  <2>1. idx.root = RootId /\ HasNode(idx, RootId) /\ idx.nodes[RootId].parent = None
    BY <1>2 DEF Sound, RootKnown
  <2>2. {x \in Present(idx.nodes) : idx.nodes[x].parent = None} = {idx.root}
    BY <2>1, RootIsId DEF Typed, Present, HasNode
  <2>3. reachable = Up(idx.nodes)
    <3>1. Up(idx.nodes) = Climb(idx.nodes, {idx.root})
      BY <2>2 DEF Up
    <3> QED
      BY <3>1, UpFacts
  <2>4. /\ \A c \in Ids : new.nodes[c] = IF c \in reachable THEN idx.nodes[c] ELSE NoNode
        /\ SameLinks(new, idx)
    <3> HIDE DEF reachable
    <3>1. new = [idx EXCEPT !.nodes = [x \in Ids |-> IF x \in reachable THEN idx.nodes[x] ELSE NoNode],
                            !.kids  = [p \in Ids |-> IF p \in reachable
                                                     THEN {e \in idx.kids[p] : e[2] \in reachable}
                                                     ELSE {}]]
      BY <1>2 DEF SweepOrphans, reachable
    <3> HIDE DEF new
    <3> QED
      BY <3>1 DEF SameLinks, Sound, Index
  <2> QED
    BY <2>3, <2>4
<1> QED
  BY <1>1, <1>2

\* What is left of an index without what leads nowhere is typed, hangs and climbs as before.
LEMMA PrunedKeeps ==
  ASSUME NEW now, NEW idx, NEW new, Typed(idx, now),
         \A c \in Ids : new.nodes[c] = IF c \in Up(idx.nodes) THEN idx.nodes[c] ELSE NoNode
  PROVE  /\ Typed(new, now) /\ Climbs(new)
         /\ Hangs(idx, now) => Hangs(new, now)
<1> DEFINE up == Up(idx.nodes)
<1>1. /\ up \subseteq Ids /\ \A c \in up : idx.nodes[c] # NoNode
      /\ \A c \in Ids : (idx.nodes[c] # NoNode /\ idx.nodes[c].parent \in up) => c \in up
      /\ \A c \in up : idx.nodes[c].parent = None \/ idx.nodes[c].parent \in up
      /\ \A c \in Present(idx.nodes) : idx.nodes[c].parent = None => c \in up
      /\ \A S : (/\ \A c \in Present(idx.nodes) : idx.nodes[c].parent = None => c \in S
                 /\ \A c \in up : idx.nodes[c].parent \in S \cap up => c \in S)
                   => up \subseteq S
  BY UpFacts DEF Present
<1>2. \A c \in Ids : new.nodes[c] = IF c \in up THEN idx.nodes[c] ELSE NoNode
  OBVIOUS
<1> HIDE DEF up
<1>3. \A c \in Ids : HasNode(new, c) => c \in up /\ HasNode(idx, c) /\ new.nodes[c] = idx.nodes[c]
  BY <1>1, <1>2 DEF HasNode
<1>4. Typed(new, now)
  BY <1>3, FolderIsItem DEF Typed
<1>5. Hangs(idx, now) => Hangs(new, now)
  BY <1>3, FolderIsItem DEF Hangs
<1>6. Climbs(new)
  <2> DEFINE T == Up(new.nodes)
  <2>1. /\ \A c \in Present(new.nodes) : new.nodes[c].parent = None => c \in T
        /\ \A c \in Present(new.nodes) : new.nodes[c].parent \in T => c \in T
    BY UpFacts
  <2> HIDE DEF T
  <2>2. \A c \in Present(idx.nodes) : idx.nodes[c].parent = None => c \in T
    BY <1>1, <1>2, <2>1 DEF Present
  <2>3. \A c \in up : idx.nodes[c].parent \in T \cap up => c \in T
    BY <1>1, <1>2, <2>1 DEF Present
  <2>4. up \subseteq T
    BY <1>1, <2>2, <2>3
  <2> QED
    BY <1>3, <2>4 DEF Climbs, Present, HasNode, T
<1> QED
  BY <1>4, <1>5, <1>6

(***************************************************************************)
(* What an index has right, and the feed does not owe, leads up to the     *)
(* root in it as it does on the drive.                                     *)
(***************************************************************************)
LEMMA UnowedClimb ==
  ASSUME NEW now, DriveTree(now), NEW idx, NEW O,
         \A x \in Ids \ {RootId} : (On(now, x) /\ now.tree[x].parent \in O) => x \in O,
         \A x \in ItemIds : idx.nodes[x] = now.tree[x] \/ x \in O
  PROVE  \A x \in ItemIds \ O : On(now, x) => x \in Up(idx.nodes)
<1> DEFINE up == Up(idx.nodes)
<1>1. /\ \A c \in Present(idx.nodes) : idx.nodes[c].parent = None => c \in up
      /\ \A c \in Present(idx.nodes) : idx.nodes[c].parent \in up => c \in up
      /\ up \subseteq Ids
  BY UpFacts DEF Present
<1> HIDE DEF up
<1>2. RootId \in up \cup O
  <2>1. now.tree[RootId].parent = None /\ On(now, RootId)
    BY RootNodeIs DEF DriveTree, On
  <2> QED
    BY <1>1, <2>1, FolderIsItem DEF Present, On
<1>3. ASSUME NEW c \in Ids, now.tree[c] # NoNode, now.tree[c].parent \in up \cup O
      PROVE  c \in up \cup O
  <2> SUFFICES ASSUME c \notin O, c # RootId PROVE c \in up
    BY <1>2
  <2>1. now.tree[c].parent \in up
    BY <1>3 DEF On
  <2>2. c \in ItemIds
    BY <1>3 DEF DriveTree, On
  <2>3. idx.nodes[c] = now.tree[c]
    BY <2>2
  <2> QED
    BY <1>1, <1>3, <2>1, <2>3 DEF Present
<1>4. Climb(now.tree, {RootId}) \subseteq up \cup O
  <2>1. {RootId} \in SUBSET Ids /\ {RootId} \subseteq up \cup O
    BY <1>2, FolderIsItem
  <2>2. \A c \in Ids : (/\ now.tree[c] # NoNode /\ now.tree[c].parent \in Climb(now.tree, {RootId})
                        /\ now.tree[c].parent \in up \cup O) => c \in up \cup O
    BY <1>3
  <2> QED
    BY <2>1, <2>2, ClimbLeast
<1> QED
  BY <1>4, FolderIsItem DEF DriveTree, Present, On, up

(***************************************************************************)
(* An index of which the feed still tells what is wrong is saved as a file *)
(* of which it does.                                                       *)
(***************************************************************************)
LEMMA SavedTold ==
  ASSUME NEW now, DriveTree(now), NEW idx, Sound(idx), Typed(idx, now), Told(idx, now),
         Unparsed \/ Hangs(idx, now)
  PROVE  FileTold(Reload(idx), now)
<1> DEFINE new == Reload(idx)
           link == ResumeUrl(idx)
<1>1. /\ \A c \in Ids : new.nodes[c] = IF c \in Up(idx.nodes) THEN idx.nodes[c] ELSE NoNode
      /\ SameLinks(new, idx)
  BY ReloadNodes
<1> HIDE DEF new
<1>2. Typed(new, now) /\ Climbs(new) /\ (Unparsed \/ Hangs(new, now))
  BY <1>1, PrunedKeeps
<1>3. ResumeUrl(new) = link
  BY <1>1 DEF SameLinks, ResumeUrl
<1> HIDE DEF link
<1>4. Begins(new)
  BY <1>1, <1>3 DEF Told, Begins, HasNode, link
<1>5. ASSUME NEW x \in ItemIds PROVE new.nodes[x] = now.tree[x] \/ x \in LinkOwes(link, now)
  <2> SUFFICES ASSUME x \notin LinkOwes(link, now) PROVE new.nodes[x] = now.tree[x]
    OBVIOUS
  <2>1. idx.nodes[x] = now.tree[x]
    BY DEF Told, link
  <2>2. On(now, x) => x \in Up(idx.nodes)
    BY UnowedClimb DEF Told, Family, link
  <2> QED
    BY <1>1, <2>1, <2>2, FolderIsItem DEF On
<1>6. Told(new, now)
  BY <1>3, <1>4, <1>5 DEF Told, link
<1> QED
  BY <1>2, <1>6 DEF FileTold, new

\* No item of the drive is its own folder.
LEMMA ParentIsOther ==
  ASSUME NEW now, DriveTree(now), NEW x \in Ids, On(now, x)
  PROVE  now.tree[x].parent # x
<1> SUFFICES ASSUME now.tree[x].parent = x PROVE FALSE
  OBVIOUS
<1>1. x # RootId
  BY RootNodeIs, FolderIsItem DEF DriveTree
<1>2. Climb(now.tree, {RootId}) \subseteq Ids \ {x}
  <2>1. {RootId} \in SUBSET Ids /\ {RootId} \subseteq Ids \ {x}
    BY <1>1, FolderIsItem
  <2>2. \A c \in Ids : (/\ now.tree[c] # NoNode /\ now.tree[c].parent \in Climb(now.tree, {RootId})
                        /\ now.tree[c].parent \in Ids \ {x}) => c \in Ids \ {x}
    OBVIOUS
  <2> QED
    BY <2>1, <2>2, ClimbLeast
<1> QED
  BY <1>2 DEF DriveTree, Present, On

\* A removal leaves what stays typed and hung as it was.
LEMMA RemoveTyped ==
  ASSUME NEW now, NEW idx, Sound(idx), Typed(idx, now), NEW id \in Ids, id # RootId
  PROVE  Typed(Remove(idx, id), now) /\ (Hangs(idx, now) => Hangs(Remove(idx, id), now))
<1> DEFINE new == Remove(idx, id)
<1>1. PICK gone \in SUBSET (Ids \ {RootId}) :
        \A c \in Ids : new.nodes[c] = IF c \in gone THEN NoNode ELSE idx.nodes[c]
  BY RemoveEffect
<1> HIDE DEF new
<1>2. \A c \in Ids : HasNode(new, c) => HasNode(idx, c) /\ new.nodes[c] = idx.nodes[c]
  BY <1>1 DEF HasNode
<1>3. Typed(new, now)
  BY <1>2, FolderIsItem DEF Typed
<1>4. Hangs(idx, now) => Hangs(new, now)
  BY <1>2, FolderIsItem DEF Hangs
<1> QED
  BY <1>3, <1>4 DEF new

\* What makes the entry of an item a typed one.
ItemTyped(idx, it, now) ==
    /\ it.id \in ItemIds => it.dir = (it.id \in Folders) /\ now.changed[it.id] > 0
    /\ it.parent \in ItemIds => it.parent \in Folders /\ now.changed[it.parent] > 0
    /\ (it.parent \in LocalIds /\ HasNode(idx, it.parent)) => idx.nodes[it.parent].dir
    /\ it.parent = it.id => it.dir
    /\ (it.id \in Folders /\ On(now, it.id)) =>
          now.tree[it.id] = [parent |-> it.parent, name |-> it.name, dir |-> it.dir]
    /\ (it.id \in LocalIds /\ \E c \in Ids : HasNode(idx, c) /\ idx.nodes[c].parent = it.id) => it.dir

\* An item that is typed enters an index that is typed.
LEMMA EnterTyped ==
  ASSUME NEW now, NEW idx, Sound(idx), Typed(idx, now), NEW it, GoodItem(it), Entering(it), ItemTyped(idx, it, now)
  PROVE  /\ Typed(Apply(idx, it), now)
         /\ (/\ Hangs(idx, now)
             /\ it.id \in LocalIds => \/ it.parent \in LocalIds
                                      \/ it.parent \in Folders /\ ~On(now, it.parent))
               => Hangs(Apply(idx, it), now)
<1> DEFINE new == Apply(idx, it)
           node == [parent |-> it.parent, name |-> it.name, dir |-> it.dir]
<1>1. PICK gone \in SUBSET (Ids \ {RootId}) :
        /\ \A c \in Ids \ {it.id} : new.nodes[c] = IF c \in gone THEN NoNode ELSE idx.nodes[c]
        /\ new.nodes[it.id] = node
  BY EnterEffect
<1>2. it.id \in Ids /\ it.parent \in Ids /\ it.parent # None /\ it.dir \in BOOLEAN
  BY FolderIsItem DEF GoodItem, DeltaItem, Entering
<1> HIDE DEF new
<1>3. \A c \in Ids \ {it.id} : HasNode(new, c) => HasNode(idx, c) /\ new.nodes[c] = idx.nodes[c]
  BY <1>1 DEF HasNode
<1>4. ASSUME NEW c \in Ids, HasNode(new, c), new.nodes[c].parent \in LocalIds, HasNode(new, new.nodes[c].parent)
      PROVE  new.nodes[new.nodes[c].parent].dir
  <2> DEFINE p == new.nodes[c].parent
  <2>1. p \in Ids
    BY <1>4, FolderIsItem
  <2>2. CASE c = it.id /\ p = it.id
    <3>1. it.parent = it.id
      BY <1>1, <2>2
    <3> QED
      BY <1>1, <2>2, <3>1 DEF ItemTyped
  <2>3. CASE c = it.id /\ p # it.id
    <3>1. p = it.parent
      BY <1>1, <2>3
    <3>2. HasNode(idx, p) /\ new.nodes[p] = idx.nodes[p]
      BY <1>3, <1>4, <2>1, <2>3
    <3> QED
      BY <1>4, <3>1, <3>2 DEF ItemTyped
  <2>4. CASE c # it.id
    <3>1. HasNode(idx, c) /\ idx.nodes[c].parent = p
      BY <1>3, <1>4, <2>4
    <3>2. CASE p = it.id
      <4>1. it.dir
        BY <1>4, <3>1, <3>2 DEF ItemTyped
      <4> QED
        BY <1>1, <3>2, <4>1
    <3>3. CASE p # it.id
      <4>1. HasNode(idx, p) /\ new.nodes[p] = idx.nodes[p]
        BY <1>3, <1>4, <2>1, <3>3
      <4> QED
        BY <1>4, <3>1, <4>1 DEF Typed
    <3> QED
      BY <3>2, <3>3
  <2> QED
    BY <2>2, <2>3, <2>4
<1>5. ASSUME NEW c \in Ids, HasNode(new, c)
      PROVE  /\ c \in ItemIds => new.nodes[c].dir = (c \in Folders) /\ now.changed[c] > 0
             /\ new.nodes[c].parent \in ItemIds =>
                   new.nodes[c].parent \in Folders /\ now.changed[new.nodes[c].parent] > 0
             /\ new.nodes[c].parent = None => c = RootId
             /\ (c \in Folders /\ On(now, c)) => new.nodes[c] = now.tree[c]
  <2>1. CASE c = it.id
    BY <1>1, <1>2, <2>1 DEF ItemTyped
  <2>2. CASE c # it.id
    <3>1. HasNode(idx, c) /\ new.nodes[c] = idx.nodes[c]
      BY <1>3, <1>5, <2>2
    <3> QED
      BY <3>1 DEF Typed
  <2> QED
    BY <2>1, <2>2
<1>6. Typed(new, now)
  BY <1>4, <1>5 DEF Typed
<1>7. ASSUME Hangs(idx, now),
             it.id \in LocalIds => (it.parent \in LocalIds \/ (it.parent \in Folders /\ ~On(now, it.parent)))
      PROVE  Hangs(new, now)
  <2> SUFFICES ASSUME NEW c \in LocalIds, HasNode(new, c)
               PROVE  \/ new.nodes[c].parent \in LocalIds
                      \/ new.nodes[c].parent \in Folders /\ ~On(now, new.nodes[c].parent)
    BY DEF Hangs
  <2>1. CASE c = it.id
    BY <1>1, <1>7, <2>1
  <2>2. CASE c # it.id
    <3>1. c \in Ids
      BY FolderIsItem
    <3>2. HasNode(idx, c) /\ new.nodes[c] = idx.nodes[c]
      BY <1>3, <2>2, <3>1
    <3> QED
      BY <1>7, <3>2 DEF Hangs
  <2> QED
    BY <2>1, <2>2
<1> QED
  BY <1>6, <1>7 DEF new

(***************************************************************************)
(* An entry of an index that is wrong about the drive, or local, has only  *)
(* such entries below it, of those the index has right none.               *)
(***************************************************************************)
LEMMA WrongIsClosed ==
  ASSUME NEW now, DriveTree(now), NEW idx, Typed(idx, now), NEW c \in Ids, HasNode(idx, c),
         NEW p, p = idx.nodes[c].parent,
         \/ p \in LocalIds
         \/ p \in ItemIds /\ HasNode(idx, p) /\ idx.nodes[p] # now.tree[p]
         \/ p \in ItemIds /\ ~On(now, p)
  PROVE  c \in LocalIds \/ (c \in ItemIds /\ idx.nodes[c] # now.tree[c])
<1> SUFFICES ASSUME c \in ItemIds, idx.nodes[c] = now.tree[c] PROVE FALSE
  BY FolderIsItem
<1>1. On(now, c) /\ now.tree[c].parent = p
  BY DEF HasNode, On
<1>2. c # RootId
  <2> SUFFICES ASSUME c = RootId PROVE FALSE
    OBVIOUS
  <2>1. p = None
    BY <1>1, RootNodeIs DEF DriveTree
  <2> QED
    BY <2>1, FolderIsItem
<1>3. p \in Folders /\ On(now, p)
  BY <1>1, <1>2, FolderIsItem DEF DriveTree
<1>4. p \in ItemIds /\ p \in Ids
  BY <1>3, FolderIsItem
<1>5. HasNode(idx, p) => idx.nodes[p] = now.tree[p]
  BY <1>3, <1>4 DEF Typed
<1> QED
  BY <1>3, <1>4, <1>5, FolderIsItem

(***************************************************************************)
(* An item of a page makes its entry right and no other entry wrong: what  *)
(* it evicts or takes along was wrong or local.                            *)
(***************************************************************************)
LEMMA ApplyPageItem ==
  ASSUME NEW now, DriveTree(now), NEW idx, Sound(idx), Typed(idx, now), NEW x \in ItemIds,
         NEW it, it = ItemOf(now.tree, x), GoodItem(it)
  PROVE  /\ Typed(Apply(idx, it), now) /\ (Hangs(idx, now) => Hangs(Apply(idx, it), now))
         /\ Apply(idx, it).nodes[x] = now.tree[x]
         /\ \A y \in ItemIds : idx.nodes[y] = now.tree[y] => Apply(idx, it).nodes[y] = now.tree[y]
         /\ SameLinks(Apply(idx, it), idx)
<1> DEFINE new == Apply(idx, it)
           S == LocalIds \cup {y \in ItemIds : HasNode(idx, y) /\ idx.nodes[y] # now.tree[y]}
           T == S \cup {x}
<1>1. /\ it.id = x /\ it.deleted = (now.tree[x] = NoNode) /\ it.is_root = (x = RootId)
      /\ it.parent = IF now.tree[x] = NoNode THEN None ELSE now.tree[x].parent
      /\ it.name = IF now.tree[x] = NoNode THEN None ELSE now.tree[x].name
      /\ it.dir = (x \in Folders)
  BY DEF ItemOf
<1>2. x \in Ids
  BY FolderIsItem
<1>3. \A c \in Ids : (HasNode(idx, c) /\ idx.nodes[c].parent \in S) => c \in S
  BY WrongIsClosed
<1>4. CASE ~On(now, x)
  <2>1. new = Remove(idx, x) /\ x # RootId
    <3>1. it.deleted /\ x # RootId
      BY <1>1, <1>4, RootNodeIs DEF On, DriveTree
    <3> QED
      BY <1>1, <3>1 DEF Apply
  <2>2. PICK gone \in SUBSET (Ids \ {RootId}) :
          /\ x \in gone
          /\ \A c \in Ids : new.nodes[c] = IF c \in gone THEN NoNode ELSE idx.nodes[c]
          /\ SameLinks(new, idx)
          /\ \A U : (/\ x \in U
                     /\ \A c \in Ids : (HasNode(idx, c) /\ idx.nodes[c].parent \in U) => c \in U)
                       => gone \subseteq U
    BY <1>2, <2>1, RemoveEffect
  <2>3. \A c \in Ids : (HasNode(idx, c) /\ idx.nodes[c].parent \in T) => c \in T
    BY <1>4, WrongIsClosed
  <2>4. gone \subseteq T
    <3> HIDE DEF T
    <3>1. x \in T
      BY DEF T
    <3> QED
      BY <2>2, <2>3, <3>1
  <2>5. new.nodes[x] = now.tree[x]
    BY <1>2, <1>4, <2>2 DEF On
  <2>6. ASSUME NEW y \in ItemIds, idx.nodes[y] = now.tree[y] PROVE new.nodes[y] = now.tree[y]
    <3>1. CASE y = x
      BY <2>5, <3>1
    <3>2. CASE y # x
      <4>1. y \notin T /\ y \in Ids
        BY <2>6, <3>2, FolderIsItem
      <4> QED
        BY <2>2, <2>4, <2>6, <4>1
    <3> QED
      BY <3>1, <3>2
  <2>7. Typed(new, now) /\ (Hangs(idx, now) => Hangs(new, now))
    BY <1>2, <2>1, RemoveTyped
  <2> QED
    BY <2>2, <2>5, <2>6, <2>7
<1>5. CASE On(now, x) /\ x = RootId
  <2>1. new = InsertRoot(idx, it)
    BY <1>1, <1>5 DEF Apply, On
  <2>2. now.tree[RootId] = RootNode
    BY DEF DriveTree
  <2>3. [parent |-> None, name |-> it.name, dir |-> it.dir] = RootNode
    <3>1. it.name = None
      BY <1>1, <1>5, <2>2, RootNodeIs DEF On
    <3>2. it.dir = TRUE
      BY <1>1, <1>5, FolderIsItem
    <3> QED
      BY <3>1, <3>2 DEF RootNode
  <2>4. idx \in Index /\ idx.nodes \in [Ids -> Node \cup {NoNode}]
    BY IndexFields DEF Sound
  <2>5. /\ new.nodes[RootId] = RootNode
        /\ \A c \in Ids \ {RootId} : new.nodes[c] = idx.nodes[c]
        /\ SameLinks(new, idx)
    <3>1. new = [idx EXCEPT !.root = RootId, !.nodes = [idx.nodes EXCEPT ![RootId] = RootNode]]
      BY <1>1, <1>5, <2>1, <2>3, <2>4 DEF InsertRoot, Index
    <3> HIDE DEF new
    <3>2. new.nodes = [idx.nodes EXCEPT ![RootId] = RootNode] /\ SameLinks(new, idx)
      BY <2>4, <3>1 DEF SameLinks, Index
    <3> QED
      BY <2>4, <3>2, FolderIsItem
  <2> HIDE DEF new
  <2>6. Typed(new, now)
    <3>1. \A c \in Ids : HasNode(new, c) /\ c # RootId => HasNode(idx, c) /\ new.nodes[c] = idx.nodes[c]
      BY <2>5 DEF HasNode
    <3>2. /\ RootNode.parent = None /\ RootNode.dir = TRUE /\ None \notin Ids
          /\ (RootId \in Folders) = TRUE /\ RootId \in ItemIds /\ RootId \in Ids /\ RootId \notin LocalIds
      BY RootNodeIs, FolderIsItem
    <3>3. now.changed[RootId] > 0
      BY <1>5, FolderIsItem DEF DriveTree
    <3>4. ASSUME NEW c \in Ids, HasNode(new, c)
          PROVE  /\ c \in ItemIds => new.nodes[c].dir = (c \in Folders) /\ now.changed[c] > 0
                 /\ new.nodes[c].parent \in ItemIds =>
                       new.nodes[c].parent \in Folders /\ now.changed[new.nodes[c].parent] > 0
                 /\ (new.nodes[c].parent \in LocalIds /\ HasNode(new, new.nodes[c].parent)) =>
                       new.nodes[new.nodes[c].parent].dir
                 /\ new.nodes[c].parent = None => c = RootId
                 /\ (c \in Folders /\ On(now, c)) => new.nodes[c] = now.tree[c]
      <4>1. CASE c = RootId
        <5>1. new.nodes[c].parent = None /\ new.nodes[c].dir = (c \in Folders)
          BY <2>5, <3>2, <4>1
        <5> QED
          BY <2>2, <2>5, <3>2, <3>3, <4>1, <5>1, FolderIsItem
      <4>2. CASE c # RootId
        <5>1. HasNode(idx, c) /\ new.nodes[c] = idx.nodes[c]
          BY <3>1, <3>4, <4>2
        <5>2. (new.nodes[c].parent \in LocalIds /\ HasNode(new, new.nodes[c].parent)) =>
                 new.nodes[new.nodes[c].parent].dir
          BY <3>1, <3>2, <5>1, FolderIsItem DEF Typed
        <5> QED
          BY <5>1, <5>2 DEF Typed
      <4> QED
        BY <4>1, <4>2
    <3> QED
      BY <3>4 DEF Typed
  <2>7. Hangs(idx, now) => Hangs(new, now)
    <3>1. \A c \in LocalIds : c \in Ids /\ c # RootId
      BY FolderIsItem
    <3> QED
      BY <2>5, <3>1 DEF Hangs, HasNode
  <2>8. \A y \in ItemIds : idx.nodes[y] = now.tree[y] => new.nodes[y] = now.tree[y]
    BY <2>2, <2>5, FolderIsItem
  <2> QED
    BY <1>5, <2>2, <2>5, <2>6, <2>7, <2>8 DEF new
<1>6. CASE On(now, x) /\ x # RootId
  <2>1. /\ now.tree[x] \in Node /\ now.tree[x].parent \in Folders /\ On(now, now.tree[x].parent)
        /\ now.tree[x].name \in Names /\ now.tree[x].dir = (x \in Folders) /\ now.changed[x] > 0
    BY <1>2, <1>6 DEF DriveTree, On
  <2>2. it.parent = now.tree[x].parent /\ it.name = now.tree[x].name
    BY <1>1, <1>6 DEF On
  <2>3. it.parent \in Folders /\ it.parent \in ItemIds /\ it.parent \in Ids
    BY <2>1, <2>2, FolderIsItem
  <2>4. Entering(it)
    BY <1>1, <1>6, <2>3, FolderIsItem DEF Entering, On
  <2>5. [parent |-> it.parent, name |-> it.name, dir |-> it.dir] = now.tree[x]
    <3> DEFINE node == [parent |-> it.parent, name |-> it.name, dir |-> it.dir]
    <3>1. node.parent = now.tree[x].parent /\ node.name = now.tree[x].name /\ node.dir = now.tree[x].dir
      BY <1>1, <2>1, <2>2
    <3>2. node \in Node
      BY DEF GoodItem, DeltaItem, Node
    <3> HIDE DEF node
    <3>3. node = now.tree[x]
      BY <2>1, <3>1, <3>2, NodesAgree
    <3> QED
      BY <3>3 DEF node
  <2>6. PICK gone \in SUBSET (Ids \ {RootId}) :
          /\ \A c \in Ids \ {x} : new.nodes[c] = IF c \in gone THEN NoNode ELSE idx.nodes[c]
          /\ new.nodes[x] = now.tree[x]
          /\ SameLinks(new, idx)
          /\ GoesOnly(gone, idx, it)
    <3>1. it.id = x
      BY <1>1
    <3> HIDE DEF S, T
    <3> QED
      BY <2>4, <2>5, <3>1, EnterEffect
  <2>7. ASSUME NEW c \in Ids \ {x}, HasNode(idx, c), idx.nodes[c].parent = it.parent,
               idx.nodes[c].name = it.name
        PROVE  c \in S
    <3> SUFFICES ASSUME c \in ItemIds, idx.nodes[c] = now.tree[c] PROVE FALSE
      BY <2>7, FolderIsItem
    <3>1. On(now, c) /\ now.tree[c].parent = now.tree[x].parent /\ now.tree[c].name = now.tree[x].name
      BY <2>2, <2>7 DEF On, HasNode
    <3>2. c # RootId
      BY <2>2, <2>3, <3>1, RootNodeIs, FolderIsItem DEF DriveTree
    <3> QED
      BY <1>2, <1>6, <3>1, <3>2 DEF DriveTree
  <2>8. gone \subseteq S
    <3> HIDE DEF S
    <3> QED
      BY <1>1, <1>3, <2>6, <2>7 DEF GoesOnly
  <2>9. ASSUME NEW y \in ItemIds, idx.nodes[y] = now.tree[y] PROVE new.nodes[y] = now.tree[y]
    <3>1. CASE y = x
      BY <2>6, <3>1
    <3>2. CASE y # x
      <4>1. y \notin S /\ y \in Ids
        BY <2>9, FolderIsItem
      <4> QED
        BY <2>6, <2>8, <2>9, <3>2, <4>1
    <3> QED
      BY <3>1, <3>2
  <2>10. ItemTyped(idx, it, now)
    <3>1. it.parent # it.id
      <4>2. now.tree[x].parent # x
        BY <1>2, <1>6, ParentIsOther
      <4> QED
        BY <1>1, <2>2, <4>2
    <3>2. now.changed[it.parent] > 0
      BY <2>1, <2>2, <2>3 DEF DriveTree
    <3>3. it.id \notin LocalIds /\ it.parent \notin LocalIds
      BY <1>1, <2>3, FolderIsItem
    <3> QED
      BY <1>1, <2>1, <2>3, <2>5, <3>1, <3>2, <3>3 DEF ItemTyped
  <2>11. Typed(new, now) /\ (Hangs(idx, now) => Hangs(new, now))
    <3>1. it.id \notin LocalIds
      BY <1>1, FolderIsItem
    <3> QED
      BY <2>4, <2>10, <3>1, EnterTyped
  <2> QED
    BY <2>6, <2>9, <2>11
<1> QED
  BY <1>4, <1>5, <1>6

\* Where a crawl goes on after a page.
After(page) == OrElse(page.next_link, page.delta_token)

(***************************************************************************)
(* While a page is applied: what the index has wrong is in the rest of the *)
(* page, or is owed after it.                                              *)
(***************************************************************************)
PageTold(t, now) ==
    /\ t.page.next_link # None => t.page.next_link.kind = "next"
    /\ t.page.delta_token # None => t.page.delta_token.kind = "delta"
    /\ After(t.page) # None
    /\ Family(After(t.page), now)
    /\ \A it \in t.page.items : it.id \in ItemIds /\ it = ItemOf(now.tree, it.id)
    /\ \A x \in ItemIds : \/ t.idx.nodes[x] = now.tree[x]
                          \/ x \in LinkOwes(After(t.page), now)
                          \/ \E it \in t.page.items : it.id = x

\* The index of a tick that stands at `at`: it is told, but while a page is applied.
TickTold(t, at, now) ==
    /\ Typed(t.idx, now) /\ (Unparsed \/ Hangs(t.idx, now))
    /\ at \in {"fetch", "save"} => Told(t.idx, now)
    /\ at = "fetch" => t.url = ResumeUrl(t.idx)
    /\ at = "apply" => PageTold(t, now)

\* What a tick finds on disk, and what it has.
FilesTold == DriveTree(Now) /\ FileTold(live, Now) /\ FileTold(rebuild, Now)
CrawlTold == FilesTold /\ TickTold(tick, pc, Now)

\* An index with nothing in it is told everything.
LEMMA BlankTold ==
  ASSUME NEW now, DriveTree(now), NEW g \in Nat
  PROVE  /\ ResumeUrl(Blank(g)) = InitialLink
         /\ Typed(Blank(g), now) /\ Hangs(Blank(g), now) /\ Told(Blank(g), now)
<1>1. \A c \in Ids : ~HasNode(Blank(g), c)
  BY DEF HasNode, Blank
<1>2. ResumeUrl(Blank(g)) = InitialLink
  BY DEF ResumeUrl, OrElse, Blank
<1>3. Typed(Blank(g), now) /\ Hangs(Blank(g), now)
  <2>1. \A c \in LocalIds : c \in Ids
    BY FolderIsItem
  <2> QED
    BY <1>1, <2>1 DEF Typed, Hangs
<1>4. LinkOwes(InitialLink, now) = ItemIds /\ InitialLink.begun = 0
  BY DEF LinkOwes, InitialLink
<1>5. Family(InitialLink, now)
  BY <1>4 DEF Family, DriveTree
<1>6. Told(Blank(g), now)
  BY <1>1, <1>2, <1>4, <1>5 DEF Told, Begins
<1> QED
  BY <1>2, <1>3, <1>6

\* An idle guest.
LEMMA NoTickTold == ASSUME NEW now, DriveTree(now) PROVE TickTold(NoTick, "idle", now)
<1>1. NoTick.idx = Blank(0) /\ 0 \in Nat
  BY DEF NoTick
<1> QED
  BY <1>1, BlankTold DEF TickTold

\* A tick takes up an index of which the feed tells all that is wrong, at its link.
LEMMA BeginTickTold == Inv /\ CrawlTold /\ BeginTick => CrawlTold'
<1> SUFFICES ASSUME Inv, CrawlTold, BeginTick PROVE CrawlTold'
  OBVIOUS
<1>1. DriveTree(Now) /\ FileTold(live, Now) /\ FileTold(rebuild, Now)
  BY DEF CrawlTold, FilesTold
<1>2. Now' = Now /\ live' = live /\ rebuild' = rebuild /\ pc' = "fetch"
  BY DEF BeginTick, driveVars, Now
<1>3. PICK base \in Opened(live), meta \in Opened(live), shadow \in Opened(rebuild) :
        LET idx == IF shadow # Missing THEN shadow
                   ELSE IF base # Missing THEN base ELSE Blank(0)
        IN  tick'.idx = idx /\ tick'.url = ResumeUrl(idx)
  BY DEF BeginTick
<1> DEFINE idx == IF shadow # Missing THEN shadow ELSE IF base # Missing THEN base ELSE Blank(0)
<1>4. tick'.idx = idx /\ tick'.url = ResumeUrl(idx)
  BY <1>3
<1>5. Typed(idx, Now) /\ Told(idx, Now) /\ (Unparsed \/ Hangs(idx, Now))
  <2>1. base \in {live, Missing} /\ shadow \in {rebuild, Missing}
    BY <1>3 DEF Opened
  <2>2. FileTold(base, Now) /\ FileTold(shadow, Now)
    BY <1>1, <2>1 DEF FileTold
  <2>3. CASE shadow # Missing
    BY <2>2, <2>3 DEF FileTold
  <2>4. CASE shadow = Missing /\ base # Missing
    BY <2>2, <2>4 DEF FileTold
  <2>5. CASE shadow = Missing /\ base = Missing
    BY <1>1, <2>5, BlankTold
  <2> QED
    BY <2>3, <2>4, <2>5
<1> HIDE DEF idx
<1>6. TickTold(tick', "fetch", Now)
  BY <1>4, <1>5 DEF TickTold
<1>7. TickTold(tick', pc', Now') /\ FilesTold'
  BY <1>1, <1>2, <1>6 DEF FilesTold
<1> QED
  BY <1>7 DEF CrawlTold

(***************************************************************************)
(* A page makes the crawl owe what it does not serve, and what has changed *)
(* since the enumeration began.  It owes families: a page that serves an   *)
(* item before its folder is the reason for ParentsFirst.                  *)
(***************************************************************************)
LEMMA PageOwes ==
  ASSUME ParentsFirst, DriveTree(Now), NEW link \in Link, Family(link, Now), NEW page \in Pages(link)
  PROVE  /\ page.next_link # None => page.next_link.kind = "next"
         /\ page.delta_token # None => page.delta_token.kind = "delta"
         /\ After(page) # None /\ Family(After(page), Now)
         /\ \A it \in page.items : it.id \in ItemIds /\ it = ItemOf(Now.tree, it.id)
         /\ \A x \in LinkOwes(link, Now) :
               \/ x \in LinkOwes(After(page), Now)
               \/ \E it \in page.items : it.id = x
               \/ link.kind = "initial" /\ ~On(Now, x)
<1>1. PICK served \in SUBSET Todo(link) : page = Served(served, link) /\ InFeedOrder(served, link)
  BY DEF Pages
<1> DEFINE rest == Todo(link) \ served
           begun == Begun(link)
           after == IF rest = {} THEN DeltaLink(begun) ELSE NextLink(begun, rest)
<1>2. /\ Now.tree = remote /\ Now.version = version /\ Now.changed = changed
      /\ version \in Nat /\ changed \in [ItemIds -> Nat]
  BY DEF Now, DriveTree
<1>3. Todo(link) \subseteq ItemIds /\ begun \in Nat /\ begun <= version
  <2>1. /\ link.kind \in {"initial", "next", "delta"} /\ link.begun \in Nat
        /\ link.todo \subseteq ItemIds /\ link.begun <= version
    BY <1>2, OwesCases DEF Family
  <2> QED
    BY <1>2, <2>1 DEF Todo, Begun
<1>4. after \in Link /\ None # after
  <2>1. rest \subseteq ItemIds
    BY <1>3
  <2>2. DeltaLink(begun) \in Link /\ NextLink(begun, rest) \in Link
    BY <1>3, <2>1 DEF Link, DeltaLink, NextLink
  <2> QED
    BY <2>2, NoLinkAssumption
<1>5. /\ page.items = {ItemOf(remote, x) : x \in served}
      /\ page.next_link # None => page.next_link.kind = "next"
      /\ page.delta_token # None => page.delta_token.kind = "delta"
      /\ After(page) = after
  BY <1>1, <1>4 DEF Served, Page, After, OrElse, NextLink, DeltaLink
<1>6. \A x \in ItemIds : x \in LinkOwes(after, Now) <=> x \in rest \/ changed[x] > begun
  <2>1. CASE rest = {}
    <3>1. after = DeltaLink(begun)
      BY <2>1
    <3>2. LinkOwes(DeltaLink(begun), Now) = {x \in ItemIds : changed[x] > begun}
      BY <1>2 DEF LinkOwes, DeltaLink
    <3> HIDE DEF after, begun
    <3> QED
      BY <2>1, <3>1, <3>2
  <2>2. CASE rest # {}
    <3>1. after = NextLink(begun, rest)
      BY <2>2
    <3> HIDE DEF rest, begun
    <3>2. LinkOwes(NextLink(begun, rest), Now) = rest \cup {x \in ItemIds : changed[x] > begun}
      BY <1>2 DEF LinkOwes, NextLink
    <3> HIDE DEF after
    <3> QED
      BY <3>1, <3>2
  <2> QED
    BY <2>1, <2>2
<1>7. after.begun = begun
  BY DEF DeltaLink, NextLink
<1>8. \A x \in LinkOwes(link, Now) :
         x \in Todo(link) \/ changed[x] > begun \/ (link.kind = "initial" /\ ~On(Now, x))
  BY <1>2, OwesCases, FolderIsItem DEF Todo, Begun, On, Present
<1>9. \A x \in Todo(link) : x \in LinkOwes(link, Now)
  BY <1>2, <1>3, OwesCases DEF Todo
<1>10. LinkOwes(after, Now) \subseteq ItemIds /\ LinkOwes(link, Now) \subseteq ItemIds
  BY <1>4, OwesCases
<1> HIDE DEF after, begun
<1>11. ASSUME NEW x \in Ids \ {RootId}, On(Now, x), Now.tree[x].parent \in LinkOwes(after, Now)
       PROVE  x \in LinkOwes(after, Now)
  <2> DEFINE p == Now.tree[x].parent
  <2>1. x \in ItemIds /\ p \in ItemIds /\ changed[p] <= changed[x] /\ changed[x] \in Nat /\ changed[p] \in Nat
    BY <1>2, <1>11, FolderIsItem DEF DriveTree
  <2>2. CASE changed[p] > begun
    BY <1>3, <1>6, <2>1, <2>2
  <2>3. CASE p \in rest
    <3>1. p \in Todo(link) /\ p \notin served
      BY <2>3
    <3>2. x \in LinkOwes(link, Now)
      BY <1>9, <1>11, <3>1 DEF Family
    <3>3. x \notin served
      BY <1>1, <1>2, <1>11, <3>1 DEF InFeedOrder, On
    <3> QED
      BY <1>6, <1>8, <1>11, <2>1, <3>2, <3>3
  <2> QED
    BY <1>6, <1>11, <2>1, <2>2, <2>3
<1>12. Family(after, Now)
  BY <1>2, <1>3, <1>7, <1>11 DEF Family
<1>13. \A it \in page.items : it.id \in ItemIds /\ it = ItemOf(Now.tree, it.id)
  BY <1>2, <1>3, <1>5 DEF ItemOf
<1>14. ASSUME NEW x \in LinkOwes(link, Now), ~(link.kind = "initial" /\ ~On(Now, x))
       PROVE  x \in LinkOwes(after, Now) \/ \E it \in page.items : it.id = x
  <2>1. x \in ItemIds /\ (x \in served \/ x \in rest \/ changed[x] > begun)
    BY <1>8, <1>10, <1>14
  <2>2. CASE x \in served
    <3>1. ItemOf(remote, x) \in page.items /\ ItemOf(remote, x).id = x
      BY <1>5, <2>2 DEF ItemOf
    <3> QED
      BY <3>1
  <2>3. CASE x \notin served
    BY <1>6, <2>1, <2>3
  <2> QED
    BY <2>2, <2>3
<1> QED
  BY <1>4, <1>5, <1>12, <1>13, <1>14

\* A page is fetched: the index is as before, the page tells what the rest of the crawl does not.
LEMMA FetchPageTold == ASSUME ParentsFirst PROVE Inv /\ CrawlTold /\ FetchPage => CrawlTold'
<1> SUFFICES ASSUME Inv, CrawlTold, FetchPage PROVE CrawlTold'
  OBVIOUS
<1>1. /\ Now' = Now /\ live' = live /\ rebuild' = rebuild /\ pc = "fetch" /\ pc' = "apply"
      /\ DriveTree(Now) /\ FilesTold /\ TickTold(tick, pc, Now)
  BY DEF FetchPage, driveVars, Now, CrawlTold, FilesTold
<1>2. PICK page \in Pages(tick.url) :
        tick' = [tick EXCEPT !.pages = @ + 1, !.dirty = @ \/ page.items # {}, !.page = page]
  BY DEF FetchPage
<1>3. tick \in Tick /\ tick.url \in Link
  BY TickFields DEF Inv
<1>4. tick'.idx = tick.idx /\ tick'.page = page
  BY <1>2, <1>3 DEF Tick
<1>5. tick.url = ResumeUrl(tick.idx) /\ Told(tick.idx, Now)
  BY <1>1 DEF TickTold
<1>6. Family(tick.url, Now)
  BY <1>5 DEF Told
<1>7. PageTold(tick', Now)
  <2>1. ASSUME NEW x \in ItemIds
        PROVE  \/ tick.idx.nodes[x] = Now.tree[x]
               \/ x \in LinkOwes(After(page), Now)
               \/ \E it \in page.items : it.id = x
    <3>1. CASE x \in LinkOwes(tick.url, Now) /\ ~(tick.url.kind = "initial" /\ ~On(Now, x))
      BY <1>1, <1>3, <1>6, <3>1, PageOwes
    <3>2. CASE tick.url.kind = "initial" /\ ~On(Now, x)
      BY <1>5, <3>2, FolderIsItem DEF Told, Begins, HasNode, On
    <3>3. CASE x \notin LinkOwes(tick.url, Now)
      BY <1>5, <3>3 DEF Told
    <3> QED
      BY <3>1, <3>2, <3>3
  <2>2. /\ page.next_link # None => page.next_link.kind = "next"
        /\ page.delta_token # None => page.delta_token.kind = "delta"
        /\ After(page) # None /\ Family(After(page), Now)
        /\ \A it \in page.items : it.id \in ItemIds /\ it = ItemOf(Now.tree, it.id)
    BY <1>1, <1>3, <1>6, PageOwes
  <2> QED
    BY <1>4, <2>1, <2>2 DEF PageTold
<1>8. TickTold(tick', "apply", Now)
  BY <1>1, <1>4, <1>7 DEF TickTold
<1>9. TickTold(tick', pc', Now') /\ FilesTold'
  BY <1>1, <1>8 DEF FilesTold
<1> QED
  BY <1>9 DEF CrawlTold

\* A 410: the crawl starts over with nothing, and is told everything.
LEMMA FetchResyncTold == Inv /\ CrawlTold /\ FetchResync => CrawlTold'
<1> SUFFICES ASSUME Inv, CrawlTold, FetchResync PROVE CrawlTold'
  OBVIOUS
<1>1. /\ Now' = Now /\ live' = live /\ rebuild' = rebuild /\ pc = "fetch" /\ pc' = pc
      /\ DriveTree(Now) /\ FilesTold
  BY DEF FetchResync, driveVars, Now, CrawlTold, FilesTold
<1>2. tick \in Tick /\ tick.idx.generation + 1 \in Nat
  BY TickFields DEF Inv
<1>3. tick'.idx = Blank(tick.idx.generation + 1) /\ tick'.url = InitialLink
  BY <1>2 DEF FetchResync, Tick
<1>4. TickTold(tick', "fetch", Now)
  BY <1>1, <1>2, <1>3, BlankTold DEF TickTold
<1>5. TickTold(tick', pc', Now') /\ FilesTold'
  BY <1>1, <1>4 DEF FilesTold
<1> QED
  BY <1>5 DEF CrawlTold

\* An item of the page is right in the index from then on.
LEMMA ApplyItemTold == Inv /\ CrawlTold /\ ApplyItem => CrawlTold'
<1> SUFFICES ASSUME Inv, CrawlTold, ApplyItem PROVE CrawlTold'
  OBVIOUS
<1>1. /\ Now' = Now /\ live' = live /\ rebuild' = rebuild /\ pc = "apply" /\ pc' = pc
      /\ DriveTree(Now) /\ FilesTold /\ TickTold(tick, pc, Now)
  BY DEF ApplyItem, driveVars, Now, CrawlTold, FilesTold
<1>2. PICK it \in tick.page.items :
        tick' = [tick EXCEPT !.idx = Apply(@, it), !.page.items = @ \ {it}]
  BY DEF ApplyItem
<1>3. tick \in Tick /\ tick.page \in PageType /\ Sound(tick.idx) /\ GoodItem(it)
  BY TickFields DEF Inv, TickOK
<1>4. /\ tick'.idx = Apply(tick.idx, it)
      /\ tick'.page.items = tick.page.items \ {it}
      /\ tick'.page.next_link = tick.page.next_link /\ tick'.page.delta_token = tick.page.delta_token
  BY <1>2, <1>3 DEF Tick, PageType
<1>5. After(tick'.page) = After(tick.page)
  BY <1>4 DEF After
<1>6. PageTold(tick, Now) /\ Typed(tick.idx, Now) /\ (Unparsed \/ Hangs(tick.idx, Now))
  BY <1>1 DEF TickTold
<1>7. it.id \in ItemIds /\ it = ItemOf(Now.tree, it.id)
  BY <1>6 DEF PageTold
<1>8. /\ Typed(tick'.idx, Now) /\ (Hangs(tick.idx, Now) => Hangs(tick'.idx, Now))
      /\ tick'.idx.nodes[it.id] = Now.tree[it.id]
      /\ \A y \in ItemIds : tick.idx.nodes[y] = Now.tree[y] => tick'.idx.nodes[y] = Now.tree[y]
  <2>1. /\ Typed(Apply(tick.idx, it), Now) /\ (Hangs(tick.idx, Now) => Hangs(Apply(tick.idx, it), Now))
        /\ Apply(tick.idx, it).nodes[it.id] = Now.tree[it.id]
        /\ \A y \in ItemIds : tick.idx.nodes[y] = Now.tree[y] => Apply(tick.idx, it).nodes[y] = Now.tree[y]
    <3>1. ASSUME NEW x \in ItemIds, x = it.id
          PROVE  /\ Typed(Apply(tick.idx, it), Now) /\ (Hangs(tick.idx, Now) => Hangs(Apply(tick.idx, it), Now))
                 /\ Apply(tick.idx, it).nodes[x] = Now.tree[x]
                 /\ \A y \in ItemIds : tick.idx.nodes[y] = Now.tree[y] => Apply(tick.idx, it).nodes[y] = Now.tree[y]
      <4>1. it = ItemOf(Now.tree, x)
        BY <1>7, <3>1
      <4> QED
        BY <1>1, <1>3, <1>6, <4>1, ApplyPageItem
    <3> QED
      BY <1>7, <3>1
  <2> QED
    BY <1>4, <2>1
<1>9. ASSUME NEW x \in ItemIds
      PROVE  \/ tick'.idx.nodes[x] = Now.tree[x]
             \/ x \in LinkOwes(After(tick.page), Now)
             \/ \E i \in tick'.page.items : i.id = x
  <2>1. CASE x = it.id \/ tick.idx.nodes[x] = Now.tree[x]
    BY <1>8, <2>1
  <2>2. CASE x # it.id /\ tick.idx.nodes[x] # Now.tree[x]
    <3>1. x \in LinkOwes(After(tick.page), Now) \/ \E i \in tick.page.items : i.id = x
      BY <1>6, <2>2 DEF PageTold
    <3> QED
      BY <1>4, <2>2, <3>1
  <2> QED
    BY <2>1, <2>2
<1>10. PageTold(tick', Now)
  BY <1>4, <1>5, <1>6, <1>9 DEF PageTold
<1>11. TickTold(tick', "apply", Now)
  BY <1>6, <1>8, <1>10 DEF TickTold
<1>12. TickTold(tick', pc', Now') /\ FilesTold'
  BY <1>1, <1>11 DEF FilesTold
<1> QED
  BY <1>12 DEF CrawlTold

\* What is true of an index is so of one with the same entries.
LEMMA SameNodesTyped ==
  ASSUME NEW now, NEW idx, NEW new, new.nodes = idx.nodes
  PROVE  /\ Typed(idx, now) => Typed(new, now)
         /\ Hangs(idx, now) => Hangs(new, now)
  BY DEF Typed, Hangs, HasNode

\* A nextLink: with the page applied, the rest of the crawl tells what is still wrong.
LEMMA TakeNextLinkTold == Inv /\ CrawlTold /\ TakeNextLink => CrawlTold'
<1> SUFFICES ASSUME Inv, CrawlTold, TakeNextLink PROVE CrawlTold'
  OBVIOUS
<1> DEFINE next == tick.page.next_link
<1>1. /\ Now' = Now /\ live' = live /\ rebuild' = rebuild /\ pc = "apply" /\ pc' = "fetch"
      /\ DriveTree(Now) /\ FilesTold /\ TickTold(tick, pc, Now)
      /\ tick.page.items = {} /\ next # None
  BY DEF TakeNextLink, driveVars, Now, CrawlTold, FilesTold
<1>2. tick \in Tick /\ tick.idx \in Index
  BY TickFields DEF Inv
<1>3. /\ tick'.url = next /\ tick'.idx.nodes = tick.idx.nodes
      /\ tick'.idx.pending_next_link = next
  BY <1>2 DEF TakeNextLink, Tick, Index
<1>4. PageTold(tick, Now) /\ Typed(tick.idx, Now) /\ (Unparsed \/ Hangs(tick.idx, Now))
  BY <1>1 DEF TickTold
<1>5. ResumeUrl(tick'.idx) = next /\ After(tick.page) = next /\ next.kind = "next"
  BY <1>1, <1>3, <1>4 DEF ResumeUrl, OrElse, After, PageTold
<1>6. Told(tick'.idx, Now)
  BY <1>1, <1>3, <1>4, <1>5 DEF Told, Begins, PageTold
<1>7. Typed(tick'.idx, Now) /\ (Unparsed \/ Hangs(tick'.idx, Now))
  BY <1>3, <1>4, SameNodesTyped
<1>8. TickTold(tick', "fetch", Now)
  BY <1>3, <1>5, <1>6, <1>7 DEF TickTold
<1>9. TickTold(tick', pc', Now') /\ FilesTold'
  BY <1>1, <1>8 DEF FilesTold
<1> QED
  BY <1>9 DEF CrawlTold

\* The end of a crawl: the sweep takes nothing that is right and that the feed is done with.
LEMMA TakeDeltaLinkTold == Inv /\ CrawlTold /\ TakeDeltaLink => CrawlTold'
<1> SUFFICES ASSUME Inv, CrawlTold, TakeDeltaLink PROVE CrawlTold'
  OBVIOUS
<1> DEFINE token == tick.page.delta_token
           done == [tick.idx EXCEPT !.pending_next_link = None, !.delta_token = token, !.crawl_complete = TRUE]
<1>1. /\ Now' = Now /\ live' = live /\ rebuild' = rebuild /\ pc = "apply" /\ pc' = "save"
      /\ DriveTree(Now) /\ FilesTold /\ TickTold(tick, pc, Now)
      /\ tick.page.items = {} /\ tick.page.next_link = None
  BY DEF TakeDeltaLink, driveVars, Now, CrawlTold, FilesTold
<1>2. tick \in Tick /\ tick.idx \in Index /\ Sound(tick.idx) /\ tick.page.delta_token \in Link \cup {None}
  BY TickFields DEF Inv
<1>3. PageTold(tick, Now) /\ Typed(tick.idx, Now) /\ (Unparsed \/ Hangs(tick.idx, Now))
  BY <1>1 DEF TickTold
<1>4. After(tick.page) = token /\ token # None /\ token.kind = "delta"
  BY <1>1, <1>3 DEF PageTold, After, OrElse
<1>5. tick'.idx = SweepOrphans(done)
  BY <1>2, <1>4 DEF TakeDeltaLink, Tick, OrElse
<1>6. /\ done \in Index /\ done.nodes = tick.idx.nodes /\ done.kids = tick.idx.kids /\ done.root = tick.idx.root
      /\ done.pending_next_link = None /\ done.delta_token = token
  BY <1>2 DEF Index
<1> HIDE DEF done
<1>7. Sound(done) /\ Typed(done, Now) /\ (Unparsed \/ Hangs(done, Now))
  BY <1>2, <1>3, <1>6, ProgressSound, SameNodesTyped
<1> DEFINE new == SweepOrphans(done)
<1>8. SameLinks(new, done) /\ \/ new = done
                              \/ \A c \in Ids : new.nodes[c] = IF c \in Up(done.nodes) THEN done.nodes[c] ELSE NoNode
  BY <1>1, <1>7, SweepNodes
<1> HIDE DEF new
<1>9. Typed(new, Now) /\ (Unparsed \/ Hangs(new, Now))
  BY <1>7, <1>8, PrunedKeeps
<1>10. ResumeUrl(new) = token
  BY <1>4, <1>6, <1>8 DEF SameLinks, ResumeUrl, OrElse
<1>11. /\ Family(token, Now)
       /\ \A x \in ItemIds : done.nodes[x] = Now.tree[x] \/ x \in LinkOwes(token, Now)
  BY <1>1, <1>3, <1>4, <1>6 DEF PageTold
<1>12. ASSUME NEW x \in ItemIds, x \notin LinkOwes(token, Now) PROVE new.nodes[x] = Now.tree[x]
  <2>1. x \in Ids /\ done.nodes[x] = Now.tree[x]
    BY <1>11, <1>12, FolderIsItem
  <2>2. CASE On(Now, x)
    <3>1. x \in Up(done.nodes)
      <4> DEFINE O == LinkOwes(token, Now)
      <4>1. \A y \in Ids \ {RootId} : (On(Now, y) /\ Now.tree[y].parent \in O) => y \in O
        BY <1>11 DEF Family
      <4>2. (\A y \in ItemIds : done.nodes[y] = Now.tree[y] \/ y \in O) /\ x \in ItemIds \ O
        BY <1>11, <1>12
      <4> HIDE DEF O
      <4> QED
        BY <1>1, <2>2, <4>1, <4>2, UnowedClimb
    <3> QED
      BY <1>8, <2>1, <3>1
  <2>3. CASE ~On(Now, x)
    BY <1>8, <2>1, <2>3 DEF On
  <2> QED
    BY <2>2, <2>3
<1>13. Told(new, Now)
  BY <1>4, <1>10, <1>11, <1>12 DEF Told, Begins
<1>14. TickTold(tick', "save", Now)
  BY <1>5, <1>9, <1>13 DEF TickTold, new
<1>15. TickTold(tick', pc', Now') /\ FilesTold'
  BY <1>1, <1>14 DEF FilesTold
<1> QED
  BY <1>15 DEF CrawlTold

\* A tick that stops between pages has what it had.
LEMMA StopFetchingTold == Inv /\ CrawlTold /\ StopFetching => CrawlTold'
<1> SUFFICES ASSUME Inv, CrawlTold, StopFetching PROVE CrawlTold'
  OBVIOUS
<1>1. /\ Now' = Now /\ live' = live /\ rebuild' = rebuild /\ tick' = tick /\ pc = "fetch" /\ pc' = "save"
      /\ FilesTold /\ TickTold(tick, pc, Now)
  BY DEF StopFetching, driveVars, Now, CrawlTold, FilesTold
<1>2. TickTold(tick, "save", Now)
  BY <1>1 DEF TickTold
<1>3. TickTold(tick', pc', Now') /\ FilesTold'
  BY <1>1, <1>2 DEF FilesTold
<1> QED
  BY <1>3 DEF CrawlTold

\* A saved index is one of which the feed tells all that is wrong, with what the save leaves out.
LEMMA SaveTold == Inv /\ CrawlTold /\ Save => CrawlTold'
<1> SUFFICES ASSUME Inv, CrawlTold, Save PROVE CrawlTold'
  OBVIOUS
<1>1. /\ Now' = Now /\ tick' = tick /\ pc = "save" /\ pc' = "rename"
      /\ DriveTree(Now) /\ FilesTold /\ TickTold(tick, pc, Now)
  BY DEF Save, driveVars, Now, CrawlTold, FilesTold
<1>2. Sound(tick.idx)
  BY TickFields DEF Inv
<1>3. FileTold(Reload(tick.idx), Now)
  BY <1>1, <1>2, SavedTold DEF TickTold
<1>4. live' \in {live, Reload(tick.idx)} /\ rebuild' \in {rebuild, Reload(tick.idx)}
  BY DEF Save, WriteIndex, diskVars
<1>5. FilesTold'
  <2>1. FileTold(live', Now) /\ FileTold(rebuild', Now)
    BY <1>1, <1>3, <1>4 DEF FilesTold
  <2> QED
    BY <1>1, <2>1 DEF FilesTold
<1>6. TickTold(tick, "rename", Now)
  BY <1>1 DEF TickTold
<1>7. TickTold(tick', pc', Now')
  BY <1>1, <1>6
<1> QED
  BY <1>5, <1>7 DEF CrawlTold

\* The swap moves a file.
LEMMA FinishTickTold == Inv /\ CrawlTold /\ FinishTick => CrawlTold'
<1> SUFFICES ASSUME Inv, CrawlTold, FinishTick PROVE CrawlTold'
  OBVIOUS
<1>1. Now' = Now /\ tick' = NoTick /\ pc' = "idle" /\ DriveTree(Now) /\ FilesTold
  BY DEF FinishTick, driveVars, Now, CrawlTold, FilesTold
<1>2. live' \in {live, rebuild} /\ rebuild' \in {rebuild, Missing}
  BY DEF FinishTick, diskVars
<1>3. FileTold(live', Now) /\ FileTold(rebuild', Now)
  <2>1. FileTold(Missing, Now)
    BY DEF FileTold
  <2> QED
    BY <1>1, <1>2, <2>1 DEF FilesTold
<1>4. TickTold(tick', pc', Now') /\ FilesTold'
  BY <1>1, <1>3, NoTickTold DEF FilesTold
<1> QED
  BY <1>4 DEF CrawlTold

\* A lost invocation loses no file.
LEMMA LoseInvocationTold == Inv /\ CrawlTold /\ LoseInvocation => CrawlTold'
<1> SUFFICES ASSUME Inv, CrawlTold, LoseInvocation PROVE CrawlTold'
  OBVIOUS
<1>1. /\ Now' = Now /\ live' = live /\ rebuild' = rebuild /\ tick' = NoTick /\ pc' = "idle"
      /\ DriveTree(Now) /\ FilesTold
  BY DEF LoseInvocation, driveVars, Now, CrawlTold, FilesTold
<1>2. TickTold(tick', pc', Now') /\ FilesTold'
  BY <1>1, NoTickTold DEF FilesTold
<1> QED
  BY <1>2 DEF CrawlTold

\* Steps of a tick, up to its end.
LEMMA TickStepTold ==
  ASSUME ParentsFirst PROVE Inv /\ CrawlTold /\ (TickStep \/ FetchResync \/ LoseInvocation) => CrawlTold'
  BY BeginTickTold, FetchPageTold, FetchResyncTold, ApplyItemTold, TakeNextLinkTold, TakeDeltaLinkTold,
     StopFetchingTold, SaveTold, FinishTickTold, LoseInvocationTold DEF TickStep

\* The tick's part of the invariant outlasts a change of the drive, between pages.
LEMMA TickGrows ==
  ASSUME NEW now, NEW next, Grows(now, next), NEW t, TickOK(t), NEW at, at # "apply", TickTold(t, at, now)
  PROVE  TickTold(t, at, next)
<1>1. t.idx \in Index /\ Typed(t.idx, now)
  BY TickFields DEF TickTold
<1>2. Typed(t.idx, next) /\ (Hangs(t.idx, now) => Hangs(t.idx, next))
  BY <1>1, TypedGrows, HangsGrows
<1>3. at \in {"fetch", "save"} => Told(t.idx, next)
  BY <1>1, ToldGrows DEF TickTold
<1> QED
  BY <1>2, <1>3 DEF TickTold

\* The tick's part of the invariant outlasts a change of the drive by another device.
LEMMA RemoteChangeTold ==
  ASSUME FilesMove PROVE Inv /\ CrawlTold /\ RemoteChange => CrawlTold' /\ Grows(Now, Now')
<1> SUFFICES ASSUME Inv, CrawlTold, RemoteChange PROVE CrawlTold' /\ Grows(Now, Now')
  OBVIOUS
<1>1. /\ live' = live /\ rebuild' = rebuild /\ tick' = tick /\ pc' = pc /\ pc # "apply" /\ OtherDevice
      /\ FileOK(live) /\ FileOK(rebuild) /\ TickOK(tick)
      /\ DriveTree(Now) /\ FileTold(live, Now) /\ FileTold(rebuild, Now) /\ TickTold(tick, pc, Now)
  BY DEF RemoteChange, Inv, CrawlTold, FilesTold
<1>2. Grows(Now, Now')
  BY <1>1, OtherDeviceGrows
<1>3. DriveTree(Now') /\ FileTold(live, Now') /\ FileTold(rebuild, Now')
  BY <1>1, <1>2, FileGrows DEF Grows
<1>4. TickTold(tick, pc, Now')
  BY <1>1, <1>2, TickGrows
<1>5. TickTold(tick', pc', Now') /\ FilesTold'
  BY <1>1, <1>3, <1>4 DEF FilesTold
<1> QED
  BY <1>2, <1>5 DEF CrawlTold

-----------------------------------------------------------------------------
(***************************************************************************)
(* A mutation on its way from Graph to the live index.                     *)
(***************************************************************************)
Owes(idx, now) == LinkOwes(ResumeUrl(idx), now)
\* Where a path leads in the index is nowhere, to a "local:" entry, or the feed will speak of it.
StaleAt(idx, path, now) == Resolve(idx, path) \in Owes(idx, now) \cup LocalIds \cup {None}

(***************************************************************************)
(* The item of an answer: the feed owes it, its name is the last segment   *)
(* of the path, no entry that the feed is done with has its place, and the *)
(* path of its folder leads in the index to that folder, to a folder that  *)
(* is gone, to a "local:" entry or nowhere, and not through that folder.   *)
(***************************************************************************)
ItemTold(it, to, idx, now) ==
    /\ it.id \in ItemIds /\ it.id # RootId /\ it.id \in Owes(idx, now)
    /\ ~it.deleted /\ ~it.is_root
    /\ it.parent \in Folders /\ it.parent # it.id /\ now.changed[it.parent] > 0
    /\ it.name = LastSegment(to) /\ it.dir = (it.id \in Folders) /\ now.changed[it.id] > 0
    /\ (it.id \in Folders /\ On(now, it.id)) =>
          now.tree[it.id] = [parent |-> it.parent, name |-> it.name, dir |-> TRUE]
    /\ \A y \in ItemIds \ {it.id} :
          (HasNode(idx, y) /\ idx.nodes[y].parent = it.parent /\ idx.nodes[y].name = it.name)
             => y \in Owes(idx, now)
    /\ \A y \in Ids : HasNode(idx, y) => idx.nodes[y].parent # it.id
    /\ ParentPath(to) # <<>> => Resolve(idx, ParentPath(ParentPath(to))) # it.parent
    /\ Resolve(idx, ParentPath(to)) \in Folders =>
          Resolve(idx, ParentPath(to)) = it.parent \/ ~On(now, Resolve(idx, ParentPath(to)))

\* No file is shown where the entry of `to` is to be, or where its folder is.
PlaceFits(c, idx) ==
    /\ (Resolve(idx, ParentPath(c.to)) # None /\ HasNode(idx, Resolve(idx, ParentPath(c.to)))) =>
          idx.nodes[Resolve(idx, ParentPath(c.to))].dir = TRUE
    /\ c.op \in {"PUT", "MKCOL"} =>
          \A z \in {Resolve(idx, c.path), LocalId(c.path)} :
             (z # None /\ HasNode(idx, z)) => idx.nodes[z].dir = (c.op = "MKCOL")

(***************************************************************************)
(* An answered mutation, against the live index that it is to patch: what  *)
(* its paths lead to there the feed will speak of.                         *)
(***************************************************************************)
CallTold(c, idx, now) ==
    /\ c.op = "DELETE" => c.item = None
    /\ (c.op # "DELETE" /\ c.item = None) => Unparsed
    /\ c.op \in {"PUT", "MKCOL"} => c.to = c.path
    /\ c.item # None => ItemTold(c.item, c.to, idx, now) /\ ((c.item.id \in Folders) <=> c.op = "MKCOL")
    /\ c.op \in {"DELETE", "MOVE"} => StaleAt(idx, c.path, now)
    /\ c.op = "MOVE" =>
          /\ StaleAt(idx, c.to, now)
          /\ Resolve(idx, c.path) \in Folders => ~On(now, Resolve(idx, c.path))
    /\ c.op # "DELETE" => PlaceFits(c, idx)

(***************************************************************************)
(* The inductive invariant of the feed.                                    *)
(***************************************************************************)
FeedInv == CrawlTold /\ ((pc = "patch" /\ live # Missing) => CallTold(call, live, Now))

\* What an index shows at a path that is the path of a folder on the drive is there on the drive.
LEMMA FolderPath ==
  ASSUME NEW now, DriveTree(now), NEW idx, Sound(idx), Typed(idx, now), NEW path \in Seq(Names),
         Resolve(idx, path) \in Folders, On(now, Resolve(idx, path))
  PROVE  WalkTo(KidsOf(now.tree), RootId, path) = Resolve(idx, path)
<1> DEFINE G == {x \in Folders : On(now, x)}
<1>1. Resolve(idx, path) # None
  BY FolderIsItem
<1>2. idx.root = RootId /\ RootId \in Ids /\ Resolve(idx, path) \in Ids
  BY <1>1, ResolvePresent, FolderIsItem
<1>3. Resolve(idx, path) = WalkTo(idx.kids, RootId, path)
  BY <1>2, FolderIsItem DEF Resolve
<1>4. WalkTo(idx.kids, RootId, path) \in G \cap Ids
  BY <1>2, <1>3
<1>5. /\ idx.kids \in [Ids -> SUBSET (Names \X Ids)] /\ UniqueNames(idx.kids)
      /\ KidsOf(now.tree) \in [Ids -> SUBSET (Names \X Ids)] /\ UniqueNames(KidsOf(now.tree))
  BY IndexFields, DriveKids DEF Sound
<1>6. ASSUME NEW p \in Ids, NEW c \in Ids, NEW m \in Names, c \in G, <<m, c>> \in idx.kids[p]
      PROVE  p \in G /\ <<m, c>> \in KidsOf(now.tree)[p]
  <2>1. HasNode(idx, c) /\ idx.nodes[c].parent = p /\ idx.nodes[c].name = m
    BY <1>6 DEF Sound, Fits
  <2>2. idx.nodes[c] = now.tree[c] /\ On(now, c)
    BY <1>6, <2>1 DEF Typed
  <2>3. c # RootId
    BY <2>1, <2>2, RootNodeIs, FolderIsItem DEF DriveTree
  <2>4. p \in G
    BY <2>1, <2>2, <2>3 DEF DriveTree
  <2> QED
    BY <2>1, <2>2, <2>3, <2>4, DriveKids
<1> HIDE DEF G
<1>7. WalkTo(KidsOf(now.tree), RootId, path) = WalkTo(idx.kids, RootId, path)
  BY <1>2, <1>4, <1>5, <1>6, WalkAgree
<1> QED
  BY <1>3, <1>7

(***************************************************************************)
(* Where the index shows an item that the feed is done with, even after a  *)
(* change of the drive, the item was before that change.                   *)
(***************************************************************************)
LEMMA SettledPath ==
  ASSUME NEW now, NEW next, Grows(now, next), NEW idx, Sound(idx), Told(idx, now), NEW path \in Seq(Names),
         Resolve(idx, path) \in ItemIds \ Owes(idx, next)
  PROVE  WalkTo(KidsOf(now.tree), RootId, path) = Resolve(idx, path)
<1> DEFINE G == ItemIds \ Owes(idx, next)
           link == ResumeUrl(idx)
<1>1. Resolve(idx, path) # None
  BY FolderIsItem
<1>2. idx.root = RootId /\ RootId \in Ids /\ Resolve(idx, path) \in Ids /\ idx \in Index
  BY <1>1, ResolvePresent, FolderIsItem DEF Sound
<1>3. Resolve(idx, path) = WalkTo(idx.kids, RootId, path)
  BY <1>2, FolderIsItem DEF Resolve
<1>4. WalkTo(idx.kids, RootId, path) \in G \cap Ids
  BY <1>2, <1>3
<1>5. /\ DriveTree(now) /\ DriveTree(next)
      /\ idx.kids \in [Ids -> SUBSET (Names \X Ids)] /\ UniqueNames(idx.kids)
      /\ KidsOf(now.tree) \in [Ids -> SUBSET (Names \X Ids)] /\ UniqueNames(KidsOf(now.tree))
  BY <1>2, IndexFields, DriveKids DEF Sound, Grows
<1>6. link \in Link /\ Family(link, now)
  BY <1>2, ResumeIsLink DEF Told
<1>7. /\ LinkOwes(link, now) \subseteq LinkOwes(link, next) /\ Family(link, next)
      /\ \A x \in ItemIds : now.tree[x] # next.tree[x] => x \in LinkOwes(link, next)
  BY <1>6, OwesGrow, FamilyGrows DEF Family
<1>8. ASSUME NEW p \in Ids, NEW c \in Ids, NEW m \in Names, c \in G, <<m, c>> \in idx.kids[p]
      PROVE  p \in G /\ <<m, c>> \in KidsOf(now.tree)[p]
  <2>1. HasNode(idx, c) /\ idx.nodes[c].parent = p /\ idx.nodes[c].name = m
    BY <1>8 DEF Sound, Fits
  <2>2. c \in ItemIds /\ c \notin LinkOwes(link, next)
    BY <1>8 DEF Owes
  <2>3. idx.nodes[c] = now.tree[c] /\ next.tree[c] = now.tree[c] /\ On(now, c) /\ On(next, c)
    <3>1. idx.nodes[c] = now.tree[c]
      BY <1>7, <2>2 DEF Told
    <3> QED
      BY <1>7, <2>1, <2>2, <3>1 DEF HasNode, On
  <2>4. c # RootId
    BY <1>5, <2>1, <2>3, RootNodeIs, FolderIsItem DEF DriveTree
  <2>5. p \in ItemIds
    BY <1>5, <2>1, <2>3, <2>4, FolderIsItem DEF DriveTree
  <2>6. p \notin LinkOwes(link, next)
    BY <1>7, <2>1, <2>2, <2>3, <2>4 DEF Family
  <2> QED
    BY <1>5, <2>1, <2>3, <2>4, <2>5, <2>6, DriveKids DEF Owes
<1> HIDE DEF G
<1>9. WalkTo(KidsOf(now.tree), RootId, path) = WalkTo(idx.kids, RootId, path)
  BY <1>2, <1>4, <1>5, <1>8, WalkAgree
<1> QED
  BY <1>3, <1>9

\* A folder the index shows, and that is on the drive after a change, was there before.
LEMMA ShownFolder ==
  ASSUME NEW now, NEW next, Grows(now, next), NEW idx, Typed(idx, now),
         NEW q \in Folders, HasNode(idx, q), On(next, q)
  PROVE  On(now, q)
<1>1. q \in Ids /\ q \in ItemIds
  BY FolderIsItem
<1>2. now.changed[q] > 0
  BY <1>1 DEF Typed
<1>3. now.tree[q] = next.tree[q]
  BY <1>2, FolderIsItem DEF Grows
<1> QED
  BY <1>3 DEF On

\* What the code has of a mutation stays true of the drive as other devices go on.
LEMMA CallGrows ==
  ASSUME NEW now, NEW next, Grows(now, next), NEW idx, Sound(idx), Typed(idx, now), Told(idx, now),
         NEW c \in Call, CallTold(c, idx, now)
  PROVE  CallTold(c, idx, next)
<1>1. Owes(idx, now) \subseteq Owes(idx, next)
  BY OwesGrow, ResumeIsLink DEF Owes, Sound
<1>2. ASSUME NEW path \in Seq(Names), StaleAt(idx, path, now) PROVE StaleAt(idx, path, next)
  BY <1>1, <1>2 DEF StaleAt
<1>3. ASSUME NEW path \in Seq(Names), Resolve(idx, path) \in Folders, ~On(now, Resolve(idx, path))
      PROVE  ~On(next, Resolve(idx, path))
  <2>1. HasNode(idx, Resolve(idx, path))
    BY <1>3, ResolvePresent, FolderIsItem
  <2> QED
    BY <1>3, <2>1, ShownFolder
<1>4. \A path \in Paths : path \in Seq(Names) /\ ParentPath(path) \in Seq(Names)
  BY PathParts
<1>5. c.path \in Paths /\ c.to \in Paths
  BY DEF Call
<1>6. ASSUME c.item # None PROVE ItemTold(c.item, c.to, idx, next)
  <2> DEFINE it == c.item
  <2>1. ItemTold(it, c.to, idx, now)
    BY <1>6 DEF CallTold
  <2>2. it.id \in ItemIds /\ it.parent \in ItemIds /\ it.parent \in Folders
    BY <2>1, FolderIsItem DEF ItemTold
  <2>3. next.changed[it.parent] > 0 /\ next.changed[it.id] > 0
    <3>1. /\ now.changed[it.parent] <= next.changed[it.parent] /\ now.changed[it.id] <= next.changed[it.id]
          /\ now.changed[it.parent] \in Nat /\ next.changed[it.parent] \in Nat
          /\ now.changed[it.id] \in Nat /\ next.changed[it.id] \in Nat
      BY <2>2 DEF Grows, DriveTree
    <3> QED
      BY <2>1, <3>1 DEF ItemTold
  <2>4. (it.id \in Folders /\ On(next, it.id)) =>
           next.tree[it.id] = [parent |-> it.parent, name |-> it.name, dir |-> TRUE]
    <3> SUFFICES ASSUME it.id \in Folders, On(next, it.id)
                 PROVE  next.tree[it.id] = [parent |-> it.parent, name |-> it.name, dir |-> TRUE]
      OBVIOUS
    <3>1. now.changed[it.id] > 0 /\ now.changed[it.id] \in Nat
      BY <2>1, <2>2 DEF ItemTold, Grows, DriveTree
    <3>2. now.tree[it.id] = next.tree[it.id]
      BY <3>1 DEF Grows
    <3> QED
      BY <2>1, <3>2 DEF ItemTold, On
  <2>5. Resolve(idx, ParentPath(c.to)) \in Folders =>
           Resolve(idx, ParentPath(c.to)) = it.parent \/ ~On(next, Resolve(idx, ParentPath(c.to)))
    BY <1>3, <1>4, <1>5, <2>1 DEF ItemTold
  <2>6. /\ it.id # RootId /\ it.id \in Owes(idx, next)
        /\ ~it.deleted /\ ~it.is_root /\ it.parent # it.id
        /\ it.name = LastSegment(c.to) /\ it.dir = (it.id \in Folders)
        /\ \A y \in ItemIds \ {it.id} :
              (HasNode(idx, y) /\ idx.nodes[y].parent = it.parent /\ idx.nodes[y].name = it.name)
                 => y \in Owes(idx, next)
        /\ \A y \in Ids : HasNode(idx, y) => idx.nodes[y].parent # it.id
        /\ ParentPath(c.to) # <<>> => Resolve(idx, ParentPath(ParentPath(c.to))) # it.parent
    BY <1>1, <2>1 DEF ItemTold
  <2> HIDE DEF it
  <2>7. ItemTold(it, c.to, idx, next)
    BY <2>2, <2>3, <2>4, <2>5, <2>6 DEF ItemTold
  <2> QED
    BY <2>7 DEF it
<1> QED
  BY <1>2, <1>3, <1>4, <1>5, <1>6 DEF CallTold

(***************************************************************************)
(* The answer to a write: Graph resolved the folder's path on the drive as *)
(* it was, and the item is in that folder under the last segment.          *)
(***************************************************************************)
LEMMA WriteTold ==
  ASSUME NEW now, NEW next, Grows(now, next), NEW idx, Sound(idx), Typed(idx, now), Told(idx, now),
         NEW to \in Paths, NEW x \in ItemIds \ {RootId}, NEW p \in Folders,
         p = WalkTo(KidsOf(now.tree), RootId, ParentPath(to)), On(now, p),
         next.tree[x] = [parent |-> p, name |-> LastSegment(to), dir |-> x \in Folders],
         next.changed[x] > now.version, x \in Folders => now.changed[x] = 0
  PROVE  ItemTold(ItemOf(next.tree, x), to, idx, next)
<1> DEFINE it == ItemOf(next.tree, x)
           base == ParentPath(to)
<1>1. /\ to \in Seq(Names) /\ base \in Seq(Names) /\ LastSegment(to) \in Names
      /\ x \in Ids /\ p \in ItemIds /\ p \in Ids /\ RootId \in Ids /\ DriveTree(now) /\ DriveTree(next)
      /\ idx \in Index
  BY PathParts, FolderIsItem DEF Grows, Sound
<1>2. On(next, x)
  <2>1. [parent |-> p, name |-> LastSegment(to), dir |-> x \in Folders] \in Node
    BY <1>1 DEF Node
  <2> QED
    BY <2>1, RootIsId DEF On
<1>3. /\ it.id = x /\ ~it.deleted /\ ~it.is_root /\ it.parent = p /\ it.name = LastSegment(to)
      /\ it.dir = (x \in Folders)
  <2>1. next.tree[x] # NoNode
    BY <1>2 DEF On
  <2>2. /\ it.id = x /\ it.deleted = (next.tree[x] = NoNode) /\ it.is_root = (x = RootId)
        /\ it.parent = IF next.tree[x] = NoNode THEN None ELSE next.tree[x].parent
        /\ it.name = IF next.tree[x] = NoNode THEN None ELSE next.tree[x].name
        /\ it.dir = (x \in Folders)
    BY DEF ItemOf
  <2>3. next.tree[x].parent = p /\ next.tree[x].name = LastSegment(to)
    OBVIOUS
  <2> HIDE DEF it
  <2> QED
    BY <2>1, <2>2, <2>3
<1> HIDE DEF it
<1>4. /\ next.changed[p] > 0 /\ next.changed[x] > 0 /\ p # x
  <2>1. next.tree[x].parent = p
    OBVIOUS
  <2>2. On(next, p)
    BY <1>1, <1>2, <2>1 DEF DriveTree
  <2> QED
    BY <1>1, <1>2, <2>1, <2>2, ParentIsOther DEF DriveTree
<1>5. /\ x \in Owes(idx, next)
      /\ \A y \in ItemIds : y \notin Owes(idx, next) => idx.nodes[y] = next.tree[y]
  <2>1. ResumeUrl(idx) \in Link /\ ResumeUrl(idx).begun <= now.version
    BY <1>1, ResumeIsLink DEF Told, Family
  <2> QED
    BY <2>1, OwesGrow DEF Owes, Told
<1>6. ASSUME NEW y \in ItemIds \ {x}, HasNode(idx, y), idx.nodes[y].parent = p,
             idx.nodes[y].name = LastSegment(to)
      PROVE  y \in Owes(idx, next)
  <2> SUFFICES ASSUME y \notin Owes(idx, next) PROVE FALSE
    OBVIOUS
  <2>1. y \in Ids /\ On(next, y) /\ next.tree[y].parent = p /\ next.tree[y].name = LastSegment(to)
    BY <1>5, <1>6, FolderIsItem DEF HasNode, On
  <2>2. y # RootId
    BY <1>1, <2>1, RootNodeIs, FolderIsItem DEF DriveTree
  <2>3. next.tree[x].parent = p /\ next.tree[x].name = LastSegment(to)
    OBVIOUS
  <2> QED
    BY <1>1, <1>2, <2>1, <2>2, <2>3 DEF DriveTree
<1>7. \A y \in Ids : HasNode(idx, y) => idx.nodes[y].parent # x
  BY <1>1 DEF Typed
<1>8. ASSUME base # <<>>, Resolve(idx, ParentPath(base)) = p PROVE FALSE
  <2>1. ParentPath(base) \in Seq(Names)
    BY <1>1, <1>8, PathShape
  <2>2. WalkTo(KidsOf(now.tree), RootId, ParentPath(base)) = p
    BY <1>1, <1>8, <2>1, FolderPath
  <2>3. KidsOf(now.tree) \in [Ids -> SUBSET (Names \X Ids)] /\ UniqueNames(KidsOf(now.tree))
    BY <1>1, DriveKids
  <2>4. <<LastSegment(base), p>> \in KidsOf(now.tree)[p] /\ LastSegment(base) \in Names
    BY <1>1, <1>8, <2>2, <2>3, WalkToStep, PathShape
  <2>5. now.tree[p].parent = p
    BY <1>1, <2>4, DriveKids
  <2> QED
    BY <1>1, <2>5, ParentIsOther
<1>9. ASSUME Resolve(idx, base) \in Folders, On(next, Resolve(idx, base)) PROVE Resolve(idx, base) = p
  <2>1. HasNode(idx, Resolve(idx, base))
    BY <1>1, <1>9, ResolvePresent, FolderIsItem
  <2>2. On(now, Resolve(idx, base))
    BY <1>9, <2>1, ShownFolder
  <2> QED
    BY <1>1, <1>9, <2>2, FolderPath
<1>10. (x \in Folders) => next.tree[x] = [parent |-> p, name |-> LastSegment(to), dir |-> TRUE]
  <2> SUFFICES ASSUME x \in Folders PROVE (x \in Folders) = TRUE
    OBVIOUS
  <2> QED
    OBVIOUS
<1>11. ItemTold(it, to, idx, next)
  BY <1>3, <1>4, <1>5, <1>6, <1>7, <1>8, <1>9, <1>10 DEF ItemTold
<1> QED
  BY <1>11 DEF it

\* Where a path leads on the drive.
LEMMA RemotePaths ==
  ASSUME DriveTree(Now), NEW path \in Paths
  PROVE  /\ RemoteAt(path) = WalkTo(KidsOf(Now.tree), RootId, path)
         /\ RemoteAt(ParentPath(path)) = WalkTo(KidsOf(Now.tree), RootId, ParentPath(path))
         /\ \A c \in Ids : RemoteAt(path) = c <=>
               /\ RemoteAt(ParentPath(path)) \in Ids
               /\ c # RootId /\ On(Now, c)
               /\ Now.tree[c].parent = RemoteAt(ParentPath(path)) /\ Now.tree[c].name = LastSegment(path)
<1>1. /\ RemoteAt(path) = WalkTo(KidsOf(Now.tree), RootId, path)
      /\ RemoteAt(ParentPath(path)) = WalkTo(KidsOf(Now.tree), RootId, ParentPath(path))
  BY DEF RemoteAt, RemoteKids, Now
<1>2. /\ path \in Seq(Names) /\ path # <<>> /\ RootId \in Ids /\ LastSegment(path) \in Names
      /\ KidsOf(Now.tree) \in [Ids -> SUBSET (Names \X Ids)] /\ UniqueNames(KidsOf(Now.tree))
  BY PathParts, FolderIsItem, DriveKids
<1>3. \A c \in Ids : WalkTo(KidsOf(Now.tree), RootId, path) = c <=>
         /\ WalkTo(KidsOf(Now.tree), RootId, ParentPath(path)) \in Ids
         /\ <<LastSegment(path), c>> \in KidsOf(Now.tree)[WalkTo(KidsOf(Now.tree), RootId, ParentPath(path))]
  BY <1>2, WalkToStep
<1>4. \A p, c \in Ids : <<LastSegment(path), c>> \in KidsOf(Now.tree)[p] <=>
         c # RootId /\ On(Now, c) /\ Now.tree[c].parent = p /\ Now.tree[c].name = LastSegment(path)
  BY <1>2, DriveKids
<1> DEFINE p == WalkTo(KidsOf(Now.tree), RootId, ParentPath(path))
<1>5. \A c \in Ids : RemoteAt(path) = c <=>
         p \in Ids /\ c # RootId /\ On(Now, c) /\ Now.tree[c].parent = p /\ Now.tree[c].name = LastSegment(path)
  <2> HIDE DEF p
  <2> QED
    BY <1>1, <1>3, <1>4 DEF p
<1> HIDE DEF p
<1>6. RemoteAt(ParentPath(path)) = p
  BY <1>1 DEF p
<1> QED
  BY <1>1, <1>5, <1>6

\* PUT: a file at the path, new or with new content.
LEMMA PutPlaces ==
  ASSUME DriveTree(Now), NEW path \in Paths, NEW x \in ItemIds, PutContent(x, path),
         NEW p, p = RemoteAt(ParentPath(path))
  PROVE  /\ Grows(Now, Now') /\ x # RootId /\ x \notin Folders /\ p \in Folders /\ On(Now, p)
         /\ Now'.tree[x] = [parent |-> p, name |-> LastSegment(path), dir |-> x \in Folders]
         /\ Now'.changed[x] > Now.version
<1>1. LastSegment(path) \in Names /\ Folders \subseteq Ids /\ x \in Ids
  BY PathParts, FolderIsItem
<1>2. CASE RemoteAt(path) # None
  <2>1. x = RemoteAt(path) /\ Rewrite(x)
    BY <1>2 DEF PutContent
  <2>2. /\ x # RootId /\ x \notin Folders /\ On(Now, x) /\ Grows(Now, Now')
        /\ Now'.changed[x] > Now.version /\ Now'.tree = Now.tree
    BY <2>1, RewriteGrows
  <2>3. Now.tree[x].parent = p /\ Now.tree[x].name = LastSegment(path)
    BY <1>1, <2>1, RemotePaths
  <2>4. Now.tree[x] \in Node /\ Now.tree[x].dir = (x \in Folders) /\ p \in Folders /\ On(Now, p)
    BY <1>1, <2>2, <2>3 DEF DriveTree, On
  <2>5. Now.tree[x] = [parent |-> p, name |-> LastSegment(path), dir |-> x \in Folders]
    <3>1. [parent |-> p, name |-> LastSegment(path), dir |-> x \in Folders] \in Node
      BY <1>1, <2>4 DEF Node
    <3> DEFINE node == [parent |-> p, name |-> LastSegment(path), dir |-> x \in Folders]
    <3>2. node.parent = p /\ node.name = LastSegment(path) /\ node.dir = (x \in Folders)
      OBVIOUS
    <3> HIDE DEF node
    <3>3. Now.tree[x] = node
      BY <2>3, <2>4, <3>1, <3>2, NodesAgree DEF node
    <3> QED
      BY <3>3 DEF node
  <2> QED
    BY <2>2, <2>4, <2>5
<1>3. CASE RemoteAt(path) = None
  <2>1. p # None /\ x \notin Folders /\ Create(x, p, LastSegment(path))
    BY <1>3 DEF PutContent
  <2>2. p \in Folders /\ On(Now, p)
    BY <2>1 DEF Create, IsFolder, On, Now
  <2> QED
    BY <1>1, <2>1, <2>2, CreateGrows
<1> QED
  BY <1>2, <1>3

\* MKCOL: a new folder at the path.
LEMMA MkcolPlaces ==
  ASSUME DriveTree(Now), NEW path \in Paths, NEW x \in ItemIds, CreateFolder(x, path),
         NEW p, p = RemoteAt(ParentPath(path))
  PROVE  /\ Grows(Now, Now') /\ x # RootId /\ x \in Folders /\ p \in Folders /\ On(Now, p)
         /\ Now'.tree[x] = [parent |-> p, name |-> LastSegment(path), dir |-> x \in Folders]
         /\ Now'.changed[x] > Now.version /\ Now.changed[x] = 0
<1>1. LastSegment(path) \in Names
  BY PathParts
<1>2. x \in Folders /\ Create(x, p, LastSegment(path))
  BY DEF CreateFolder
<1>3. p \in Folders /\ On(Now, p)
  BY <1>2 DEF Create, IsFolder, On, Now
<1> QED
  BY <1>1, <1>2, <1>3, CreateGrows

\* MOVE: the file at the one path gets the place of the other.
LEMMA MovePlaces ==
  ASSUME FilesMove, DriveTree(Now), NEW path \in Paths, NEW to \in Paths, MoveOrRename(path, to),
         NEW x, x = RemoteAt(path), NEW p, p = RemoteAt(ParentPath(to))
  PROVE  /\ Grows(Now, Now') /\ x \in ItemIds /\ x # RootId /\ x \notin Folders /\ p \in Folders /\ On(Now, p)
         /\ Now'.tree[x] = [parent |-> p, name |-> LastSegment(to), dir |-> x \in Folders]
         /\ Now'.changed[x] > Now.version /\ RemoteAt(to) = None
<1>1. LastSegment(to) \in Names
  BY PathParts
<1>2. Move(x, p, LastSegment(to))
  BY DEF MoveOrRename
<1>3. p \in Folders /\ On(Now, p) /\ NameFree(p, LastSegment(to))
  BY <1>2 DEF Move, IsFolder, On, Now
<1>4. /\ x \in ItemIds /\ x # RootId /\ x \notin Folders
      /\ Grows(Now, Now') /\ Now'.changed[x] > Now.version
      /\ Now'.tree[x] = [parent |-> p, name |-> LastSegment(to), dir |-> FALSE]
  BY <1>1, <1>2, <1>3, MoveGrows
<1>5. (x \in Folders) = FALSE
  BY <1>4
<1>6. RemoteAt(to) = None
  <2> SUFFICES ASSUME RemoteAt(to) # None PROVE FALSE
    OBVIOUS
  <2>1. RemoteAt(to) \in Ids
    BY RemoteAtIsId
  <2>2. /\ RemoteAt(to) # RootId /\ On(Now, RemoteAt(to)) /\ Now.tree[RemoteAt(to)].parent = p
        /\ Now.tree[RemoteAt(to)].name = LastSegment(to)
    BY <2>1, RemotePaths
  <2>3. <<LastSegment(to), RemoteAt(to)>> \in KidsOf(Now.tree)[p]
    BY <1>1, <1>3, <2>1, <2>2, DriveKids, FolderIsItem
  <2>4. <<LastSegment(to), RemoteAt(to)>> \in RemoteKids[p]
    BY <2>3 DEF RemoteKids, Now
  <2> QED
    BY <1>3, <2>4 DEF NameFree
<1> QED
  BY <1>3, <1>4, <1>5, <1>6

\* What the tick and the files have outlasts a mutation.
LEMMA CalledTold ==
  ASSUME Inv, CrawlTold, pc = "idle", Grows(Now, Now'), pc' = "patch", UNCHANGED <<live, rebuild, tick>>
  PROVE  CrawlTold'
<1>1. /\ FileOK(live) /\ FileOK(rebuild) /\ TickOK(tick)
      /\ FileTold(live, Now) /\ FileTold(rebuild, Now) /\ TickTold(tick, pc, Now)
  BY DEF Inv, CrawlTold, FilesTold
<1>2. DriveTree(Now') /\ FileTold(live, Now') /\ FileTold(rebuild, Now')
  BY <1>1, FileGrows DEF Grows
<1>3. TickTold(tick, "patch", Now)
  BY <1>1 DEF TickTold
<1>4. TickTold(tick, "patch", Now')
  BY <1>1, <1>3, TickGrows
<1>5. TickTold(tick', pc', Now') /\ FilesTold'
  BY <1>2, <1>4 DEF FilesTold
<1> QED
  BY <1>5 DEF CrawlTold

\* What a live index is worth between ticks.
LEMMA LiveTold ==
  ASSUME Inv, CrawlTold, live # Missing
  PROVE  /\ Sound(live) /\ Typed(live, Now) /\ Told(live, Now) /\ Climbs(live) /\ (Unparsed \/ Hangs(live, Now))
         /\ DriveTree(Now)
  BY DEF Inv, CrawlTold, FilesTold, FileOK, FileTold

\* A drive that is a tree is in shape.
LEMMA TreeShape == ASSUME NEW now, DriveTree(now) PROVE DriveShape(now.tree)
  BY RootNodeIs, FolderIsItem DEF DriveTree, DriveShape, On

\* Where the index shows what a mutation changed, or nothing was, it is stale.
LEMMA StaleIs ==
  ASSUME NEW now, NEW next, Grows(now, next), NEW idx, Sound(idx), Told(idx, now), NEW path \in Paths,
         \A y \in ItemIds : WalkTo(KidsOf(now.tree), RootId, path) = y => next.changed[y] > now.version
  PROVE  StaleAt(idx, path, next)
<1> SUFFICES ASSUME ~StaleAt(idx, path, next) PROVE FALSE
  OBVIOUS
<1> DEFINE y == Resolve(idx, path)
<1>1. path \in Seq(Names)
  BY PathParts
<1>2. y \in ItemIds \ Owes(idx, next)
  <2>1. y \in Ids \cup {None}
    BY <1>1, ResolveFinds
  <2> QED
    BY <2>1, FolderIsItem DEF StaleAt
<1>3. next.changed[y] > now.version
  BY <1>1, <1>2, SettledPath
<1>4. y \in Owes(idx, next)
  <2>1. ResumeUrl(idx) \in Link /\ ResumeUrl(idx).begun <= now.version
    BY ResumeIsLink DEF Told, Family, Sound
  <2> HIDE DEF y
  <2> QED
    BY <1>2, <1>3, <2>1, OwesGrow DEF Owes
<1> QED
  BY <1>2, <1>4

\* PUT or MKCOL, once Graph has the item at the path.
LEMMA WrittenTold ==
  ASSUME Inv, FeedInv, ~StaleTypes, pc = "idle", Grows(Now, Now'),
         NEW op \in {"PUT", "MKCOL"}, NEW path \in Paths, NEW x \in ItemIds \ {RootId}, NEW item \in Answers(x),
         EntryFits(path, op = "MKCOL"), Called(op, path, path, item),
         NEW p \in Folders, p = RemoteAt(ParentPath(path)), On(Now, p),
         Now'.tree[x] = [parent |-> p, name |-> LastSegment(path), dir |-> x \in Folders],
         Now'.changed[x] > Now.version, x \in Folders <=> op = "MKCOL", x \in Folders => Now.changed[x] = 0
  PROVE  FeedInv'
<1>1. /\ call' = [op |-> op, path |-> path, to |-> path, item |-> item] /\ pc' = "patch"
      /\ live' = live /\ rebuild' = rebuild /\ tick' = tick
  BY DEF Called
<1>2. CrawlTold'
  BY <1>1, CalledTold DEF FeedInv
<1>3. ASSUME live # Missing PROVE CallTold(call', live, Now')
  <2>1. Sound(live) /\ Typed(live, Now) /\ Told(live, Now) /\ DriveTree(Now)
    BY <1>3, LiveTold DEF FeedInv
  <2>2. item = ItemOf(Now'.tree, x) \/ (Unparsed /\ item = None)
    BY DEF Answers, Now
  <2>3. ItemTold(ItemOf(Now'.tree, x), path, live, Now')
    BY <2>1, RemotePaths, WriteTold
  <2>4. ItemOf(Now'.tree, x).id = x
    BY DEF ItemOf
  <2>5. PlaceFits(call', live)
    <3>1. /\ ShownAs(Resolve(live, ParentPath(path)), TRUE)
          /\ ShownAs(Resolve(live, path), op = "MKCOL") /\ ShownAs(LocalId(path), op = "MKCOL")
      BY <1>3 DEF EntryFits, ParentFits
    <3>2. LocalId(path) # None
      BY LocalIdIsId, FolderIsItem
    <3> QED
      BY <1>1, <3>1, <3>2 DEF PlaceFits, ShownAs, HasNode
  <2>6. item # None => ItemTold(item, path, live, Now') /\ (item.id \in Folders <=> op = "MKCOL")
    BY <2>2, <2>3, <2>4
  <2>7. item = None => Unparsed
    <3>1. ItemOf(Now'.tree, x) # None
      <4>1. DriveTree(Now')
        BY DEF Grows
      <4>2. GoodItem(ItemOf(Now'.tree, x))
        BY <4>1, ItemIsGood, TreeShape
      <4> QED
        BY <4>2, NoItemAssumption DEF GoodItem
    <3> QED
      BY <2>2, <3>1
  <2> QED
    BY <1>1, <2>5, <2>6, <2>7 DEF CallTold
<1> QED
  BY <1>1, <1>2, <1>3 DEF FeedInv

\* PUT.
LEMMA CallPutTold ==
  ASSUME ~StaleTypes, Inv, FeedInv, NEW path \in Paths, CallPut(path)
  PROVE  FeedInv'
<1>1. PICK x \in ItemIds : PutContent(x, path) /\ \E item \in Answers(x) : Called("PUT", path, path, item)
  BY DEF CallPut
<1>2. PICK item \in Answers(x) : Called("PUT", path, path, item)
  BY <1>1
<1>3. DriveTree(Now) /\ pc = "idle" /\ EntryFits(path, FALSE)
  BY DEF FeedInv, CrawlTold, FilesTold, CallPut
<1> DEFINE p == RemoteAt(ParentPath(path))
<1>4. /\ Grows(Now, Now') /\ x # RootId /\ x \notin Folders /\ p \in Folders /\ On(Now, p)
      /\ Now'.tree[x] = [parent |-> p, name |-> LastSegment(path), dir |-> x \in Folders]
      /\ Now'.changed[x] > Now.version
  BY <1>1, <1>3, PutPlaces
<1>5. EntryFits(path, "PUT" = "MKCOL")
  <2>1. ("PUT" = "MKCOL") = FALSE
    OBVIOUS
  <2> QED
    BY <1>3, <2>1
<1> HIDE DEF p
<1>6. "PUT" \in {"PUT", "MKCOL"} /\ x \in ItemIds \ {RootId} /\ p = RemoteAt(ParentPath(path))
  BY <1>4 DEF p
<1>7. (x \in Folders <=> "PUT" = "MKCOL") /\ (x \in Folders => Now.changed[x] = 0)
  BY <1>4
<1> QED
  BY <1>2, <1>3, <1>4, <1>5, <1>6, <1>7, WrittenTold

\* MKCOL.
LEMMA CallMkcolTold ==
  ASSUME ~StaleTypes, Inv, FeedInv, NEW path \in Paths, CallMkcol(path)
  PROVE  FeedInv'
<1>1. PICK x \in ItemIds : CreateFolder(x, path) /\ \E item \in Answers(x) : Called("MKCOL", path, path, item)
  BY DEF CallMkcol
<1>2. PICK item \in Answers(x) : Called("MKCOL", path, path, item)
  BY <1>1
<1>3. DriveTree(Now) /\ pc = "idle" /\ EntryFits(path, TRUE)
  BY DEF FeedInv, CrawlTold, FilesTold, CallMkcol
<1> DEFINE p == RemoteAt(ParentPath(path))
<1>4. /\ Grows(Now, Now') /\ x # RootId /\ x \in Folders /\ p \in Folders /\ On(Now, p)
      /\ Now'.tree[x] = [parent |-> p, name |-> LastSegment(path), dir |-> x \in Folders]
      /\ Now'.changed[x] > Now.version /\ Now.changed[x] = 0
  BY <1>1, <1>3, MkcolPlaces
<1>5. EntryFits(path, "MKCOL" = "MKCOL")
  <2>1. ("MKCOL" = "MKCOL") = TRUE
    OBVIOUS
  <2> QED
    BY <1>3, <2>1
<1> HIDE DEF p
<1>6. "MKCOL" \in {"PUT", "MKCOL"} /\ x \in ItemIds \ {RootId} /\ p = RemoteAt(ParentPath(path))
  BY <1>4 DEF p
<1>7. (x \in Folders <=> "MKCOL" = "MKCOL") /\ (x \in Folders => Now.changed[x] = 0)
  BY <1>4
<1> QED
  BY <1>2, <1>3, <1>4, <1>5, <1>6, <1>7, WrittenTold

\* DELETE.
LEMMA CallDeleteTold ==
  ASSUME Inv, FeedInv, NEW path \in Paths, CallDelete(path)
  PROVE  FeedInv'
<1>1. /\ DeleteAt(path) /\ pc = "idle" /\ pc' = "patch"
      /\ call' = [op |-> "DELETE", path |-> path, to |-> path, item |-> None]
      /\ live' = live /\ rebuild' = rebuild /\ tick' = tick
  BY DEF CallDelete, Called
<1>2. DriveTree(Now) /\ CrawlTold
  BY DEF FeedInv, CrawlTold, FilesTold
<1>3. /\ Grows(Now, Now')
      /\ \A y \in ItemIds : RemoteAt(path) = y => Now'.changed[y] > Now.version
  <2>1. CASE RemoteAt(path) # None
    <3>1. RemoteAt(path) \in Ids /\ Delete(RemoteAt(path))
      BY <1>1, <2>1, RemoteAtIsId DEF DeleteAt
    <3> QED
      BY <1>2, <3>1, DeletedGrows
  <2>2. CASE RemoteAt(path) = None
    <3>1. UNCHANGED driveVars
      BY <1>1, <2>2 DEF DeleteAt
    <3> QED
      BY <1>2, <2>2, <3>1, StayGrows, FolderIsItem
  <2> QED
    BY <2>1, <2>2
<1>4. CrawlTold'
  BY <1>1, <1>2, <1>3, CalledTold
<1>5. ASSUME live # Missing PROVE CallTold(call', live, Now')
  <2>1. Sound(live) /\ Told(live, Now)
    BY <1>2, <1>5, LiveTold
  <2>2. StaleAt(live, path, Now')
    BY <1>2, <1>3, <2>1, RemotePaths, StaleIs
  <2> QED
    BY <1>1, <2>2 DEF CallTold
<1> QED
  BY <1>1, <1>4, <1>5 DEF FeedInv

\* MOVE.
LEMMA CallMoveTold ==
  ASSUME FilesMove, ~StaleTypes, Inv, FeedInv, NEW path \in Paths, NEW to \in Paths, CallMove(path, to)
  PROVE  FeedInv'
<1> DEFINE x == RemoteAt(path)
           p == RemoteAt(ParentPath(to))
<1>1. PICK item \in Answers(x) : Called("MOVE", path, to, item)
  BY DEF CallMove
<1>2. /\ MoveOrRename(path, to) /\ pc = "idle" /\ pc' = "patch" /\ ParentFits(to)
      /\ call' = [op |-> "MOVE", path |-> path, to |-> to, item |-> item]
      /\ live' = live /\ rebuild' = rebuild /\ tick' = tick
  BY <1>1 DEF CallMove, Called
<1>3. DriveTree(Now) /\ CrawlTold
  BY DEF FeedInv, CrawlTold, FilesTold
<1>4. /\ Grows(Now, Now') /\ x \in ItemIds /\ x # RootId /\ x \notin Folders /\ p \in Folders /\ On(Now, p)
      /\ Now'.tree[x] = [parent |-> p, name |-> LastSegment(to), dir |-> x \in Folders]
      /\ Now'.changed[x] > Now.version /\ RemoteAt(to) = None
  BY <1>2, <1>3, MovePlaces
<1>5. item = ItemOf(Now'.tree, x) \/ (Unparsed /\ item = None)
  BY DEF Answers, Now
<1>6. p = WalkTo(KidsOf(Now.tree), RootId, ParentPath(to)) /\ x = WalkTo(KidsOf(Now.tree), RootId, path)
      /\ WalkTo(KidsOf(Now.tree), RootId, to) = None
  BY <1>3, <1>4, RemotePaths
<1> HIDE DEF x, p
<1>7. CrawlTold'
  BY <1>2, <1>3, <1>4, CalledTold
<1>8. ASSUME live # Missing PROVE CallTold(call', live, Now')
  <2>1. Sound(live) /\ Typed(live, Now) /\ Told(live, Now)
    BY <1>3, <1>8, LiveTold
  <2>2. ItemTold(ItemOf(Now'.tree, x), to, live, Now')
    <3>1. x \in ItemIds \ {RootId} /\ p \in Folders
      BY <1>4
    <3> QED
      BY <1>4, <1>6, <2>1, <3>1, WriteTold
  <2>3. ItemOf(Now'.tree, x).id = x
    BY DEF ItemOf
  <2>4. item # None => ItemTold(item, to, live, Now') /\ item.id \notin Folders
    BY <1>4, <1>5, <2>2, <2>3
  <2>5. item = None => Unparsed
    <3>1. DriveTree(Now')
      BY <1>4 DEF Grows
    <3>2. GoodItem(ItemOf(Now'.tree, x))
      BY <1>4, <3>1, ItemIsGood, TreeShape
    <3> QED
      BY <1>5, <3>2, NoItemAssumption DEF GoodItem
  <2>6. StaleAt(live, path, Now')
    BY <1>4, <1>6, <2>1, StaleIs
  <2>7. StaleAt(live, to, Now')
    BY <1>4, <1>6, <2>1, StaleIs, FolderIsItem
  <2>8. ASSUME Resolve(live, path) \in Folders PROVE ~On(Now', Resolve(live, path))
    <3> SUFFICES ASSUME On(Now', Resolve(live, path)) PROVE FALSE
      OBVIOUS
    <3>1. path \in Seq(Names)
      BY PathParts
    <3>2. HasNode(live, Resolve(live, path))
      BY <2>1, <2>8, <3>1, ResolvePresent, FolderIsItem
    <3>3. On(Now, Resolve(live, path))
      BY <1>4, <2>1, <2>8, <3>2, ShownFolder
    <3>4. x = Resolve(live, path)
      BY <1>3, <1>6, <2>1, <2>8, <3>1, <3>3, FolderPath
    <3> QED
      BY <1>4, <2>8, <3>4
  <2>9. PlaceFits(call', live)
    <3>1. ShownAs(Resolve(live, ParentPath(to)), TRUE)
      BY <1>2, <1>8 DEF ParentFits
    <3> QED
      BY <1>2, <3>1 DEF PlaceFits, ShownAs, HasNode
  <2> QED
    BY <1>2, <2>4, <2>5, <2>6, <2>7, <2>8, <2>9 DEF CallTold
<1> QED
  BY <1>2, <1>7, <1>8 DEF FeedInv

\* A mutation, whichever.
LEMMA ClientCallTold ==
  ASSUME FilesMove, ~StaleTypes PROVE Inv /\ FeedInv /\ ClientCall => FeedInv'
  BY CallPutTold, CallMkcolTold, CallDeleteTold, CallMoveTold DEF ClientCall

\* The entries the feed will speak of again, and the "local:" ones.
Loose(idx, now) == Owes(idx, now) \cup LocalIds
\* An edit of index `idx` that leaves what the feed is done with as it is.
Kept(new, idx, now) ==
    /\ SameLinks(new, idx) /\ new.root = idx.root
    /\ Typed(new, now)
    /\ \A x \in ItemIds \ Owes(idx, now) : new.nodes[x] = idx.nodes[x]

\* After an edit that keeps it, the feed still tells all that is wrong with an index.
LEMMA KeptTold ==
  ASSUME NEW now, NEW idx, Told(idx, now), HasNode(idx, RootId), NEW new, Kept(new, idx, now)
  PROVE  Told(new, now)
<1>1. ResumeUrl(new) = ResumeUrl(idx)
  BY DEF Kept, SameLinks, ResumeUrl
<1>2. ResumeUrl(idx).kind # "initial"
  BY FolderIsItem DEF Told, Begins
<1> QED
  BY <1>1, <1>2 DEF Kept, Owes, Told, Begins

\* What is below a loose entry is loose.
LEMMA LooseIsClosed ==
  ASSUME NEW now, DriveTree(now), NEW idx, idx \in Index, Told(idx, now),
         NEW c \in Ids, HasNode(idx, c), idx.nodes[c].parent \in Loose(idx, now)
  PROVE  c \in Loose(idx, now)
<1> SUFFICES ASSUME c \notin Loose(idx, now) PROVE FALSE
  OBVIOUS
<1>1. c \in ItemIds /\ c \notin Owes(idx, now)
  BY FolderIsItem DEF Loose
<1>2. idx.nodes[c] = now.tree[c] /\ On(now, c)
  BY <1>1 DEF Told, Owes, HasNode, On
<1>3. Loose(idx, now) \subseteq Ids
  BY ResumeIsLink, OwesCases, FolderIsItem DEF Loose, Owes
<1>4. c # RootId
  BY <1>2, <1>3, RootNodeIs, FolderIsItem DEF DriveTree
<1>5. now.tree[c].parent \in Folders /\ now.tree[c].parent \notin LocalIds
  BY <1>2, <1>4, FolderIsItem DEF DriveTree
<1>6. now.tree[c].parent \in Owes(idx, now)
  BY <1>2, <1>5 DEF Loose
<1>7. c \in Owes(idx, now)
  BY <1>2, <1>4, <1>6 DEF Told, Family, Owes
<1> QED
  BY <1>1, <1>7

\* A removal of a loose entry.
LEMMA RemoveKept ==
  ASSUME NEW now, DriveTree(now), NEW idx, Sound(idx), Typed(idx, now), Told(idx, now),
         NEW id \in Ids, id # RootId, id \in Loose(idx, now)
  PROVE  Kept(Remove(idx, id), idx, now)
<1> DEFINE new == Remove(idx, id)
           S == Loose(idx, now)
<1>1. PICK gone \in SUBSET (Ids \ {RootId}) :
        /\ \A c \in Ids : new.nodes[c] = IF c \in gone THEN NoNode ELSE idx.nodes[c]
        /\ new.root = idx.root /\ SameLinks(new, idx)
        /\ \A U : (/\ id \in U
                   /\ \A c \in Ids : (HasNode(idx, c) /\ idx.nodes[c].parent \in U) => c \in U)
                     => gone \subseteq U
  BY RemoveEffect, SMTT(30)
<1>2. \A c \in Ids : (HasNode(idx, c) /\ idx.nodes[c].parent \in S) => c \in S
  BY LooseIsClosed DEF Sound
<1>3. gone \subseteq S
  <2> HIDE DEF S
  <2> QED
    BY <1>1, <1>2 DEF S
<1>4. Typed(new, now)
  BY RemoveTyped
<1> HIDE DEF new
<1>5. \A x \in ItemIds \ Owes(idx, now) : new.nodes[x] = idx.nodes[x]
  BY <1>1, <1>3, FolderIsItem DEF Loose
<1>6. Kept(new, idx, now)
  BY <1>1, <1>4, <1>5 DEF Kept
<1> QED
  BY <1>6 DEF new

\* A loose entry that enters where only loose ones have to go.
LEMMA EnterKept ==
  ASSUME NEW now, NEW idx, NEW a, Sound(a), Kept(a, idx, now), NEW it, GoodItem(it), Entering(it),
         ItemTyped(a, it, now), it.id \in Loose(idx, now), NEW U, U \subseteq Loose(idx, now),
         \A c \in Ids \ {it.id} :
            (HasNode(a, c) /\ a.nodes[c].parent = it.parent /\ a.nodes[c].name = it.name) => c \in U,
         \A c \in Ids : (HasNode(a, c) /\ a.nodes[c].parent \in U) => c \in U
  PROVE  Kept(Apply(a, it), idx, now)
<1> DEFINE new == Apply(a, it)
<1>1. PICK gone \in SUBSET (Ids \ {RootId}) :
        /\ \A c \in Ids \ {it.id} : new.nodes[c] = IF c \in gone THEN NoNode ELSE a.nodes[c]
        /\ new.root = a.root /\ SameLinks(new, a) /\ GoesOnly(gone, a, it)
  BY EnterEffect
<1>2. gone \subseteq U
  BY <1>1 DEF GoesOnly
<1>3. Typed(new, now)
  BY EnterTyped DEF Kept
<1> HIDE DEF new
<1>4. ASSUME NEW x \in ItemIds \ Owes(idx, now) PROVE new.nodes[x] = idx.nodes[x]
  <2>1. x \in Ids /\ x \notin Loose(idx, now)
    BY <1>4, FolderIsItem DEF Loose
  <2>2. new.nodes[x] = a.nodes[x]
    BY <1>1, <1>2, <2>1
  <2> QED
    BY <1>4, <2>2 DEF Kept
<1>5. new.root = idx.root /\ SameLinks(new, idx)
  BY <1>1 DEF Kept, SameLinks
<1>6. Kept(new, idx, now)
  BY <1>3, <1>4, <1>5 DEF Kept
<1> QED
  BY <1>6 DEF new

(***************************************************************************)
(* The item of an answer in the index.  Its folder, if the path leads to   *)
(* one, is the one the path led to before.                                 *)
(***************************************************************************)
LEMMA AnswerApplied ==
  ASSUME NEW now, DriveTree(now), NEW idx, Sound(idx), Typed(idx, now), Told(idx, now), NEW to \in Paths,
         NEW it, GoodItem(it), ItemTold(it, to, idx, now), NEW a, a = Apply(idx, it)
  PROVE  /\ Sound(a) /\ Kept(a, idx, now) /\ (Hangs(idx, now) => Hangs(a, now))
         /\ \A c \in Ids \ {it.id} : HasNode(a, c) => HasNode(idx, c) /\ a.nodes[c] = idx.nodes[c]
         /\ a.nodes[it.id].parent = it.parent
         /\ \A path \in Seq(Names) : Resolve(a, path) \in Ids \ {it.id} => Resolve(idx, path) = Resolve(a, path)
         /\ Resolve(a, ParentPath(to)) # None =>
               Resolve(a, ParentPath(to)) # it.id /\ Resolve(idx, ParentPath(to)) = Resolve(a, ParentPath(to))
         /\ Resolve(a, to) = None => Resolve(a, ParentPath(to)) # it.parent
<1> DEFINE x == it.id
           p == it.parent
           node == [parent |-> it.parent, name |-> it.name, dir |-> it.dir]
<1>1. /\ x \in ItemIds /\ x \in Ids /\ x # RootId /\ p \in Folders /\ p \in ItemIds /\ p \in Ids /\ p # x
      /\ x \notin LocalIds /\ p \notin LocalIds /\ RootId \in Ids
  BY FolderIsItem DEF ItemTold
<1>2. Entering(it)
  BY <1>1, FolderIsItem DEF Entering, ItemTold
<1>3. ItemTyped(idx, it, now)
  <2>1. (x \in Folders /\ On(now, x)) => now.tree[x] = node
    <3> SUFFICES ASSUME x \in Folders, On(now, x) PROVE now.tree[x] = node
      OBVIOUS
    <3>1. it.dir = TRUE
      BY DEF ItemTold
    <3>2. now.tree[x] = [parent |-> it.parent, name |-> it.name, dir |-> TRUE]
      BY DEF ItemTold
    <3> QED
      BY <3>1, <3>2
  <2>2. /\ it.dir = (x \in Folders) /\ now.changed[x] > 0 /\ now.changed[p] > 0
    BY DEF ItemTold
  <2> QED
    BY <1>1, <2>1, <2>2 DEF ItemTyped
<1>4. Sound(a)
  BY ApplySound
<1>5. Hangs(idx, now) => Hangs(a, now)
  BY <1>1, <1>2, <1>3, EnterTyped
<1>6. Kept(a, idx, now)
  <2> DEFINE U == Loose(idx, now)
  <2>1. Kept(idx, idx, now)
    BY DEF Kept, SameLinks
  <2>2. x \in U
    BY DEF ItemTold, Loose
  <2>3. \A c \in Ids \ {x} :
           (HasNode(idx, c) /\ idx.nodes[c].parent = it.parent /\ idx.nodes[c].name = it.name) => c \in U
    BY FolderIsItem DEF ItemTold, Loose
  <2>4. \A c \in Ids : (HasNode(idx, c) /\ idx.nodes[c].parent \in U) => c \in U
    BY LooseIsClosed DEF Sound
  <2> HIDE DEF U
  <2>5. U \subseteq Loose(idx, now) /\ x \in Loose(idx, now)
    BY <2>2 DEF U
  <2> QED
    BY <1>2, <1>3, <2>1, <2>3, <2>4, <2>5, EnterKept
<1>7. PICK gone \in SUBSET (Ids \ {RootId}) :
        /\ \A c \in Ids \ {x} : a.nodes[c] = IF c \in gone THEN NoNode ELSE idx.nodes[c]
        /\ a.nodes[x] = node
  BY <1>2, EnterEffect
<1>8. \A c \in Ids \ {x} : HasNode(a, c) => HasNode(idx, c) /\ a.nodes[c] = idx.nodes[c]
  BY <1>7 DEF HasNode
<1>9. a.root = idx.root
  BY <1>6 DEF Kept
<1>10. a.nodes[x].parent = p /\ a.nodes[x].name = LastSegment(to) /\ HasNode(a, x)
  <2>1. node \in Node /\ node.parent = p /\ node.name = it.name
    BY DEF GoodItem, DeltaItem, Node
  <2> QED
    BY <1>7, <2>1, RootIsId DEF ItemTold, HasNode
<1>11. ASSUME NEW path \in Seq(Names), Resolve(a, path) \in Ids \ {x}
       PROVE  Resolve(idx, path) = Resolve(a, path)
  <2> DEFINE G == Ids \ {x}
  <2>1. a.root = RootId /\ idx.root = RootId
    <3>1. Resolve(a, path) # None
      BY <1>11, FolderIsItem
    <3> QED
      BY <1>4, <1>9, <3>1, ResolvePresent
  <2>2. Resolve(a, path) = WalkTo(a.kids, RootId, path) /\ Resolve(idx, path) = WalkTo(idx.kids, RootId, path)
    BY <1>1, <2>1, FolderIsItem DEF Resolve
  <2>3. ASSUME NEW q \in Ids, NEW c \in Ids, NEW m \in Names, c \in G, <<m, c>> \in a.kids[q]
        PROVE  q \in G /\ <<m, c>> \in idx.kids[q]
    <3>1. HasNode(a, c) /\ a.nodes[c].parent = q /\ a.nodes[c].name = m
      BY <1>4, <2>3 DEF Sound, Fits
    <3>2. HasNode(idx, c) /\ idx.nodes[c].parent = q /\ idx.nodes[c].name = m
      BY <1>8, <2>3, <3>1
    <3>3. q # x
      BY <3>2 DEF ItemTold
    <3> QED
      BY <3>2, <3>3 DEF Sound, Fits
  <2>4. /\ a.kids \in [Ids -> SUBSET (Names \X Ids)] /\ UniqueNames(a.kids)
        /\ idx.kids \in [Ids -> SUBSET (Names \X Ids)] /\ UniqueNames(idx.kids)
    BY <1>4, IndexFields DEF Sound
  <2>5. WalkTo(a.kids, RootId, path) \in G \cap Ids
    BY <1>11, <2>2
  <2> HIDE DEF G
  <2> QED
    BY <1>1, <2>2, <2>3, <2>4, <2>5, WalkAgree
<1> DEFINE base == ParentPath(to)
<1>12. to \in Seq(Names) /\ to # <<>> /\ base \in Seq(Names) /\ LastSegment(to) \in Names
  BY PathParts
<1> HIDE DEF x, p, base
<1>13. ASSUME Resolve(a, base) = x PROVE FALSE
  <2>1. a.root = RootId
    BY <1>1, <1>4, <1>12, <1>13, ResolvePresent, FolderIsItem
  <2>2. base # <<>>
    BY <1>1, <1>13, <2>1, FolderIsItem DEF Resolve, WalkTo
  <2> DEFINE r == Resolve(a, ParentPath(base))
  <2>3. ParentPath(base) \in Seq(Names) /\ LastSegment(base) \in Names
    BY <1>12, <2>2, PathShape
  <2>4. r \in Ids /\ <<LastSegment(base), x>> \in a.kids[r]
    <3>1. /\ Resolve(a, base) = WalkTo(a.kids, RootId, base)
          /\ r = WalkTo(a.kids, RootId, ParentPath(base))
      BY <1>1, <2>1, FolderIsItem DEF Resolve
    <3>2. a.kids \in [Ids -> SUBSET (Names \X Ids)] /\ UniqueNames(a.kids)
      BY <1>4, IndexFields DEF Sound
    <3> HIDE DEF r
    <3> QED
      BY <1>1, <1>12, <1>13, <2>2, <3>1, <3>2, WalkToStep
  <2>5. r = p
    BY <1>1, <1>4, <1>10, <2>3, <2>4 DEF Sound, Fits
  <2>6. Resolve(idx, ParentPath(base)) = p
    BY <1>1, <1>11, <2>3, <2>5
  <2> QED
    BY <2>2, <2>6 DEF ItemTold, base, p
<1>14. Resolve(a, base) # None => Resolve(a, base) # x /\ Resolve(idx, base) = Resolve(a, base)
  <2>1. Resolve(a, base) \in Ids \cup {None}
    BY <1>4, <1>12, ResolveFinds
  <2> QED
    BY <1>11, <1>12, <1>13, <2>1
<1>15. ASSUME Resolve(a, base) = p PROVE Resolve(a, to) = x
  <2>1. a.root = RootId
    BY <1>1, <1>4, <1>12, <1>15, ResolvePresent, FolderIsItem
  <2>2. /\ Resolve(a, base) = WalkTo(a.kids, RootId, base)
        /\ Resolve(a, to) = WalkTo(a.kids, RootId, to)
    BY <1>1, <2>1, FolderIsItem DEF Resolve
  <2>3. a.kids \in [Ids -> SUBSET (Names \X Ids)] /\ UniqueNames(a.kids)
    BY <1>4, IndexFields DEF Sound
  <2>4. <<LastSegment(to), x>> \in a.kids[p]
    BY <1>1, <1>4, <1>10, <1>12 DEF Sound, Fits
  <2>5. /\ WalkTo(a.kids, RootId, ParentPath(to)) \in Ids
        /\ <<LastSegment(to), x>> \in a.kids[WalkTo(a.kids, RootId, ParentPath(to))]
    BY <1>1, <1>15, <2>2, <2>4 DEF base
  <2>6. WalkTo(a.kids, RootId, to) = x
    BY <1>1, <1>12, <2>3, <2>5, WalkToStep
  <2> QED
    BY <2>2, <2>6
<1>16. Resolve(a, to) = None => Resolve(a, base) # p
  BY <1>1, <1>15, FolderIsItem
<1> QED
  BY <1>4, <1>5, <1>6, <1>8, <1>10, <1>11, <1>14, <1>16 DEF x, p, base

\* The index that the edit by path sees, after the answer is applied.
Base(idx, c) == IF c.item = None THEN idx ELSE Apply(idx, c.item)

(***************************************************************************)
(* A new place by path in `a`, which is index `idx` or has an answer       *)
(* applied to it, `q` being the entry the folder's path leads to: a        *)
(* folder, where only the entry that the path leads to has the name.       *)
(***************************************************************************)
Placed(a, q, to, idx, now) ==
    /\ Sound(a) /\ Kept(a, idx, now) /\ (Unparsed \/ Hangs(a, now))
    /\ q # None =>
         /\ q \in Ids /\ HasNode(a, q) /\ a.nodes[q].dir = TRUE
         /\ q = Resolve(idx, ParentPath(to)) /\ HasNode(idx, q) /\ idx.nodes[q].dir = TRUE
         /\ q \in ItemIds => q \in Folders /\ now.changed[q] > 0
         /\ Unparsed \/ q \in LocalIds \/ (q \in Folders /\ ~On(now, q))
    /\ q # None => \A y \in Ids :
          (HasNode(a, y) /\ a.nodes[y].parent = q /\ a.nodes[y].name = LastSegment(to))
             => y = Resolve(a, to)
    /\ \A y \in Ids : (HasNode(a, y) /\ a.nodes[y].parent \in LocalIds) =>
          HasNode(idx, a.nodes[y].parent) /\ idx.nodes[a.nodes[y].parent].dir = TRUE

\* The index that a path edits is such a one.
LEMMA PlaceFacts ==
  ASSUME NEW now, DriveTree(now), NEW idx, Sound(idx), Typed(idx, now), Told(idx, now), Climbs(idx),
         Unparsed \/ Hangs(idx, now),
         NEW c \in Call, c.item # None => GoodItem(c.item), CallTold(c, idx, now), c.op # "DELETE",
         NEW a, a = Base(idx, c), c.item # None => Resolve(a, c.to) = None,
         NEW q, q = Resolve(a, ParentPath(c.to))
  PROVE  Placed(a, q, c.to, idx, now)
<1> DEFINE base == ParentPath(c.to)
           it == c.item
<1>1. c.to \in Paths /\ c.to \in Seq(Names) /\ c.to # <<>> /\ base \in Seq(Names) /\ LastSegment(c.to) \in Names
  BY PathParts DEF Call
<1>2. ASSUME c.item # None
      PROVE  /\ Sound(a) /\ Kept(a, idx, now) /\ (Hangs(idx, now) => Hangs(a, now))
             /\ \A y \in Ids \ {it.id} : HasNode(a, y) => HasNode(idx, y) /\ a.nodes[y] = idx.nodes[y]
             /\ a.nodes[it.id].parent = it.parent
             /\ q # None => q # it.id /\ Resolve(idx, base) = q
             /\ q # it.parent
             /\ ItemTold(it, c.to, idx, now)
  <2>1. a = Apply(idx, it)
    BY <1>2 DEF Base
  <2>2. ItemTold(it, c.to, idx, now) /\ GoodItem(it) /\ Resolve(a, c.to) = None
    BY <1>2 DEF CallTold
  <2> HIDE DEF it
  <2> QED
    BY <1>1, <2>1, <2>2, AnswerApplied
<1>3. c.item = None => a = idx /\ Unparsed
  BY DEF Base, CallTold
<1>4. Sound(a) /\ Kept(a, idx, now) /\ (Unparsed \/ Hangs(a, now))
  <2>1. CASE c.item = None
    BY <1>3, <2>1 DEF Kept, SameLinks
  <2>2. CASE c.item # None
    BY <1>2, <2>2
  <2> QED
    BY <2>1, <2>2
<1> HIDE DEF base, it
<1>5. ASSUME q # None
      PROVE  /\ q \in Ids /\ HasNode(a, q) /\ a.nodes[q].dir = TRUE
             /\ q = Resolve(idx, base) /\ HasNode(idx, q) /\ idx.nodes[q].dir = TRUE
             /\ q \in ItemIds => q \in Folders /\ now.changed[q] > 0
             /\ Unparsed \/ q \in LocalIds \/ (q \in Folders /\ ~On(now, q))
  <2>1. q \in Ids /\ HasNode(a, q)
    BY <1>1, <1>4, <1>5, ResolvePresent DEF base
  <2>2. q = Resolve(idx, base) /\ HasNode(idx, q) /\ a.nodes[q] = idx.nodes[q]
    <3>1. CASE c.item = None
      BY <1>3, <2>1, <3>1 DEF base
    <3>2. CASE c.item # None
      BY <1>2, <1>5, <2>1, <3>2
    <3> QED
      BY <3>1, <3>2
  <2>3. idx.nodes[q].dir = TRUE
    BY <1>5, <2>2 DEF CallTold, PlaceFits, base
  <2>4. ASSUME q \in ItemIds PROVE q \in Folders /\ now.changed[q] > 0
    BY <2>1, <2>2, <2>3, <2>4 DEF Typed
  <2>5. Unparsed \/ q \in LocalIds \/ (q \in Folders /\ ~On(now, q))
    <3> SUFFICES ASSUME ~Unparsed, q \notin LocalIds PROVE q \in Folders /\ ~On(now, q)
      OBVIOUS
    <3>1. q \in Folders
      BY <2>1, <2>4, FolderIsItem
    <3>2. c.item # None
      BY <1>3
    <3>3. q # it.parent /\ ItemTold(it, c.to, idx, now)
      BY <1>2, <3>2
    <3>4. ~On(now, q)
      BY <2>2, <3>1, <3>3 DEF ItemTold, base
    <3> QED
      BY <3>1, <3>4
  <2> QED
    BY <2>1, <2>2, <2>3, <2>4, <2>5
<1>6. ASSUME q # None, NEW y \in Ids, HasNode(a, y), a.nodes[y].parent = q,
             a.nodes[y].name = LastSegment(c.to)
      PROVE  y = Resolve(a, c.to)
  <2>1. q \in Ids /\ a.root = RootId
    BY <1>1, <1>4, <1>5, <1>6, ResolvePresent DEF base
  <2>2. /\ Resolve(a, base) = WalkTo(a.kids, RootId, base)
        /\ Resolve(a, c.to) = WalkTo(a.kids, RootId, c.to)
    BY <2>1, FolderIsItem DEF Resolve
  <2>3. a.kids \in [Ids -> SUBSET (Names \X Ids)] /\ UniqueNames(a.kids)
    BY <1>4, IndexFields DEF Sound
  <2>4. <<LastSegment(c.to), y>> \in a.kids[q]
    BY <1>1, <1>4, <1>6, <2>1 DEF Sound, Fits
  <2>5. /\ WalkTo(a.kids, RootId, ParentPath(c.to)) \in Ids
        /\ <<LastSegment(c.to), y>> \in a.kids[WalkTo(a.kids, RootId, ParentPath(c.to))]
    BY <2>1, <2>2, <2>4 DEF base
  <2>6. WalkTo(a.kids, RootId, c.to) = y
    <3>1. RootId \in Ids
      BY FolderIsItem
    <3> QED
      BY <1>1, <1>6, <2>3, <2>5, <3>1, WalkToStep
  <2> QED
    BY <2>2, <2>6
<1>7. ASSUME NEW y \in Ids, HasNode(a, y), a.nodes[y].parent \in LocalIds
      PROVE  HasNode(idx, a.nodes[y].parent) /\ idx.nodes[a.nodes[y].parent].dir = TRUE
  <2>1. HasNode(idx, y) /\ a.nodes[y] = idx.nodes[y]
    <3>1. CASE c.item = None
      BY <1>3, <1>7, <3>1
    <3>2. CASE c.item # None
      <4>1. a.nodes[it.id].parent \notin LocalIds
        BY <1>2, <3>2, FolderIsItem DEF ItemTold
      <4> QED
        BY <1>2, <1>7, <3>2, <4>1
    <3> QED
      BY <3>1, <3>2
  <2> DEFINE z == idx.nodes[y].parent
  <2>2. y \in Up(idx.nodes) /\ z # None
    BY <1>7, <2>1, FolderIsItem DEF Climbs, Present, HasNode
  <2>3. z \in Up(idx.nodes) /\ Up(idx.nodes) \subseteq Present(idx.nodes)
    BY <2>2, UpFacts
  <2>4. HasNode(idx, z) /\ z \in Ids
    BY <2>3 DEF Present, HasNode
  <2>5. idx.nodes[z].dir
    BY <1>7, <2>1, <2>4 DEF Typed
  <2>6. idx.nodes[z].dir \in BOOLEAN
    <3>1. idx.nodes[z] \in Node
      BY <2>4, IndexFields DEF Sound, HasNode
    <3> QED
      BY <3>1 DEF Node
  <2> QED
    BY <2>1, <2>4, <2>5, <2>6
<1> QED
  BY <1>4, <1>5, <1>6, <1>7 DEF base, Placed

\* The edit by path of a PUT or MKCOL: the entry has its type already, or a "local:" one enters.
LEMMA UpsertKept ==
  ASSUME NEW now, DriveTree(now), NEW idx, Sound(idx), Typed(idx, now), Told(idx, now), Climbs(idx),
         Unparsed \/ Hangs(idx, now),
         NEW c \in Call, c.item # None => GoodItem(c.item), CallTold(c, idx, now), c.op \in {"PUT", "MKCOL"},
         NEW a, a = Base(idx, c), c.item # None => Resolve(a, c.to) = None,
         NEW edit, edit = UpsertAtPath(a, c.to, c.op = "MKCOL"), edit.ok
  PROVE  /\ Kept(edit.idx, idx, now) /\ (Unparsed \/ Hangs(edit.idx, now))
         /\ a.root = RootId
<1> DEFINE id == Resolve(a, c.to)
           q == Resolve(a, ParentPath(c.to))
           dir == (c.op = "MKCOL")
           local == LocalId(c.to)
           it == [id |-> local, parent |-> q, name |-> LastSegment(c.to), dir |-> dir,
                  deleted |-> FALSE, is_root |-> FALSE]
<1>1. /\ c.to \in Paths /\ c.to \in Seq(Names) /\ LastSegment(c.to) \in Names /\ c.to = c.path
      /\ ParentPath(c.to) \in Seq(Names) /\ dir \in BOOLEAN
  BY PathParts DEF Call, CallTold
<1>2. local \in LocalIds /\ local \in Ids /\ local # RootId /\ local \notin ItemIds
  BY <1>1, LocalIdIsId, FolderIsItem DEF LocalIds
<1>3. c.op # "DELETE" /\ PlaceFits(c, idx)
  BY DEF CallTold
<1>4. /\ Sound(a) /\ Kept(a, idx, now) /\ (Unparsed \/ Hangs(a, now))
      /\ q # None =>
           /\ q \in Ids /\ HasNode(a, q) /\ a.nodes[q].dir = TRUE
           /\ HasNode(idx, q) /\ idx.nodes[q].dir = TRUE
           /\ q \in ItemIds => q \in Folders /\ now.changed[q] > 0
           /\ Unparsed \/ q \in LocalIds \/ (q \in Folders /\ ~On(now, q))
      /\ q # None => \A y \in Ids :
            (HasNode(a, y) /\ a.nodes[y].parent = q /\ a.nodes[y].name = LastSegment(c.to)) => y = id
      /\ \A y \in Ids : (HasNode(a, y) /\ a.nodes[y].parent \in LocalIds) =>
            HasNode(idx, a.nodes[y].parent) /\ idx.nodes[a.nodes[y].parent].dir = TRUE
  <2>1. Placed(a, q, c.to, idx, now)
    BY <1>3, PlaceFacts
  <2> QED
    BY <2>1 DEF Placed
<1>5. HasNode(idx, local) => idx.nodes[local].dir = dir
  BY <1>1, <1>2, <1>3, FolderIsItem DEF PlaceFits
<1>6. CASE id # None
  <2>1. id \in Ids /\ HasNode(a, id) /\ a.root = RootId
    BY <1>1, <1>4, <1>6, ResolvePresent
  <2>2. edit.idx = [a EXCEPT !.nodes[id].dir = dir]
    BY <1>6, <2>1 DEF UpsertAtPath, Edit, HasNode
  <2>3. a = idx
    BY <1>1, <1>6 DEF Base
  <2>4. a.nodes[id].dir = dir
    BY <1>1, <1>3, <1>6, <2>1, <2>3 DEF PlaceFits
  <2>5. a \in Index /\ a.nodes \in [Ids -> Node \cup {NoNode}] /\ a.nodes[id] \in Node
    BY <1>4, <2>1, IndexFields DEF Sound, HasNode
  <2> HIDE DEF id, dir
  <2>6. [a.nodes[id] EXCEPT !.dir = dir] = a.nodes[id]
    BY <2>4, <2>5 DEF Node
  <2>7. [a.nodes EXCEPT ![id].dir = dir] = a.nodes
    BY <2>1, <2>5, <2>6
  <2>8. edit.idx.nodes = a.nodes /\ edit.idx.root = a.root /\ SameLinks(edit.idx, a)
    <3>1. edit.idx = [a EXCEPT !.nodes = [a.nodes EXCEPT ![id].dir = dir]]
      BY <2>2, <2>5 DEF Index
    <3> QED
      BY <2>5, <2>7, <3>1 DEF Index, SameLinks
  <2>9. Typed(edit.idx, now) /\ (Unparsed \/ Hangs(edit.idx, now))
    BY <1>4, <2>8, SameNodesTyped DEF Kept
  <2> QED
    BY <2>1, <2>3, <2>8, <2>9 DEF Kept, SameLinks
<1>7. CASE id = None
  <2>1. q # None /\ edit.idx = Apply(a, it)
    BY <1>7 DEF UpsertAtPath, Edit
  <2>2. q \in Ids /\ HasNode(a, q) /\ a.nodes[q].dir = TRUE /\ a.root = RootId
    BY <1>1, <1>4, <2>1, ResolvePresent
  <2>3. /\ it \in DeltaItem /\ it.id = local /\ it.parent = q /\ it.name = LastSegment(c.to)
        /\ it.dir = dir /\ ~it.deleted /\ ~it.is_root
    BY <1>1, <1>2, <2>2 DEF DeltaItem
  <2> HIDE DEF it
  <2>4. GoodItem(it) /\ Entering(it)
    BY <1>1, <1>2, <2>1, <2>3 DEF GoodItem, Entering
  <2>5. q = local => dir = TRUE
    BY <1>4, <1>5, <2>1
  <2>6. ASSUME NEW y \in Ids, HasNode(a, y), a.nodes[y].parent = local PROVE dir = TRUE
    <3>1. HasNode(idx, local) /\ idx.nodes[local].dir = TRUE
      BY <1>2, <1>4, <2>6
    <3> QED
      BY <1>5, <3>1
  <2>7. ItemTyped(a, it, now)
    <3> HIDE DEF q, dir, local
    <3> QED
      BY <1>2, <1>4, <2>1, <2>2, <2>3, <2>5, <2>6, FolderIsItem DEF ItemTyped
  <2>8. Kept(Apply(a, it), idx, now)
    <3> HIDE DEF q, dir, local, id
    <3> DEFINE U == {}
    <3>1. \A y \in Ids \ {it.id} :
             (HasNode(a, y) /\ a.nodes[y].parent = it.parent /\ a.nodes[y].name = it.name) => y \in U
      BY <1>4, <1>7, <2>1, <2>3, FolderIsItem
    <3>2. it.id \in Loose(idx, now)
      BY <1>2, <2>3 DEF Loose
    <3>3. \A y \in Ids : (HasNode(a, y) /\ a.nodes[y].parent \in U) => y \in U
      OBVIOUS
    <3>4. U \subseteq Loose(idx, now)
      OBVIOUS
    <3> HIDE DEF U
    <3> QED
      BY <1>4, <2>4, <2>7, <3>1, <3>2, <3>3, <3>4, EnterKept
  <2>9. Unparsed \/ Hangs(Apply(a, it), now)
    <3> HIDE DEF q, dir, local, id
    <3> QED
      BY <1>4, <2>1, <2>3, <2>4, <2>7, EnterTyped DEF Kept
  <2> QED
    BY <2>1, <2>2, <2>8, <2>9
<1> QED
  BY <1>6, <1>7

\* The edit by path of a MOVE: a loose entry gets the place.
LEMMA MoveKept ==
  ASSUME NEW now, DriveTree(now), NEW idx, Sound(idx), Typed(idx, now), Told(idx, now), Climbs(idx),
         Unparsed \/ Hangs(idx, now),
         NEW c \in Call, c.item # None => GoodItem(c.item), CallTold(c, idx, now), c.op = "MOVE",
         NEW a, a = Base(idx, c), c.item # None => Resolve(a, c.to) = None,
         NEW edit, edit = MoveAtPath(a, c.path, c.to), edit.ok
  PROVE  /\ Kept(edit.idx, idx, now) /\ (Unparsed \/ Hangs(edit.idx, now))
         /\ a.root = RootId
<1> DEFINE id == Resolve(a, c.path)
           q == Resolve(a, ParentPath(c.to))
           it == [id |-> id, parent |-> q, name |-> LastSegment(c.to), dir |-> a.nodes[id].dir,
                  deleted |-> FALSE, is_root |-> FALSE]
           U == IF c.item = None THEN Loose(idx, now) ELSE {}
<1>1. /\ c.to \in Seq(Names) /\ LastSegment(c.to) \in Names /\ c.path \in Seq(Names) /\ c.path # <<>>
      /\ ParentPath(c.to) \in Seq(Names)
  BY PathParts DEF Call
<1>2. Placed(a, q, c.to, idx, now)
  BY PlaceFacts
<1>3. Sound(a) /\ Typed(a, now)
  BY <1>2 DEF Placed, Kept
<1>4. id # None /\ q # None /\ edit.idx = Apply(a, it)
  BY DEF MoveAtPath, Edit
<1>5. /\ id \in Ids /\ id # RootId /\ HasNode(a, id) /\ a.root = RootId
      /\ q \in Ids /\ HasNode(a, q) /\ a.nodes[q].dir = TRUE
  <2>1. id \in Ids /\ HasNode(a, id) /\ a.root = RootId
    BY <1>1, <1>3, <1>4, ResolvePresent
  <2>2. id # RootId
    BY <1>1, <1>3, <1>4, ResolveFinds
  <2> HIDE DEF id, q
  <2> QED
    BY <1>2, <1>4, <2>1, <2>2 DEF Placed
<1>6. a.nodes[id].dir \in BOOLEAN
  <2> HIDE DEF id
  <2>1. a.nodes[id] \in Node
    BY <1>3, <1>5, IndexFields DEF Sound, HasNode
  <2> QED
    BY <2>1 DEF Node
<1>7. /\ it \in DeltaItem /\ it.id = id /\ it.parent = q /\ it.name = LastSegment(c.to)
      /\ it.dir = a.nodes[id].dir /\ ~it.deleted /\ ~it.is_root
  <2> HIDE DEF id, q
  <2> QED
    BY <1>1, <1>5, <1>6 DEF DeltaItem
<1> HIDE DEF it, q, U
<1>8. id \in Loose(idx, now) /\ (id \in Folders => ~On(now, id))
  <2>1. /\ Resolve(idx, c.path) \in Loose(idx, now) \cup {None}
        /\ Resolve(idx, c.path) \in Folders => ~On(now, Resolve(idx, c.path))
    BY DEF CallTold, StaleAt, Loose
  <2>2. CASE id = Resolve(idx, c.path)
    <3> HIDE DEF id
    <3> QED
      BY <1>4, <2>1, <2>2
  <2>3. CASE id # Resolve(idx, c.path)
    <3>1. c.item # None
      BY <2>3 DEF Base
    <3>2. a = Apply(idx, c.item) /\ ItemTold(c.item, c.to, idx, now) /\ c.item.id \notin Folders
      BY <3>1 DEF Base, CallTold
    <3>3. c.to \in Paths
      BY DEF Call
    <3>4. \A path \in Seq(Names) : Resolve(a, path) \in Ids \ {c.item.id} => Resolve(idx, path) = Resolve(a, path)
      BY <3>1, <3>2, <3>3, AnswerApplied
    <3>5. id = c.item.id
      BY <1>1, <1>5, <2>3, <3>4
    <3> QED
      BY <3>2, <3>5 DEF ItemTold, Loose
  <2> QED
    BY <2>2, <2>3
<1>9. GoodItem(it) /\ Entering(it)
  BY <1>1, <1>4, <1>5, <1>7 DEF GoodItem, Entering
<1>10. ItemTyped(a, it, now)
  <2> HIDE DEF id
  <2>1. id \in ItemIds => a.nodes[id].dir = (id \in Folders) /\ now.changed[id] > 0
    BY <1>3, <1>5 DEF Typed
  <2>2. q \in ItemIds => q \in Folders /\ now.changed[q] > 0
    BY <1>2, <1>4 DEF Placed
  <2>3. ASSUME id \in LocalIds, NEW y \in Ids, HasNode(a, y), a.nodes[y].parent = id PROVE a.nodes[id].dir
    BY <1>3, <1>5, <2>3 DEF Typed
  <2>4. q = id => a.nodes[id].dir
    BY <1>5
  <2> QED
    BY <1>5, <1>7, <1>8, <2>1, <2>2, <2>3, <2>4 DEF ItemTyped
<1>11. \A y \in Ids : (HasNode(a, y) /\ a.nodes[y].parent = it.parent /\ a.nodes[y].name = it.name)
                         => y = Resolve(a, c.to)
  BY <1>2, <1>4, <1>7 DEF Placed
<1>12. /\ U \subseteq Loose(idx, now)
       /\ \A y \in Ids \ {it.id} :
             (HasNode(a, y) /\ a.nodes[y].parent = it.parent /\ a.nodes[y].name = it.name) => y \in U
       /\ \A y \in Ids : (HasNode(a, y) /\ a.nodes[y].parent \in U) => y \in U
  <2>1. CASE c.item = None
    <3>1. a = idx /\ U = Loose(idx, now)
      BY <2>1 DEF Base, U
    <3>2. Resolve(idx, c.to) \in Loose(idx, now) \cup {None}
      BY DEF CallTold, StaleAt, Loose
    <3>3. \A y \in Ids : (HasNode(idx, y) /\ idx.nodes[y].parent \in Loose(idx, now)) => y \in Loose(idx, now)
      BY LooseIsClosed DEF Sound
    <3> QED
      BY <1>11, <3>1, <3>2, <3>3, FolderIsItem
  <2>2. CASE c.item # None
    <3>1. U = {} /\ Resolve(a, c.to) = None
      BY <2>2 DEF U
    <3> QED
      BY <1>11, <3>1, FolderIsItem
  <2> QED
    BY <2>1, <2>2
<1>13. Kept(Apply(a, it), idx, now)
  <2>1. it.id \in Loose(idx, now) /\ Kept(a, idx, now)
    BY <1>2, <1>7, <1>8 DEF Placed
  <2> QED
    BY <1>3, <1>9, <1>10, <1>12, <2>1, EnterKept
<1>14. Unparsed \/ Hangs(Apply(a, it), now)
  <2>1. Unparsed \/ (Hangs(a, now) /\ (q \in LocalIds \/ (q \in Folders /\ ~On(now, q))))
    BY <1>2, <1>4 DEF Placed
  <2> QED
    BY <1>3, <1>7, <1>9, <1>10, <2>1, EnterTyped
<1> QED
  BY <1>4, <1>5, <1>13, <1>14

(***************************************************************************)
(* A patch saves an index of which the feed still tells all that is wrong: *)
(* with the answer or without, whatever other devices did since.           *)
(***************************************************************************)
LEMMA PatchedTold ==
  ASSUME NEW now, DriveTree(now), NEW idx, Sound(idx), Typed(idx, now), Told(idx, now), Climbs(idx),
         Unparsed \/ Hangs(idx, now),
         NEW c \in Call, c.item # None => GoodItem(c.item), CallTold(c, idx, now),
         NEW edit, edit = Patched(idx, c), edit.ok
  PROVE  FileTold(Reload(edit.idx), now)
<1> DEFINE a == Base(idx, c)
<1>1. Sound(edit.idx)
  BY PatchedSound
<1>2. /\ Kept(edit.idx, idx, now) /\ (Unparsed \/ Hangs(edit.idx, now))
      /\ idx.root = RootId
  <2>1. CASE c.op = "DELETE"
    <3> DEFINE id == Resolve(idx, c.path)
    <3>1. edit = RemoveAtPath(idx, c.path)
      BY <2>1 DEF Patched
    <3>2. id # None /\ edit.idx = Remove(idx, id)
      BY <3>1 DEF RemoveAtPath, Edit
    <3>3. c.path \in Seq(Names) /\ c.path # <<>>
      BY PathParts DEF Call
    <3>4. id \in Ids /\ id # RootId /\ idx.root = RootId
      BY <3>2, <3>3, ResolveFinds, ResolvePresent
    <3>5. id \in Loose(idx, now)
      BY <2>1, <3>2 DEF CallTold, StaleAt, Loose
    <3> HIDE DEF id
    <3> QED
      BY <3>2, <3>4, <3>5, RemoveKept, RemoveTyped
  <2>2. CASE c.op # "DELETE" /\ c.item # None /\ Resolve(a, c.to) # None
    <3>1. a = Apply(idx, c.item) /\ ItemTold(c.item, c.to, idx, now) /\ GoodItem(c.item) /\ c.to \in Paths
      BY <2>2 DEF Base, CallTold, Call
    <3>2. edit.idx = a
      <4>1. CASE c.op \in {"PUT", "MKCOL"}
        <5>1. c.to = c.path
          BY <4>1 DEF CallTold
        <5> QED
          BY <2>2, <3>1, <4>1, <5>1 DEF Patched, ApplyOrUpsert, Edit
      <4>2. CASE c.op = "MOVE"
        BY <2>2, <3>1, <4>2 DEF Patched, ApplyOrMove, Edit
      <4> QED
        BY <2>2, <4>1, <4>2 DEF Call
    <3> HIDE DEF a
    <3>3. Sound(a) /\ Kept(a, idx, now) /\ (Hangs(idx, now) => Hangs(a, now))
      BY <3>1, AnswerApplied
    <3>4. c.to \in Seq(Names)
      BY <3>1, PathParts
    <3>5. a.root = RootId
      BY <2>2, <3>3, <3>4, ResolvePresent
    <3> QED
      BY <3>2, <3>3, <3>5 DEF Kept
  <2>3. CASE c.op # "DELETE" /\ (c.item # None => Resolve(a, c.to) = None)
    <3>1. c.op \in {"PUT", "MKCOL", "MOVE"}
      BY <2>3 DEF Call
    <3>2. Kept(edit.idx, idx, now) /\ (Unparsed \/ Hangs(edit.idx, now)) /\ a.root = RootId
      <4>1. CASE c.op \in {"PUT", "MKCOL"}
        <5>1. c.to = c.path
          BY <4>1 DEF CallTold
        <5>2. edit = UpsertAtPath(a, c.to, c.op = "MKCOL")
          <6>1. edit = ApplyOrUpsert(idx, c.item, c.path, c.op = "MKCOL")
            <7>1. CASE c.op = "PUT"
              <8>1. (c.op = "MKCOL") = FALSE
                BY <7>1
              <8> QED
                BY <7>1, <8>1 DEF Patched
            <7>2. CASE c.op = "MKCOL"
              <8>1. (c.op = "MKCOL") = TRUE
                BY <7>2
              <8> QED
                BY <7>2, <8>1 DEF Patched
            <7> QED
              BY <4>1, <7>1, <7>2
          <6> QED
            BY <2>3, <5>1, <6>1 DEF ApplyOrUpsert, Base
        <5> HIDE DEF a
        <5>3. a = Base(idx, c)
          BY DEF a
        <5> QED
          BY <2>3, <4>1, <5>2, <5>3, UpsertKept
      <4>2. CASE c.op = "MOVE"
        <5>1. edit = MoveAtPath(a, c.path, c.to)
          BY <2>3, <4>2 DEF Patched, ApplyOrMove, Base
        <5> HIDE DEF a
        <5>2. a = Base(idx, c)
          BY DEF a
        <5> QED
          BY <2>3, <4>2, <5>1, <5>2, MoveKept
      <4> QED
        BY <3>1, <4>1, <4>2
    <3>3. idx.root = a.root
      <4>1. Kept(a, idx, now)
        <5> DEFINE q == Resolve(a, ParentPath(c.to))
        <5>1. Placed(a, q, c.to, idx, now)
          BY <2>3, PlaceFacts
        <5> QED
          BY <5>1 DEF Placed
      <4> QED
        BY <4>1 DEF Kept
    <3> QED
      BY <3>2, <3>3
  <2> QED
    BY <2>1, <2>2, <2>3
<1>3. HasNode(idx, RootId)
  BY <1>2 DEF Sound, RootKnown
<1>4. Told(edit.idx, now)
  BY <1>2, <1>3, KeptTold
<1> QED
  BY <1>1, <1>2, <1>4, SavedTold DEF Kept

\* Without a live index, or without an edit, nothing is written.
LEMMA PatchTold == Inv /\ FeedInv /\ Patch => FeedInv'
<1> SUFFICES ASSUME Inv, FeedInv, Patch PROVE FeedInv'
  OBVIOUS
<1> DEFINE edit == Patched(live, call)
<1>1. /\ Now' = Now /\ tick' = tick /\ pc = "patch" /\ pc' = "idle" /\ rebuild' = rebuild
      /\ DriveTree(Now) /\ CrawlTold /\ FileTold(live, Now) /\ FileTold(rebuild, Now) /\ TickTold(tick, pc, Now)
  BY DEF Patch, WriteIndex, diskVars, driveVars, Now, FeedInv, CrawlTold, FilesTold
<1>2. FileTold(live', Now)
  <2>1. CASE live # Missing /\ edit.ok
    <3>1. live' = Reload(edit.idx)
      BY <2>1 DEF Patch, WriteIndex
    <3>2. /\ Sound(live) /\ Typed(live, Now) /\ Told(live, Now) /\ Climbs(live) /\ (Unparsed \/ Hangs(live, Now))
      BY <1>1, <2>1, LiveTold
    <3>3. /\ call \in Call /\ (call.item # None => GoodItem(call.item)) /\ CallTold(call, live, Now)
      BY <1>1, <2>1 DEF Inv, PcOK, CallOK, FeedInv
    <3> HIDE DEF edit
    <3>4. edit = Patched(live, call)
      BY DEF edit
    <3> QED
      BY <1>1, <2>1, <3>1, <3>2, <3>3, <3>4, PatchedTold
  <2>2. CASE ~(live # Missing /\ edit.ok)
    <3>1. live' = live
      BY <2>2 DEF Patch, diskVars
    <3> QED
      BY <1>1, <3>1
  <2> QED
    BY <2>1, <2>2
<1>3. TickTold(tick, "idle", Now)
  BY <1>1 DEF TickTold
<1>4. TickTold(tick', pc', Now') /\ FilesTold'
  BY <1>1, <1>2, <1>3 DEF FilesTold
<1> QED
  BY <1>1, <1>4 DEF FeedInv, CrawlTold

-----------------------------------------------------------------------------
(***************************************************************************)
(* The drives, feeds and clients that the theorems are about: a crawl      *)
(* meets a folder before what is in it, other devices rename and move      *)
(* files but not folders, and clients write only where the index shows the *)
(* type they write.  The run folder_moves refutes Converged when folders   *)
(* move, the run stale_parent has a second row for "/" when StaleTypes.    *)
(***************************************************************************)
Orderly == ParentsFirst /\ FilesMove /\ ~StaleTypes

\* The invariant of the feed holds at the start: no files, no tick, no mutation.
LEMMA FeedInit == Init => FeedInv
<1> SUFFICES ASSUME Init PROVE FeedInv
  OBVIOUS
<1>1. DriveTree(Now) /\ live = Missing /\ rebuild = Missing /\ pc = "idle" /\ tick = NoTick
  BY DriveStarts DEF Init
<1>2. FilesTold /\ TickTold(tick, pc, Now)
  BY <1>1, NoTickTold DEF FilesTold, FileTold
<1> QED
  BY <1>1, <1>2 DEF FeedInv, CrawlTold

\* The invariant of the feed is inductive.
LEMMA FeedStep == ASSUME Orderly PROVE Inv /\ FeedInv /\ [Next]_vars => FeedInv'
<1> SUFFICES ASSUME Inv, FeedInv, [Next]_vars PROVE FeedInv'
  OBVIOUS
<1>1. CASE TickStep \/ FetchResync \/ LoseInvocation
  <2>1. CrawlTold'
    BY <1>1, TickStepTold DEF Orderly, FeedInv
  <2>2. pc' # "patch"
    BY <1>1 DEF TickStep, BeginTick, FetchPage, ApplyItem, TakeNextLink, TakeDeltaLink, StopFetching, Save,
                FinishTick, FetchResync, LoseInvocation
  <2> QED
    BY <2>1, <2>2 DEF FeedInv
<1>2. CASE ClientCall
  BY <1>2, ClientCallTold DEF Orderly
<1>3. CASE Patch
  BY <1>3, PatchTold
<1>4. CASE RemoteChange
  <2>1. CrawlTold' /\ Grows(Now, Now')
    BY <1>4, RemoteChangeTold DEF Orderly, FeedInv
  <2>2. pc' = pc /\ live' = live /\ call' = call
    BY <1>4 DEF RemoteChange
  <2>3. ASSUME pc = "patch", live # Missing PROVE CallTold(call, live, Now')
    <3>1. Sound(live) /\ Typed(live, Now) /\ Told(live, Now)
      BY <2>3, LiveTold DEF FeedInv
    <3>2. call \in Call /\ CallTold(call, live, Now)
      BY <2>3 DEF Inv, PcOK, CallOK, FeedInv
    <3> QED
      BY <2>1, <3>1, <3>2, CallGrows
  <2> QED
    BY <2>1, <2>2, <2>3 DEF FeedInv
<1>5. CASE UNCHANGED vars
  <2>1. Now' = Now /\ live' = live /\ rebuild' = rebuild /\ tick' = tick /\ pc' = pc /\ call' = call
    BY <1>5 DEF vars, Now
  <2> QED
    BY <2>1 DEF FeedInv, CrawlTold, FilesTold
<1> QED
  BY <1>1, <1>2, <1>3, <1>4, <1>5 DEF Next

\* Both invariants, of every reachable state.
LEMMA FeedAlways == ASSUME Orderly PROVE Spec => [](Inv /\ FeedInv)
<1>1. Init => Inv /\ FeedInv
  BY InitInv, FeedInit
<1>2. (Inv /\ FeedInv) /\ [Next]_vars => (Inv /\ FeedInv)'
  BY StepInv, FeedStep
<1> QED
  BY <1>1, <1>2, PTL DEF Spec

\* Typed indexes are rooted.
LEMMA TypedIsRooted ==
  ASSUME NEW now, NEW idx, Sound(idx), Typed(idx, now)
  PROVE  Rooted(idx)
  BY DEF Rooted, Sound, RootKnown, Typed, HasNode, Present

\* The invariants give the property of the runs about the root.
LEMMA FeedMeansRooted == Inv /\ FeedInv => IndexesRooted
  BY TypedIsRooted, TickFields
     DEF Inv, FeedInv, CrawlTold, FilesTold, FileTold, TickTold, FileOK, IndexesRooted, IsIndex

\* What a file owes is what its link owes.
LEMMA OwedIs == ASSUME NEW idx PROVE Owed(idx) = LinkOwes(ResumeUrl(idx), Now)
  BY DEF Owed, LinkOwes, Now

\* The invariants give the property of the runs about what the feed owes.
LEMMA FeedMeansOwed == FeedInv => FeedOwesEveryDifference
<1> SUFFICES ASSUME FeedInv PROVE FeedOwesEveryDifference
  OBVIOUS
<1>1. ASSUME NEW file, FileTold(file, Now), file # Missing PROVE Differing(file) \subseteq Owed(file)
  <2>1. \A x \in ItemIds : file.nodes[x] = Now.tree[x] \/ x \in LinkOwes(ResumeUrl(file), Now)
    BY <1>1 DEF FileTold, Told
  <2>2. Now.tree = remote
    BY DEF Now
  <2> QED
    BY <2>1, <2>2, OwedIs DEF Differing
<1> QED
  BY <1>1 DEF FeedInv, CrawlTold, FilesTold, FeedOwesEveryDifference, IsIndex

\* An index to which the feed owes nothing is the drive, when no "local:" entry has a folder.
LEMMA FeedMeansTheDrive ==
  ASSUME ~Unparsed, Inv, FeedInv, live # Missing, UpToDate(live)
  PROVE  live.nodes = remote
<1>1. /\ Sound(live) /\ Typed(live, Now) /\ Told(live, Now) /\ Climbs(live) /\ Hangs(live, Now) /\ DriveTree(Now)
  BY LiveTold DEF FeedInv
<1>2. \A x \in ItemIds : live.nodes[x] = Now.tree[x]
  BY <1>1, OwedIs DEF UpToDate, Told
<1>3. Up(live.nodes) \subseteq ItemIds
  <2>1. \A y \in Present(live.nodes) : live.nodes[y].parent = None => y \in ItemIds
    BY <1>1, FolderIsItem DEF Typed, Present, HasNode
  <2>2. ASSUME NEW y \in Up(live.nodes), live.nodes[y].parent \in ItemIds \cap Up(live.nodes)
        PROVE  y \in ItemIds
    <3>1. y \in Present(live.nodes) /\ live.nodes[y].parent \in Present(live.nodes)
      BY <2>2, UpFacts
    <3>2. y \in Ids /\ HasNode(live, y)
      BY <3>1 DEF Present, HasNode
    <3>3. On(Now, live.nodes[y].parent) /\ live.nodes[y].parent \notin LocalIds
      BY <1>2, <2>2, <3>1, FolderIsItem DEF Present, On
    <3> QED
      BY <1>1, <3>2, <3>3, FolderIsItem DEF Hangs
  <2> QED
    BY <2>1, <2>2, UpFacts
<1>4. \A x \in LocalIds : live.nodes[x] = NoNode /\ Now.tree[x] = NoNode
  <2> SUFFICES ASSUME NEW x \in LocalIds PROVE live.nodes[x] = NoNode /\ Now.tree[x] = NoNode
    OBVIOUS
  <2>1. x \in Ids /\ x \notin ItemIds
    BY FolderIsItem
  <2>2. Now.tree[x] = NoNode
    BY <1>1, <2>1 DEF DriveTree, On
  <2>3. live.nodes[x] = NoNode
    BY <1>1, <1>3, <2>1 DEF Climbs, Present
  <2> QED
    BY <2>2, <2>3
<1>5. \A x \in Ids : live.nodes[x] = Now.tree[x]
  BY <1>2, <1>4, FolderIsItem
<1>6. live.nodes \in [Ids -> Node \cup {NoNode}] /\ Now.tree \in [Ids -> Node \cup {NoNode}] /\ Now.tree = remote
  BY <1>1, IndexFields DEF Sound, DriveTree, Now
<1> QED
  BY <1>5, <1>6

(***************************************************************************)
(* No folder, orphan or "local:" entry ever comes out of a save and a load *)
(* as a second "/", and the drive's root, once an index has it, stays      *)
(* recorded: whatever ticks, 410s, mutations, lost invocations and changes *)
(* by other devices alternate, of a drive of any size.                     *)
(***************************************************************************)
THEOREM IndexesStayRooted == ASSUME Orderly PROVE Spec => []IndexesRooted
<1>1. Inv /\ FeedInv => IndexesRooted
  BY FeedMeansRooted
<1> QED
  BY <1>1, FeedAlways, PTL

(***************************************************************************)
(* Whatever index.bin or its shadow has wrong about the drive, the crawl   *)
(* that resumes from the link saved with it will be told: no order of      *)
(* pages, saves, mutations and their patches, crashes and changes by other *)
(* devices leaves an error that nobody corrects.                           *)
(***************************************************************************)
THEOREM FeedAlwaysOwes == ASSUME Orderly PROVE Spec => []FeedOwesEveryDifference
<1>1. Inv /\ FeedInv => FeedOwesEveryDifference
  BY FeedMeansOwed
<1> QED
  BY <1>1, FeedAlways, PTL

(***************************************************************************)
(* Where every answer parses, a live index to which the feed owes nothing  *)
(* is the drive, with no "local:" entry left over.                         *)
(***************************************************************************)
THEOREM ConvergedAlways == ASSUME Orderly, ~Unparsed PROVE Spec => []Converged
<1>1. Inv /\ FeedInv => Converged
  BY FeedMeansTheDrive DEF Converged, IsIndex
<1> QED
  BY <1>1, FeedAlways, PTL

-----------------------------------------------------------------------------
(***************************************************************************)
(* Reads: a lookup by the rows of the file, by the child sets and by the   *)
(* parent ids.                                                             *)
(*                                                                         *)
(* The plugin's tree walks rows upwards by name and parent id, resolve     *)
(* walks child sets downwards, path_of walks parent ids.  Where only the   *)
(* root has no parent and every entry leads up to it, the three agree.     *)
(***************************************************************************)
\* The nodes of one path after another: those without parent, and their children by name.
Rises(idx, path, n, g) ==
    g = [k \in 0..n |->
            IF k = 0 THEN {x \in Present(idx.nodes) : idx.nodes[x].parent = None}
            ELSE {x \in Present(idx.nodes) :
                     idx.nodes[x].parent \in g[k - 1] /\ idx.nodes[x].name = path[k]}]

\* Two such agree as far as their paths do.
LEMMA RisesAgree ==
  ASSUME NEW idx, NEW p, NEW q, NEW m \in Nat, NEW n \in Nat, NEW g, NEW h,
         Rises(idx, p, m, g), Rises(idx, q, n, h), m <= n, \A k \in 1..m : p[k] = q[k]
  PROVE  \A k \in 0..m : g[k] = h[k]
<1> DEFINE T == {k \in 0..m : g[k] # h[k]}
<1>1. SUFFICES ASSUME T # {} PROVE FALSE
  OBVIOUS
<1>2. PICK k \in T : \A j \in T : k <= j
  <2>1. T \in SUBSET Nat
    OBVIOUS
  <2> QED
    BY <1>1, <2>1, LeastNumber
<1>3. k \in 0..m /\ k \in 0..n /\ g[k] # h[k] /\ \A j \in 0..m : j < k => g[j] = h[j]
  BY <1>2
<1>4. k # 0 => g[k - 1] = h[k - 1] /\ p[k] = q[k] /\ k - 1 \in 0..m
  BY <1>3
<1>5. /\ g[k] = IF k = 0 THEN {x \in Present(idx.nodes) : idx.nodes[x].parent = None}
                ELSE {x \in Present(idx.nodes) : idx.nodes[x].parent \in g[k - 1] /\ idx.nodes[x].name = p[k]}
      /\ h[k] = IF k = 0 THEN {x \in Present(idx.nodes) : idx.nodes[x].parent = None}
                ELSE {x \in Present(idx.nodes) : idx.nodes[x].parent \in h[k - 1] /\ idx.nodes[x].name = q[k]}
  BY <1>3 DEF Rises
<1>6. CASE k = 0
  BY <1>3, <1>5, <1>6
<1>7. CASE k # 0
  <2>1. g[k - 1] = h[k - 1] /\ p[k] = q[k]
    BY <1>4, <1>7
  <2> QED
    BY <1>3, <1>5, <1>7, <2>1
<1> QED
  BY <1>6, <1>7

\* For a path of any length there is one.
LEMMA RisesExists ==
  ASSUME NEW idx, NEW path, NEW n \in Nat
  PROVE  \E g : Rises(idx, path, n, g)
<1> DEFINE T == {m \in Nat : ~ \E g : Rises(idx, path, m, g)}
<1>1. SUFFICES ASSUME T # {} PROVE FALSE
  OBVIOUS
<1>2. PICK m \in T : \A j \in T : m <= j
  <2>1. T \in SUBSET Nat
    OBVIOUS
  <2> QED
    BY <1>1, <2>1, LeastNumber
<1>3. CASE m = 0
  <2> DEFINE g == [k \in 0..0 |-> {x \in Present(idx.nodes) : idx.nodes[x].parent = None}]
  <2>1. Rises(idx, path, 0, g)
    BY DEF Rises
  <2> QED
    BY <1>2, <1>3, <2>1
<1>4. CASE m # 0
  <2>1. m - 1 \in Nat /\ m - 1 \notin T
    BY <1>2, <1>4
  <2>2. PICK h : Rises(idx, path, m - 1, h)
    BY <2>1
  <2> DEFINE last == {x \in Present(idx.nodes) :
                         idx.nodes[x].parent \in h[m - 1] /\ idx.nodes[x].name = path[m]}
             g == [k \in 0..m |-> IF k = m THEN last ELSE h[k]]
  <2>3. \A k \in 0..(m - 1) : h[k] = IF k = 0 THEN {x \in Present(idx.nodes) : idx.nodes[x].parent = None}
                                      ELSE {x \in Present(idx.nodes) :
                                               idx.nodes[x].parent \in h[k - 1] /\ idx.nodes[x].name = path[k]}
    BY <2>2 DEF Rises
  <2>4. ASSUME NEW k \in 0..m
        PROVE  g[k] = IF k = 0 THEN {x \in Present(idx.nodes) : idx.nodes[x].parent = None}
                      ELSE {x \in Present(idx.nodes) :
                               idx.nodes[x].parent \in g[k - 1] /\ idx.nodes[x].name = path[k]}
    <3>1. CASE k = m
      <4>1. g[k] = last /\ k # 0 /\ k - 1 \in 0..m /\ k - 1 # m /\ g[k - 1] = h[k - 1]
        BY <1>4, <3>1
      <4> HIDE DEF g
      <4> QED
        BY <3>1, <4>1
    <3>2. CASE k # m
      <4>1. g[k] = h[k] /\ k \in 0..(m - 1) /\ (k # 0 => k - 1 \in 0..m /\ k - 1 # m /\ g[k - 1] = h[k - 1])
        BY <3>2
      <4> HIDE DEF g
      <4> QED
        BY <2>3, <4>1
    <3> QED
      BY <3>1, <3>2
  <2>5. g = [k \in 0..m |-> g[k]]
    OBVIOUS
  <2> HIDE DEF g
  <2>6. Rises(idx, path, m, g)
    BY <2>4, <2>5 DEF Rises
  <2> QED
    BY <1>2, <2>6
<1> QED
  BY <1>3, <1>4

\* Named, one segment after another.
LEMMA NamedSteps ==
  ASSUME NEW idx, NEW path \in Seq(Names)
  PROVE  /\ path = <<>> => Named(idx, path) = {x \in Present(idx.nodes) : idx.nodes[x].parent = None}
         /\ path # <<>> =>
               Named(idx, path) = {x \in Present(idx.nodes) :
                                      /\ idx.nodes[x].parent \in Named(idx, ParentPath(path))
                                      /\ idx.nodes[x].name = LastSegment(path)}
<1>1. ASSUME NEW p \in Seq(Names) PROVE \E g : Rises(idx, p, Len(p), g) /\ Named(idx, p) = g[Len(p)]
  <2> DEFINE at == CHOOSE g : Rises(idx, p, Len(p), g)
  <2>1. Rises(idx, p, Len(p), at)
    BY RisesExists
  <2>2. Named(idx, p) = at[Len(p)]
    BY DEF Named, Rises
  <2> QED
    BY <2>1, <2>2
<1>2. PICK g : Rises(idx, path, Len(path), g) /\ Named(idx, path) = g[Len(path)]
  BY <1>1
<1>3. CASE path = <<>>
  BY <1>2, <1>3 DEF Rises
<1>4. CASE path # <<>>
  <2> DEFINE up == ParentPath(path)
             n == Len(path)
  <2>1. /\ n \in Nat /\ n >= 1 /\ n \in 0..n /\ n - 1 \in 0..n /\ n - 1 \in Nat /\ n - 1 <= n
        /\ up \in Seq(Names) /\ Len(up) = n - 1
        /\ \A k \in 1..(n - 1) : up[k] = path[k]
        /\ LastSegment(path) = path[n]
    BY <1>4, PathShape
  <2> HIDE DEF up
  <2>2. PICK h : Rises(idx, up, Len(up), h) /\ Named(idx, up) = h[Len(up)]
    BY <1>1, <2>1
  <2>3. Rises(idx, up, n - 1, h) /\ Rises(idx, path, n, g) /\ Named(idx, path) = g[n] /\ Named(idx, up) = h[n - 1]
    BY <1>2, <2>1, <2>2
  <2> HIDE DEF n
  <2>4. h[n - 1] = g[n - 1]
    <3> DEFINE m == n - 1
    <3>1. \A k \in 1..m : up[k] = path[k]
      BY <2>1
    <3>2. m \in Nat /\ n \in Nat /\ m <= n /\ Rises(idx, up, m, h) /\ Rises(idx, path, n, g)
      BY <2>1, <2>3
    <3> HIDE DEF m
    <3>3. \A k \in 0..m : h[k] = g[k]
      BY <3>1, <3>2, RisesAgree
    <3> QED
      BY <2>1, <3>3 DEF m
  <2>5. g[n] = {x \in Present(idx.nodes) : idx.nodes[x].parent \in g[n - 1] /\ idx.nodes[x].name = path[n]}
    <3> DEFINE step(k) == IF k = 0 THEN {x \in Present(idx.nodes) : idx.nodes[x].parent = None}
                          ELSE {x \in Present(idx.nodes) :
                                   idx.nodes[x].parent \in g[k - 1] /\ idx.nodes[x].name = path[k]}
    <3>1. g = [k \in 0..n |-> step(k)]
      BY <2>3, Zenon DEF Rises
    <3>2. n \in 0..n /\ n # 0
      BY <2>1
    <3>3. g[n] = step(n)
      <4> HIDE DEF step
      <4> QED
        BY <3>1, <3>2
    <3> QED
      BY <3>2, <3>3, Zenon
  <2> QED
    BY <1>4, <2>1, <2>3, <2>4, <2>5 DEF up
<1> QED
  BY <1>3, <1>4

\* Named goes by nodes.
LEMMA NamedPresent ==
  ASSUME NEW idx, NEW path \in Seq(Names)
  PROVE  Named(idx, path) \subseteq Ids
<1> DEFINE tops == {x \in Present(idx.nodes) : idx.nodes[x].parent = None}
           next == {x \in Present(idx.nodes) :
                       /\ idx.nodes[x].parent \in Named(idx, ParentPath(path))
                       /\ idx.nodes[x].name = LastSegment(path)}
<1>1. tops \subseteq Ids /\ next \subseteq Ids
  BY DEF Present
<1> HIDE DEF tops, next
<1>2. Named(idx, path) = tops \/ Named(idx, path) = next
  BY NamedSteps DEF tops, next
<1> QED
  BY <1>1, <1>2

\* Where only the root has no parent, walking parent ids and walking child sets lead to the same.
LEMMA NamedIsResolved ==
  ASSUME NEW idx, Sound(idx), \A x \in Ids : (HasNode(idx, x) /\ idx.nodes[x].parent = None) => x = RootId
  PROVE  \A path \in Seq(Names) : Named(idx, path) = {Resolve(idx, path)} \ {None}
<1> DEFINE Same(path) == Named(idx, path) = {Resolve(idx, path)} \ {None}
           T == {n \in Nat : \E path \in Seq(Names) : Len(path) = n /\ ~Same(path)}
<1>1. SUFFICES ASSUME T # {} PROVE FALSE
  <2>1. \A path \in Seq(Names) : Len(path) \in Nat
    OBVIOUS
  <2> HIDE DEF Same
  <2>2. T = {} => \A path \in Seq(Names) : Same(path)
    BY <2>1
  <2> QED
    BY <2>2 DEF Same
<1> HIDE DEF Same
<1>2. PICK n \in T : \A m \in T : n <= m
  <2>1. T \in SUBSET Nat
    OBVIOUS
  <2> QED
    BY <1>1, <2>1, LeastNumber
<1>3. PICK path \in Seq(Names) : Len(path) = n /\ ~Same(path)
  BY <1>2
<1>4. /\ idx.root \in {None, RootId} /\ (idx.root = RootId <=> HasNode(idx, RootId))
      /\ idx.root = None => \A c \in Ids : HasNode(idx, c) => idx.nodes[c].parent # None
      /\ HasNode(idx, RootId) => idx.nodes[RootId].parent = None
      /\ idx.kids \in [Ids -> SUBSET (Names \X Ids)] /\ UniqueNames(idx.kids)
      /\ RootId \in Ids /\ None \notin Ids
  BY IndexFields, RootIsId DEF Sound, RootKnown
<1>5. CASE path = <<>>
  <2>1. Resolve(idx, path) = idx.root
    BY <1>5 DEF Resolve, WalkTo
  <2>2. Named(idx, path) = {x \in Ids : HasNode(idx, x) /\ idx.nodes[x].parent = None}
    <3>1. Named(idx, path) = {x \in Present(idx.nodes) : idx.nodes[x].parent = None}
      BY <1>5, NamedSteps
    <3> QED
      BY <3>1 DEF Present, HasNode
  <2>3. Same(path)
    BY <1>4, <2>1, <2>2 DEF Same
  <2> QED
    BY <1>3, <2>3
<1>6. CASE path # <<>>
  <2> DEFINE up == ParentPath(path)
  <2>1. up \in Seq(Names) /\ Len(up) < n /\ Len(up) \in Nat /\ LastSegment(path) \in Names /\ n \in Nat
    BY <1>3, <1>6, PathShape
  <2>2. Same(up)
    <3>1. ~Same(up) => Len(up) \in T
      BY <2>1
    <3>2. Len(up) \notin T
      BY <1>2, <2>1
    <3> QED
      BY <3>1, <3>2
  <2> HIDE DEF up, T
  <2>3. \A x \in Ids : x \in Named(idx, path) <=>
           /\ HasNode(idx, x) /\ idx.nodes[x].name = LastSegment(path)
           /\ idx.nodes[x].parent = Resolve(idx, up) /\ Resolve(idx, up) # None
    BY <1>6, <2>2, NamedSteps DEF Same, Present, HasNode, up
  <2>4. Named(idx, path) \subseteq Ids
    BY NamedPresent
  <2>5. Resolve(idx, up) \in Ids \cup {None} /\ Resolve(idx, path) \in Ids \cup {None}
    BY <2>1, ResolveFinds
  <2>6. ASSUME NEW x \in Ids PROVE x \in Named(idx, path) <=> Resolve(idx, path) = x
    <3>1. CASE idx.root = None
      BY <1>4, <2>3, <3>1 DEF Resolve
    <3>2. CASE idx.root = RootId
      <4>1. Resolve(idx, path) = x <=> Resolve(idx, up) \in Ids /\ <<LastSegment(path), x>> \in idx.kids[Resolve(idx, up)]
        BY <1>4, <1>6, <3>2, WalkToStep DEF Resolve, up
      <4>2. ASSUME NEW p \in Ids
            PROVE  <<LastSegment(path), x>> \in idx.kids[p] <=>
                      HasNode(idx, x) /\ idx.nodes[x].parent = p /\ idx.nodes[x].name = LastSegment(path)
        BY <2>1 DEF Sound, Fits
      <4> QED
        BY <1>4, <2>3, <2>5, <4>1, <4>2
    <3> QED
      BY <1>4, <3>1, <3>2
  <2>7. Same(path)
    BY <1>4, <2>4, <2>5, <2>6 DEF Same
  <2> QED
    BY <1>3, <2>7
<1> QED
  BY <1>5, <1>6

(***************************************************************************)
(* What lookup_file finds in the snapshot of a live index is what          *)
(* Index::resolve finds in the index: the row of a folder, with its block, *)
(* or an entry in the block of the folder's row.                           *)
(***************************************************************************)
LEMMA LookupIs ==
  ASSUME NEW now, NEW idx, Sound(idx), Typed(idx, now), Climbs(idx), NEW path \in Seq(Names),
         NEW x, x = Resolve(idx, path)
  PROVE  /\ x = None => Lookup(idx, DirRows(idx), path) = {}
         /\ x # None =>
               /\ x \in Ids /\ HasNode(idx, x)
               /\ Lookup(idx, DirRows(idx), path) =
                     {Listed(x, idx.nodes[x].dir, IF idx.nodes[x].dir THEN ChildBlocks(idx, {x}) ELSE {})}
<1> DEFINE rows == DirRows(idx)
           found == FindDir(idx, rows, path)
<1>1. \A p \in Seq(Names) : Named(idx, p) = {Resolve(idx, p)} \ {None}
  BY NamedIsResolved DEF Typed
<1>2. \A y \in Ids : HasNode(idx, y) => (y \in rows <=> idx.nodes[y].dir = TRUE)
  <2>1. \A y \in Ids : HasNode(idx, y) => y \in Up(idx.nodes)
    BY DEF Climbs, Present, HasNode
  <2>2. \A y \in Ids : (HasNode(idx, y) /\ idx.root = y) => idx.nodes[y].dir = TRUE
    <3>1. HasNode(idx, RootId) => idx.nodes[RootId].dir = (RootId \in Folders)
      BY FolderIsItem DEF Typed
    <3>2. HasNode(idx, RootId) => idx.nodes[RootId].dir = TRUE
      BY <3>1, FolderIsItem
    <3>3. \A y \in Ids : idx.root = y => y = RootId
      BY FolderIsItem DEF Sound, RootKnown
    <3> QED
      BY <3>2, <3>3
  <2>3. \A y \in Ids : HasNode(idx, y) => idx.nodes[y].dir \in BOOLEAN
    BY IndexFields DEF Sound, HasNode, Node
  <2>4. \A y \in Ids : HasNode(idx, y) => (y \in rows <=> idx.nodes[y].dir \/ idx.root = y)
    BY <2>1 DEF DirRows, Up, Present, HasNode
  <2> QED
    BY <2>2, <2>3, <2>4
<1>3. x \in Ids \cup {None} /\ (x # None => x \in Ids /\ HasNode(idx, x))
  BY ResolveFinds, ResolvePresent
<1>4. found = rows \cap ({x} \ {None})
  BY <1>1 DEF FindDir
<1>5. CASE x \in rows /\ x # None
  <2>1. found = {x} /\ idx.nodes[x].dir = TRUE
    BY <1>2, <1>3, <1>4, <1>5
  <2> QED
    BY <1>3, <1>5, <2>1 DEF Lookup, AsDir
<1>6. CASE ~(x \in rows /\ x # None)
  <2>1. found = {}
    BY <1>4, <1>6
  <2>2. Lookup(idx, rows, path) = AsFile(idx, rows, path)
    BY <2>1 DEF Lookup
  <2>3. CASE path = <<>>
    <3>1. x = idx.root
      BY <2>3 DEF Resolve, WalkTo
    <3>2. x # None => x = RootId /\ idx.nodes[x].dir = TRUE
      BY <1>3, <3>1, FolderIsItem DEF Sound, RootKnown, Typed
    <3>3. x = None
      BY <1>2, <1>3, <1>6, <3>2
    <3> QED
      BY <2>2, <2>3, <3>3 DEF AsFile
  <2>4. CASE path # <<>>
    <3> DEFINE up == ParentPath(path)
               p == Resolve(idx, up)
               above == FindDir(idx, rows, up)
               last == LastSegment(path)
               hits == {k \in ChildBlocks(idx, above) : k.name = last}
    <3>1. up \in Seq(Names) /\ last \in Names
      BY <2>4, PathShape
    <3>2. p \in Ids \cup {None} /\ (p # None => p \in Ids /\ HasNode(idx, p) /\ idx.root = RootId)
      BY <3>1, ResolveFinds, ResolvePresent
    <3>3. AsFile(idx, rows, path) = {Listed(c.id, c.dir, {}) : c \in hits}
      BY <2>4 DEF AsFile
    <3>4. above = rows \cap ({p} \ {None})
      BY <1>1, <3>1 DEF FindDir
    <3> HIDE DEF rows, above
    <3>5. \A c \in Ids : x = c <=> (p \in Ids /\ <<last, c>> \in idx.kids[p])
      <4>1. CASE idx.root = None
        BY <3>2, <4>1, RootIsId DEF Resolve
      <4>2. CASE idx.root = RootId
        BY <2>4, <4>2, WalkToStep, IndexFields, RootIsId DEF Resolve, Sound
      <4> QED
        BY <4>1, <4>2 DEF Sound, RootKnown
    <3>6. ASSUME NEW k PROVE k \in hits <=> x # None /\ k = [name |-> last, id |-> x, dir |-> idx.nodes[x].dir]
      <4>1. ChildBlocks(idx, above) = {[name |-> e[1], id |-> e[2], dir |-> idx.nodes[e[2]].dir] :
               e \in {c \in UNION {idx.kids[row] : row \in above} : idx.nodes[c[2]] # NoNode}}
        BY DEF ChildBlocks
      <4>2. idx.kids \in [Ids -> SUBSET (Names \X Ids)] /\ None \notin Ids
        BY IndexFields, RootIsId DEF Sound
      <4>3. ASSUME k \in hits PROVE x # None /\ k = [name |-> last, id |-> x, dir |-> idx.nodes[x].dir]
        <5>1. PICK row \in above : \E e \in idx.kids[row] : k = [name |-> e[1], id |-> e[2], dir |-> idx.nodes[e[2]].dir]
          BY <4>1, <4>3
        <5>2. row = p /\ p \in Ids
          BY <3>2, <3>4, <5>1
        <5>3. PICK e \in idx.kids[p] : k = [name |-> e[1], id |-> e[2], dir |-> idx.nodes[e[2]].dir]
          BY <5>1, <5>2
        <5>4. e = <<e[1], e[2]>> /\ e[2] \in Ids /\ e[1] = last
          BY <4>2, <4>3, <5>2, <5>3
        <5>5. x = e[2]
          BY <3>5, <5>2, <5>3, <5>4
        <5> QED
          BY <4>2, <5>3, <5>4, <5>5
      <4>4. ASSUME x # None, k = [name |-> last, id |-> x, dir |-> idx.nodes[x].dir] PROVE k \in hits
        <5>1. x \in Ids /\ HasNode(idx, x)
          BY <1>3, <4>4
        <5>2. p \in Ids /\ <<last, x>> \in idx.kids[p]
          BY <3>5, <5>1
        <5>3. idx.nodes[x].parent = p /\ HasNode(idx, p) /\ p # None
          BY <3>1, <3>2, <4>2, <5>1, <5>2 DEF Sound, Fits
        <5>4. idx.nodes[p].dir = TRUE
          <6>1. p \in ItemIds => idx.nodes[p].dir = (p \in Folders) /\ p \in Folders
            BY <5>1, <5>2, <5>3 DEF Typed
          <6>2. p \in LocalIds => idx.nodes[p].dir
            BY <5>1, <5>3 DEF Typed
          <6>3. idx.nodes[p].dir \in BOOLEAN
            BY <5>2, <5>3, IndexFields DEF Sound, HasNode, Node
          <6> QED
            BY <5>2, <6>1, <6>2, <6>3, FolderIsItem
        <5>5. p \in above
          BY <1>2, <3>4, <5>2, <5>3, <5>4
        <5>6. <<last, x>> \in UNION {idx.kids[row] : row \in above} /\ idx.nodes[<<last, x>>[2]] # NoNode
          BY <5>1, <5>2, <5>5 DEF HasNode
        <5>7. k = [name |-> <<last, x>>[1], id |-> <<last, x>>[2], dir |-> idx.nodes[<<last, x>>[2]].dir]
          BY <4>4
        <5>8. k \in ChildBlocks(idx, above)
          BY <4>1, <5>6, <5>7
        <5> QED
          BY <4>4, <5>8
      <4> QED
        BY <4>3, <4>4
    <3>7. CASE x = None
      <4>1. hits = {}
        BY <3>6, <3>7
      <4> QED
        BY <2>2, <3>3, <3>7, <4>1 DEF rows
    <3>8. CASE x # None
      <4>1. hits = {[name |-> last, id |-> x, dir |-> idx.nodes[x].dir]}
        BY <3>6, <3>8
      <4>2. idx.nodes[x].dir = FALSE
        <5>1. idx.nodes[x].dir \in BOOLEAN
          BY <1>3, <3>8, IndexFields DEF Sound, HasNode, Node
        <5> QED
          BY <1>2, <1>3, <1>6, <3>8, <5>1
      <4> HIDE DEF hits
      <4>3. AsFile(idx, rows, path) = {Listed(x, idx.nodes[x].dir, {})}
        BY <3>3, <4>1
      <4> QED
        BY <1>3, <2>2, <3>8, <4>2, <4>3 DEF rows
    <3> QED
      BY <3>7, <3>8
  <2> QED
    BY <2>3, <2>4
<1> QED
  BY <1>5, <1>6

\* In an index that is the drive, what a lookup finds is what Graph answers.
LEMMA FoundIsGraphs ==
  ASSUME Inv, FeedInv, live # Missing, live.nodes = remote, NEW path \in Seq(Names)
  PROVE  Lookup(live, DirRows(live), path) = FromGraph(path)
<1> DEFINE x == Resolve(live, path)
<1>1. Sound(live) /\ Typed(live, Now) /\ Climbs(live) /\ DriveTree(Now) /\ Now.tree = remote
  BY LiveTold DEF FeedInv, Now
<1>2. /\ remote[RootId] = RootNode
      /\ \A y \in Ids : remote[y] # NoNode => y \in ItemIds /\ remote[y].dir = (y \in Folders)
      /\ \A y \in Ids \ {RootId} : remote[y] # NoNode => remote[y].parent \in Folders
  BY <1>1 DEF DriveTree, On
<1>3. live.kids = RemoteKids /\ live.kids \in [Ids -> SUBSET (Names \X Ids)]
  BY <1>1, SoundIsMatched, IndexFields DEF Matched, RemoteKids, Sound
<1>4. live.root = RootId
  BY <1>1, <1>2, RootNodeIs, FolderIsItem DEF Sound, RootKnown, HasNode
<1>5. x = RemoteAt(path)
  BY <1>3, <1>4, FolderIsItem DEF Resolve, RemoteAt
<1>6. /\ x = None => Lookup(live, DirRows(live), path) = {}
      /\ x # None =>
            /\ x \in Ids /\ HasNode(live, x)
            /\ Lookup(live, DirRows(live), path) =
                  {Listed(x, live.nodes[x].dir, IF live.nodes[x].dir THEN ChildBlocks(live, {x}) ELSE {})}
  BY <1>1, LookupIs
<1> HIDE DEF x
<1>7. CASE x = None
  BY <1>5, <1>6, <1>7 DEF FromGraph
<1>8. CASE x # None
  <2> DEFINE below == {[name |-> e[1], id |-> e[2], dir |-> e[2] \in Folders] : e \in RemoteKids[x]}
  <2>1. x \in Ids /\ remote[x] # NoNode /\ live.nodes[x].dir = (x \in Folders)
    BY <1>2, <1>6, <1>8 DEF HasNode
  <2>2. \A e \in live.kids[x] : /\ e[2] \in Ids /\ live.nodes[e[2]] # NoNode /\ live.nodes[e[2]].parent = x
                                /\ live.nodes[e[2]].dir = (e[2] \in Folders)
    <3> SUFFICES ASSUME NEW e \in live.kids[x]
                 PROVE  /\ e[2] \in Ids /\ live.nodes[e[2]] # NoNode /\ live.nodes[e[2]].parent = x
                        /\ live.nodes[e[2]].dir = (e[2] \in Folders)
      OBVIOUS
    <3>1. e = <<e[1], e[2]>> /\ e[1] \in Names /\ e[2] \in Ids
      BY <1>3, <2>1
    <3>2. HasNode(live, e[2]) /\ live.nodes[e[2]].parent = x
      BY <1>1, <2>1, <3>1 DEF Sound, Fits
    <3> QED
      BY <1>1, <1>2, <3>1, <3>2 DEF HasNode
  <2>3. ChildBlocks(live, {x}) = below
    <3>1. {c \in UNION {live.kids[row] : row \in {x}} : live.nodes[c[2]] # NoNode} = RemoteKids[x]
      BY <1>3, <2>2
    <3>2. ChildBlocks(live, {x}) = {[name |-> e[1], id |-> e[2], dir |-> live.nodes[e[2]].dir] : e \in RemoteKids[x]}
      BY <3>1 DEF ChildBlocks
    <3>3. \A e \in RemoteKids[x] : live.nodes[e[2]].dir = (e[2] \in Folders)
      BY <1>3, <2>2
    <3> QED
      BY <3>2, <3>3
  <2>4. x \notin Folders => below = {}
    <3>1. x \notin Folders => RemoteKids[x] = {}
      <4> SUFFICES ASSUME x \notin Folders, NEW e \in RemoteKids[x] PROVE FALSE
        OBVIOUS
      <4>1. e[2] \in Ids /\ remote[e[2]] # NoNode /\ remote[e[2]].parent = x
        BY <1>3, <2>2
      <4>2. e[2] # RootId
        BY <1>2, <2>1, <4>1, RootNodeIs, FolderIsItem
      <4> QED
        BY <1>2, <4>1, <4>2
    <3> QED
      BY <3>1
  <2> HIDE DEF below
  <2>5. (IF live.nodes[x].dir THEN ChildBlocks(live, {x}) ELSE {}) = below
    BY <2>1, <2>3, <2>4
  <2>6. FromGraph(path) = {Listed(x, x \in Folders, below)}
    BY <1>5, <1>8 DEF FromGraph, below
  <2> QED
    BY <1>6, <1>8, <2>1, <2>5, <2>6
<1> QED
  BY <1>7, <1>8

\* The invariants give the property of the runs about reads.
LEMMA FeedMeansGraphs == ASSUME ~Unparsed PROVE Inv /\ FeedInv => ReadsAreGraphs
<1> SUFFICES ASSUME Inv, FeedInv, live # Missing, UpToDate(live), NEW path \in ReadPaths
             PROVE  /\ Propfind(DirRows(live), path) = FromGraph(path)
                    /\ DavHead(DirRows(live), path) = {item.dir : item \in FromGraph(path)}
  BY DEF ReadsAreGraphs, IsIndex
<1> DEFINE rows == DirRows(live)
<1>1. live.nodes = remote
  BY FeedMeansTheDrive
<1>2. path \in Seq(Names)
  BY ReadPathsAssumption
<1>3. LookupFile(rows, path) = FromGraph(path)
  BY <1>1, <1>2, FoundIsGraphs DEF LookupFile, IsIndex
<1> HIDE DEF rows
<1>4. Propfind(rows, path) = FromGraph(path)
  BY <1>3 DEF Propfind
<1>5. DavHead(rows, path) = {item.dir : item \in FromGraph(path)}
  <2> DEFINE hits == {hit.dir : hit \in FromGraph(path)}
  <2>1. FromGraph(path) = {} <=> RemoteAt(path) = None
    BY DEF FromGraph
  <2>2. hits # {} => DavHead(rows, path) = hits
    BY <1>3 DEF DavHead
  <2>3. hits = {} => FromGraph(path) = {}
    OBVIOUS
  <2> HIDE DEF hits
  <2>4. hits = {} => DavHead(rows, path) = {}
    BY <1>3, <2>1, <2>3 DEF DavHead, hits
  <2> QED
    BY <2>2, <2>4 DEF hits
<1> QED
  BY <1>4, <1>5 DEF rows

(***************************************************************************)
(* With the switch ONEDRIVE_INDEX_ENABLED on or off a client reads the     *)
(* same, at any path of any drive, while the live index is complete and    *)
(* the feed owes it nothing: PROPFIND, and the type HEAD reports.          *)
(***************************************************************************)
THEOREM ReadsAreGraphsAlways == ASSUME Orderly, ~Unparsed PROVE Spec => []ReadsAreGraphs
<1>1. Inv /\ FeedInv => ReadsAreGraphs
  BY FeedMeansGraphs
<1> QED
  BY <1>1, FeedAlways, PTL

\* One step up, on the way to the path of a node.
PathUp(idx, g, x, k) ==
    LET node == idx.nodes[x]
        above == g[<<node.parent, k - 1>>]
    IN  IF k = 0 \/ node = NoNode THEN None
        ELSE IF node.parent = None THEN <<>>
        ELSE IF above = None THEN None ELSE Append(above, node.name)

\* The paths of the nodes fewer than `n` steps below one without parent.
PathsUp(idx, n, g) == g = [at \in Ids \X (0..n) |-> PathUp(idx, g, at[1], at[2])]

\* They exist, for any number of steps.
LEMMA PathsUpExist ==
  ASSUME NEW idx, idx.nodes \in [Ids -> Node \cup {NoNode}], NEW n \in Nat
  PROVE  \E g : PathsUp(idx, n, g)
<1> DEFINE T == {m \in Nat : ~ \E g : PathsUp(idx, m, g)}
<1>1. SUFFICES ASSUME T # {} PROVE FALSE
  OBVIOUS
<1>2. PICK m \in T : \A j \in T : m <= j
  <2>1. T \in SUBSET Nat
    OBVIOUS
  <2> QED
    BY <1>1, <2>1, LeastNumber
<1>3. \A x \in Ids : idx.nodes[x] # NoNode => idx.nodes[x].parent \in Ids \cup {None}
  BY DEF Node
<1>4. CASE m = 0
  <2> DEFINE g == [at \in Ids \X (0..0) |-> None]
  <2>1. \A at \in Ids \X (0..0) : PathUp(idx, g, at[1], at[2]) = None
    BY DEF PathUp
  <2> HIDE DEF g
  <2>2. [at \in Ids \X (0..0) |-> PathUp(idx, g, at[1], at[2])] = [at \in Ids \X (0..0) |-> None]
    BY <2>1
  <2>3. PathsUp(idx, 0, g)
    BY <2>2 DEF PathsUp, g
  <2> QED
    BY <1>2, <1>4, <2>3
<1>5. CASE m # 0
  <2>1. m - 1 \in Nat /\ m - 1 \notin T
    BY <1>2, <1>5
  <2>2. PICK h : PathsUp(idx, m - 1, h)
    BY <2>1
  <2> DEFINE g == [at \in Ids \X (0..m) |-> PathUp(idx, h, at[1], at[2])]
  <2>3. \A x \in Ids, k \in 0..(m - 1) : h[<<x, k>>] = PathUp(idx, h, x, k)
    BY <2>2 DEF PathsUp
  <2>4. \A x \in Ids, k \in 0..m : g[<<x, k>>] = PathUp(idx, h, x, k)
    OBVIOUS
  <2> HIDE DEF g
  <2>5. \A x \in Ids, k \in 0..(m - 1) : g[<<x, k>>] = h[<<x, k>>]
    <3>1. \A k \in 0..(m - 1) : k \in 0..m
      OBVIOUS
    <3> QED
      BY <2>3, <2>4, <3>1
  <2>6. ASSUME NEW x \in Ids, NEW k \in 0..m PROVE PathUp(idx, g, x, k) = PathUp(idx, h, x, k)
    <3>1. CASE k = 0 \/ idx.nodes[x] = NoNode \/ idx.nodes[x].parent = None
      BY <3>1 DEF PathUp
    <3>2. CASE ~(k = 0 \/ idx.nodes[x] = NoNode \/ idx.nodes[x].parent = None)
      <4>1. k - 1 \in 0..(m - 1) /\ idx.nodes[x].parent \in Ids
        BY <1>3, <3>2
      <4>2. g[<<idx.nodes[x].parent, k - 1>>] = h[<<idx.nodes[x].parent, k - 1>>]
        BY <2>5, <4>1
      <4> QED
        BY <4>2 DEF PathUp
    <3> QED
      BY <3>1, <3>2
  <2>7. \A at \in Ids \X (0..m) : PathUp(idx, g, at[1], at[2]) = PathUp(idx, h, at[1], at[2])
    BY <2>6
  <2>8. [at \in Ids \X (0..m) |-> PathUp(idx, g, at[1], at[2])]
           = [at \in Ids \X (0..m) |-> PathUp(idx, h, at[1], at[2])]
    BY <2>7
  <2>9. PathsUp(idx, m, g)
    BY <2>8 DEF PathsUp, g
  <2> QED
    BY <1>2, <2>9
<1> QED
  BY <1>4, <1>5

\* PathOf, one step after another.
LEMMA PathOfSteps ==
  ASSUME NEW idx, idx.nodes \in [Ids -> Node \cup {NoNode}]
  PROVE  \E g : /\ \A x \in Ids, k \in 0..64 : g[<<x, k>>] = PathUp(idx, g, x, k)
                /\ \A x \in Ids : PathOf(idx, x) = g[<<x, 64>>]
<1> DEFINE g == CHOOSE h : PathsUp(idx, 64, h)
<1>1. PathsUp(idx, 64, g)
  <2>1. \E h : PathsUp(idx, 64, h)
    BY PathsUpExist
  <2> QED
    BY <2>1
<1>2. \A x \in Ids : PathOf(idx, x) = g[<<x, 64>>]
  BY DEF PathOf, PathsUp, PathUp
<1> HIDE DEF g
<1>3. \A x \in Ids, k \in 0..64 : g[<<x, k>>] = PathUp(idx, g, x, k)
  BY <1>1 DEF PathsUp
<1> QED
  BY <1>2, <1>3

\* Resolving a child of what a path leads to.
LEMMA ResolveChild ==
  ASSUME NEW idx, Sound(idx), NEW path \in Seq(Names), NEW name \in Names, NEW c \in Ids,
         Resolve(idx, path) \in Ids, HasNode(idx, c), idx.nodes[c].parent = Resolve(idx, path),
         idx.nodes[c].name = name
  PROVE  Append(path, name) \in Seq(Names) /\ Resolve(idx, Append(path, name)) = c
<1> DEFINE down == Append(path, name)
<1>1. down \in Seq(Names) /\ down # <<>> /\ LastSegment(down) = name /\ ParentPath(down) = path
  BY DEF LastSegment, ParentPath
<1>2. idx.root = RootId
  BY RootIsId DEF Resolve, Sound, RootKnown
<1>3. <<name, c>> \in idx.kids[Resolve(idx, path)]
  BY DEF Sound, Fits
<1> HIDE DEF down
<1>4. Resolve(idx, down) = WalkTo(idx.kids, RootId, down) /\ Resolve(idx, path) = WalkTo(idx.kids, RootId, path)
  BY <1>2, RootIsId DEF Resolve
<1>5. Resolve(idx, down) = c
  BY <1>1, <1>3, <1>4, WalkToStep, IndexFields, RootIsId DEF Sound
<1> QED
  BY <1>1, <1>5 DEF down

\* A path that path_of gives leads back to the node.
LEMMA PathOfResolves ==
  ASSUME NEW idx, Sound(idx), \A x \in Ids : (HasNode(idx, x) /\ idx.nodes[x].parent = None) => x = RootId,
         NEW x \in Ids, PathOf(idx, x) # None
  PROVE  PathOf(idx, x) \in Seq(Names) /\ Resolve(idx, PathOf(idx, x)) = x
<1>1. idx.nodes \in [Ids -> Node \cup {NoNode}] /\ RootId \in Ids /\ None \notin Ids
  BY IndexFields, RootIsId DEF Sound
<1>2. PICK g : /\ \A y \in Ids, k \in 0..64 : g[<<y, k>>] = PathUp(idx, g, y, k)
               /\ \A y \in Ids : PathOf(idx, y) = g[<<y, 64>>]
  BY <1>1, PathOfSteps
<1> DEFINE Back(y, p) == p = None \/ (p \in Seq(Names) /\ Resolve(idx, p) = y)
           T == {k \in 0..64 : \E y \in Ids : ~Back(y, g[<<y, k>>])}
<1> HIDE DEF Back
<1>3. ASSUME T # {} PROVE FALSE
  <2>1. PICK k \in T : \A j \in T : k <= j
    <3>1. T \in SUBSET Nat
      OBVIOUS
    <3> QED
      BY <1>3, <3>1, LeastNumber
  <2>2. PICK y \in Ids : ~Back(y, g[<<y, k>>])
    BY <2>1
  <2>3. k \in 0..64 /\ g[<<y, k>>] = PathUp(idx, g, y, k) /\ g[<<y, k>>] # None
    BY <1>2, <2>1, <2>2 DEF Back
  <2> DEFINE p == idx.nodes[y].parent
  <2>4. k # 0 /\ HasNode(idx, y) /\ k - 1 \in 0..64 /\ k - 1 < k
    <3>1. k # 0 /\ HasNode(idx, y)
      BY <2>3 DEF PathUp, HasNode
    <3>2. k \in 0..64
      BY <2>3
    <3> QED
      BY <3>1, <3>2
  <2>5. CASE p = None
    <3>1. g[<<y, k>>] = <<>>
      BY <2>3, <2>4, <2>5 DEF PathUp, HasNode
    <3>2. y = RootId /\ idx.root = RootId
      BY <2>4, <2>5 DEF Sound, RootKnown
    <3>3. Resolve(idx, <<>>) = y
      BY <1>1, <3>2 DEF Resolve, WalkTo
    <3> QED
      BY <2>2, <3>1, <3>3 DEF Back
  <2>6. CASE p # None
    <3> DEFINE above == g[<<p, k - 1>>]
    <3>1. p \in Ids /\ idx.nodes[y].name \in Names
      BY <1>1, <2>4, <2>6 DEF HasNode, Node, Sound, NamedBelow
    <3>2. above # None /\ g[<<y, k>>] = Append(above, idx.nodes[y].name)
      BY <2>3, <2>4, <2>6 DEF PathUp, HasNode
    <3>3. Back(p, above)
      <4>1. k - 1 \notin T
        <5>1. k \in 0..64 /\ ~(k <= k - 1)
          BY <2>3
        <5> QED
          BY <2>1, <5>1
      <4> QED
        BY <2>4, <3>1, <4>1
    <3>4. above \in Seq(Names) /\ Resolve(idx, above) = p
      BY <3>2, <3>3 DEF Back
    <3>5. Append(above, idx.nodes[y].name) \in Seq(Names) /\ Resolve(idx, Append(above, idx.nodes[y].name)) = y
      BY <2>4, <3>1, <3>4, ResolveChild
    <3> QED
      BY <2>2, <3>2, <3>5 DEF Back
  <2> QED
    BY <2>5, <2>6
<1>4. Back(x, g[<<x, 64>>])
  <2>1. 64 \notin T
    BY <1>3
  <2> QED
    BY <2>1
<1> QED
  BY <1>2, <1>4 DEF Back

\* A walk from the root meets no entry twice, so no path that leads somewhere has 64 segments.
LEMMA PathsAreShort ==
  ASSUME NEW idx, Sound(idx), NEW path \in Seq(Names), Resolve(idx, path) # None
  PROVE  Len(path) < 64
<1> DEFINE n == Len(path)
<1>1. /\ idx.root = RootId /\ RootId \in Ids /\ HasNode(idx, RootId) /\ idx.nodes[RootId].parent = None
      /\ None \notin Ids /\ n \in Nat
  BY ResolvePresent, RootIsId DEF Sound, RootKnown
<1>2. CASE path = <<>>
  BY <1>2
<1>3. CASE path # <<>>
  <2>1. Walks(idx.kids, RootId, path) # {}
    BY <1>1, <1>3 DEF Resolve, WalkTo
  <2>2. PICK w : w \in Walks(idx.kids, RootId, path)
    BY <2>1
  <2>3. w \in [1..n -> Ids] /\ \A k \in 1..n : <<path[k], w[k]>> \in idx.kids[IF k = 1 THEN RootId ELSE w[k - 1]]
    BY <2>2 DEF Walks
  <2>4. \A k \in 1..n : path[k] \in Names
    OBVIOUS
  <2> HIDE DEF n
  <2> DEFINE f == [k \in 0..n |-> IF k = 0 THEN RootId ELSE w[k]]
  <2>5. f \in [0..n -> Ids] /\ f[0] = RootId
    BY <1>1, <2>3
  <2>6. \A k \in 1..n : k \in 0..n /\ k - 1 \in 0..n /\ f[k] = w[k] /\ f[k - 1] = IF k = 1 THEN RootId ELSE w[k - 1]
    BY <1>1
  <2> HIDE DEF f
  <2>7. \A k \in 1..n : idx.nodes[f[k]].parent = f[k - 1]
    <3> SUFFICES ASSUME NEW k \in 1..n PROVE idx.nodes[f[k]].parent = f[k - 1]
      OBVIOUS
    <3>1. f[k] \in Ids /\ f[k - 1] \in Ids /\ path[k] \in Names /\ <<path[k], f[k]>> \in idx.kids[f[k - 1]]
      BY <2>3, <2>4, <2>5, <2>6
    <3> QED
      BY <3>1 DEF Sound, Fits
  <2>8. \A i, j \in 0..n : i < j => f[i] # f[j]
    <3> DEFINE T == {i \in 0..n : \E j \in 0..n : i < j /\ f[i] = f[j]}
    <3>1. ASSUME T # {} PROVE FALSE
      <4>1. PICK i \in T : \A k \in T : i <= k
        <5>1. T \in SUBSET Nat
          OBVIOUS
        <5> QED
          BY <3>1, <5>1, LeastNumber
      <4>2. i \in 0..n
        BY <4>1
      <4>3. PICK j \in 0..n : i < j /\ f[i] = f[j]
        BY <4>1
      <4>4. j \in 1..n /\ j - 1 \in 0..n /\ idx.nodes[f[j]].parent = f[j - 1] /\ f[j - 1] \in Ids
        BY <1>1, <2>5, <2>7, <4>2, <4>3
      <4>5. CASE i = 0
        BY <1>1, <2>5, <4>3, <4>4, <4>5
      <4>6. CASE i # 0
        <5>1. i \in 1..n /\ i - 1 \in 0..n /\ i - 1 < j - 1 /\ i - 1 < i
          BY <1>1, <4>2, <4>3, <4>6
        <5>2. f[i - 1] = f[j - 1]
          BY <2>7, <4>3, <4>4, <5>1
        <5>3. i - 1 \in T
          BY <4>4, <5>1, <5>2
        <5>4. i <= i - 1
          BY <4>1, <5>3
        <5> QED
          BY <4>2, <5>4
      <4> QED
        BY <4>5, <4>6
    <3>2. T = {}
      BY <3>1
    <3> QED
      BY <3>2
  <2>9. \A i, j \in 0..n : f[i] = f[j] => i = j
    <3>1. \A i, j \in 0..n : i < j \/ i = j \/ j < i
      BY <1>1
    <3> QED
      BY <2>8, <3>1
  <2>10. f \in Injection(0..n, Ids)
    BY <2>5, <2>9 DEF Injection, IsInjective
  <2>11. Cardinality(0..n) <= Cardinality(Ids)
    BY <2>10, FS_Injection, DepthAssumption
  <2>12. Cardinality(0..n) = n + 1
    BY <1>1, FS_Interval
  <2>13. Cardinality(Ids) \in Nat /\ Cardinality(Ids) <= 64
    BY DepthAssumption, FS_CardinalityType
  <2> QED
    BY <1>1, <2>11, <2>12, <2>13 DEF n
<1> QED
  BY <1>2, <1>3

\* A path that leads to a node is the one that path_of gives.
LEMMA ResolvesPathOf ==
  ASSUME NEW idx, Sound(idx), NEW path \in Seq(Names), Resolve(idx, path) # None
  PROVE  PathOf(idx, Resolve(idx, path)) = path
<1>1. /\ idx.nodes \in [Ids -> Node \cup {NoNode}] /\ RootId \in Ids /\ None \notin Ids
      /\ idx.kids \in [Ids -> SUBSET (Names \X Ids)] /\ UniqueNames(idx.kids)
  BY IndexFields, RootIsId DEF Sound
<1>2. PICK g : /\ \A y \in Ids, k \in 0..64 : g[<<y, k>>] = PathUp(idx, g, y, k)
               /\ \A y \in Ids : PathOf(idx, y) = g[<<y, 64>>]
  BY <1>1, PathOfSteps
<1> DEFINE Forth(p) == Resolve(idx, p) # None => \A k \in 0..64 : Len(p) < k => g[<<Resolve(idx, p), k>>] = p
           T == {n \in Nat : \E p \in Seq(Names) : Len(p) = n /\ ~Forth(p)}
<1> HIDE DEF Forth
<1>3. ASSUME T # {} PROVE FALSE
  <2>1. PICK n \in T : \A j \in T : n <= j
    <3>1. T \in SUBSET Nat
      OBVIOUS
    <3> QED
      BY <1>3, <3>1, LeastNumber
  <2>2. PICK p \in Seq(Names) : Len(p) = n /\ ~Forth(p)
    BY <2>1
  <2> DEFINE y == Resolve(idx, p)
  <2>3. PICK k \in 0..64 : Len(p) < k /\ g[<<y, k>>] # p
    BY <2>2 DEF Forth
  <2>4. y # None
    BY <2>2 DEF Forth
  <2>5. y \in Ids /\ HasNode(idx, y) /\ idx.root = RootId /\ g[<<y, k>>] = PathUp(idx, g, y, k)
    BY <1>2, <2>4, ResolvePresent
  <2>6. k # 0 /\ k - 1 \in 0..64
    BY <2>3
  <2>7. CASE p = <<>>
    <3>1. y = RootId
      BY <1>1, <2>5, <2>7 DEF Resolve, WalkTo
    <3>2. idx.nodes[y].parent = None
      BY <2>5, <3>1 DEF Sound, RootKnown
    <3>3. g[<<y, k>>] = <<>>
      BY <2>5, <2>6, <3>2 DEF PathUp, HasNode
    <3> QED
      BY <2>3, <2>7, <3>3
  <2>8. CASE p # <<>>
    <3> DEFINE up == ParentPath(p)
               last == LastSegment(p)
    <3>1. up \in Seq(Names) /\ last \in Names /\ Len(up) = Len(p) - 1 /\ Len(p) \in Nat /\ Len(p) >= 1
      BY <2>8, PathShape
    <3>2. p = Append(up, last)
      BY <2>8 DEF ParentPath, LastSegment
    <3> HIDE DEF up, last
    <3>3. /\ Resolve(idx, up) \in Ids /\ <<last, y>> \in idx.kids[Resolve(idx, up)]
      <4>1. y = WalkTo(idx.kids, RootId, p) /\ Resolve(idx, up) = WalkTo(idx.kids, RootId, up)
        BY <1>1, <2>5 DEF Resolve
      <4> QED
        BY <1>1, <2>5, <2>8, <4>1, WalkToStep DEF up, last
    <3>4. idx.nodes[y].parent = Resolve(idx, up) /\ idx.nodes[y].name = last
      BY <2>5, <3>1, <3>3 DEF Sound, Fits
    <3>5. g[<<Resolve(idx, up), k - 1>>] = up
      <4>1. Len(up) \in Nat /\ Len(up) < n /\ n \in Nat
        BY <2>2, <3>1
      <4>2. ~Forth(up) => Len(up) \in T
        BY <3>1, <4>1
      <4>3. Len(up) \notin T
        BY <2>1, <4>1
      <4>4. Forth(up) /\ Len(up) < k - 1
        BY <2>3, <3>1, <4>2, <4>3
      <4> QED
        BY <1>1, <2>6, <3>3, <4>4 DEF Forth
    <3>6. up # None /\ idx.nodes[y].parent # None
      BY <1>1, <3>1, <3>3, <3>4, NoPathAssumption
    <3>7. g[<<y, k>>] = Append(up, last)
      BY <2>5, <2>6, <3>4, <3>5, <3>6 DEF PathUp, HasNode
    <3> QED
      BY <2>3, <3>2, <3>7
  <2> QED
    BY <2>7, <2>8
<1>4. Forth(path)
  <2>1. ~Forth(path) => Len(path) \in T
    OBVIOUS
  <2> QED
    BY <1>3, <2>1
<1>5. Len(path) < 64 /\ Resolve(idx, path) \in Ids
  BY PathsAreShort, ResolvePresent
<1>6. 64 \in 0..64 /\ Len(path) < 64
  BY <1>5
<1>7. g[<<Resolve(idx, path), 64>>] = path
  BY <1>4, <1>6 DEF Forth
<1>8. PathOf(idx, Resolve(idx, path)) = g[<<Resolve(idx, path), 64>>]
  BY <1>2, <1>5
<1> QED
  BY <1>7, <1>8

\* What the plugin's tree shows below a path opens as a folder.
LEMMA TreeOpens ==
  ASSUME NEW now, NEW idx, idx = live, live # Missing, Sound(idx), Typed(idx, now), Climbs(idx),
         NEW path \in Seq(Names), Resolve(idx, path) # None,
         NEW hit \in PluginTree(DirRows(idx), path), NEW child \in hit.children
  PROVE  \E down \in Lookup(idx, DirRows(idx), Append(path, child.name)) : down.id = child.id /\ down.dir
<1> DEFINE rows == DirRows(idx)
           x == Resolve(idx, path)
           row == Listed(x, idx.nodes[x].dir, IF idx.nodes[x].dir THEN ChildBlocks(idx, {x}) ELSE {})
<1>1. x \in Ids /\ Lookup(idx, rows, path) = {row}
  BY LookupIs
<1>2. Propfind(rows, path) = {row}
  BY <1>1 DEF Propfind, LookupFile, IsIndex
<1>3. child \in row.children /\ child.dir
  <2>1. hit = OnlyFolders(row)
    BY <1>2 DEF PluginTree
  <2>2. hit.children = {k \in row.children : k.dir}
    BY <2>1 DEF OnlyFolders, Listed
  <2> QED
    BY <2>2
<1>4. child \in ChildBlocks(idx, {x})
  <2>1. row.children = IF idx.nodes[x].dir THEN ChildBlocks(idx, {x}) ELSE {}
    BY DEF Listed
  <2> QED
    BY <1>3, <2>1
<1>5. PICK e \in idx.kids[x] : child = [name |-> e[1], id |-> e[2], dir |-> idx.nodes[e[2]].dir]
  BY <1>4 DEF ChildBlocks
<1>6. e = <<e[1], e[2]>> /\ e[1] \in Names /\ e[2] \in Ids
  BY <1>1, <1>5, IndexFields DEF Sound
<1>7. HasNode(idx, e[2]) /\ idx.nodes[e[2]].parent = x /\ idx.nodes[e[2]].name = e[1]
  BY <1>1, <1>5, <1>6 DEF Sound, Fits
<1> HIDE DEF rows, x, row
<1>8. Append(path, e[1]) \in Seq(Names) /\ Resolve(idx, Append(path, e[1])) = e[2]
  BY <1>1, <1>6, <1>7, ResolveChild DEF x
<1> DEFINE down == Listed(e[2], idx.nodes[e[2]].dir, IF idx.nodes[e[2]].dir THEN ChildBlocks(idx, {e[2]}) ELSE {})
<1>9. down \in Lookup(idx, rows, Append(path, e[1]))
  <2> DEFINE q == Append(path, e[1])
             c == e[2]
  <2>1. q \in Seq(Names) /\ c = Resolve(idx, q) /\ c # None
    BY <1>6, <1>8, RootIsId
  <2> HIDE DEF q, c
  <2>2. Lookup(idx, DirRows(idx), q) =
          {Listed(c, idx.nodes[c].dir, IF idx.nodes[c].dir THEN ChildBlocks(idx, {c}) ELSE {})}
    BY <2>1, LookupIs
  <2> QED
    BY <2>2 DEF q, c, rows
<1>10. down.id = child.id /\ down.dir /\ child.name = e[1]
  BY <1>3, <1>5 DEF Listed
<1> QED
  BY <1>9, <1>10 DEF rows

\* The invariants give the property of the runs about lookups.
LEMMA FeedMeansResolved == Inv /\ FeedInv => LookupsResolve
<1> SUFFICES ASSUME Inv, FeedInv, live # Missing PROVE LookupsResolve
  BY DEF LookupsResolve, IsIndex
<1> DEFINE rows == DirRows(live)
           found == UNION {SearchIndex(live, name) : name \in Names}
<1>1. Sound(live) /\ Typed(live, Now) /\ Climbs(live)
  BY LiveTold DEF FeedInv
<1>2. \A x \in Ids : (HasNode(live, x) /\ live.nodes[x].parent = None) => x = RootId
  BY <1>1 DEF Typed
<1>3. ReadPaths \subseteq Seq(Names)
  BY ReadPathsAssumption
<1>4. ASSUME NEW path \in ReadPaths
      PROVE  {hit.id : hit \in Lookup(live, rows, path)} = {Resolve(live, path)} \ {None}
  <2> DEFINE x == Resolve(live, path)
             row == Listed(x, live.nodes[x].dir, IF live.nodes[x].dir THEN ChildBlocks(live, {x}) ELSE {})
  <2>1. /\ x = None => Lookup(live, rows, path) = {}
        /\ x # None => Lookup(live, rows, path) = {row}
    BY <1>1, <1>3, LookupIs
  <2>2. row.id = x
    BY DEF Listed
  <2> HIDE DEF x, row, rows
  <2>3. {hit.id : hit \in Lookup(live, rows, path)} = {x} \ {None}
    BY <2>1, <2>2
  <2> QED
    BY <2>3 DEF x
<1>5. ASSUME NEW hit \in found PROVE Resolve(live, hit.path) = hit.id
  <2>1. PICK name \in Names : hit \in SearchIndex(live, name)
    BY <1>5
  <2>2. PICK x \in Present(live.nodes) : hit = [id |-> x, path |-> PathOf(live, x)] /\ hit.path # None
    BY <2>1 DEF SearchIndex
  <2>3. x \in Ids /\ PathOf(live, x) # None
    BY <2>2 DEF Present
  <2>4. Resolve(live, PathOf(live, x)) = x
    BY <1>1, <1>2, <2>3, PathOfResolves
  <2> QED
    BY <2>2, <2>4
<1>6. ASSUME NEW path \in ReadPaths \ {<<>>}, Resolve(live, path) # None
      PROVE  \E hit \in found : hit.path = path
  <2> DEFINE x == Resolve(live, path)
             hit == [id |-> x, path |-> PathOf(live, x)]
  <2>1. path \in Seq(Names) /\ path # None
    BY <1>3, NoPathAssumption
  <2>2. PathOf(live, x) = path
    BY <1>1, <1>6, <2>1, ResolvesPathOf
  <2>3. x \in Ids /\ HasNode(live, x) /\ live.nodes[x].parent \in Ids
    BY <1>1, <1>6, <2>1, ResolveFinds, ResolvePresent
  <2>4. live.nodes[x].name \in Names /\ live.nodes[x].parent # None /\ x \in Present(live.nodes)
    BY <1>1, <2>3, RootIsId DEF Sound, NamedBelow, Present, HasNode
  <2> HIDE DEF x
  <2>5. hit \in SearchIndex(live, live.nodes[x].name)
    BY <2>1, <2>2, <2>4 DEF SearchIndex
  <2>6. hit \in found /\ hit.path = path
    BY <2>2, <2>4, <2>5
  <2> QED
    BY <2>6
<1>7. ASSUME NEW path \in {p \in ReadPaths : Resolve(live, p) # None},
             NEW hit \in PluginTree(rows, path), NEW child \in hit.children
      PROVE  \E down \in Lookup(live, rows, Append(path, child.name)) : down.id = child.id /\ down.dir
  BY <1>1, <1>3, TreeOpens
<1> HIDE DEF rows, found
<1> QED
  BY <1>4, <1>5, <1>6, <1>7 DEF LookupsResolve, rows, found

(***************************************************************************)
(* In every live index, halfway through a crawl and after answers that did *)
(* not parse as well, a path leads to one entry and an entry has one path: *)
(* by the rows of the file, by the child sets and by the parent ids.       *)
(***************************************************************************)
THEOREM LookupsAlwaysResolve == ASSUME Orderly PROVE Spec => []LookupsResolve
<1>1. Inv /\ FeedInv => LookupsResolve
  BY FeedMeansResolved
<1> QED
  BY <1>1, FeedAlways, PTL

-----------------------------------------------------------------------------
(***************************************************************************)
(* The answer of a mutation, against the drive: its item has the place of  *)
(* its path, as long as the folder it went into exists.                    *)
(***************************************************************************)
CallPlaced(c, now) ==
    /\ c.op = "DELETE" => c.item = None
    /\ c.op \in {"PUT", "MKCOL"} => c.to = c.path
    /\ c.item # None =>
          /\ c.item.id # RootId /\ ~c.item.deleted /\ ~c.item.is_root
          /\ c.item.parent \in Folders /\ now.changed[c.item.parent] > 0
          /\ c.item.name = LastSegment(c.to)
          /\ On(now, c.item.parent) =>
                WalkTo(KidsOf(now.tree), RootId, ParentPath(c.to)) = c.item.parent

PlacedInv == DriveTree(Now) /\ (pc = "patch" => CallPlaced(call, Now))

\* The path of a folder stays its path for as long as the folder exists.
LEMMA FolderStays ==
  ASSUME NEW now, NEW next, Grows(now, next), NEW path \in Seq(Names), NEW p \in Folders,
         WalkTo(KidsOf(now.tree), RootId, path) = p, On(now, p), On(next, p)
  PROVE  WalkTo(KidsOf(next.tree), RootId, path) = p
<1> DEFINE G == {x \in Folders : On(now, x) /\ On(next, x)}
<1>1. DriveTree(now) /\ DriveTree(next)
  BY DEF Grows
<1>2. /\ KidsOf(now.tree) \in [Ids -> SUBSET (Names \X Ids)] /\ UniqueNames(KidsOf(now.tree))
      /\ KidsOf(next.tree) \in [Ids -> SUBSET (Names \X Ids)] /\ UniqueNames(KidsOf(next.tree))
      /\ RootId \in Ids
  BY <1>1, DriveKids, FolderIsItem
<1>3. WalkTo(KidsOf(now.tree), RootId, path) \in G \cap Ids
  BY FolderIsItem
<1>4. ASSUME NEW q \in Ids, NEW c \in Ids, NEW m \in Names, c \in G, <<m, c>> \in KidsOf(now.tree)[q]
      PROVE  q \in G /\ <<m, c>> \in KidsOf(next.tree)[q]
  <2>1. c # RootId /\ On(now, c) /\ On(next, c) /\ now.tree[c].parent = q /\ now.tree[c].name = m
    BY <1>1, <1>4, DriveKids
  <2>2. now.changed[c] > 0 /\ now.changed[c] \in Nat
    BY <1>1, <2>1 DEF DriveTree
  <2>3. next.tree[c] = now.tree[c]
    BY <1>4, <2>1, <2>2 DEF Grows
  <2>4. q \in Folders /\ On(now, q) /\ On(next, q)
    BY <1>1, <2>1, <2>3 DEF DriveTree
  <2> QED
    BY <1>1, <1>4, <2>1, <2>3, <2>4, DriveKids
<1> HIDE DEF G
<1>5. WalkTo(KidsOf(next.tree), RootId, path) = WalkTo(KidsOf(now.tree), RootId, path)
  BY <1>2, <1>3, <1>4, WalkAgree
<1> QED
  BY <1>5

\* So does the place of an answer.
LEMMA PlacedGrows ==
  ASSUME NEW now, NEW next, Grows(now, next), NEW c \in Call, CallPlaced(c, now)
  PROVE  CallPlaced(c, next)
<1>1. ASSUME c.item # None
      PROVE  /\ next.changed[c.item.parent] > 0
             /\ On(next, c.item.parent) =>
                   WalkTo(KidsOf(next.tree), RootId, ParentPath(c.to)) = c.item.parent
  <2> DEFINE p == c.item.parent
  <2>1. p \in Folders /\ now.changed[p] > 0 /\ p \in ItemIds
    BY <1>1, FolderIsItem DEF CallPlaced
  <2>2. next.changed[p] > 0
    <3>1. now.changed[p] \in Nat /\ next.changed[p] \in Nat /\ now.changed[p] <= next.changed[p]
      BY <2>1 DEF Grows, DriveTree
    <3> QED
      BY <2>1, <3>1
  <2>3. On(next, p) => On(now, p)
    BY <2>1 DEF Grows
  <2>4. ParentPath(c.to) \in Seq(Names)
    BY PathParts DEF Call
  <2>5. On(now, p) => WalkTo(KidsOf(now.tree), RootId, ParentPath(c.to)) = p
    BY <1>1 DEF CallPlaced
  <2> HIDE DEF p
  <2>6. On(next, p) => WalkTo(KidsOf(next.tree), RootId, ParentPath(c.to)) = p
    BY <2>1, <2>3, <2>4, <2>5, FolderStays
  <2> QED
    BY <2>2, <2>6 DEF p
<1> QED
  BY <1>1 DEF CallPlaced

\* Where Graph put an item, its answer says.
LEMMA AnswerPlaced ==
  ASSUME Grows(Now, Now'), NEW op \in {"PUT", "MKCOL", "MOVE"}, NEW path \in Paths, NEW to \in Paths,
         op \in {"PUT", "MKCOL"} => to = path,
         NEW x \in ItemIds \ {RootId}, NEW item \in Answers(x), Called(op, path, to, item),
         NEW p \in Folders, p = RemoteAt(ParentPath(to)), On(Now, p),
         Now'.tree[x] = [parent |-> p, name |-> LastSegment(to), dir |-> x \in Folders]
  PROVE  PlacedInv'
<1>1. /\ call' = [op |-> op, path |-> path, to |-> to, item |-> item] /\ pc' = "patch"
  BY DEF Called
<1>2. DriveTree(Now) /\ DriveTree(Now')
  BY DEF Grows
<1>3. On(Now', x) /\ x \in Ids
  <2>1. LastSegment(to) \in Names /\ p \in Ids /\ x \in Ids
    BY PathParts, FolderIsItem
  <2>2. [parent |-> p, name |-> LastSegment(to), dir |-> x \in Folders] \in Node
    BY <2>1 DEF Node
  <2> QED
    BY <2>1, <2>2, RootIsId DEF On
<1>4. item = ItemOf(Now'.tree, x) \/ item = None
  BY DEF Answers, Now
<1>5. item # None =>
        /\ item.id = x /\ ~item.deleted /\ ~item.is_root /\ item.parent = p /\ item.name = LastSegment(to)
  <2>1. Now'.tree[x] # NoNode /\ Now'.tree[x].parent = p /\ Now'.tree[x].name = LastSegment(to)
    BY <1>3 DEF On
  <2> DEFINE it == ItemOf(Now'.tree, x)
  <2>2. /\ it.id = x /\ it.deleted = (Now'.tree[x] = NoNode) /\ it.is_root = (x = RootId)
        /\ it.parent = IF Now'.tree[x] = NoNode THEN None ELSE Now'.tree[x].parent
        /\ it.name = IF Now'.tree[x] = NoNode THEN None ELSE Now'.tree[x].name
    BY DEF ItemOf
  <2>3. item = it \/ item = None
    BY <1>4
  <2> HIDE DEF it
  <2> QED
    BY <2>1, <2>2, <2>3
<1>6. Now'.changed[p] > 0
  <2>1. p \in ItemIds
    BY FolderIsItem
  <2>2. /\ Now.changed[p] > 0 /\ Now.changed[p] \in Nat /\ Now'.changed[p] \in Nat
        /\ Now.changed[p] <= Now'.changed[p]
    BY <1>2, <2>1, FolderIsItem DEF DriveTree, Grows
  <2> QED
    BY <2>2
<1>7. On(Now', p) => WalkTo(KidsOf(Now'.tree), RootId, ParentPath(to)) = p
  <2>1. WalkTo(KidsOf(Now.tree), RootId, ParentPath(to)) = p /\ ParentPath(to) \in Seq(Names)
    BY <1>2, RemotePaths, PathParts
  <2> QED
    BY <2>1, FolderStays
<1>8. CallPlaced(call', Now')
  BY <1>1, <1>5, <1>6, <1>7 DEF CallPlaced
<1> QED
  BY <1>1, <1>2, <1>8 DEF PlacedInv

\* PUT.
LEMMA CallPutPlaced == ASSUME DriveTree(Now), NEW path \in Paths, CallPut(path) PROVE PlacedInv'
<1>1. PICK x \in ItemIds : PutContent(x, path) /\ \E item \in Answers(x) : Called("PUT", path, path, item)
  BY DEF CallPut
<1>2. PICK item \in Answers(x) : Called("PUT", path, path, item)
  BY <1>1
<1> DEFINE p == RemoteAt(ParentPath(path))
<1>3. /\ Grows(Now, Now') /\ x # RootId /\ p \in Folders /\ On(Now, p)
      /\ Now'.tree[x] = [parent |-> p, name |-> LastSegment(path), dir |-> x \in Folders]
  BY <1>1, PutPlaces
<1>4. x \in ItemIds \ {RootId} /\ "PUT" \in {"PUT", "MKCOL", "MOVE"}
  BY <1>3
<1> QED
  BY <1>2, <1>3, <1>4, AnswerPlaced

\* MKCOL.
LEMMA CallMkcolPlaced == ASSUME DriveTree(Now), NEW path \in Paths, CallMkcol(path) PROVE PlacedInv'
<1>1. PICK x \in ItemIds : CreateFolder(x, path) /\ \E item \in Answers(x) : Called("MKCOL", path, path, item)
  BY DEF CallMkcol
<1>2. PICK item \in Answers(x) : Called("MKCOL", path, path, item)
  BY <1>1
<1> DEFINE p == RemoteAt(ParentPath(path))
<1>3. /\ Grows(Now, Now') /\ x # RootId /\ p \in Folders /\ On(Now, p)
      /\ Now'.tree[x] = [parent |-> p, name |-> LastSegment(path), dir |-> x \in Folders]
  BY <1>1, MkcolPlaces
<1>4. x \in ItemIds \ {RootId} /\ "MKCOL" \in {"PUT", "MKCOL", "MOVE"}
  BY <1>3
<1> QED
  BY <1>2, <1>3, <1>4, AnswerPlaced

\* MOVE, of a file.
LEMMA CallMovePlaced ==
  ASSUME FilesMove, DriveTree(Now), NEW path \in Paths, NEW to \in Paths, CallMove(path, to)
  PROVE  PlacedInv'
<1> DEFINE x == RemoteAt(path)
           p == RemoteAt(ParentPath(to))
<1>1. MoveOrRename(path, to) /\ \E item \in Answers(x) : Called("MOVE", path, to, item)
  BY DEF CallMove
<1>2. PICK item \in Answers(x) : Called("MOVE", path, to, item)
  BY <1>1
<1>3. /\ Grows(Now, Now') /\ x \in ItemIds /\ x # RootId /\ p \in Folders /\ On(Now, p)
      /\ Now'.tree[x] = [parent |-> p, name |-> LastSegment(to), dir |-> x \in Folders]
  BY <1>1, MovePlaces
<1>4. x \in ItemIds \ {RootId} /\ "MOVE" \in {"PUT", "MKCOL", "MOVE"} /\ p = RemoteAt(ParentPath(to))
      /\ ("MOVE" \in {"PUT", "MKCOL"} => to = path)
  BY <1>3
<1> HIDE DEF x, p
<1> QED
  BY <1>2, <1>3, <1>4, AnswerPlaced

\* DELETE has no item.
LEMMA CallDeletePlaced == ASSUME DriveTree(Now), NEW path \in Paths, CallDelete(path) PROVE PlacedInv'
<1>1. DeleteAt(path) /\ call' = [op |-> "DELETE", path |-> path, to |-> path, item |-> None]
  BY DEF CallDelete, Called
<1>2. CASE RemoteAt(path) # None
  <2>1. RemoteAt(path) \in Ids /\ Delete(RemoteAt(path))
    BY <1>1, <1>2, RemoteAtIsId DEF DeleteAt
  <2>2. Grows(Now, Now')
    BY <2>1, DeletedGrows
  <2> QED
    BY <1>1, <2>2 DEF PlacedInv, CallPlaced, Grows
<1>3. CASE RemoteAt(path) = None
  <2>1. UNCHANGED driveVars
    BY <1>1, <1>3 DEF DeleteAt
  <2>2. Grows(Now, Now')
    BY <2>1, StayGrows
  <2> QED
    BY <1>1, <2>2 DEF PlacedInv, CallPlaced, Grows
<1> QED
  BY <1>2, <1>3

\* The invariant of an answer is inductive.
LEMMA PlacedStep == ASSUME FilesMove PROVE Inv /\ PlacedInv /\ [Next]_vars => PlacedInv'
<1> SUFFICES ASSUME Inv, PlacedInv, [Next]_vars PROVE PlacedInv'
  OBVIOUS
<1>0. DriveTree(Now)
  BY DEF PlacedInv
<1>1. CASE TickStep \/ FetchResync \/ LoseInvocation \/ Patch
  <2>1. UNCHANGED driveVars /\ pc' # "patch"
    BY <1>1 DEF TickStep, BeginTick, FetchPage, ApplyItem, TakeNextLink, TakeDeltaLink, StopFetching,
       Save, FinishTick, FetchResync, LoseInvocation, Patch
  <2> QED
    BY <1>0, <2>1, StayGrows DEF PlacedInv, Grows
<1>2. CASE ClientCall
  BY <1>0, <1>2, CallPutPlaced, CallMkcolPlaced, CallDeletePlaced, CallMovePlaced DEF ClientCall
<1>3. CASE RemoteChange
  <2>1. Grows(Now, Now') /\ UNCHANGED <<pc, call>>
    BY <1>0, <1>3, OtherDeviceGrows DEF RemoteChange
  <2>2. pc = "patch" => call \in Call
    BY DEF Inv, PcOK, CallOK
  <2> QED
    BY <2>1, <2>2, PlacedGrows DEF PlacedInv, Grows
<1>4. CASE UNCHANGED vars
  <2>1. UNCHANGED driveVars /\ UNCHANGED <<pc, call>>
    BY <1>4 DEF vars, driveVars
  <2>2. Now' = Now
    BY <1>0, <2>1, StayGrows
  <2> QED
    BY <2>1, <2>2 DEF PlacedInv
<1> QED
  BY <1>1, <1>2, <1>3, <1>4 DEF Next

\* An index that is the drive is the drive after a save and a load.
LEMMA DriveReloads ==
  ASSUME DriveTree(Now), NEW idx, Sound(idx), idx.nodes = remote
  PROVE  Reload(idx).nodes = remote
<1>1. Typed(idx, Now)
  <2>1. /\ \A x \in Ids : On(Now, x) =>
             /\ x \in ItemIds /\ Now.tree[x].dir = (x \in Folders) /\ Now.changed[x] > 0
             /\ x # RootId => Now.tree[x].parent \in Folders /\ On(Now, Now.tree[x].parent)
        /\ Now.tree[RootId].parent = None
    BY RootNodeIs DEF DriveTree
  <2>2. Now.tree = remote /\ \A x \in Ids : HasNode(idx, x) <=> On(Now, x)
    BY DEF Now, HasNode, On
  <2>3. \A f \in Folders : f \in Ids /\ f \in ItemIds /\ f \notin LocalIds
    BY FolderIsItem
  <2> QED
    BY <2>1, <2>2, <2>3, FolderIsItem DEF Typed
<1>2. \A c \in Ids : Reload(idx).nodes[c] = IF c \in Up(idx.nodes) THEN idx.nodes[c] ELSE NoNode
  BY <1>1, ReloadNodes
<1>3. Present(idx.nodes) \subseteq Up(idx.nodes)
  <2>1. Now.tree = remote /\ Present(Now.tree) \subseteq Climb(Now.tree, {RootId})
    BY DEF DriveTree, Now
  <2>2. {x \in Present(Now.tree) : Now.tree[x].parent = None} = {RootId}
    <3>1. RootId \in Present(Now.tree) /\ Now.tree[RootId].parent = None
      BY RootNodeIs, FolderIsItem DEF DriveTree, Present
    <3>2. \A x \in Present(Now.tree) : x # RootId => Now.tree[x].parent # None
      BY FolderIsItem DEF DriveTree, Present, On
    <3> QED
      BY <3>1, <3>2
  <2> QED
    BY <2>1, <2>2 DEF Up
<1>4. \A c \in Ids : Reload(idx).nodes[c] = idx.nodes[c]
  BY <1>2, <1>3 DEF Present
<1>5. Reload(idx).nodes \in [Ids -> Node \cup {NoNode}] /\ idx.nodes \in [Ids -> Node \cup {NoNode}]
  BY ReloadSound, IndexFields DEF Sound
<1> QED
  BY <1>4, <1>5

\* The answer, applied to an index that has everything else right, makes it the drive.
LEMMA AnswerCompletes ==
  ASSUME DriveTree(Now), NEW idx, Sound(idx), \A y \in LocalIds : idx.nodes[y] = NoNode,
         NEW it, GoodItem(it), Entering(it), it.id # RootId, it = ItemOf(remote, it.id), it.id \in ItemIds,
         Differing(idx) \subseteq {it.id}
  PROVE  Sound(Apply(idx, it)) /\ Apply(idx, it).nodes = remote /\ Apply(idx, it).root = idx.root
<1> DEFINE x == it.id
           new == Apply(idx, it)
<1>1. Sound(new)
  BY ApplySound
<1>2. /\ \A c \in Ids : c # x => idx.nodes[c] = remote[c]
      /\ remote \in [Ids -> Node \cup {NoNode}] /\ x \in Ids /\ Now.tree = remote
  <2>1. \A c \in ItemIds : c # x => idx.nodes[c] = remote[c]
    BY DEF Differing
  <2>2. \A c \in LocalIds : remote[c] = NoNode
    BY FolderIsItem DEF DriveTree, On, Now
  <2> QED
    BY <2>1, <2>2, FolderIsItem DEF DriveTree, Now
<1>3. /\ remote[x] # NoNode /\ it.parent = remote[x].parent /\ it.name = remote[x].name
      /\ it.dir = (x \in Folders) /\ remote[x].dir = (x \in Folders)
  <2> DEFINE its == ItemOf(remote, x)
  <2>1. /\ its.deleted = (remote[x] = NoNode)
        /\ its.parent = IF remote[x] = NoNode THEN None ELSE remote[x].parent
        /\ its.name = IF remote[x] = NoNode THEN None ELSE remote[x].name
        /\ its.dir = (x \in Folders)
    BY DEF ItemOf
  <2>2. it = its
    OBVIOUS
  <2>3. remote[x] # NoNode
    BY <2>1, <2>2 DEF Entering
  <2>4. remote[x].dir = (x \in Folders)
    BY <1>2, <2>3 DEF DriveTree, On
  <2> HIDE DEF its
  <2> QED
    BY <2>1, <2>2, <2>3, <2>4
<1>4. PICK gone \in SUBSET (Ids \ {RootId}) :
        /\ \A c \in Ids \ {it.id} : new.nodes[c] = IF c \in gone THEN NoNode ELSE idx.nodes[c]
        /\ new.nodes[it.id] = [parent |-> it.parent, name |-> it.name, dir |-> it.dir]
        /\ new.root = idx.root
        /\ GoesOnly(gone, idx, it)
  BY EnterEffect
<1>5. gone \subseteq {}
  <2>1. ASSUME NEW c \in Ids \ {it.id}, HasNode(idx, c),
               idx.nodes[c].parent = it.parent, idx.nodes[c].name = it.name
        PROVE  FALSE
    <3>1. On(Now, c) /\ Now.tree[c] = idx.nodes[c] /\ On(Now, x)
      BY <1>2, <1>3, <2>1 DEF HasNode, On
    <3>2. c # RootId
      <4>1. Now.tree[RootId].parent = None /\ it.parent # None
        BY RootNodeIs DEF DriveTree, Entering
      <4> QED
        BY <2>1, <3>1, <4>1
    <3>3. Now.tree[c].parent = Now.tree[x].parent /\ Now.tree[c].name = Now.tree[x].name
      BY <1>2, <1>3, <2>1, <3>1
    <3>4. c = x
      BY <1>2, <3>1, <3>2, <3>3 DEF DriveTree
    <3> QED
      BY <2>1, <3>4
  <2>2. \A S : (/\ \A c \in Ids \ {it.id} :
                      (/\ HasNode(idx, c)
                       /\ idx.nodes[c].parent = it.parent /\ idx.nodes[c].name = it.name) => c \in S
                /\ \A c \in Ids : (HasNode(idx, c) /\ idx.nodes[c].parent \in S) => c \in S)
                  => gone \subseteq S
    BY <1>4 DEF GoesOnly
  <2> DEFINE none == {}
  <2>3. /\ \A c \in Ids \ {it.id} :
              (/\ HasNode(idx, c)
               /\ idx.nodes[c].parent = it.parent /\ idx.nodes[c].name = it.name) => c \in none
        /\ \A c \in Ids : (HasNode(idx, c) /\ idx.nodes[c].parent \in none) => c \in none
    BY <2>1
  <2> HIDE DEF none
  <2>4. gone \subseteq none
    BY <2>2, <2>3, Zenon
  <2> QED
    BY <2>4 DEF none
<1> HIDE DEF new
<1>6. new.nodes[x] = remote[x]
  <2>1. new.nodes[x].parent = it.parent /\ new.nodes[x].name = it.name /\ new.nodes[x].dir = it.dir
    BY <1>4
  <2>2. new.nodes \in [Ids -> Node \cup {NoNode}]
    BY <1>1, IndexFields DEF Sound
  <2>3. it.parent \in Ids /\ it.name \in Names /\ it.dir \in BOOLEAN
    BY DEF GoodItem, Entering, DeltaItem
  <2>4. [parent |-> it.parent, name |-> it.name, dir |-> it.dir] \in Node
    BY <2>3 DEF Node
  <2>5. new.nodes[x] \in Node
    BY <1>4, <2>4
  <2>6. remote[x] \in Node
    BY <1>2, <1>3
  <2> QED
    BY <1>3, <2>1, <2>5, <2>6, NodesAgree
<1>7. \A c \in Ids : new.nodes[c] = remote[c]
  BY <1>2, <1>4, <1>5, <1>6
<1>8. new.nodes \in [Ids -> Node \cup {NoNode}]
  BY <1>1, IndexFields DEF Sound
<1>9. new.nodes = remote
  BY <1>2, <1>7, <1>8
<1> QED
  BY <1>1, <1>4, <1>9 DEF new

\* In an index that is the drive the answer's item is found at its path.
LEMMA AnswerFound ==
  ASSUME DriveTree(Now), NEW idx, Sound(idx), idx.nodes = remote, idx.root # None,
         NEW c \in Call, CallPlaced(c, Now), c.item # None, c.item.id \in ItemIds,
         c.item = ItemOf(remote, c.item.id)
  PROVE  Resolve(idx, c.to) = c.item.id
<1> DEFINE it == c.item
           x == it.id
           p == it.parent
<1>1. /\ idx.root = RootId /\ idx.kids = KidsOf(Now.tree) /\ Now.tree = remote
  BY SoundIsMatched, RootIsId DEF Sound, RootKnown, Matched, Now
<1>2. /\ c.to \in Seq(Names) /\ c.to # <<>> /\ LastSegment(c.to) \in Names /\ RootId \in Ids /\ x \in Ids
      /\ c.to \in Paths
  BY PathParts, FolderIsItem DEF Call
<1>3. On(Now, x) /\ Now.tree[x].parent = p /\ Now.tree[x].name = LastSegment(c.to) /\ x # RootId
  <2> DEFINE its == ItemOf(remote, x)
  <2>1. /\ its.deleted = (remote[x] = NoNode)
        /\ its.parent = IF remote[x] = NoNode THEN None ELSE remote[x].parent
        /\ its.name = IF remote[x] = NoNode THEN None ELSE remote[x].name
    BY DEF ItemOf
  <2>2. it = its
    OBVIOUS
  <2>3. ~it.deleted /\ it.name = LastSegment(c.to) /\ it.id # RootId
    BY DEF CallPlaced
  <2> HIDE DEF its
  <2> QED
    BY <1>1, <2>1, <2>2, <2>3 DEF On
<1>4. p \in Folders /\ On(Now, p) /\ p \in Ids
  BY <1>2, <1>3, FolderIsItem DEF DriveTree
<1>5. WalkTo(KidsOf(Now.tree), RootId, ParentPath(c.to)) = p
  BY <1>4 DEF CallPlaced
<1> HIDE DEF it, x, p
<1>6. RemoteAt(c.to) = x
  BY <1>2, <1>3, <1>4, <1>5, RemotePaths
<1>7. WalkTo(KidsOf(Now.tree), RootId, c.to) = x
  BY <1>2, <1>6, RemotePaths
<1>8. Resolve(idx, c.to) = x
  BY <1>1, <1>2, <1>7, FolderIsItem DEF Resolve
<1> QED
  BY <1>8 DEF x, it

\* What DELETE's patch removes is all that differs.
LEMMA DeleteCompletes ==
  ASSUME DriveTree(Now), NEW idx, Sound(idx), \A y \in LocalIds : idx.nodes[y] = NoNode,
         NEW id \in Ids, Differing(idx) \subseteq Below(idx.kids, id),
         \A y \in Below(idx.kids, id) : remote[y] = NoNode
  PROVE  Remove(idx, id).nodes = remote
<1> DEFINE gone == Below(idx.kids, id)
           new == Remove(idx, id)
<1>1. new \in Index /\ \A c \in Ids : new.nodes[c] = IF c \in gone THEN NoNode ELSE idx.nodes[c]
  BY RemoveFields DEF Sound
<1>2. remote \in [Ids -> Node \cup {NoNode}] /\ \A c \in LocalIds : remote[c] = NoNode
  BY FolderIsItem DEF DriveTree, On, Now
<1>3. \A c \in ItemIds : idx.nodes[c] # remote[c] => c \in gone
  BY DEF Differing
<1>4. new.nodes \in [Ids -> Node \cup {NoNode}]
  BY <1>1, IndexFields
<1> HIDE DEF new, gone
<1>5. ASSUME NEW c \in Ids PROVE new.nodes[c] = remote[c]
  <2>1. CASE c \in gone
    BY <1>1, <2>1 DEF gone
  <2>2. CASE c \notin gone /\ c \in ItemIds
    BY <1>1, <1>3, <2>2
  <2>3. CASE c \notin gone /\ c \in LocalIds
    BY <1>1, <1>2, <2>3
  <2> QED
    BY <2>1, <2>2, <2>3, FolderIsItem
<1> QED
  BY <1>2, <1>4, <1>5 DEF new

\* The patch that completes the live index is saved.
LEMMA PatchCompletes ==
  ASSUME Inv, PlacedInv, Patch, live # Missing, live.root # None,
         \A y \in LocalIds : live.nodes[y] = NoNode, OnlyTheCallDiffers
  PROVE  live'.nodes = remote
<1>1. /\ Sound(live) /\ call \in Call /\ (call.item # None => GoodItem(call.item))
      /\ DriveTree(Now) /\ CallPlaced(call, Now) /\ call.op \in {"PUT", "MKCOL", "DELETE", "MOVE"}
  BY DEF Patch, Inv, PcOK, CallOK, FileOK, PlacedInv, Call
<1> DEFINE edit == Patched(live, call)
<1>2. edit.ok => live' = Reload(edit.idx)
  BY DEF Patch, WriteIndex
<1>3. Sound(edit.idx)
  BY <1>1, PatchedSound
<1>4. SUFFICES edit.ok /\ edit.idx.nodes = remote
  <2> HIDE DEF edit
  <2> QED
    BY <1>1, <1>2, <1>3, DriveReloads
<1>5. CASE call.op = "DELETE"
  <2> DEFINE id == Resolve(live, call.path)
  <2>1. /\ id # None
        /\ Differing(live) \subseteq Below(live.kids, id)
        /\ \A y \in Below(live.kids, id) : remote[y] = NoNode
    BY <1>5 DEF OnlyTheCallDiffers
  <2>2. id \in Ids
    <3>1. call.path \in Seq(Names)
      BY <1>1, PathParts DEF Call
    <3> QED
      BY <1>1, <2>1, <3>1, ResolvePresent
  <2>3. edit = Edit(TRUE, Remove(live, id))
    BY <1>5, <2>1 DEF Patched, RemoveAtPath
  <2>4. edit.ok = TRUE /\ edit.idx = Remove(live, id)
    BY <2>3 DEF Edit
  <2> HIDE DEF id, edit
  <2>5. Remove(live, id).nodes = remote
    BY <1>1, <2>1, <2>2, DeleteCompletes
  <2> QED
    BY <2>4, <2>5
<1>6. CASE call.op # "DELETE"
  <2> DEFINE it == call.item
             applied == Apply(live, it)
  <2>1. it # None /\ Differing(live) \subseteq {it.id} /\ it = ItemOf(remote, it.id)
    BY <1>6 DEF OnlyTheCallDiffers
  <2>2. /\ GoodItem(it) /\ it.id # RootId /\ ~it.deleted /\ ~it.is_root /\ it.parent \in Folders
        /\ it.id \in Ids
    BY <1>1, <2>1 DEF CallPlaced, GoodItem, DeltaItem
  <2>3. Entering(it)
    BY <2>2, FolderIsItem DEF Entering
  <2>4. it.id \in ItemIds
    <3> SUFFICES ASSUME it.id \in LocalIds PROVE FALSE
      BY <2>2, FolderIsItem
    <3>1. remote[it.id] = NoNode
      BY <1>1, <2>2, FolderIsItem DEF DriveTree, On, Now
    <3> DEFINE its == ItemOf(remote, it.id)
    <3>2. its.deleted = (remote[it.id] = NoNode)
      BY DEF ItemOf
    <3>3. it = its
      BY <2>1
    <3> HIDE DEF its, it
    <3> QED
      BY <2>2, <3>1, <3>2, <3>3
  <2>5. Sound(applied) /\ applied.nodes = remote /\ applied.root = live.root
    BY <1>1, <2>1, <2>2, <2>3, <2>4, AnswerCompletes
  <2>6. Resolve(applied, call.to) = it.id
    <3> HIDE DEF applied
    <3> QED
      BY <1>1, <2>1, <2>4, <2>5, AnswerFound
  <2>7. Resolve(applied, call.to) # None
    BY <2>2, <2>6, FolderIsItem
  <2>8. CASE call.op \in {"PUT", "MKCOL"}
    <3>1. call.to = call.path
      BY <1>1, <2>8 DEF CallPlaced
    <3>2. /\ ApplyOrUpsert(live, it, call.path, FALSE) = Edit(TRUE, applied)
          /\ ApplyOrUpsert(live, it, call.path, TRUE) = Edit(TRUE, applied)
      BY <2>1, <2>7, <3>1 DEF ApplyOrUpsert
    <3>3. edit = Edit(TRUE, applied)
      <4>1. \/ Patched(live, call) = ApplyOrUpsert(live, call.item, call.path, FALSE)
            \/ Patched(live, call) = ApplyOrUpsert(live, call.item, call.path, TRUE)
        BY <2>8 DEF Patched
      <4> QED
        BY <3>2, <4>1, Zenon
    <3>4. edit.ok = TRUE /\ edit.idx = applied
      BY <3>3 DEF Edit
    <3> QED
      BY <2>5, <3>4
  <2>9. CASE call.op = "MOVE"
    <3>1. ApplyOrMove(live, it, call.path, call.to) = Edit(TRUE, applied)
      BY <2>1, <2>7 DEF ApplyOrMove
    <3>2. edit = Edit(TRUE, applied)
      <4>1. Patched(live, call) = ApplyOrMove(live, call.item, call.path, call.to)
        BY <2>9 DEF Patched
      <4> QED
        BY <3>1, <4>1, Zenon
    <3>3. edit.ok = TRUE /\ edit.idx = applied
      BY <3>2 DEF Edit
    <3> QED
      BY <2>5, <3>3
  <2> QED
    BY <1>1, <1>6, <2>8, <2>9
<1> QED
  BY <1>5, <1>6

(***************************************************************************)
(* README: "Local PUT/MKCOL/DELETE/MOVE patch the snapshot immediately."   *)
(* Where folders do not move, whatever the index shows for a type, and in  *)
(* whatever order the feed comes: if the live index differs from the drive *)
(* only in what the mutation changed, the patch is saved and the live      *)
(* index, as it then loads, is the drive.                                  *)
(***************************************************************************)
THEOREM PatchesAtOnce == ASSUME FilesMove PROVE Spec => PatchedAtOnce
<1>1. Init => Inv /\ PlacedInv
  <2>1. Init => pc # "patch" /\ DriveInit
    BY DEF Init
  <2> QED
    BY <2>1, InitInv, DriveStarts DEF PlacedInv
<1>2. Inv /\ PlacedInv /\ [Next]_vars => (Inv /\ PlacedInv)'
  BY StepInv, PlacedStep
<1>3. Inv /\ PlacedInv /\ [Next]_vars =>
        [(/\ pc = "patch" /\ pc' = "idle" /\ faults' = faults
          /\ IsIndex(live) /\ live.root # None
          /\ \A x \in LocalIds : live.nodes[x] = NoNode
          /\ OnlyTheCallDiffers) => live'.nodes = remote]_vars
  <2> SUFFICES ASSUME Inv, PlacedInv, Next, pc = "patch", pc' = "idle", faults' = faults,
                      live # Missing, live.root # None,
                      \A x \in LocalIds : live.nodes[x] = NoNode, OnlyTheCallDiffers
               PROVE  live'.nodes = remote
    BY DEF IsIndex
  <2>1. ~LoseInvocation
    BY DEF LoseInvocation, Fault, Inv
  <2>2. ~TickStep /\ ~FetchResync
    BY DEF TickStep, BeginTick, FetchPage, ApplyItem, TakeNextLink, TakeDeltaLink, StopFetching,
       Save, FinishTick, FetchResync
  <2>3. ~ClientCall /\ ~RemoteChange
    BY DEF ClientCall, CallPut, CallMkcol, CallDelete, CallMove, Called, RemoteChange
  <2>4. Patch
    BY <2>1, <2>2, <2>3 DEF Next
  <2> QED
    BY <2>4, PatchCompletes
<1> QED
  BY <1>1, <1>2, <1>3, PTL DEF Spec, PatchedAtOnce
=============================================================================
