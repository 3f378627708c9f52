-------------------------- MODULE IndexTreeProofs --------------------------
(***************************************************************************)
(* What the operations on the index preserve, for every index, item and    *)
(* path.  The properties of the runs are stated of whole child sets; the   *)
(* proofs use their elementwise form, Fits.                                *)
(***************************************************************************)
EXTENDS IndexTree, TLAPS, WellFoundedInduction, SequenceTheorems

HasNode(idx, c) == idx.nodes[c] # NoNode

\* Child sets and parent ids, entry by entry.
Fits(idx) ==
    \A p, c \in Ids, m \in Names :
        <<m, c>> \in idx.kids[p] <=>
            HasNode(idx, c) /\ idx.nodes[c].parent = p /\ idx.nodes[c].name = m

\* An entry with a parent has a name.
NamedBelow(idx) ==
    \A c \in Ids : (HasNode(idx, c) /\ idx.nodes[c].parent \in Ids) => idx.nodes[c].name \in Names

\* The root is recorded when it is there, and before that no entry is without parent.
RootKnown(idx) ==
    /\ idx.root \in {None, RootId}
    /\ idx.root = RootId <=> HasNode(idx, RootId)
    /\ HasNode(idx, RootId) => idx.nodes[RootId].parent = None
    /\ idx.root = None => \A c \in Ids : HasNode(idx, c) => idx.nodes[c].parent # None

(***************************************************************************)
(* The inductive invariant of an index.                                    *)
(***************************************************************************)
Sound(idx) ==
    /\ idx \in Index
    /\ Fits(idx) /\ NamedBelow(idx) /\ UniqueNames(idx.kids)
    /\ RootKnown(idx)

\* What Graph may say: the root is never reported deleted, and others have a name.
GoodItem(it) ==
    /\ it \in DeltaItem
    /\ it.is_root <=> it.id = RootId
    /\ it.deleted => it.id # RootId
    /\ (~it.deleted /\ ~it.is_root /\ it.parent # None) => it.name \in Names

-----------------------------------------------------------------------------
\* The root is an id; None is neither an id nor a name, NoNode no node.
LEMMA RootIsId == RootId \in Ids /\ None \notin Ids /\ None \notin Names /\ NoNode \notin Node
  BY RootAssumption, FreshValuesAssumption DEF Ids

\* The types of the tree's three fields.
LEMMA IndexFields ==
  ASSUME NEW idx \in Index
  PROVE  /\ idx.nodes \in [Ids -> Node \cup {NoNode}]
         /\ idx.kids \in [Ids -> SUBSET (Names \X Ids)]
         /\ idx.root \in Ids \cup {None}
  BY DEF Index

\* The elementwise form says that the child map is the one of the node map.
LEMMA SoundIsMatched == ASSUME NEW idx, Sound(idx) PROVE Matched(idx)
<1>1. ASSUME NEW p \in Ids PROVE idx.kids[p] = KidsOf(idx.nodes)[p]
  <2>1. KidsOf(idx.nodes)[p] =
          {<<idx.nodes[c].name, c>> : c \in {d \in Present(idx.nodes) : idx.nodes[d].parent = p}}
    BY DEF KidsOf
  <2>2. ASSUME NEW e \in idx.kids[p] PROVE e \in KidsOf(idx.nodes)[p]
    <3>1. PICK m \in Names, c \in Ids : e = <<m, c>>
      BY IndexFields DEF Sound
    <3>2. HasNode(idx, c) /\ idx.nodes[c].parent = p /\ idx.nodes[c].name = m
      BY <3>1, <2>2 DEF Sound, Fits
    <3> QED
      BY <2>1, <3>1, <3>2 DEF HasNode, Present
  <2>3. ASSUME NEW e \in KidsOf(idx.nodes)[p] PROVE e \in idx.kids[p]
    <3>1. PICK c \in Ids : HasNode(idx, c) /\ idx.nodes[c].parent = p /\ e = <<idx.nodes[c].name, c>>
      BY <2>1, <2>3 DEF HasNode, Present
    <3>2. idx.nodes[c].name \in Names
      BY <3>1 DEF Sound, NamedBelow
    <3> QED
      BY <3>1, <3>2 DEF Sound, Fits
  <2> QED
    BY <2>2, <2>3
<1>2. idx.kids = KidsOf(idx.nodes)
  <2>1. idx.kids \in [Ids -> SUBSET (Names \X Ids)]
    BY IndexFields DEF Sound
  <2>2. KidsOf(idx.nodes) = [p \in Ids |-> KidsOf(idx.nodes)[p]]
    BY DEF KidsOf
  <2> QED
    BY <1>1, <2>1, <2>2
<1> QED
  BY <1>2 DEF Matched, Sound

-----------------------------------------------------------------------------
\* What Remove takes: `id` and the children of what it takes.
LEMMA BelowIsClosed ==
  ASSUME NEW kids, NEW id \in Ids,
         \A p \in Ids : kids[p] \subseteq Names \X Ids
  PROVE  /\ Below(kids, id) \subseteq Ids
         /\ id \in Below(kids, id)
         /\ \A p \in Below(kids, id), m \in Names, c \in Ids :
               <<m, c>> \in kids[p] => c \in Below(kids, id)
<1> DEFINE within == {id} \cup {x \in Ids : \E p \in Ids : \E e \in kids[p] : e[2] = x}
           closed == {S \in SUBSET within : id \in S /\ ClosedDown(kids, S)}
<1>1. CASE kids[id] = {}
  BY <1>1 DEF Below
<1>2. CASE kids[id] # {}
  <2>1. Below(kids, id) = {x \in within : \A S \in closed : x \in S}
    BY <1>2 DEF Below
  <2>2. ASSUME NEW p \in Below(kids, id), NEW m \in Names, NEW c \in Ids, <<m, c>> \in kids[p]
        PROVE  c \in Below(kids, id)
    <3>1. p \in Ids /\ c \in within
      BY <2>1, <2>2
    <3>2. ASSUME NEW S \in closed PROVE c \in S
      BY <2>1, <2>2 DEF ClosedDown
    <3> QED
      BY <2>1, <3>1, <3>2
  <2> QED
    BY <2>1, <2>2
<1> QED
  BY <1>1, <1>2

\* Nothing has the root below it but the root.
LEMMA RootNotBelow ==
  ASSUME NEW kids, NEW id \in Ids, id # RootId,
         \A p \in Ids : kids[p] \subseteq Names \X Ids,
         \A p \in Ids, m \in Names : <<m, RootId>> \notin kids[p]
  PROVE  RootId \notin Below(kids, id)
<1> DEFINE within == {id} \cup {x \in Ids : \E p \in Ids : \E e \in kids[p] : e[2] = x}
           others == within \ {RootId}
<1>1. others \in SUBSET within /\ id \in others
  OBVIOUS
<1>2. ClosedDown(kids, others)
  BY DEF ClosedDown
<1> QED
  BY <1>1, <1>2 DEF Below

\* What a walk up to `tops` meets: present entries whose parent the walk meets too.
LEMMA ClimbIsLeast ==
  ASSUME NEW nodes, NEW tops \in SUBSET Ids
  PROVE  /\ tops \subseteq Climb(nodes, tops)
         /\ Climb(nodes, tops) \subseteq tops \cup Present(nodes)
         /\ \A c \in Present(nodes) : nodes[c].parent \in Climb(nodes, tops) => c \in Climb(nodes, tops)
         /\ \A c \in Climb(nodes, tops) \ tops : nodes[c].parent \in Climb(nodes, tops)
<1> DEFINE met == Climb(nodes, tops)
<1>1. met \subseteq tops \cup Present(nodes) /\ met \subseteq Ids /\ tops \subseteq met
  BY DEF Climb, Present
<1>2. ASSUME NEW S \in SUBSET Ids, tops \subseteq S, ClosedUp(nodes, S) PROVE met \subseteq S
  <2> DEFINE T == S \cap (tops \cup Present(nodes))
  <2>1. T \in SUBSET (tops \cup Present(nodes)) /\ tops \subseteq T
    BY <1>2
  <2>2. ClosedUp(nodes, T)
    BY <1>2 DEF ClosedUp
  <2> QED
    BY <2>1, <2>2 DEF Climb
<1>3. ASSUME NEW c \in Present(nodes), nodes[c].parent \in met PROVE c \in met
  BY <1>3 DEF Climb, ClosedUp, Present
<1>5. ASSUME NEW c \in met \ tops PROVE nodes[c].parent \in met
  <2> SUFFICES ASSUME nodes[c].parent \notin met PROVE FALSE
    OBVIOUS
  <2> DEFINE S == met \ {c}
  <2>1. S \in SUBSET Ids /\ tops \subseteq S
    BY <1>1, <1>5
  <2>2. ClosedUp(nodes, S)
    BY <1>3 DEF ClosedUp
  <2>3. met \subseteq S
    BY <1>2, <2>1, <2>2
  <2> QED
    BY <1>5, <2>3
<1> QED
  BY <1>1, <1>3, <1>5

-----------------------------------------------------------------------------
(***************************************************************************)
(* The operations, one by one.                                             *)
(***************************************************************************)
\* Index::default() has nothing, so everything fits.
LEMMA BlankSound == ASSUME NEW g \in Nat PROVE Sound(Blank(g))
  BY RootIsId DEF Sound, Blank, Index, Fits, NamedBelow, UniqueNames, RootKnown, HasNode

\* Crawl progress is not part of the tree.
LEMMA ProgressSound ==
  ASSUME NEW idx, Sound(idx), NEW new \in Index,
         new.nodes = idx.nodes, new.kids = idx.kids, new.root = idx.root
  PROVE  Sound(new)
  BY DEF Sound, Fits, NamedBelow, RootKnown, HasNode

\* Index::remove, field by field: what is below `id` goes, and each of it from its parent's set.
LEMMA RemoveFields ==
  ASSUME NEW idx \in Index, NEW id \in Ids
  PROVE  /\ Remove(idx, id) \in Index
         /\ \A c \in Ids : Remove(idx, id).nodes[c] =
               IF c \in Below(idx.kids, id) THEN NoNode ELSE idx.nodes[c]
         /\ \A p, c \in Ids, m \in Names : <<m, c>> \in Remove(idx, id).kids[p] <=>
               /\ p \notin Below(idx.kids, id) /\ <<m, c>> \in idx.kids[p]
               /\ ~(/\ c \in Below(idx.kids, id) /\ HasNode(idx, c)
                    /\ idx.nodes[c].parent = p /\ idx.nodes[c].name = m)
         /\ \A p \in Ids : Remove(idx, id).kids[p] \subseteq idx.kids[p]
         /\ Remove(idx, id).root = IF idx.root \in Below(idx.kids, id) THEN None ELSE idx.root
<1> DEFINE gone == Below(idx.kids, id)
           entries(p) == {<<idx.nodes[x].name, x>> :
                             x \in {y \in gone \cap Present(idx.nodes) : idx.nodes[y].parent = p}}
           nodes == [x \in Ids |-> IF x \in gone THEN NoNode ELSE idx.nodes[x]]
           kids == [p \in Ids |-> IF p \in gone THEN {} ELSE idx.kids[p] \ entries(p)]
           root == IF idx.root \in gone THEN None ELSE idx.root
<1>1. Remove(idx, id) = [idx EXCEPT !.nodes = nodes, !.kids = kids, !.root = root]
  BY DEF Remove
<1>2. /\ nodes \in [Ids -> Node \cup {NoNode}]
      /\ kids \in [Ids -> SUBSET (Names \X Ids)]
      /\ root \in Ids \cup {None}
  BY IndexFields
<1>3. ASSUME NEW p \in Ids, NEW c \in Ids, NEW m \in Names
      PROVE  <<m, c>> \in entries(p) <=> /\ c \in gone /\ HasNode(idx, c)
                                         /\ idx.nodes[c].parent = p /\ idx.nodes[c].name = m
  BY DEF Present, HasNode
<1> HIDE DEF gone, entries
<1>4. ASSUME NEW p \in Ids, NEW c \in Ids, NEW m \in Names
      PROVE  <<m, c>> \in kids[p] <=>
               /\ p \notin gone /\ <<m, c>> \in idx.kids[p]
               /\ ~(/\ c \in gone /\ HasNode(idx, c)
                    /\ idx.nodes[c].parent = p /\ idx.nodes[c].name = m)
  BY <1>3
<1>5. \A p \in Ids : kids[p] \subseteq idx.kids[p]
  OBVIOUS
<1>6. \A c \in Ids : nodes[c] = IF c \in gone THEN NoNode ELSE idx.nodes[c]
  OBVIOUS
<1> HIDE DEF nodes, kids, root
<1>7. /\ Remove(idx, id) \in Index
      /\ Remove(idx, id).nodes = nodes /\ Remove(idx, id).kids = kids /\ Remove(idx, id).root = root
  BY <1>1, <1>2 DEF Index
<1> QED
  BY <1>4, <1>5, <1>6, <1>7 DEF gone, root

\* An item other than the root leaves with what is below it; the rest still fits.
LEMMA RemoveSound ==
  ASSUME NEW idx, Sound(idx), NEW id \in Ids, id # RootId
  PROVE  Sound(Remove(idx, id))
<1> DEFINE gone == Below(idx.kids, id)
           new == Remove(idx, id)
<1>1. idx \in Index /\ \A p \in Ids : idx.kids[p] \subseteq Names \X Ids
  BY IndexFields DEF Sound
<1>2. /\ new \in Index
      /\ \A c \in Ids : new.nodes[c] = IF c \in gone THEN NoNode ELSE idx.nodes[c]
      /\ \A p, c \in Ids, m \in Names : <<m, c>> \in new.kids[p] <=>
            /\ p \notin gone /\ <<m, c>> \in idx.kids[p]
            /\ ~(/\ c \in gone /\ HasNode(idx, c)
                 /\ idx.nodes[c].parent = p /\ idx.nodes[c].name = m)
      /\ \A p \in Ids : new.kids[p] \subseteq idx.kids[p]
      /\ new.root = IF idx.root \in gone THEN None ELSE idx.root
  BY <1>1, RemoveFields
<1>3. \A p \in gone, m \in Names, c \in Ids : <<m, c>> \in idx.kids[p] => c \in gone
  BY <1>1, BelowIsClosed
<1>4. RootId \notin gone
  <2>1. \A p \in Ids, m \in Names : <<m, RootId>> \notin idx.kids[p]
    BY RootIsId DEF Sound, Fits, RootKnown
  <2> QED
    BY <1>1, <2>1, RootNotBelow
<1> HIDE DEF gone, new
<1>5. ASSUME NEW p \in Ids, NEW c \in Ids, NEW m \in Names
      PROVE  <<m, c>> \in new.kids[p] <=>
               HasNode(new, c) /\ new.nodes[c].parent = p /\ new.nodes[c].name = m
  <2>1. <<m, c>> \in idx.kids[p] <=>
          HasNode(idx, c) /\ idx.nodes[c].parent = p /\ idx.nodes[c].name = m
    BY DEF Sound, Fits
  <2>2. new.nodes[c] = IF c \in gone THEN NoNode ELSE idx.nodes[c]
    BY <1>2
  <2>3. <<m, c>> \in new.kids[p] <=> p \notin gone /\ c \notin gone /\ <<m, c>> \in idx.kids[p]
    BY <1>2, <2>1
  <2>4. (p \in gone /\ <<m, c>> \in idx.kids[p]) => c \in gone
    BY <1>3
  <2> QED
    BY <2>1, <2>2, <2>3, <2>4 DEF HasNode
<1>6. NamedBelow(new)
  BY <1>2 DEF Sound, NamedBelow, HasNode
<1>7. UniqueNames(new.kids)
  BY <1>2 DEF Sound, UniqueNames
<1>8. RootKnown(new)
  BY <1>2, <1>4, RootIsId DEF Sound, RootKnown, HasNode
<1> QED
  BY <1>2, <1>5, <1>6, <1>7, <1>8 DEF Sound, Fits, new

\* An is_root item is recorded as the root and has no parent.
LEMMA InsertRootSound ==
  ASSUME NEW idx, Sound(idx), NEW it \in DeltaItem, it.id = RootId
  PROVE  Sound(InsertRoot(idx, it))
<1> DEFINE new == InsertRoot(idx, it)
           node == [parent |-> None, name |-> it.name, dir |-> it.dir]
<1>1. node \in Node /\ node # NoNode /\ node.parent = None
  BY RootIsId DEF DeltaItem, Node
<1> HIDE DEF node
<1>2. idx.nodes \in [Ids -> Node \cup {NoNode}] /\ idx \in Index
  BY IndexFields DEF Sound
<1>3. /\ new \in Index
      /\ new.kids = idx.kids /\ new.root = RootId
      /\ new.nodes = [idx.nodes EXCEPT ![RootId] = node]
  <2>1. [idx.nodes EXCEPT ![RootId] = node] \in [Ids -> Node \cup {NoNode}]
    BY <1>1, <1>2
  <2>2. new = [idx EXCEPT !.root = RootId, !.nodes[RootId] = node]
    BY DEF InsertRoot, node
  <2> QED
    BY <1>2, <2>1, <2>2, RootIsId DEF Index
<1>4. new.nodes[RootId] = node /\ \A c \in Ids \ {RootId} : new.nodes[c] = idx.nodes[c]
  BY <1>2, <1>3, RootIsId
<1> HIDE DEF new
<1>5. \A p \in Ids, m \in Names : <<m, RootId>> \notin idx.kids[p]
  BY RootIsId DEF Sound, Fits, RootKnown
<1>6. Fits(new)
  <2> SUFFICES ASSUME NEW p \in Ids, NEW c \in Ids, NEW m \in Names
               PROVE  <<m, c>> \in new.kids[p] <=>
                        HasNode(new, c) /\ new.nodes[c].parent = p /\ new.nodes[c].name = m
    BY DEF Fits
  <2>1. CASE c = RootId
    <3>1. new.nodes[c].parent # p
      BY <1>1, <1>4, <2>1, RootIsId
    <3> QED
      BY <1>3, <1>5, <2>1, <3>1
  <2>2. CASE c # RootId
    BY <1>3, <1>4, <2>2 DEF Sound, Fits, HasNode
  <2> QED
    BY <2>1, <2>2
<1>7. NamedBelow(new)
  BY <1>1, <1>3, <1>4, RootIsId DEF Sound, NamedBelow, HasNode
<1>8. RootKnown(new)
  BY <1>1, <1>3, <1>4, RootIsId DEF RootKnown, HasNode
<1> QED
  BY <1>3, <1>6, <1>7, <1>8 DEF Sound, new

\* Before Evict, the child sets have every entry but the one that moves.
LEMMA DetachFields ==
  ASSUME NEW idx, Sound(idx), NEW it \in DeltaItem, it.parent \in Ids
  PROVE  /\ Detach(idx, it) \in Index
         /\ Detach(idx, it).nodes = idx.nodes /\ Detach(idx, it).root = idx.root
         /\ \A p, c \in Ids, m \in Names : <<m, c>> \in Detach(idx, it).kids[p] <=>
               /\ <<m, c>> \in idx.kids[p]
               /\ c = it.id => p = it.parent /\ m = it.name
         /\ \A p \in Ids : Detach(idx, it).kids[p] \subseteq idx.kids[p]
<1> DEFINE old == idx.nodes[it.id]
           moved == /\ old # NoNode
                    /\ old.parent # None
                    /\ old.parent # it.parent \/ old.name # it.name
           new == Detach(idx, it)
<1>1. /\ it.id \in Ids /\ idx \in Index /\ old \in Node \cup {NoNode}
      /\ idx.kids \in [Ids -> SUBSET (Names \X Ids)]
  BY IndexFields DEF Sound, DeltaItem
<1>2. \A p \in Ids, m \in Names : <<m, it.id>> \in idx.kids[p] <=>
         old # NoNode /\ old.parent = p /\ old.name = m
  BY <1>1 DEF Sound, Fits, HasNode
<1>3. CASE moved
  <2>1. old.parent \in Ids
    BY <1>1, <1>3 DEF Node
  <2>2. new = [idx EXCEPT !.kids[old.parent] = @ \ {<<old.name, it.id>>}]
    BY <1>3 DEF Detach
  <2> DEFINE kids == [idx.kids EXCEPT ![old.parent] = @ \ {<<old.name, it.id>>}]
  <2>3. kids \in [Ids -> SUBSET (Names \X Ids)]
    BY <1>1, <2>1
  <2>4. new \in Index /\ new.kids = kids /\ new.nodes = idx.nodes /\ new.root = idx.root
    BY <1>1, <2>2, <2>3 DEF Index
  <2>5. ASSUME NEW p \in Ids, NEW c \in Ids, NEW m \in Names
        PROVE  <<m, c>> \in kids[p] <=>
                 /\ <<m, c>> \in idx.kids[p]
                 /\ ~(p = old.parent /\ m = old.name /\ c = it.id)
    BY <1>1, <2>1
  <2>6. \A p \in Ids : kids[p] \subseteq idx.kids[p]
    BY <1>1, <2>1
  <2> HIDE DEF kids, new
  <2>7. ASSUME NEW p \in Ids, NEW c \in Ids, NEW m \in Names
        PROVE  <<m, c>> \in kids[p] <=>
                 /\ <<m, c>> \in idx.kids[p]
                 /\ c = it.id => p = it.parent /\ m = it.name
    BY <1>2, <1>3, <2>5
  <2> QED
    BY <2>4, <2>6, <2>7 DEF new
<1>4. CASE ~moved
  <2>1. new = idx
    BY <1>4 DEF Detach
  <2>2. ASSUME NEW p \in Ids, NEW m \in Names, <<m, it.id>> \in idx.kids[p]
        PROVE  p = it.parent /\ m = it.name
    <3>1. old # NoNode /\ old.parent = p /\ old.name = m
      BY <1>2, <2>2
    <3>2. old.parent # None
      BY <3>1, RootIsId
    <3> QED
      BY <1>4, <3>1, <3>2
  <2> HIDE DEF new
  <2> QED
    BY <1>1, <2>1, <2>2 DEF new
<1> QED
  BY <1>3, <1>4

(***************************************************************************)
(* An entry enters its child set: it fits again, and no sibling has its    *)
(* name, for Evict removed the one that had.                               *)
(***************************************************************************)
LEMMA EnterSound ==
  ASSUME NEW idx, Sound(idx), NEW it \in DeltaItem,
         it.parent \in Ids, it.name \in Names, it.id # RootId
  PROVE  Sound(Attach(Evict(Detach(idx, it), it), it))
<1> DEFINE off == Detach(idx, it)
           clash == {c \in Ids \ {it.id} : <<it.name, c>> \in off.kids[it.parent]}
           free == Evict(off, it)
           new == Attach(free, it)
           node == [parent |-> it.parent, name |-> it.name, dir |-> it.dir]
<1>1. it.id \in Ids /\ idx \in Index
  BY DEF Sound, DeltaItem
<1>2. /\ off \in Index /\ off.nodes = idx.nodes /\ off.root = idx.root
      /\ \A p, c \in Ids, m \in Names : <<m, c>> \in off.kids[p] <=>
            /\ HasNode(idx, c) /\ idx.nodes[c].parent = p /\ idx.nodes[c].name = m
            /\ c = it.id => p = it.parent /\ m = it.name
      /\ \A p \in Ids : off.kids[p] \subseteq idx.kids[p]
  BY DetachFields DEF Sound, Fits
<1>3. \A p \in Ids : off.kids[p] \subseteq Names \X Ids
  BY <1>2, IndexFields
<1>4. free = IF clash = {} THEN off ELSE Remove(off, CHOOSE c \in clash : TRUE)
  BY DEF Evict
<1> HIDE DEF off, clash
(* Whether or not there was a clash, `gone` left. *)
<1>5. PICK gone \in SUBSET Ids :
        /\ RootId \notin gone
        /\ free \in Index
        /\ free.root = idx.root
        /\ \A c \in Ids : free.nodes[c] = IF c \in gone THEN NoNode ELSE idx.nodes[c]
        /\ \A p, c \in Ids, m \in Names : <<m, c>> \in free.kids[p] <=>
              <<m, c>> \in off.kids[p] /\ p \notin gone /\ c \notin gone
        /\ \A p \in gone, m \in Names, c \in Ids : <<m, c>> \in off.kids[p] => c \in gone
        /\ \A p \in Ids : free.kids[p] \subseteq off.kids[p]
        /\ \A c \in Ids : c # it.id => <<it.name, c>> \notin free.kids[it.parent]
  <2>1. CASE clash = {}
    <3>1. free = off
      BY <1>4, <2>1
    <3>2. \A c \in Ids : c # it.id => <<it.name, c>> \notin off.kids[it.parent]
      BY <2>1 DEF clash
    <3> HIDE DEF free
    <3> WITNESS {} \in SUBSET Ids
    <3> QED
      BY <1>2, <3>1, <3>2
  <2>2. CASE clash # {}
    <3> DEFINE c0 == CHOOSE c \in clash : TRUE
               gone == Below(off.kids, c0)
    <3>1. c0 \in clash
      BY <2>2
    <3>2. c0 \in Ids /\ c0 # it.id /\ <<it.name, c0>> \in off.kids[it.parent]
      BY <3>1 DEF clash
    <3>3. free = Remove(off, c0)
      BY <1>4, <2>2
    <3> HIDE DEF c0, free
    <3>4. HasNode(idx, c0) /\ idx.nodes[c0].parent = it.parent
      BY <1>2, <3>2
    <3>5. c0 # RootId
      BY <3>4, RootIsId DEF Sound, RootKnown
    <3>6. \A p \in Ids, m \in Names : <<m, RootId>> \notin off.kids[p]
      BY <1>2, RootIsId DEF Sound, RootKnown
    <3>7. RootId \notin gone
      BY <1>3, <3>2, <3>5, <3>6, RootNotBelow
    <3>8. /\ gone \subseteq Ids /\ c0 \in gone
          /\ \A p \in gone, m \in Names, c \in Ids : <<m, c>> \in off.kids[p] => c \in gone
      BY <1>3, <3>2, BelowIsClosed
    <3>9. /\ free \in Index
          /\ \A c \in Ids : free.nodes[c] = IF c \in gone THEN NoNode ELSE off.nodes[c]
          /\ \A p, c \in Ids, m \in Names : <<m, c>> \in free.kids[p] <=>
                /\ p \notin gone /\ <<m, c>> \in off.kids[p]
                /\ ~(/\ c \in gone /\ HasNode(off, c)
                     /\ off.nodes[c].parent = p /\ off.nodes[c].name = m)
          /\ \A p \in Ids : free.kids[p] \subseteq off.kids[p]
          /\ free.root = IF off.root \in gone THEN None ELSE off.root
      <4>1. off \in Index
        BY <1>2
      <4>2. c0 \in Ids
        BY <3>2
      <4> HIDE DEF gone
      <4>3. /\ Remove(off, c0) \in Index
            /\ \A c \in Ids : Remove(off, c0).nodes[c] = IF c \in gone THEN NoNode ELSE off.nodes[c]
            /\ \A p, c \in Ids, m \in Names : <<m, c>> \in Remove(off, c0).kids[p] <=>
                  /\ p \notin gone /\ <<m, c>> \in off.kids[p]
                  /\ ~(/\ c \in gone /\ HasNode(off, c)
                       /\ off.nodes[c].parent = p /\ off.nodes[c].name = m)
            /\ \A p \in Ids : Remove(off, c0).kids[p] \subseteq off.kids[p]
            /\ Remove(off, c0).root = IF off.root \in gone THEN None ELSE off.root
        BY <4>1, <4>2, RemoveFields DEF gone
      <4> QED
        BY <3>3, <4>3
    <3> HIDE DEF gone
    <3>10. ASSUME NEW p \in Ids, NEW c \in Ids, NEW m \in Names
           PROVE  <<m, c>> \in free.kids[p] <=>
                    <<m, c>> \in off.kids[p] /\ p \notin gone /\ c \notin gone
      BY <1>2, <3>9 DEF HasNode
    <3>11. ASSUME NEW c \in Ids, c # it.id PROVE <<it.name, c>> \notin free.kids[it.parent]
      <4> SUFFICES ASSUME <<it.name, c>> \in free.kids[it.parent] PROVE FALSE
        OBVIOUS
      <4>1. c \notin gone /\ <<it.name, c>> \in off.kids[it.parent]
        BY <3>10, <3>11
      <4>2. <<it.name, c>> \in idx.kids[it.parent] /\ <<it.name, c0>> \in idx.kids[it.parent]
        BY <1>2, <3>2, <4>1
      <4>3. <<it.name, c>> = <<it.name, c0>>
        BY <4>2 DEF Sound, UniqueNames
      <4> QED
        BY <3>8, <4>1, <4>3
    <3>12. free.root = idx.root
      BY <1>2, <3>7, <3>9, RootIsId DEF Sound, RootKnown
    <3>13. gone \in SUBSET Ids
      BY <3>8
    <3> USE <3>13
    <3> WITNESS gone \in SUBSET Ids
    <3> QED
      BY <1>2, <3>7, <3>8, <3>9, <3>10, <3>11, <3>12
  <2> QED
    BY <2>1, <2>2
<1>6. /\ free.nodes \in [Ids -> Node \cup {NoNode}]
      /\ free.kids \in [Ids -> SUBSET (Names \X Ids)]
  BY <1>5, IndexFields
<1>7. node \in Node /\ node # NoNode /\ node.parent = it.parent /\ node.name = it.name
  BY RootIsId DEF DeltaItem, Node
<1> HIDE DEF free, node
<1>8. /\ new \in Index /\ new.root = free.root
      /\ new.nodes[it.id] = node
      /\ \A c \in Ids \ {it.id} : new.nodes[c] = free.nodes[c]
      /\ \A p \in Ids \ {it.parent} : new.kids[p] = free.kids[p]
      /\ new.kids[it.parent] = free.kids[it.parent] \cup {<<it.name, it.id>>}
  <2> DEFINE kids == [free.kids EXCEPT ![it.parent] = @ \cup {<<it.name, it.id>>}]
             nodes == [free.nodes EXCEPT ![it.id] = node]
  <2>1. new = [free EXCEPT !.kids = kids, !.nodes = nodes]
    BY <1>5 DEF Attach, node, Index
  <2>2. kids \in [Ids -> SUBSET (Names \X Ids)] /\ nodes \in [Ids -> Node \cup {NoNode}]
    BY <1>1, <1>6, <1>7
  <2>3. /\ nodes[it.id] = node
        /\ \A c \in Ids \ {it.id} : nodes[c] = free.nodes[c]
        /\ \A p \in Ids \ {it.parent} : kids[p] = free.kids[p]
        /\ kids[it.parent] = free.kids[it.parent] \cup {<<it.name, it.id>>}
    BY <1>1, <1>6
  <2> HIDE DEF kids, nodes, new
  <2>4. new \in Index /\ new.kids = kids /\ new.nodes = nodes /\ new.root = free.root
    BY <1>5, <2>1, <2>2 DEF Index
  <2> QED
    BY <2>3, <2>4
<1> HIDE DEF new
<1>9. Fits(new)
  <2> SUFFICES ASSUME NEW p \in Ids, NEW c \in Ids, NEW m \in Names
               PROVE  <<m, c>> \in new.kids[p] <=>
                        HasNode(new, c) /\ new.nodes[c].parent = p /\ new.nodes[c].name = m
    BY DEF Fits
  <2>1. CASE c = it.id
    <3>1. <<m, c>> \in free.kids[p] => p = it.parent /\ m = it.name
      BY <1>2, <1>5, <2>1
    <3>2. <<m, c>> \in new.kids[p] <=> p = it.parent /\ m = it.name
      BY <1>8, <2>1, <3>1
    <3> QED
      BY <1>7, <1>8, <2>1, <3>2 DEF HasNode
  <2>2. CASE c # it.id
    <3>1. <<m, c>> \in new.kids[p] <=> <<m, c>> \in free.kids[p]
      BY <1>8, <2>2
    <3>2. <<m, c>> \in off.kids[p] <=>
            HasNode(idx, c) /\ idx.nodes[c].parent = p /\ idx.nodes[c].name = m
      BY <1>2, <2>2
    <3>3. <<m, c>> \in free.kids[p] <=> <<m, c>> \in off.kids[p] /\ c \notin gone
      BY <1>5
    <3>4. new.nodes[c] = IF c \in gone THEN NoNode ELSE idx.nodes[c]
      BY <1>5, <1>8, <2>2
    <3> QED
      BY <3>1, <3>2, <3>3, <3>4 DEF HasNode
  <2> QED
    BY <2>1, <2>2
<1>10. NamedBelow(new)
  <2> SUFFICES ASSUME NEW c \in Ids, HasNode(new, c), new.nodes[c].parent \in Ids
               PROVE  new.nodes[c].name \in Names
    BY DEF NamedBelow
  <2>1. CASE c = it.id
    BY <1>7, <1>8, <2>1
  <2>2. CASE c # it.id
    <3>1. new.nodes[c] = IF c \in gone THEN NoNode ELSE idx.nodes[c]
      BY <1>5, <1>8, <2>2
    <3> QED
      BY <3>1 DEF Sound, NamedBelow, HasNode
  <2> QED
    BY <2>1, <2>2
<1>11. UniqueNames(new.kids)
  <2> SUFFICES ASSUME NEW p \in Ids, NEW e \in new.kids[p], NEW f \in new.kids[p], e[1] = f[1]
               PROVE  e = f
    BY DEF UniqueNames
  <2>1. e \in Names \X Ids /\ f \in Names \X Ids
    BY <1>8, IndexFields
  <2>2. CASE e \in free.kids[p] /\ f \in free.kids[p]
    BY <1>2, <1>5, <2>2 DEF Sound, UniqueNames
  <2>3. CASE p = it.parent /\ (e = <<it.name, it.id>> \/ f = <<it.name, it.id>>)
    <3>1. ASSUME NEW g \in new.kids[p], g \in Names \X Ids, g[1] = it.name
          PROVE  g = <<it.name, it.id>>
      <4>1. g = <<it.name, g[2]>> /\ g[2] \in Ids
        BY <3>1
      <4>2. CASE g \in free.kids[p]
        BY <1>5, <2>3, <4>1, <4>2
      <4> QED
        BY <1>8, <2>3, <3>1, <4>2
    <3>2. e[1] = it.name /\ f[1] = it.name
      BY <2>3
    <3> QED
      BY <2>1, <3>1, <3>2
  <2> QED
    BY <1>8, <2>2, <2>3
<1>12. RootKnown(new)
  <2>1. HasNode(new, RootId) <=> HasNode(idx, RootId)
    BY <1>5, <1>8, RootIsId DEF HasNode
  <2>2. HasNode(new, RootId) => new.nodes[RootId].parent = idx.nodes[RootId].parent
    BY <1>5, <1>8, RootIsId DEF HasNode
  <2>3. ASSUME NEW c \in Ids, idx.root = None, HasNode(new, c)
        PROVE  new.nodes[c].parent # None
    <3>1. CASE c = it.id
      BY <1>7, <1>8, <3>1, RootIsId
    <3>2. CASE c # it.id
      <4>1. new.nodes[c] = idx.nodes[c] /\ HasNode(idx, c)
        BY <1>5, <1>8, <2>3, <3>2 DEF HasNode
      <4> QED
        BY <2>3, <4>1 DEF Sound, RootKnown
    <3> QED
      BY <3>1, <3>2
  <2> QED
    BY <1>5, <1>8, <2>1, <2>2, <2>3 DEF Sound, RootKnown
<1> QED
  BY <1>8, <1>9, <1>10, <1>11, <1>12 DEF Sound, new, free, off

(***************************************************************************)
(* Index::apply, for any item in any state of the index: a tombstone, the  *)
(* root, an orphan, a new entry, a move, a name that another entry has.    *)
(* Parent ids and child sets still fit, names are unique, the root is      *)
(* known.                                                                  *)
(***************************************************************************)
THEOREM ApplySound == ASSUME NEW idx, Sound(idx), NEW it, GoodItem(it) PROVE Sound(Apply(idx, it))
<1>1. it \in DeltaItem /\ it.id \in Ids /\ it.parent \in Ids \cup {None}
  BY DEF GoodItem, DeltaItem
<1>2. CASE it.deleted
  <2>1. Apply(idx, it) = Remove(idx, it.id)
    BY <1>2 DEF Apply
  <2> QED
    BY <1>1, <1>2, <2>1, RemoveSound DEF GoodItem
<1>3. CASE ~it.deleted /\ it.is_root
  <2>1. Apply(idx, it) = InsertRoot(idx, it)
    BY <1>3 DEF Apply
  <2> QED
    BY <1>1, <1>3, <2>1, InsertRootSound DEF GoodItem
<1>4. CASE ~it.deleted /\ ~it.is_root /\ it.parent = None
  BY <1>4 DEF Apply
<1>5. CASE ~it.deleted /\ ~it.is_root /\ it.parent # None
  <2>1. Apply(idx, it) = Attach(Evict(Detach(idx, it), it), it)
    BY <1>5 DEF Apply
  <2> QED
    BY <1>1, <1>5, <2>1, EnterSound DEF GoodItem
<1> QED
  BY <1>2, <1>3, <1>4, <1>5

\* A path names an entry; a path other than "/" names one with a parent, so not the root.
LEMMA ResolveFinds ==
  ASSUME NEW idx, Sound(idx), NEW path \in Seq(Names)
  PROVE  /\ Resolve(idx, path) \in Ids \cup {None}
         /\ (path # <<>> /\ Resolve(idx, path) # None) =>
               /\ HasNode(idx, Resolve(idx, path))
               /\ idx.nodes[Resolve(idx, path)].parent \in Ids
               /\ Resolve(idx, path) # RootId
<1>1. idx.root \in Ids \cup {None} /\ \A p \in Ids : idx.kids[p] \subseteq Names \X Ids
  BY IndexFields DEF Sound
<1>2. CASE idx.root = None
  BY <1>2, RootIsId DEF Resolve
<1>3. CASE idx.root # None /\ path = <<>>
  BY <1>1, <1>3 DEF Resolve, WalkTo
<1>4. CASE idx.root # None /\ path # <<>> /\ Walks(idx.kids, idx.root, path) = {}
  BY <1>4, RootIsId DEF Resolve, WalkTo
<1>5. CASE idx.root # None /\ path # <<>> /\ Walks(idx.kids, idx.root, path) # {}
  <2> DEFINE w == CHOOSE v \in Walks(idx.kids, idx.root, path) : TRUE
             n == Len(path)
             p == IF n = 1 THEN idx.root ELSE w[n - 1]
  <2>1. w \in Walks(idx.kids, idx.root, path)
    BY <1>5
  <2>2. Resolve(idx, path) = w[n]
    BY <1>5 DEF Resolve, WalkTo
  <2> HIDE DEF w
  <2>3. n \in Nat /\ n >= 1 /\ n \in 1..n
    BY <1>5
  <2>4. w \in [1..n -> Ids] /\ <<path[n], w[n]>> \in idx.kids[p]
    BY <2>1, <2>3 DEF Walks
  <2> HIDE DEF n
  <2>5. p \in Ids
    <3>1. CASE n = 1
      BY <1>1, <1>5, <3>1
    <3>2. CASE n # 1
      <4>1. n - 1 \in 1..n
        BY <2>3, <3>2
      <4> QED
        BY <2>4, <3>2, <4>1
    <3> QED
      BY <3>1, <3>2
  <2>6. w[n] \in Ids /\ path[n] \in Names
    <3>1. w[n] \in Ids
      BY <2>3, <2>4
    <3>2. path[n] \in Names
      BY <2>3 DEF n
    <3> QED
      BY <3>1, <3>2
  <2> HIDE DEF p
  <2>7. HasNode(idx, w[n]) /\ idx.nodes[w[n]].parent = p
    BY <2>4, <2>5, <2>6 DEF Sound, Fits
  <2>8. w[n] # RootId
    BY <2>5, <2>7, RootIsId DEF Sound, RootKnown
  <2> QED
    BY <2>2, <2>5, <2>6, <2>7, <2>8
<1> QED
  BY <1>2, <1>3, <1>4, <1>5

\* A path has a last segment, a name, and a parent path.
LEMMA PathParts ==
  ASSUME NEW path \in Paths
  PROVE  path \in Seq(Names) /\ path # <<>> /\ ParentPath(path) \in Seq(Names) /\ LastSegment(path) \in Names
<1>1. path \in Seq(Names) /\ path # <<>>
  BY PathsAssumption
<1>2. Len(path) \in Nat /\ Len(path) >= 1
  BY <1>1
<1>3. SubSeq(path, 1, Len(path) - 1) \in Seq(Names)
  BY <1>1, <1>2
<1>4. path[Len(path)] \in Names
  BY <1>1, <1>2
<1> QED
  BY <1>1, <1>3, <1>4 DEF ParentPath, LastSegment

\* A "local:" id is an id, and not the root's.
LEMMA LocalIdIsId ==
  ASSUME NEW path \in Paths
  PROVE  LocalId(path) \in Ids /\ LocalId(path) # RootId
  BY RootAssumption, FreshValuesAssumption DEF Ids, LocalIds

(***************************************************************************)
(* Index::upsert_at_path, whether it rewrites an entry, adds a "local:"    *)
(* one or declines, leaves the index sound.                                *)
(***************************************************************************)
THEOREM UpsertSound ==
  ASSUME NEW idx, Sound(idx), NEW path \in Paths, NEW dir \in BOOLEAN
  PROVE  Sound(UpsertAtPath(idx, path, dir).idx)
<1> DEFINE id == Resolve(idx, path)
           parent == Resolve(idx, ParentPath(path))
           item == [id |-> LocalId(path), parent |-> parent, name |-> LastSegment(path),
                    dir |-> dir, deleted |-> FALSE, is_root |-> FALSE]
           rewritten == [idx EXCEPT !.nodes[id].dir = dir]
<1>1. id \in Ids \cup {None} /\ parent \in Ids \cup {None}
  BY PathParts, ResolveFinds
<1>2. CASE id # None /\ idx.nodes[id] # NoNode
  <2>1. UpsertAtPath(idx, path, dir).idx = rewritten
    BY <1>2 DEF UpsertAtPath, Edit
  <2>2. id \in Ids /\ idx.nodes[id] \in Node /\ idx \in Index
    BY <1>1, <1>2, IndexFields DEF Sound
  <2> HIDE DEF id
  <2> DEFINE node == [idx.nodes[id] EXCEPT !.dir = dir]
             nodes == [idx.nodes EXCEPT ![id] = node]
  <2>3. /\ node \in Node /\ node # NoNode
        /\ node.parent = idx.nodes[id].parent /\ node.name = idx.nodes[id].name
    BY <2>2, RootIsId DEF Node
  <2> HIDE DEF node
  <2>4. /\ nodes \in [Ids -> Node \cup {NoNode}]
        /\ nodes[id] = node /\ \A c \in Ids \ {id} : nodes[c] = idx.nodes[c]
    BY <2>2, <2>3, IndexFields
  <2>5. rewritten = [idx EXCEPT !.nodes = nodes]
    BY <2>2 DEF node, Index
  <2> HIDE DEF nodes, rewritten
  <2>6. /\ rewritten \in Index /\ rewritten.nodes = nodes
        /\ rewritten.kids = idx.kids /\ rewritten.root = idx.root
    BY <2>2, <2>4, <2>5 DEF Index
  <2>7. \A c \in Ids : /\ HasNode(rewritten, c) <=> HasNode(idx, c)
                       /\ rewritten.nodes[c].parent = idx.nodes[c].parent
                       /\ rewritten.nodes[c].name = idx.nodes[c].name
    BY <1>2, <2>3, <2>4, <2>6 DEF HasNode
  <2>8. Sound(rewritten)
    BY <2>6, <2>7, RootIsId DEF Sound, Fits, NamedBelow, RootKnown
  <2> QED
    BY <2>1, <2>8
<1>3. CASE ~(id # None /\ idx.nodes[id] # NoNode) /\ parent = None
  BY <1>3 DEF UpsertAtPath, Edit
<1>4. CASE ~(id # None /\ idx.nodes[id] # NoNode) /\ parent # None
  <2>1. UpsertAtPath(idx, path, dir).idx = Apply(idx, item)
    BY <1>4 DEF UpsertAtPath, Edit
  <2> HIDE DEF id, parent
  <2>2. item \in DeltaItem
    BY <1>1, LocalIdIsId, PathParts DEF DeltaItem
  <2>3. GoodItem(item)
    BY <1>4, <2>2, LocalIdIsId, PathParts DEF GoodItem
  <2> HIDE DEF item
  <2> QED
    BY <2>1, <2>3, ApplySound
<1> QED
  BY <1>2, <1>3, <1>4

(***************************************************************************)
(* Index::remove_at_path leaves the index sound; a path other than "/"     *)
(* never names the root, so the root stays.                                *)
(***************************************************************************)
THEOREM RemoveAtPathSound ==
  ASSUME NEW idx, Sound(idx), NEW path \in Paths
  PROVE  Sound(RemoveAtPath(idx, path).idx)
<1> DEFINE id == Resolve(idx, path)
<1>1. id \in Ids \cup {None} /\ (id # None => id # RootId)
  BY PathParts, ResolveFinds
<1>2. CASE id = None
  BY <1>2 DEF RemoveAtPath, Edit
<1>3. CASE id # None
  <2>1. RemoveAtPath(idx, path).idx = Remove(idx, id)
    BY <1>3 DEF RemoveAtPath, Edit
  <2> HIDE DEF id
  <2> QED
    BY <1>1, <1>3, <2>1, RemoveSound
<1> QED
  BY <1>2, <1>3

(***************************************************************************)
(* Index::move_at_path leaves the index sound, also when it moves an entry *)
(* below itself or over one that has the new name.                         *)
(***************************************************************************)
THEOREM MoveSound ==
  ASSUME NEW idx, Sound(idx), NEW from \in Paths, NEW to \in Paths
  PROVE  Sound(MoveAtPath(idx, from, to).idx)
<1> DEFINE id == Resolve(idx, from)
           parent == Resolve(idx, ParentPath(to))
           item == [id |-> id, parent |-> parent, name |-> LastSegment(to),
                    dir |-> idx.nodes[id].dir, deleted |-> FALSE, is_root |-> FALSE]
<1>1. /\ id \in Ids \cup {None} /\ (id # None => id # RootId)
      /\ parent \in Ids \cup {None}
  BY PathParts, ResolveFinds
<1>2. CASE id = None \/ parent = None
  BY <1>2 DEF MoveAtPath, Edit
<1>3. CASE ~(id = None \/ parent = None) /\ idx.nodes[id] = NoNode
  BY <1>3 DEF MoveAtPath, Edit
<1>4. CASE ~(id = None \/ parent = None) /\ idx.nodes[id] # NoNode
  <2>1. MoveAtPath(idx, from, to).idx = Apply(idx, item)
    BY <1>4 DEF MoveAtPath, Edit
  <2> HIDE DEF id, parent
  <2>2. id \in Ids /\ parent \in Ids
    BY <1>1, <1>4
  <2>3. idx.nodes[id] \in Node
    BY <1>4, <2>2, IndexFields DEF Sound
  <2>4. idx.nodes[id].dir \in BOOLEAN
    BY <2>3 DEF Node
  <2>5. item \in DeltaItem
    BY <2>2, <2>4, PathParts DEF DeltaItem
  <2>6. GoodItem(item)
    BY <1>1, <1>4, <2>5, PathParts DEF GoodItem
  <2> HIDE DEF item
  <2> QED
    BY <2>1, <2>6, ApplySound
<1> QED
  BY <1>2, <1>3, <1>4

(***************************************************************************)
(* Index::sweep_orphans keeps the entries whose parents lead to the root;  *)
(* with an entry it keeps its parent and the parent's set, so the rest     *)
(* still fits.                                                             *)
(***************************************************************************)
THEOREM SweepSound == ASSUME NEW idx, Sound(idx) PROVE Sound(SweepOrphans(idx))
<1> DEFINE met == Climb(idx.nodes, {idx.root})
           reachable == met \cap Present(idx.nodes)
           nodes == [x \in Ids |-> IF x \in reachable THEN idx.nodes[x] ELSE NoNode]
           kids == [p \in Ids |-> IF p \in reachable
                                  THEN {e \in idx.kids[p] : e[2] \in reachable}
                                  ELSE {}]
           new == SweepOrphans(idx)
<1>1. CASE idx.root = None
  BY <1>1 DEF SweepOrphans
<1>2. CASE idx.root # None
  <2>1. idx.root = RootId /\ HasNode(idx, RootId) /\ idx.nodes[RootId].parent = None
    BY <1>2 DEF Sound, RootKnown
  <2>2. new = [idx EXCEPT !.nodes = nodes, !.kids = kids]
    BY <1>2 DEF SweepOrphans
  <2>3. /\ RootId \in met
        /\ \A c \in met \ {RootId} : idx.nodes[c].parent \in met
        /\ met \subseteq {RootId} \cup Present(idx.nodes)
    BY <2>1, ClimbIsLeast, RootIsId
  <2> HIDE DEF met
  <2>4. RootId \in reachable /\ reachable \subseteq Ids
    BY <2>1, <2>3, RootIsId DEF Present, HasNode
  <2>5. \A c \in reachable : HasNode(idx, c) /\ (c # RootId => idx.nodes[c].parent \in reachable)
    BY <2>1, <2>3, RootIsId DEF Present, HasNode
  <2> HIDE DEF reachable
  <2>6. /\ nodes \in [Ids -> Node \cup {NoNode}] /\ kids \in [Ids -> SUBSET (Names \X Ids)]
        /\ \A c \in Ids : nodes[c] = IF c \in reachable THEN idx.nodes[c] ELSE NoNode
        /\ \A p \in Ids : kids[p] \subseteq idx.kids[p]
        /\ \A p, c \in Ids, m \in Names :
              <<m, c>> \in kids[p] <=> p \in reachable /\ c \in reachable /\ <<m, c>> \in idx.kids[p]
    BY IndexFields DEF Sound
  <2> HIDE DEF nodes, kids, new
  <2>7. new \in Index /\ new.nodes = nodes /\ new.kids = kids /\ new.root = idx.root
    BY <2>2, <2>6 DEF Sound, Index
  <2>8. Fits(new)
    <3> SUFFICES ASSUME NEW p \in Ids, NEW c \in Ids, NEW m \in Names
                 PROVE  <<m, c>> \in new.kids[p] <=>
                          HasNode(new, c) /\ new.nodes[c].parent = p /\ new.nodes[c].name = m
      BY DEF Fits
    <3>1. <<m, c>> \in idx.kids[p] <=>
            HasNode(idx, c) /\ idx.nodes[c].parent = p /\ idx.nodes[c].name = m
      BY DEF Sound, Fits
    <3>2. (c \in reachable /\ idx.nodes[c].parent = p) => p \in reachable
      BY <2>1, <2>5, RootIsId
    <3> QED
      BY <2>5, <2>6, <2>7, <3>1, <3>2 DEF HasNode
  <2>9. NamedBelow(new)
    BY <2>5, <2>6, <2>7 DEF Sound, NamedBelow, HasNode
  <2>10. UniqueNames(new.kids)
    BY <2>6, <2>7 DEF Sound, UniqueNames
  <2>11. RootKnown(new)
    BY <2>1, <2>4, <2>6, <2>7, RootIsId DEF RootKnown, HasNode
  <2> QED
    BY <2>7, <2>8, <2>9, <2>10, <2>11 DEF Sound, new
<1> QED
  BY <1>1, <1>2

(***************************************************************************)
(* snapshot::save and then snapshot::load keep the directory rows and      *)
(* their children, rebuild the child sets from the rows, and may find the  *)
(* root's id again: what comes out is sound, whatever was left out.        *)
(***************************************************************************)
THEOREM ReloadSound == ASSUME NEW idx, Sound(idx) PROVE Sound(Reload(idx))
<1> DEFINE rows == DirRows(idx)
           tops == {x \in Present(idx.nodes) : idx.nodes[x].parent = None}
           rowTops == {x \in rows : idx.nodes[x].parent = None}
           rowNode(x) == [parent |-> IF idx.nodes[x].parent \in rows THEN idx.nodes[x].parent ELSE None,
                          name |-> IF idx.nodes[x].parent = None THEN None ELSE idx.nodes[x].name,
                          dir |-> TRUE]
           root == IF idx.root = None /\ rowTops # {} THEN CHOOSE x \in rowTops : TRUE ELSE idx.root
           nodes == [x \in Ids |->
                        IF x \in rows THEN rowNode(x)
                        ELSE IF idx.nodes[x] # NoNode /\ idx.nodes[x].parent \in rows
                        THEN idx.nodes[x]
                        ELSE NoNode]
           kids == [p \in Ids |->
                        IF p \in rows THEN {e \in idx.kids[p] : idx.nodes[e[2]] # NoNode} ELSE {}]
           new == Reload(idx)
<1>1. new = [idx EXCEPT !.root = root, !.nodes = nodes, !.kids = kids]
  BY DEF Reload
<1>2. rows \subseteq Present(idx.nodes) /\ rows \subseteq Ids
  BY DEF DirRows, Present
<1>3. idx.root = None => rows = {}
  <2> SUFFICES ASSUME idx.root = None PROVE rows = {}
    OBVIOUS
  <2>1. tops = {}
    BY DEF Sound, RootKnown, Present, HasNode
  <2>2. ClosedUp(idx.nodes, {})
    BY DEF ClosedUp
  <2>3. Climb(idx.nodes, {}) = {}
    BY <2>2 DEF Climb
  <2> HIDE DEF tops
  <2> QED
    BY <2>1, <2>3 DEF DirRows, tops
<1>4. idx.root # None => RootId \in rows
  <2> SUFFICES ASSUME idx.root # None PROVE RootId \in rows
    OBVIOUS
  <2>1. idx.root = RootId /\ RootId \in tops
    BY RootIsId DEF Sound, RootKnown, Present, HasNode
  <2>2. tops \in SUBSET Ids
    BY DEF Present
  <2> HIDE DEF tops
  <2>3. RootId \in Climb(idx.nodes, tops)
    BY <2>1, <2>2, ClimbIsLeast
  <2>4. RootId \in Present(idx.nodes)
    BY <2>1 DEF tops
  <2> QED
    BY <2>1, <2>3, <2>4 DEF DirRows, tops
<1> HIDE DEF rows
<1>5. root = idx.root
  BY <1>3
<1>6. ASSUME NEW c \in rows
      PROVE  /\ HasNode(idx, c) /\ rowNode(c) \in Node /\ rowNode(c) # NoNode
             /\ rowNode(c).parent = IF idx.nodes[c].parent \in rows THEN idx.nodes[c].parent ELSE None
             /\ idx.nodes[c].parent # None => rowNode(c).name = idx.nodes[c].name
  <2>1. c \in Ids /\ HasNode(idx, c) /\ idx.nodes[c] \in Node
    BY <1>2, IndexFields DEF Present, HasNode, Sound
  <2>2. idx.nodes[c].parent \in Ids \cup {None} /\ idx.nodes[c].name \in Names \cup {None}
    BY <2>1 DEF Node
  <2>3. rowNode(c) \in Node
    BY <1>2, <2>2 DEF Node
  <2> QED
    BY <2>1, <2>3, RootIsId
<1> HIDE DEF rowNode
<1>7. /\ nodes \in [Ids -> Node \cup {NoNode}]
      /\ \A c \in rows : nodes[c] = rowNode(c)
      /\ \A c \in Ids \ rows : nodes[c] =
            IF idx.nodes[c] # NoNode /\ idx.nodes[c].parent \in rows THEN idx.nodes[c] ELSE NoNode
  BY <1>2, <1>6, IndexFields DEF Sound
<1>8. /\ kids \in [Ids -> SUBSET (Names \X Ids)]
      /\ \A p \in Ids : kids[p] \subseteq idx.kids[p]
      /\ \A p, c \in Ids, m \in Names :
            <<m, c>> \in kids[p] <=> p \in rows /\ HasNode(idx, c) /\ <<m, c>> \in idx.kids[p]
  BY IndexFields DEF Sound, HasNode
<1> HIDE DEF root, nodes, kids, new
<1>9. new \in Index /\ new.nodes = nodes /\ new.kids = kids /\ new.root = idx.root
  <2>1. idx \in Index
    BY DEF Sound
  <2> QED
    BY <1>1, <1>5, <1>7, <1>8, <2>1 DEF Index
<1>10. ASSUME NEW c \in Ids
       PROVE  /\ (HasNode(new, c) /\ new.nodes[c].parent \in Ids) <=>
                    (HasNode(idx, c) /\ idx.nodes[c].parent \in rows)
              /\ (HasNode(idx, c) /\ idx.nodes[c].parent \in rows) =>
                    /\ new.nodes[c].parent = idx.nodes[c].parent
                    /\ new.nodes[c].name = idx.nodes[c].name
  <2>1. CASE c \in rows
    <3>1. /\ HasNode(new, c) /\ HasNode(idx, c)
          /\ new.nodes[c].parent = IF idx.nodes[c].parent \in rows THEN idx.nodes[c].parent ELSE None
          /\ idx.nodes[c].parent # None => new.nodes[c].name = idx.nodes[c].name
      BY <1>6, <1>7, <1>9, <2>1 DEF HasNode
    <3> QED
      BY <1>2, <3>1, RootIsId
  <2>2. CASE c \notin rows
    BY <1>2, <1>7, <1>9, <2>2 DEF HasNode
  <2> QED
    BY <2>1, <2>2
<1>11. Fits(new)
  <2> SUFFICES ASSUME NEW p \in Ids, NEW c \in Ids, NEW m \in Names
               PROVE  <<m, c>> \in new.kids[p] <=>
                        HasNode(new, c) /\ new.nodes[c].parent = p /\ new.nodes[c].name = m
    BY DEF Fits
  <2>1. <<m, c>> \in idx.kids[p] <=>
          HasNode(idx, c) /\ idx.nodes[c].parent = p /\ idx.nodes[c].name = m
    BY DEF Sound, Fits
  <2>2. <<m, c>> \in new.kids[p] <=> p \in rows /\ HasNode(idx, c) /\ <<m, c>> \in idx.kids[p]
    BY <1>8, <1>9
  <2> QED
    BY <1>10, <2>1, <2>2
<1>12. NamedBelow(new)
  BY <1>2, <1>10 DEF Sound, NamedBelow
<1>13. UniqueNames(new.kids)
  BY <1>8, <1>9 DEF Sound, UniqueNames
<1>14. RootKnown(new)
  <2>1. CASE idx.root = None
    <3>1. rows = {} /\ \A c \in Ids : ~HasNode(new, c)
      BY <1>3, <1>7, <1>9, <2>1 DEF HasNode
    <3> QED
      BY <1>9, <2>1, <3>1, RootIsId DEF RootKnown
  <2>2. CASE idx.root # None
    <3>1. idx.root = RootId /\ HasNode(idx, RootId) /\ idx.nodes[RootId].parent = None
      BY <2>2 DEF Sound, RootKnown
    <3>2. HasNode(new, RootId) /\ new.nodes[RootId].parent = None
      <4>1. RootId \in rows /\ None \notin rows
        BY <1>2, <1>4, <2>2, RootIsId
      <4> QED
        BY <1>6, <1>7, <1>9, <3>1, <4>1 DEF HasNode
    <3> QED
      BY <1>9, <3>1, <3>2, RootIsId DEF RootKnown
  <2> QED
    BY <2>1, <2>2
<1> QED
  BY <1>9, <1>11, <1>12, <1>13, <1>14 DEF Sound, new

-----------------------------------------------------------------------------
(***************************************************************************)
(* Walks: what leads where, and what an edit leaves on the way.  Induction *)
(* along a path takes the least number for which a statement fails.        *)
(***************************************************************************)

NatOrder == OpToRel(<, Nat)

\* The order of the numbers as a relation.
LEMMA NatOrderIs == \A m, n \in Nat : m < n => <<m, n>> \in NatOrder
  BY DEF NatOrder, OpToRel

\* A set of numbers has a least one: induction on the length of a path.
LEMMA LeastNumber ==
  ASSUME NEW T \in SUBSET Nat, T # {}
  PROVE  \E m \in T : \A n \in T : m <= n
<1>1. IsWellFoundedOn(NatOrder, Nat)
  BY NatLessThanWellFounded DEF NatOrder
<1>2. PICK m \in T : \A n \in T : ~ (<<n, m>> \in NatOrder)
  BY <1>1, WFMin
<1>3. ASSUME NEW n \in T PROVE m <= n
  <2>1. m \in Nat /\ n \in Nat
    OBVIOUS
  <2>2. ~ (n < m)
    BY <1>2, <2>1, NatOrderIs
  <2> QED
    BY <2>1, <2>2
<1> QED
  BY <1>3

\* Where a path goes: parent path and last segment.
LEMMA PathShape ==
  ASSUME NEW path \in Seq(Names), path # <<>>
  PROVE  /\ Len(path) \in Nat /\ Len(path) >= 1 /\ Len(path) \in 1..Len(path)
         /\ ParentPath(path) \in Seq(Names) /\ Len(ParentPath(path)) = Len(path) - 1
         /\ \A k \in 1..(Len(path) - 1) : ParentPath(path)[k] = path[k]
         /\ LastSegment(path) \in Names /\ LastSegment(path) = path[Len(path)]
         /\ ParentPath(path) = <<>> <=> Len(path) = 1
<1>1. Len(path) \in Nat /\ Len(path) >= 1
  OBVIOUS
<1>2. \A i \in 1..(Len(path) - 1) : path[i] \in Names
  BY <1>1
<1>3. /\ SubSeq(path, 1, Len(path) - 1) \in Seq(Names)
      /\ Len(SubSeq(path, 1, Len(path) - 1)) =
           IF 1 <= Len(path) - 1 THEN Len(path) - 1 - 1 + 1 ELSE 0
      /\ \A i \in 1..(Len(path) - 1 - 1 + 1) : SubSeq(path, 1, Len(path) - 1)[i] = path[1 + i - 1]
  BY <1>1, <1>2, SubSeqProperties
<1>4. /\ Len(SubSeq(path, 1, Len(path) - 1)) = Len(path) - 1
      /\ \A k \in 1..(Len(path) - 1) : SubSeq(path, 1, Len(path) - 1)[k] = path[k]
  <2> DEFINE s == SubSeq(path, 1, Len(path) - 1)
             n == Len(path)
  <2> HIDE DEF s, n
  <2>1. n \in Nat /\ n >= 1
    BY <1>1 DEF n
  <2>2. Len(s) = (IF 1 <= n - 1 THEN n - 1 - 1 + 1 ELSE 0) /\ \A i \in 1..(n - 1 - 1 + 1) : s[i] = path[1 + i - 1]
    BY <1>3 DEF s, n
  <2>3. Len(s) = n - 1
    BY <2>1, <2>2
  <2>4. ASSUME NEW k \in 1..(n - 1) PROVE s[k] = path[k]
    <3>1. k \in 1..(n - 1 - 1 + 1) /\ 1 + k - 1 = k
      BY <2>1
    <3> QED
      BY <2>2, <3>1
  <2> QED
    BY <2>3, <2>4 DEF s, n
<1>5. path[Len(path)] \in Names
  BY <1>1
<1>6. SubSeq(path, 1, Len(path) - 1) = <<>> <=> Len(path) = 1
  <2> DEFINE s == SubSeq(path, 1, Len(path) - 1)
  <2>1. s \in Seq(Names) /\ Len(s) = Len(path) - 1
    BY <1>3, <1>4
  <2> HIDE DEF s
  <2>2. s = <<>> <=> Len(s) = 0
    BY <2>1, EmptySeq
  <2> QED
    BY <1>1, <2>1, <2>2 DEF s
<1> QED
  BY <1>1, <1>3, <1>4, <1>5, <1>6 DEF ParentPath, LastSegment

\* Names of siblings are unique, so a path has one walk at most.
LEMMA WalkUnique ==
  ASSUME NEW kids, UniqueNames(kids), NEW root \in Ids, NEW path \in Seq(Names),
         NEW v \in Walks(kids, root, path), NEW w \in Walks(kids, root, path)
  PROVE  v = w
<1> DEFINE n == Len(path)
           T == {k \in 1..n : v[k] # w[k]}
<1>1. n \in Nat
  OBVIOUS
<1>2. /\ v \in [1..n -> Ids] /\ \A k \in 1..n : <<path[k], v[k]>> \in kids[IF k = 1 THEN root ELSE v[k - 1]]
      /\ w \in [1..n -> Ids] /\ \A k \in 1..n : <<path[k], w[k]>> \in kids[IF k = 1 THEN root ELSE w[k - 1]]
  BY DEF Walks
<1> HIDE DEF n
<1>3. SUFFICES ASSUME T # {} PROVE FALSE
  <2>1. T = {} => \A k \in 1..n : v[k] = w[k]
    OBVIOUS
  <2>2. v = [k \in 1..n |-> v[k]] /\ w = [k \in 1..n |-> w[k]]
    BY <1>2
  <2>3. T = {} => v = w
    <3> HIDE DEF T
    <3> QED
      BY <2>1, <2>2
  <2> QED
    BY <2>3
<1>4. PICK k \in T : \A j \in T : k <= j
  <2>1. T \in SUBSET Nat
    OBVIOUS
  <2> QED
    BY <1>3, <2>1, LeastNumber
<1> DEFINE p == IF k = 1 THEN root ELSE v[k - 1]
<1>5. p = IF k = 1 THEN root ELSE w[k - 1]
  <2>1. k \in 1..n /\ (k # 1 => k - 1 \in 1..n /\ k - 1 < k)
    BY <1>1
  <2>2. k # 1 => v[k - 1] = w[k - 1]
    <3> SUFFICES ASSUME k # 1, v[k - 1] # w[k - 1] PROVE FALSE
      OBVIOUS
    <3>1. k - 1 \in T
      BY <2>1
    <3>2. k <= k - 1
      BY <1>4, <3>1
    <3> QED
      BY <1>1, <2>1, <3>2
  <2> QED
    BY <2>2
<1>6. p \in Ids /\ <<path[k], v[k]>> \in kids[p] /\ <<path[k], w[k]>> \in kids[p]
  <2>1. k \in 1..n
    OBVIOUS
  <2>2. k # 1 => k - 1 \in 1..n
    BY <1>1, <2>1
  <2> QED
    BY <1>2, <1>5, <2>1, <2>2
<1> HIDE DEF p
<1>7. <<path[k], v[k]>> = <<path[k], w[k]>>
  BY <1>6 DEF UniqueNames
<1> QED
  BY <1>7

\* The walk of a path ends where the path leads.
LEMMA WalkToIs ==
  ASSUME NEW kids, UniqueNames(kids), NEW root \in Ids, NEW path \in Seq(Names), path # <<>>,
         NEW w \in Walks(kids, root, path)
  PROVE  WalkTo(kids, root, path) = w[Len(path)]
<1>1. Walks(kids, root, path) # {}
  OBVIOUS
<1>2. (CHOOSE v \in Walks(kids, root, path) : TRUE) = w
  <2>1. (CHOOSE v \in Walks(kids, root, path) : TRUE) \in Walks(kids, root, path)
    BY <1>1
  <2> QED
    BY <2>1, WalkUnique
<1> QED
  BY <1>1, <1>2 DEF WalkTo

\* A path leads to the child of that name of what its parent path leads to.
LEMMA WalkToStep ==
  ASSUME NEW kids \in [Ids -> SUBSET (Names \X Ids)], UniqueNames(kids), NEW root \in Ids,
         NEW path \in Seq(Names), path # <<>>
  PROVE  /\ WalkTo(kids, root, path) \in Ids \cup {None}
         /\ \A c \in Ids : WalkTo(kids, root, path) = c <=>
               /\ WalkTo(kids, root, ParentPath(path)) \in Ids
               /\ <<LastSegment(path), c>> \in kids[WalkTo(kids, root, ParentPath(path))]
<1> DEFINE n == Len(path)
           up == ParentPath(path)
<1>1. /\ n \in Nat /\ n >= 1 /\ n \in 1..n /\ up \in Seq(Names) /\ Len(up) = n - 1
      /\ \A k \in 1..(n - 1) : up[k] = path[k]
      /\ LastSegment(path) = path[n]
      /\ up = <<>> <=> n = 1
  BY PathShape
<1>2. ASSUME NEW c \in Ids, WalkTo(kids, root, path) = c
      PROVE  /\ WalkTo(kids, root, up) \in Ids
             /\ <<LastSegment(path), c>> \in kids[WalkTo(kids, root, up)]
  <2>1. Walks(kids, root, path) # {}
    BY <1>2, RootIsId DEF WalkTo
  <2>2. PICK w : w \in Walks(kids, root, path)
    BY <2>1
  <2>3. c = w[n]
    BY <1>2, <2>2, WalkToIs
  <2>4. w \in [1..n -> Ids] /\ \A k \in 1..n : <<path[k], w[k]>> \in kids[IF k = 1 THEN root ELSE w[k - 1]]
    BY <2>2 DEF Walks
  <2>5. CASE n = 1
    <3>1. WalkTo(kids, root, up) = root
      BY <1>1, <2>5 DEF WalkTo
    <3> QED
      BY <1>1, <2>3, <2>4, <2>5, <3>1
  <2>6. CASE n # 1
    <3> DEFINE v == [k \in 1..(n - 1) |-> w[k]]
    <3>1. v \in Walks(kids, root, up)
      <4>1. v \in [1..Len(up) -> Ids]
        BY <1>1, <2>4
      <4>2. ASSUME NEW k \in 1..Len(up)
            PROVE  <<up[k], v[k]>> \in kids[IF k = 1 THEN root ELSE v[k - 1]]
        <5>1. k \in 1..n /\ k \in 1..(n - 1) /\ (k # 1 => k - 1 \in 1..(n - 1))
          BY <1>1, <4>2
        <5> QED
          BY <1>1, <2>4, <5>1
      <4> QED
        BY <4>1, <4>2 DEF Walks
    <3>2. n - 1 \in 1..(n - 1) /\ n - 1 \in 1..n
      BY <1>1, <2>6
    <3>3. WalkTo(kids, root, up) = v[n - 1]
      BY <1>1, <2>6, <3>1, WalkToIs
    <3>4. v[n - 1] = w[n - 1] /\ w[n - 1] \in Ids
      BY <2>4, <3>2
    <3> QED
      BY <1>1, <2>3, <2>4, <2>6, <3>3, <3>4
  <2> QED
    BY <2>5, <2>6
<1>3. ASSUME NEW c \in Ids, WalkTo(kids, root, up) \in Ids,
             <<LastSegment(path), c>> \in kids[WalkTo(kids, root, up)]
      PROVE  WalkTo(kids, root, path) = c
  <2>1. PICK v \in [1..(n - 1) -> Ids] :
           /\ \A k \in 1..(n - 1) : <<path[k], v[k]>> \in kids[IF k = 1 THEN root ELSE v[k - 1]]
           /\ n # 1 => WalkTo(kids, root, up) = v[n - 1]
           /\ n = 1 => WalkTo(kids, root, up) = root
    <3>1. CASE n = 1
      <4>1. WalkTo(kids, root, up) = root
        BY <1>1, <3>1 DEF WalkTo
      <4>2. [k \in 1..(n - 1) |-> root] \in [1..(n - 1) -> Ids] /\ 1..(n - 1) = {}
        BY <3>1
      <4> QED
        BY <3>1, <4>1, <4>2
    <3>2. CASE n # 1
      <4>1. PICK w : w \in Walks(kids, root, up)
        BY <1>1, <1>3, <3>2, RootIsId DEF WalkTo
      <4>2. WalkTo(kids, root, up) = w[n - 1]
        BY <1>1, <3>2, <4>1, WalkToIs
      <4>3. w \in [1..(n - 1) -> Ids]
            /\ \A k \in 1..(n - 1) : <<up[k], w[k]>> \in kids[IF k = 1 THEN root ELSE w[k - 1]]
        BY <1>1, <4>1 DEF Walks
      <4> QED
        BY <1>1, <3>2, <4>2, <4>3
    <3> QED
      BY <3>1, <3>2
  <2> DEFINE w == [k \in 1..n |-> IF k = n THEN c ELSE v[k]]
  <2>2. w \in [1..n -> Ids]
    <3>1. \A k \in 1..n : k # n => k \in 1..(n - 1)
      BY <1>1
    <3> QED
      BY <2>1, <3>1
  <2>3. ASSUME NEW k \in 1..n
        PROVE  <<path[k], w[k]>> \in kids[IF k = 1 THEN root ELSE w[k - 1]]
    <3>1. CASE k = n
      <4>1. n # 1 => (n - 1 \in 1..n /\ n - 1 # n)
        BY <1>1
      <4> QED
        BY <1>1, <1>3, <2>1, <3>1, <4>1
    <3>2. CASE k # n
      <4>1. k \in 1..(n - 1) /\ (k # 1 => k - 1 \in 1..n /\ k - 1 # n)
        BY <1>1, <3>2
      <4> QED
        BY <2>1, <3>2, <4>1
    <3> QED
      BY <3>1, <3>2
  <2>4. w \in Walks(kids, root, path)
    BY <2>2, <2>3 DEF Walks
  <2>5. w[n] = c
    BY <1>1
  <2> QED
    BY <2>4, <2>5, WalkToIs
<1>4. WalkTo(kids, root, path) \in Ids \cup {None}
  <2>1. CASE Walks(kids, root, path) = {}
    BY <2>1 DEF WalkTo
  <2>2. CASE Walks(kids, root, path) # {}
    <3>1. PICK w : w \in Walks(kids, root, path)
      BY <2>2
    <3>2. WalkTo(kids, root, path) = w[n] /\ w \in [1..n -> Ids]
      BY <3>1, WalkToIs DEF Walks
    <3> QED
      BY <1>1, <3>2
  <2> QED
    BY <2>1, <2>2
<1> QED
  BY <1>2, <1>3, <1>4

(***************************************************************************)
(* Two trees that agree on a set of entries, which has the parents of its  *)
(* members, agree on the paths that lead to them.                          *)
(***************************************************************************)
LEMMA WalkAgree ==
  ASSUME NEW here \in [Ids -> SUBSET (Names \X Ids)], UniqueNames(here),
         NEW there \in [Ids -> SUBSET (Names \X Ids)], UniqueNames(there),
         NEW root \in Ids, NEW G,
         \A p, c \in Ids, m \in Names :
             (c \in G /\ <<m, c>> \in here[p]) => p \in G /\ <<m, c>> \in there[p],
         NEW path \in Seq(Names), WalkTo(here, root, path) \in G \cap Ids
  PROVE  WalkTo(there, root, path) = WalkTo(here, root, path)
<1> DEFINE Fails(p) == /\ WalkTo(here, root, p) \in G \cap Ids
                       /\ WalkTo(there, root, p) # WalkTo(here, root, p)
           T == {n \in Nat : \E p \in Seq(Names) : Len(p) = n /\ Fails(p)}
<1>1. SUFFICES ASSUME Fails(path) PROVE FALSE
  OBVIOUS
<1>2. T # {}
  <2>1. Len(path) \in Nat
    OBVIOUS
  <2> QED
    BY <1>1, <2>1
<1>3. PICK n \in T : \A m \in T : n <= m
  BY <1>2, LeastNumber
<1>4. PICK p \in Seq(Names) : Len(p) = n /\ Fails(p)
  BY <1>3
<1>5. p # <<>>
  <2>1. p = <<>> => WalkTo(there, root, p) = root /\ WalkTo(here, root, p) = root
    BY DEF WalkTo
  <2> QED
    BY <1>4, <2>1
<1> DEFINE c == WalkTo(here, root, p)
           up == ParentPath(p)
           q == WalkTo(here, root, up)
<1>6. c \in Ids /\ c \in G /\ WalkTo(there, root, p) # c
  BY <1>4
<1>7. up \in Seq(Names) /\ Len(up) = n - 1 /\ LastSegment(p) \in Names /\ n \in Nat /\ n >= 1
  BY <1>4, <1>5, PathShape
<1>8. q \in Ids /\ <<LastSegment(p), c>> \in here[q]
  BY <1>5, <1>6, WalkToStep
<1>9. q \in G /\ <<LastSegment(p), c>> \in there[q]
  BY <1>6, <1>7, <1>8
<1>10. WalkTo(there, root, up) = q
  <2>1. SUFFICES ASSUME WalkTo(there, root, up) # q PROVE FALSE
    OBVIOUS
  <2>2. Fails(up)
    BY <1>8, <1>9, <2>1
  <2>3. n - 1 \in T
    BY <1>7, <2>2
  <2> QED
    BY <1>3, <1>7, <2>3
<1>11. WalkTo(there, root, p) = c
  <2> HIDE DEF c, q
  <2> QED
    BY <1>5, <1>6, <1>8, <1>9, <1>10, WalkToStep DEF q
<1> QED
  BY <1>6, <1>11

\* What Remove takes is least: any set that has `id` and the children of its members has it.
LEMMA BelowIsLeast ==
  ASSUME NEW kids, NEW id \in Ids, NEW S, id \in S,
         \A p \in Ids : kids[p] \subseteq Names \X Ids,
         \A p, c \in Ids, m \in Names : (p \in S /\ <<m, c>> \in kids[p]) => c \in S
  PROVE  Below(kids, id) \subseteq S
<1> DEFINE within == {id} \cup {x \in Ids : \E p \in Ids : \E e \in kids[p] : e[2] = x}
           T == S \cap within
<1>1. T \in SUBSET within /\ id \in T /\ T \subseteq Ids
  OBVIOUS
<1>2. ClosedDown(kids, T)
  <2> SUFFICES ASSUME NEW p \in T, NEW e \in kids[p] PROVE e[2] \in T
    BY DEF ClosedDown
  <2>1. p \in Ids /\ e \in Names \X Ids
    BY <1>1
  <2>2. e = <<e[1], e[2]>> /\ e[1] \in Names /\ e[2] \in Ids
    BY <2>1
  <2>3. e[2] \in S
    BY <2>1, <2>2
  <2> QED
    BY <2>1, <2>2, <2>3
<1>3. CASE kids[id] = {}
  BY <1>3 DEF Below
<1>4. CASE kids[id] # {}
  <2>1. Below(kids, id) = {x \in within : \A U \in {V \in SUBSET within : id \in V /\ ClosedDown(kids, V)} : x \in U}
    BY <1>4 DEF Below
  <2>2. T \in {V \in SUBSET within : id \in V /\ ClosedDown(kids, V)}
    BY <1>1, <1>2
  <2> QED
    BY <2>1, <2>2
<1> QED
  BY <1>3, <1>4

\* What climbs to `tops` is least: induction along parent ids.
LEMMA ClimbLeast ==
  ASSUME NEW nodes, NEW tops \in SUBSET Ids, NEW S, tops \subseteq S,
         \A c \in Ids : (nodes[c] # NoNode /\ nodes[c].parent \in Climb(nodes, tops) /\ nodes[c].parent \in S)
                            => c \in S
  PROVE  Climb(nodes, tops) \subseteq S
<1> DEFINE met == Climb(nodes, tops)
           T == met \cap S
<1>1. /\ tops \subseteq met /\ met \subseteq tops \cup Present(nodes)
      /\ \A c \in Present(nodes) : nodes[c].parent \in met => c \in met
  BY ClimbIsLeast
<1>2. T \in SUBSET (tops \cup Present(nodes)) /\ tops \subseteq T
  BY <1>1
<1>3. ClosedUp(nodes, T)
  BY <1>1 DEF ClosedUp, Present
<1> QED
  BY <1>2, <1>3 DEF Climb

\* An item that gets an entry under a parent.
Entering(it) == ~it.deleted /\ ~it.is_root /\ it.parent # None

SameLinks(new, idx) ==
    /\ new.delta_token = idx.delta_token /\ new.pending_next_link = idx.pending_next_link
    /\ new.crawl_complete = idx.crawl_complete /\ new.generation = idx.generation

(***************************************************************************)
(* What Remove does to the node map: `id` and what is below it go, which   *)
(* is within any set that has `id` and the children of its members.        *)
(***************************************************************************)
LEMMA RemoveEffect ==
  ASSUME NEW idx, Sound(idx), NEW id \in Ids, id # RootId
  PROVE  \E gone \in SUBSET (Ids \ {RootId}) :
            /\ id \in gone
            /\ \A c \in Ids : Remove(idx, id).nodes[c] = IF c \in gone THEN NoNode ELSE idx.nodes[c]
            /\ Remove(idx, id).root = idx.root /\ SameLinks(Remove(idx, id), idx)
            /\ \A S : (/\ id \in S
                       /\ \A c \in Ids : (HasNode(idx, c) /\ idx.nodes[c].parent \in S) => c \in S)
                         => gone \subseteq S
<1> DEFINE gone == Below(idx.kids, id)
           new == Remove(idx, id)
<1>1. idx \in Index /\ \A p \in Ids : idx.kids[p] \subseteq Names \X Ids
  BY IndexFields DEF Sound
<1>2. /\ \A c \in Ids : new.nodes[c] = IF c \in gone THEN NoNode ELSE idx.nodes[c]
      /\ new.root = IF idx.root \in gone THEN None ELSE idx.root
  BY <1>1, RemoveFields
<1>3. gone \subseteq Ids /\ id \in gone
  BY <1>1, BelowIsClosed
<1>4. RootId \notin gone
  <2>1. \A p \in Ids, m \in Names : <<m, RootId>> \notin idx.kids[p]
    BY RootIsId DEF Sound, Fits, RootKnown
  <2> QED
    BY <1>1, <2>1, RootNotBelow
<1>5. new.root = idx.root
  BY <1>2, <1>4, <1>3, RootIsId DEF Sound, RootKnown
<1>6. SameLinks(new, idx)
  BY <1>1 DEF SameLinks, Remove, Index
<1>7. ASSUME NEW S, id \in S,
             \A c \in Ids : (HasNode(idx, c) /\ idx.nodes[c].parent \in S) => c \in S
      PROVE  gone \subseteq S
  <2>1. \A p, c \in Ids, m \in Names : (p \in S /\ <<m, c>> \in idx.kids[p]) => c \in S
    BY <1>7 DEF Sound, Fits
  <2> HIDE DEF gone
  <2> QED
    BY <1>1, <1>7, <2>1, BelowIsLeast DEF gone
<1>8. gone \in SUBSET (Ids \ {RootId})
  BY <1>3, <1>4
<1> HIDE DEF gone, new
<1>9. /\ id \in gone
      /\ \A c \in Ids : new.nodes[c] = IF c \in gone THEN NoNode ELSE idx.nodes[c]
      /\ new.root = idx.root /\ SameLinks(new, idx)
      /\ \A S : (/\ id \in S
                 /\ \A c \in Ids : (HasNode(idx, c) /\ idx.nodes[c].parent \in S) => c \in S)
                   => gone \subseteq S
  BY <1>2, <1>3, <1>5, <1>6, <1>7
<1> QED
  BY <1>8, <1>9 DEF new

\* No more than `gone` goes when `it` enters: it is within any set that has the entry with
\* the name of `it` and the children of its members.
GoesOnly(gone, idx, it) ==
    \A S : (/\ \A c \in Ids \ {it.id} :
                  (/\ HasNode(idx, c)
                   /\ idx.nodes[c].parent = it.parent /\ idx.nodes[c].name = it.name) => c \in S
            /\ \A c \in Ids : (HasNode(idx, c) /\ idx.nodes[c].parent \in S) => c \in S)
              => gone \subseteq S

(***************************************************************************)
(* What Apply does to the node map when an entry enters: the entry that    *)
(* had the name goes, with what is below it, and nothing else.             *)
(***************************************************************************)
LEMMA EnterEffect ==
  ASSUME NEW idx, Sound(idx), NEW it, GoodItem(it), Entering(it)
  PROVE  \E gone \in SUBSET (Ids \ {RootId}) :
            /\ \A c \in Ids \ {it.id} : Apply(idx, it).nodes[c] = IF c \in gone THEN NoNode ELSE idx.nodes[c]
            /\ Apply(idx, it).nodes[it.id] = [parent |-> it.parent, name |-> it.name, dir |-> it.dir]
            /\ Apply(idx, it).root = idx.root /\ SameLinks(Apply(idx, it), idx)
            /\ GoesOnly(gone, idx, it)
<1> DEFINE off == Detach(idx, it)
           clash == {c \in Ids \ {it.id} : <<it.name, c>> \in off.kids[it.parent]}
           free == Evict(off, it)
           new == Apply(idx, it)
           node == [parent |-> it.parent, name |-> it.name, dir |-> it.dir]
<1>1. /\ it.id \in Ids /\ idx \in Index /\ it \in DeltaItem /\ it.parent \in Ids /\ it.name \in Names
      /\ it.id # RootId
  BY DEF Sound, GoodItem, DeltaItem, Entering
<1>2. new = Attach(free, it)
  BY DEF Apply, Entering
<1>3. /\ off \in Index /\ off.nodes = idx.nodes /\ off.root = idx.root
      /\ \A p, c \in Ids, m \in Names : <<m, c>> \in off.kids[p] <=>
            /\ HasNode(idx, c) /\ idx.nodes[c].parent = p /\ idx.nodes[c].name = m
            /\ c = it.id => p = it.parent /\ m = it.name
      /\ \A p \in Ids : off.kids[p] \subseteq idx.kids[p]
  BY <1>1, DetachFields DEF Sound, Fits
<1>4. SameLinks(off, idx)
  <2>1. off = idx \/ off = [idx EXCEPT !.kids[idx.nodes[it.id].parent] = @ \ {<<idx.nodes[it.id].name, it.id>>}]
    BY DEF Detach
  <2> QED
    BY <1>1, <2>1 DEF SameLinks, Index
<1>5. \A p \in Ids : off.kids[p] \subseteq Names \X Ids
  BY <1>3, IndexFields
<1>6. free = IF clash = {} THEN off ELSE Remove(off, CHOOSE c \in clash : TRUE)
  BY DEF Evict
<1> HIDE DEF off, clash
<1>7. PICK gone \in SUBSET (Ids \ {RootId}) :
        /\ free \in Index /\ free.root = idx.root /\ SameLinks(free, idx)
        /\ \A c \in Ids : free.nodes[c] = IF c \in gone THEN NoNode ELSE idx.nodes[c]
        /\ GoesOnly(gone, idx, it)
  <2>1. CASE clash = {}
    <3>1. free = off
      BY <1>6, <2>1
    <3>2. {} \in SUBSET (Ids \ {RootId})
      OBVIOUS
    <3> HIDE DEF free
    <3>3. /\ free \in Index /\ free.root = idx.root /\ SameLinks(free, idx)
          /\ \A c \in Ids : free.nodes[c] = IF c \in {} THEN NoNode ELSE idx.nodes[c]
          /\ GoesOnly({}, idx, it)
      BY <1>3, <1>4, <3>1 DEF GoesOnly
    <3> QED
      BY <3>2, <3>3
  <2>2. CASE clash # {}
    <3> DEFINE c0 == CHOOSE c \in clash : TRUE
               gone == Below(off.kids, c0)
    <3>1. c0 \in clash
      BY <2>2
    <3>2. c0 \in Ids /\ c0 # it.id /\ <<it.name, c0>> \in off.kids[it.parent]
      BY <3>1 DEF clash
    <3>3. free = Remove(off, c0)
      BY <1>6, <2>2
    <3> HIDE DEF c0, free
    <3>4. HasNode(idx, c0) /\ idx.nodes[c0].parent = it.parent /\ idx.nodes[c0].name = it.name
      BY <1>1, <1>3, <3>2
    <3>5. c0 # RootId
      BY <1>1, <3>4, RootIsId DEF Sound, RootKnown
    <3>6. \A p \in Ids, m \in Names : <<m, RootId>> \notin off.kids[p]
      BY <1>3, RootIsId DEF Sound, RootKnown
    <3>7. RootId \notin gone
      BY <1>5, <3>2, <3>5, <3>6, RootNotBelow
    <3>8. gone \subseteq Ids
      BY <1>5, <3>2, BelowIsClosed
    <3>9. /\ free \in Index
          /\ \A c \in Ids : free.nodes[c] = IF c \in gone THEN NoNode ELSE off.nodes[c]
          /\ free.root = IF off.root \in gone THEN None ELSE off.root
      <4>1. off \in Index /\ c0 \in Ids
        BY <1>3, <3>2
      <4> HIDE DEF gone
      <4>2. /\ Remove(off, c0) \in Index
            /\ \A c \in Ids : Remove(off, c0).nodes[c] = IF c \in gone THEN NoNode ELSE off.nodes[c]
            /\ Remove(off, c0).root = IF off.root \in gone THEN None ELSE off.root
        BY <4>1, RemoveFields DEF gone
      <4> QED
        BY <3>3, <4>2
    <3>10. SameLinks(free, off)
      BY <1>3, <3>3 DEF SameLinks, Remove, Index
    <3>11. free.root = idx.root /\ SameLinks(free, idx)
      BY <1>3, <1>4, <3>7, <3>9, <3>10, RootIsId DEF Sound, RootKnown, SameLinks
    <3>12. ASSUME NEW S,
                  \A c \in Ids \ {it.id} :
                     (/\ HasNode(idx, c)
                      /\ idx.nodes[c].parent = it.parent /\ idx.nodes[c].name = it.name) => c \in S,
                  \A c \in Ids : (HasNode(idx, c) /\ idx.nodes[c].parent \in S) => c \in S
           PROVE  gone \subseteq S
      <4>1. c0 \in S
        BY <3>2, <3>4, <3>12
      <4>2. \A p, c \in Ids, m \in Names : (p \in S /\ <<m, c>> \in off.kids[p]) => c \in S
        BY <1>3, <3>12
      <4> HIDE DEF gone
      <4> QED
        BY <1>5, <3>2, <4>1, <4>2, BelowIsLeast DEF gone
    <3>13. gone \in SUBSET (Ids \ {RootId})
      BY <3>7, <3>8
    <3> HIDE DEF gone
    <3>14. \A c \in Ids : free.nodes[c] = IF c \in gone THEN NoNode ELSE idx.nodes[c]
      BY <1>3, <3>9
    <3>15. GoesOnly(gone, idx, it)
      BY <3>12 DEF GoesOnly
    <3> QED
      BY <3>9, <3>11, <3>13, <3>14, <3>15
  <2> QED
    BY <2>1, <2>2
<1> HIDE DEF free
<1>8. /\ new.root = free.root /\ SameLinks(new, free)
      /\ new.nodes[it.id] = node
      /\ \A c \in Ids \ {it.id} : new.nodes[c] = free.nodes[c]
  <2> DEFINE kids == [free.kids EXCEPT ![it.parent] = @ \cup {<<it.name, it.id>>}]
             nodes == [free.nodes EXCEPT ![it.id] = node]
  <2>1. new = [free EXCEPT !.kids = kids, !.nodes = nodes]
    BY <1>2, <1>7 DEF Attach, Index
  <2>2. free.nodes \in [Ids -> Node \cup {NoNode}]
    BY <1>7, IndexFields
  <2> HIDE DEF node
  <2>3. nodes[it.id] = node /\ \A c \in Ids \ {it.id} : nodes[c] = free.nodes[c]
    BY <1>1, <2>2
  <2> HIDE DEF kids, nodes, new
  <2> QED
    BY <1>7, <2>1, <2>3 DEF Index, SameLinks
<1> HIDE DEF new
<1>9. /\ \A c \in Ids \ {it.id} : new.nodes[c] = IF c \in gone THEN NoNode ELSE idx.nodes[c]
      /\ new.root = idx.root /\ SameLinks(new, idx)
  BY <1>7, <1>8 DEF SameLinks
<1> QED
  BY <1>7, <1>8, <1>9 DEF new

\* A folder with a place in the tree is where its path leads, and no path leads elsewhere.
LEMMA ResolvePresent ==
  ASSUME NEW idx, Sound(idx), NEW path \in Seq(Names), Resolve(idx, path) # None
  PROVE  idx.root = RootId /\ Resolve(idx, path) \in Ids /\ HasNode(idx, Resolve(idx, path))
<1>1. idx.root = RootId
  BY DEF Resolve, Sound, RootKnown
<1>2. Resolve(idx, path) \in Ids
  BY ResolveFinds
<1>3. path = <<>> => Resolve(idx, path) = RootId
  BY <1>1, RootIsId DEF Resolve, WalkTo
<1> QED
  BY <1>1, <1>2, <1>3, ResolveFinds DEF Sound, RootKnown
=============================================================================
