-------------------------- MODULE IndexSyncProofs --------------------------
(***************************************************************************)
(* Proofs about IndexSync, for any drive, any items, names and paths, any  *)
(* page size and limits, in-order or out-of-order feeds, clients that      *)
(* write anywhere and answers that may not parse: types, that the child    *)
(* sets of every index match its parent ids, and that a shadow takes the   *)
(* place of a live index only when its crawl is complete.                  *)
(***************************************************************************)
EXTENDS IndexSync, IndexTreeProofs

\* The drive has its root, and every other item a parent and a name.
DriveShape(drive) ==
    /\ drive \in [Ids -> Node \cup {NoNode}]
    /\ drive[RootId] # NoNode /\ drive[RootId].parent = None
    /\ \A c \in Ids \ {RootId} : drive[c] # NoNode => drive[c].parent \in Ids /\ drive[c].name \in Names

DriveInv ==
    /\ DriveTypeOK
    /\ DriveShape(remote)
    /\ version > 0 /\ changed[RootId] > 0

(***************************************************************************)
(* The inductive invariant: every index is sound, and so is what is on its *)
(* way into one: the items of the page in hand, the answer of a mutation.  *)
(***************************************************************************)
FileOK(file) == file # Missing => Sound(file)
TickOK(t) == t \in Tick /\ Sound(t.idx) /\ \A it \in t.page.items : GoodItem(it)
CallOK(c) == c \in Call /\ (c.item # None => GoodItem(c.item))
PcOK ==
    /\ pc \in {"idle", "fetch", "apply", "save", "rename", "patch"}
    /\ pc = "patch" => CallOK(call)
Inv ==
    /\ DriveInv
    /\ FileOK(live) /\ FileOK(rebuild)
    /\ TickOK(tick) /\ call \in Call \cup {None}
    /\ PcOK
    /\ faults \in Nat

-----------------------------------------------------------------------------
(***************************************************************************)
(* The drive.                                                              *)
(***************************************************************************)
\* Drive items are ids.
LEMMA ItemIsId == RootId \in ItemIds /\ ItemIds \subseteq Ids
  BY RootAssumption DEF Ids

\* What Graph says of an item of a drive in shape is well formed.
LEMMA ItemIsGood ==
  ASSUME NEW drive, DriveShape(drive), NEW x \in ItemIds
  PROVE  GoodItem(ItemOf(drive, x))
<1> DEFINE it == ItemOf(drive, x)
<1>1. x \in Ids /\ drive[x] \in Node \cup {NoNode}
  BY ItemIsId DEF DriveShape
<1>2. /\ it.id = x /\ it.deleted = (drive[x] = NoNode) /\ it.is_root = (x = RootId)
      /\ it.parent = IF drive[x] = NoNode THEN None ELSE drive[x].parent
      /\ it.name = IF drive[x] = NoNode THEN None ELSE drive[x].name
  BY DEF ItemOf
<1>3. it \in DeltaItem
  BY <1>1 DEF ItemOf, DeltaItem, Node
<1> HIDE DEF it
<1>4. it.is_root <=> it.id = RootId
  BY <1>2
<1>5. it.deleted => it.id # RootId
  BY <1>2 DEF DriveShape
<1>6. (~it.deleted /\ ~it.is_root /\ it.parent # None) => it.name \in Names
  BY <1>1, <1>2 DEF DriveShape
<1> QED
  BY <1>3, <1>4, <1>5, <1>6 DEF GoodItem, it

\* The drive starts in shape.
LEMMA DriveInitInv == DriveInit => DriveInv
<1> SUFFICES ASSUME DriveInit PROVE DriveInv
  OBVIOUS
<1>1. RootNode # NoNode /\ RootNode.parent = None
  <2>1. RootNode \in Node /\ RootNode.parent = None
    BY DEF RootNode, Node
  <2> QED
    BY <2>1, RootIsId
<1>2. DriveShape(remote)
  <2>1. remote = InitialDrive
    BY DEF DriveInit
  <2>2. /\ InitialDrive \in [Ids -> Node \cup {NoNode}]
        /\ InitialDrive[RootId] = RootNode
        /\ \A c \in Ids \ {RootId} : InitialDrive[c] # NoNode =>
              InitialDrive[c].parent \in Ids /\ InitialDrive[c].name \in Names
    BY DriveAssumption DEF Present
  <2> QED
    BY <1>1, <2>1, <2>2 DEF DriveShape
<1>3. changed \in [ItemIds -> Nat] /\ changed[RootId] = 1
  BY <1>1, ItemIsId, DriveAssumption DEF DriveInit
<1> QED
  BY <1>2, <1>3 DEF DriveInit, DriveInv, DriveTypeOK, DriveShape

\* A change to another tree in shape keeps the drive's invariant.
LEMMA ChangesInv ==
  ASSUME DriveInv, NEW drive, DriveShape(drive), NEW items, Changes(drive, items)
  PROVE  DriveInv'
<1>1. /\ remote' = drive /\ version' = version + 1
      /\ changed' = [x \in ItemIds |-> IF x \in items THEN version + 1 ELSE changed[x]]
  BY DEF Changes
<1>2. version \in Nat /\ changed \in [ItemIds -> Nat] /\ version > 0 /\ changed[RootId] > 0
  BY DEF DriveInv, DriveTypeOK
<1>3. changed' \in [ItemIds -> Nat] /\ changed'[RootId] > 0
  BY <1>1, <1>2, ItemIsId
<1>4. DriveShape(remote)'
  BY <1>1 DEF DriveShape
<1> QED
  BY <1>1, <1>2, <1>3, <1>4 DEF DriveInv, DriveTypeOK, DriveShape

\* A new item has a parent and a name.
LEMMA CreateInv ==
  ASSUME DriveInv, NEW x \in ItemIds, NEW p, NEW n \in Names, Create(x, p, n)
  PROVE  DriveInv'
<1> DEFINE node == [parent |-> p, name |-> n, dir |-> x \in Folders]
           drive == [remote EXCEPT ![x] = node]
<1>1. x # RootId /\ x \in Ids /\ p \in Ids
  BY ItemIsId, RootAssumption DEF Create, DriveInv, IsFolder
<1>2. node \in Node /\ node.parent = p /\ node.name = n
  BY <1>1 DEF Node
<1> HIDE DEF node
<1>3. DriveShape(drive)
  <2>1. remote \in [Ids -> Node \cup {NoNode}]
    BY DEF DriveInv, DriveShape
  <2>2. /\ drive \in [Ids -> Node \cup {NoNode}] /\ drive[x] = node
        /\ \A c \in Ids \ {x} : drive[c] = remote[c]
    BY <1>1, <1>2, <2>1
  <2> HIDE DEF drive
  <2> QED
    BY <1>1, <1>2, <2>2, RootIsId DEF DriveInv, DriveShape
<1>4. Changes(drive, {x})
  BY DEF Create, node
<1> HIDE DEF drive
<1> QED
  BY <1>3, <1>4, ChangesInv

\* A moved item has a parent and a name; the root is never moved.
LEMMA MoveInv ==
  ASSUME DriveInv, NEW x, NEW p, NEW n \in Names, Move(x, p, n)
  PROVE  DriveInv'
<1> DEFINE drive == [remote EXCEPT ![x].parent = p, ![x].name = n]
           node == [[remote[x] EXCEPT !.parent = p] EXCEPT !.name = n]
<1>1. x # RootId /\ x \in Ids /\ p \in Ids /\ remote[x] # NoNode
  BY ItemIsId, RootAssumption, FeedAssumption DEF Move, IsFolder
<1>2. remote \in [Ids -> Node \cup {NoNode}]
  BY DEF DriveInv, DriveShape
<1>3. node \in Node /\ node.parent = p /\ node.name = n
  BY <1>1, <1>2 DEF Node
<1>4. drive = [remote EXCEPT ![x] = node]
  BY <1>1, <1>2
<1> HIDE DEF node, drive
<1>5. DriveShape(drive)
  <2>1. /\ drive \in [Ids -> Node \cup {NoNode}] /\ drive[x] = node
        /\ \A c \in Ids \ {x} : drive[c] = remote[c]
    BY <1>1, <1>2, <1>3, <1>4
  <2> QED
    BY <1>1, <1>3, <2>1, RootIsId DEF DriveInv, DriveShape
<1>6. Changes(drive, {x})
  BY DEF Move, drive
<1> QED
  BY <1>5, <1>6, ChangesInv

\* A deletion never reaches the root.
LEMMA DeleteInv ==
  ASSUME DriveInv, NEW x \in Ids, Delete(x)
  PROVE  DriveInv'
<1> DEFINE gone == Below(RemoteKids, x)
           drive == [y \in Ids |-> IF y \in gone THEN NoNode ELSE remote[y]]
<1>1. DriveShape(remote)
  BY DEF DriveInv
<1>2. ASSUME NEW p \in Ids PROVE RemoteKids[p] \subseteq Names \X Ids
  BY <1>1, RootIsId DEF RemoteKids, KidsOf, Present, DriveShape
<1>3. ASSUME NEW p \in Ids, NEW m \in Names PROVE <<m, RootId>> \notin RemoteKids[p]
  BY <1>1, RootIsId DEF RemoteKids, KidsOf, Present, DriveShape
<1>4. RootId \notin gone
  <2>1. x # RootId
    BY DEF Delete
  <2> QED
    BY <1>2, <1>3, <2>1, RootNotBelow
<1>5. Changes(drive, gone \cap ItemIds)
  BY DEF Delete
<1> HIDE DEF gone
<1>6. DriveShape(drive)
  BY <1>1, <1>4, RootIsId DEF DriveShape
<1> HIDE DEF drive
<1> QED
  BY <1>5, <1>6, ChangesInv

\* New content leaves the tree alone.
LEMMA RewriteInv == ASSUME DriveInv, NEW x, Rewrite(x) PROVE DriveInv'
<1>1. DriveShape(remote) /\ Changes(remote, {x})
  BY DEF Rewrite, DriveInv
<1> QED
  BY <1>1, ChangesInv

\* Other devices leave the drive in shape.
LEMMA OtherDeviceInv == DriveInv /\ OtherDevice => DriveInv'
<1> SUFFICES ASSUME DriveInv, OtherDevice PROVE DriveInv'
  OBVIOUS
<1>1. ASSUME NEW x \in ItemIds, NEW p \in Folders, NEW n \in Names, Create(x, p, n) PROVE DriveInv'
  BY <1>1, CreateInv
<1>2. ASSUME NEW x \in ItemIds, NEW p \in Folders, NEW n \in Names, Move(x, p, n) PROVE DriveInv'
  BY <1>2, MoveInv
<1>3. ASSUME NEW x \in ItemIds, Delete(x) PROVE DriveInv'
  BY <1>3, DeleteInv, ItemIsId
<1> QED
  BY <1>1, <1>2, <1>3 DEF OtherDevice

-----------------------------------------------------------------------------
(***************************************************************************)
(* The feed.                                                               *)
(***************************************************************************)
\* A crawl always has a link to resume from.
LEMMA ResumeIsLink == ASSUME NEW idx \in Index PROVE ResumeUrl(idx) \in Link
<1>1. InitialLink \in Link
  BY DEF InitialLink, Link
<1> QED
  BY <1>1, NoLinkAssumption DEF ResumeUrl, OrElse, Index

\* Every page Graph may serve is a page of well-formed items.
LEMMA PageIsGood ==
  ASSUME DriveInv, NEW link \in Link, NEW page \in Pages(link)
  PROVE  page \in PageType /\ \A it \in page.items : GoodItem(it)
<1>1. PICK served \in SUBSET Todo(link) : page = Served(served, link)
  BY DEF Pages
<1>2. Todo(link) \subseteq ItemIds
  BY DEF Todo, Link
<1>3. Begun(link) \in Nat
  BY DEF Begun, Link, DriveInv, DriveTypeOK
<1> DEFINE rest == Todo(link) \ served
           items == {ItemOf(remote, x) : x \in served}
<1>4. \A it \in items : GoodItem(it)
  BY <1>2, ItemIsGood DEF DriveInv
<1>5. items \subseteq DeltaItem
  BY <1>4 DEF GoodItem
<1>6. NextLink(Begun(link), rest) \in Link /\ DeltaLink(Begun(link)) \in Link
  BY <1>2, <1>3 DEF NextLink, DeltaLink, Link
<1>7. page = IF rest = {} THEN Page(items, None, DeltaLink(Begun(link)))
             ELSE Page(items, NextLink(Begun(link), rest), None)
  BY <1>1 DEF Served
<1> HIDE DEF rest, items
<1>8. page.items = items /\ page \in PageType
  BY <1>5, <1>6, <1>7 DEF Page, PageType
<1> QED
  BY <1>4, <1>8

-----------------------------------------------------------------------------
(***************************************************************************)
(* The patch of a mutation.                                                *)
(***************************************************************************)
\* The edit of a mutation, apply or by path, leaves the index sound.
LEMMA PatchedSound ==
  ASSUME NEW idx, Sound(idx), NEW c \in Call, c.item # None => GoodItem(c.item)
  PROVE  Sound(Patched(idx, c).idx)
<1> DEFINE applied == IF c.item = None THEN idx ELSE Apply(idx, c.item)
<1>1. Sound(applied)
  BY ApplySound
<1>2. c.path \in Paths /\ c.to \in Paths /\ c.op \in {"PUT", "MKCOL", "DELETE", "MOVE"}
  BY DEF Call
<1>3. ASSUME NEW dir \in BOOLEAN PROVE Sound(ApplyOrUpsert(idx, c.item, c.path, dir).idx)
  <2>1. \/ ApplyOrUpsert(idx, c.item, c.path, dir).idx = applied
        \/ ApplyOrUpsert(idx, c.item, c.path, dir).idx = UpsertAtPath(applied, c.path, dir).idx
    BY DEF ApplyOrUpsert, Edit
  <2> HIDE DEF applied
  <2>2. Sound(UpsertAtPath(applied, c.path, dir).idx)
    BY <1>1, <1>2, UpsertSound
  <2> QED
    BY <1>1, <2>1, <2>2
<1>4. Sound(ApplyOrMove(idx, c.item, c.path, c.to).idx)
  <2>1. \/ ApplyOrMove(idx, c.item, c.path, c.to).idx = applied
        \/ ApplyOrMove(idx, c.item, c.path, c.to).idx = MoveAtPath(applied, c.path, c.to).idx
    BY DEF ApplyOrMove, Edit
  <2> HIDE DEF applied
  <2>2. Sound(MoveAtPath(applied, c.path, c.to).idx)
    BY <1>1, <1>2, MoveSound
  <2> QED
    BY <1>1, <2>1, <2>2
<1>5. Sound(RemoveAtPath(idx, c.path).idx)
  BY <1>2, RemoveAtPathSound
<1> QED
  BY <1>2, <1>3, <1>4, <1>5 DEF Patched

-----------------------------------------------------------------------------
(***************************************************************************)
(* What the invariant says.                                                *)
(***************************************************************************)
\* The invariant gives the types of the runs.
LEMMA InvMeansTypes == Inv => TypeOK
<1> SUFFICES ASSUME Inv PROVE TypeOK
  OBVIOUS
<1>1. live \in Snapshot /\ rebuild \in Snapshot
  BY DEF Inv, FileOK, Snapshot, Sound
<1> QED
  BY <1>1 DEF Inv, TypeOK, DriveInv, TickOK, CallOK, PcOK

\* The invariant gives the property of the runs about child sets.
LEMMA InvMeansMatch == Inv => ChildSetsMatch
<1> SUFFICES ASSUME Inv PROVE ChildSetsMatch
  OBVIOUS
<1>1. Sound(tick.idx)
  BY DEF Inv, TickOK
<1>2. Matched(tick.idx)
  BY <1>1, SoundIsMatched
<1>3. IsIndex(live) => Matched(live)
  BY SoundIsMatched DEF Inv, FileOK, IsIndex
<1>4. IsIndex(rebuild) => Matched(rebuild)
  BY SoundIsMatched DEF Inv, FileOK, IsIndex
<1> QED
  BY <1>2, <1>3, <1>4 DEF ChildSetsMatch

-----------------------------------------------------------------------------
(***************************************************************************)
(* The steps of a tick.                                                    *)
(***************************************************************************)
\* A tick without a page has no items.
LEMMA NoPageOK == NoPage \in PageType /\ NoPage.items = {}
  BY DEF NoPage, Page, PageType

\* A guest that runs no tick holds nothing.
LEMMA NoTickOK == TickOK(NoTick)
<1>1. Sound(Blank(0)) /\ Blank(0) \in Index
  BY BlankSound DEF Sound
<1>2. InitialLink \in Link
  BY DEF InitialLink, Link
<1>3. NoTick \in Tick
  BY <1>1, <1>2, NoPageOK DEF NoTick, Tick
<1>4. NoTick.idx = Blank(0) /\ NoTick.page = NoPage
  BY DEF NoTick
<1> QED
  BY <1>1, <1>3, <1>4, NoPageOK DEF TickOK

\* What a tick's invariant says, field by field.
LEMMA TickFields ==
  ASSUME NEW t, TickOK(t)
  PROVE  /\ t \in Tick /\ t.idx \in Index /\ Sound(t.idx) /\ t.url \in Link
         /\ t.pages \in Nat /\ t.dirty \in BOOLEAN /\ t.complete \in BOOLEAN
         /\ t.page \in PageType /\ t.target \in {"index", "rebuild"}
         /\ t.idx.generation \in Nat
         /\ t.idx.pending_next_link \in Link \cup {None} /\ t.idx.delta_token \in Link \cup {None}
         /\ t.page.next_link \in Link \cup {None} /\ t.page.delta_token \in Link \cup {None}
  BY DEF TickOK, Tick, Index, PageType

\* The invariant holds at the start: no files, no tick, no mutation.
LEMMA InitInv == Init => Inv
<1> SUFFICES ASSUME Init PROVE Inv
  OBVIOUS
<1>1. DriveInv
  BY DriveInitInv DEF Init
<1> QED
  BY <1>1, NoTickOK DEF Init, Inv, FileOK, CallOK, PcOK

\* A tick takes up a sound index, from disk or new.
LEMMA BeginTickInv == Inv /\ BeginTick => Inv'
<1> SUFFICES ASSUME Inv, BeginTick PROVE Inv'
  OBVIOUS
<1>0. PICK base \in Opened(live), meta \in Opened(live), shadow \in Opened(rebuild) :
         /\ LET idx == IF shadow # Missing THEN shadow
                       ELSE IF base # Missing THEN base ELSE Blank(0)
            IN  tick' = [idx |-> idx,
                         target |-> IF shadow # Missing THEN "rebuild" ELSE "index",
                         url |-> ResumeUrl(idx),
                         pages |-> 0,
                         dirty |-> meta # Missing /\ meta.crawl_complete /\ DirRows(meta) = {},
                         complete |-> idx.crawl_complete /\ idx.pending_next_link = None,
                         page |-> NoPage]
         /\ Spend(base # live \/ meta # live \/ shadow # rebuild)
  BY DEF BeginTick
<1> DEFINE idx == IF shadow # Missing THEN shadow ELSE IF base # Missing THEN base ELSE Blank(0)
           dirty == meta # Missing /\ meta.crawl_complete /\ DirRows(meta) = {}
           complete == idx.crawl_complete /\ idx.pending_next_link = None
           target == IF shadow # Missing THEN "rebuild" ELSE "index"
           url == ResumeUrl(idx)
<1>1. tick' = [idx |-> idx, target |-> target, url |-> url, pages |-> 0,
               dirty |-> dirty, complete |-> complete, page |-> NoPage]
  BY <1>0
<1>2. Sound(idx)
  <2>1. FileOK(base) /\ FileOK(shadow)
    BY DEF Inv, FileOK, Opened
  <2> QED
    BY <2>1, BlankSound DEF FileOK
<1> HIDE DEF idx
<1>3. idx \in Index /\ url \in Link
  BY <1>2, ResumeIsLink DEF Sound
<1>4. dirty \in BOOLEAN /\ complete \in BOOLEAN
  OBVIOUS
<1>5. target \in {"index", "rebuild"}
  OBVIOUS
<1> HIDE DEF url, dirty, complete, target
<1>6. tick' \in Tick /\ tick'.idx = idx /\ tick'.page = NoPage
  BY <1>1, <1>3, <1>4, <1>5, NoPageOK DEF Tick
<1>7. TickOK(tick)'
  BY <1>2, <1>6, NoPageOK DEF TickOK
<1>8. faults' \in Nat
  BY <1>0 DEF Spend, Fault, Inv
<1> QED
  BY <1>7, <1>8 DEF BeginTick, Inv, driveVars, DriveInv, DriveTypeOK, FileOK, CallOK, PcOK

\* A page brings well-formed items and leaves the index alone.
LEMMA FetchPageInv == Inv /\ FetchPage => Inv'
<1> SUFFICES ASSUME Inv, FetchPage PROVE Inv'
  OBVIOUS
<1>1. PICK page \in Pages(tick.url) :
        tick' = [tick EXCEPT !.pages = @ + 1, !.dirty = @ \/ page.items # {}, !.page = page]
  BY DEF FetchPage
<1>2. page \in PageType /\ \A it \in page.items : GoodItem(it)
  BY <1>1, PageIsGood, TickFields DEF Inv
<1>3. tick \in Tick /\ Sound(tick.idx)
  BY TickFields DEF Inv
<1> DEFINE pages == tick.pages + 1
           dirty == tick.dirty \/ page.items # {}
<1>4. pages \in Nat /\ dirty \in BOOLEAN
  <2>1. tick.pages \in Nat
    BY TickFields DEF Inv
  <2> QED
    BY <2>1
<1>5. tick' = [[[tick EXCEPT !.pages = pages] EXCEPT !.dirty = dirty] EXCEPT !.page = page]
  BY <1>1, <1>3 DEF Tick
<1> HIDE DEF pages, dirty
<1>6. tick' \in Tick /\ tick'.idx = tick.idx /\ tick'.page = page
  BY <1>2, <1>3, <1>4, <1>5 DEF Tick
<1>7. TickOK(tick)'
  BY <1>2, <1>3, <1>6 DEF TickOK
<1> QED
  BY <1>7 DEF FetchPage, Inv, driveVars, DriveInv, DriveTypeOK, FileOK, CallOK, PcOK

\* A 410 starts over with an index that has nothing.
LEMMA FetchResyncInv == Inv /\ FetchResync => Inv'
<1> SUFFICES ASSUME Inv, FetchResync PROVE Inv'
  OBVIOUS
<1>0. PICK base \in Opened(live) :
         LET worth == base # Missing /\ (base.crawl_complete \/ base.root # None)
         IN  tick' = [tick EXCEPT !.idx = Blank(tick.idx.generation + 1),
                                  !.target = IF worth THEN "rebuild" ELSE "index",
                                  !.url = InitialLink,
                                  !.pages = @ + 1,
                                  !.dirty = TRUE,
                                  !.complete = FALSE]
  BY DEF FetchResync
<1> DEFINE worth == base # Missing /\ (base.crawl_complete \/ base.root # None)
           target == IF worth THEN "rebuild" ELSE "index"
           blank == Blank(tick.idx.generation + 1)
           pages == tick.pages + 1
<1>1. tick' = [tick EXCEPT !.idx = blank, !.target = target, !.url = InitialLink,
                           !.pages = pages, !.dirty = TRUE, !.complete = FALSE]
  BY <1>0
<1>2. Sound(blank) /\ blank \in Index
  <2>1. tick.idx.generation + 1 \in Nat
    BY TickFields DEF Inv
  <2> QED
    BY <2>1, BlankSound DEF Sound
<1>3. target \in {"index", "rebuild"} /\ InitialLink \in Link
  BY DEF InitialLink, Link
<1>4. tick \in Tick /\ \A it \in tick.page.items : GoodItem(it)
  BY DEF Inv, TickOK
<1>5. pages \in Nat
  <2>1. tick.pages \in Nat
    BY TickFields DEF Inv
  <2> QED
    BY <2>1
<1> HIDE DEF target, blank, pages
<1>6. tick' \in Tick /\ tick'.idx = blank /\ tick'.page = tick.page
  BY <1>1, <1>2, <1>3, <1>4, <1>5 DEF Tick
<1>7. TickOK(tick)'
  BY <1>2, <1>4, <1>6 DEF TickOK
<1>8. faults' \in Nat
  BY DEF FetchResync, Fault, Inv
<1> QED
  BY <1>7, <1>8 DEF FetchResync, Inv, driveVars, DriveInv, DriveTypeOK, FileOK, CallOK, PcOK

\* Each item of the page keeps the index sound.
LEMMA ApplyItemInv == Inv /\ ApplyItem => Inv'
<1> SUFFICES ASSUME Inv, ApplyItem PROVE Inv'
  OBVIOUS
<1>1. PICK it \in tick.page.items :
        tick' = [tick EXCEPT !.idx = Apply(@, it), !.page.items = @ \ {it}]
  BY DEF ApplyItem
<1> DEFINE idx == Apply(tick.idx, it)
           page == [tick.page EXCEPT !.items = @ \ {it}]
<1>2. tick \in Tick /\ tick.page \in PageType /\ \A i \in tick.page.items : GoodItem(i)
  BY TickFields DEF Inv, TickOK
<1>3. Sound(idx)
  BY <1>2, ApplySound, TickFields DEF Inv
<1>4. page \in PageType /\ page.items = tick.page.items \ {it}
  BY <1>2 DEF PageType
<1> HIDE DEF idx
<1>5. tick' \in Tick /\ tick'.idx = idx /\ tick'.page = page
  BY <1>1, <1>2, <1>3, <1>4 DEF Tick, Sound, idx
<1> HIDE DEF page
<1>6. TickOK(tick)'
  BY <1>2, <1>3, <1>4, <1>5 DEF TickOK
<1> QED
  BY <1>6 DEF ApplyItem, Inv, driveVars, DriveInv, DriveTypeOK, FileOK, CallOK, PcOK

\* A nextLink is progress of the crawl only.
LEMMA TakeNextLinkInv == Inv /\ TakeNextLink => Inv'
<1> SUFFICES ASSUME Inv, TakeNextLink PROVE Inv'
  OBVIOUS
<1> DEFINE next == tick.page.next_link
           idx == [tick.idx EXCEPT !.pending_next_link = next, !.crawl_complete = FALSE]
           dirty == tick.dirty \/ tick.idx.pending_next_link # next
<1>1. tick \in Tick /\ Sound(tick.idx) /\ tick.idx \in Index /\ next \in Link
  BY TickFields DEF Inv, TakeNextLink
<1>2. /\ idx \in Index
      /\ idx.nodes = tick.idx.nodes /\ idx.kids = tick.idx.kids /\ idx.root = tick.idx.root
  <2> HIDE DEF next
  <2> QED
    BY <1>1 DEF Index
<1>3. Sound(idx)
  <2> HIDE DEF idx
  <2> QED
    BY <1>1, <1>2, ProgressSound
<1>4. dirty \in BOOLEAN
  <2>1. tick.dirty \in BOOLEAN
    BY TickFields DEF Inv
  <2> QED
    BY <2>1
<1>5. tick' = [[[[[tick EXCEPT !.idx = idx] EXCEPT !.url = next] EXCEPT !.dirty = dirty]
                 EXCEPT !.complete = FALSE] EXCEPT !.page = NoPage]
  BY <1>1 DEF TakeNextLink, Tick
<1> HIDE DEF next, idx, dirty
<1>6. tick' \in Tick /\ tick'.idx = idx /\ tick'.page = NoPage
  BY <1>1, <1>2, <1>4, <1>5, NoPageOK DEF Tick
<1>7. TickOK(tick)'
  BY <1>3, <1>6, NoPageOK DEF TickOK
<1> QED
  BY <1>7 DEF TakeNextLink, Inv, driveVars, DriveInv, DriveTypeOK, FileOK, CallOK, PcOK

\* The end of a crawl is progress, and a sweep.
LEMMA TakeDeltaLinkInv == Inv /\ TakeDeltaLink => Inv'
<1> SUFFICES ASSUME Inv, TakeDeltaLink PROVE Inv'
  OBVIOUS
<1> DEFINE token == OrElse(tick.page.delta_token, tick.idx.delta_token)
           ended == [tick.idx EXCEPT !.pending_next_link = None, !.delta_token = token,
                                     !.crawl_complete = TRUE]
           idx == SweepOrphans(ended)
           dirty == \/ tick.dirty
                    \/ tick.idx.delta_token # tick.page.delta_token
                    \/ tick.idx.pending_next_link # None
<1>1. tick \in Tick /\ Sound(tick.idx) /\ tick.idx \in Index /\ token \in Link \cup {None}
  BY TickFields DEF Inv, OrElse
<1>2. /\ ended \in Index
      /\ ended.nodes = tick.idx.nodes /\ ended.kids = tick.idx.kids /\ ended.root = tick.idx.root
  <2> HIDE DEF token
  <2> QED
    BY <1>1 DEF Index
<1>3. Sound(idx) /\ idx \in Index
  <2> HIDE DEF ended
  <2>1. Sound(ended)
    BY <1>1, <1>2, ProgressSound
  <2> QED
    BY <2>1, SweepSound DEF Sound
<1>4. dirty \in BOOLEAN
  <2>1. tick.dirty \in BOOLEAN
    BY TickFields DEF Inv
  <2> QED
    BY <2>1
<1>5. tick' = [[[[tick EXCEPT !.idx = idx] EXCEPT !.dirty = dirty] EXCEPT !.complete = TRUE]
                EXCEPT !.page = NoPage]
  <2>1. tick' = [tick EXCEPT !.idx = idx, !.dirty = dirty, !.complete = TRUE, !.page = NoPage]
    BY DEF TakeDeltaLink
  <2> QED
    BY <2>1
<1> HIDE DEF idx, dirty
<1>6. tick' \in Tick /\ tick'.idx = idx /\ tick'.page = NoPage
  BY <1>1, <1>3, <1>4, <1>5, NoPageOK DEF Tick
<1>7. TickOK(tick)'
  BY <1>3, <1>6, NoPageOK DEF TickOK
<1> QED
  BY <1>7 DEF TakeDeltaLink, Inv, driveVars, DriveInv, DriveTypeOK, FileOK, CallOK, PcOK

\* A tick that stops keeps what it has.
LEMMA StopFetchingInv == Inv /\ StopFetching => Inv'
  BY DEF StopFetching, Inv, driveVars, DriveInv, DriveTypeOK, DriveShape, FileOK, TickOK, CallOK, PcOK

\* A saved index is sound as it loads, in either file.
LEMMA SaveInv == Inv /\ Save => Inv'
<1> SUFFICES ASSUME Inv, Save PROVE Inv'
  OBVIOUS
<1>1. Sound(Reload(tick.idx))
  BY TickFields, ReloadSound DEF Inv
<1>2. FileOK(live)' /\ FileOK(rebuild)'
  BY <1>1 DEF Save, WriteIndex, Inv, FileOK, diskVars
<1> QED
  BY <1>2 DEF Save, WriteIndex, Inv, driveVars, DriveInv, DriveTypeOK, DriveShape, TickOK, CallOK, PcOK

\* The swap moves a sound index from one file to the other.
LEMMA FinishTickInv == Inv /\ FinishTick => Inv'
<1> SUFFICES ASSUME Inv, FinishTick PROVE Inv'
  OBVIOUS
<1>1. FileOK(live)' /\ FileOK(rebuild)'
  BY DEF FinishTick, Inv, FileOK, diskVars
<1>2. TickOK(tick)'
  BY NoTickOK DEF FinishTick, TickOK
<1> QED
  BY <1>1, <1>2 DEF FinishTick, Inv, driveVars, DriveInv, DriveTypeOK, DriveShape, CallOK, PcOK

\* A lost invocation takes nothing but memory.
LEMMA LoseInvocationInv == Inv /\ LoseInvocation => Inv'
<1> SUFFICES ASSUME Inv, LoseInvocation PROVE Inv'
  OBVIOUS
<1>1. TickOK(tick)' /\ faults' \in Nat
  BY NoTickOK DEF LoseInvocation, Fault, TickOK, Inv
<1> QED
  BY <1>1 DEF LoseInvocation, Inv, driveVars, DriveInv, DriveTypeOK, DriveShape, FileOK, PcOK

-----------------------------------------------------------------------------
(***************************************************************************)
(* The steps of a mutation.                                                *)
(***************************************************************************)
\* A mutation leaves the drive in shape, and whatever answer the code has of it is well formed.
LEMMA CalledInv ==
  ASSUME Inv, DriveInv', NEW op \in {"PUT", "MKCOL", "DELETE", "MOVE"},
         NEW path \in Paths, NEW to \in Paths, NEW item, item # None => GoodItem(item),
         Called(op, path, to, item)
  PROVE  Inv'
<1> DEFINE new == [op |-> op, path |-> path, to |-> to, item |-> item]
<1>1. item \in DeltaItem \cup {None}
  BY DEF GoodItem
<1>2. new \in Call /\ new.item = item
  BY <1>1 DEF Call
<1>3. call' = new
  BY DEF Called
<1> HIDE DEF new
<1>4. CallOK(call)'
  BY <1>2, <1>3 DEF CallOK
<1> QED
  BY <1>4 DEF Called, Inv, FileOK, TickOK, PcOK, CallOK

\* A path that names something on the drive names an id.
LEMMA RemoteAtIsId == ASSUME NEW path \in Paths PROVE RemoteAt(path) \in Ids \cup {None}
<1>1. path # <<>> /\ Len(path) \in 1..Len(path)
  <2>1. path \in Seq(Names) /\ path # <<>>
    BY PathsAssumption
  <2>2. Len(path) \in Nat /\ Len(path) >= 1
    BY <2>1
  <2> QED
    BY <2>1, <2>2
<1> DEFINE walks == Walks(RemoteKids, RootId, path)
<1>2. walks \subseteq [1..Len(path) -> Ids]
  BY DEF Walks
<1>3. RemoteAt(path) = IF walks = {} THEN None ELSE (CHOOSE w \in walks : TRUE)[Len(path)]
  BY <1>1 DEF RemoteAt, WalkTo
<1> HIDE DEF walks
<1>4. CASE walks = {}
  BY <1>3, <1>4
<1>5. CASE walks # {}
  <2>1. (CHOOSE w \in walks : TRUE) \in walks
    BY <1>5
  <2> QED
    BY <1>1, <1>2, <1>3, <1>5, <2>1
<1> QED
  BY <1>4, <1>5

\* An answer is about an item, in the state the mutation left it.
LEMMA AnswerIsGood ==
  ASSUME DriveInv', NEW x \in ItemIds, NEW item \in Answers(x)
  PROVE  item # None => GoodItem(item)
<1>1. DriveShape(remote')
  BY DEF DriveInv, DriveShape
<1>2. GoodItem(ItemOf(remote', x))
  BY <1>1, ItemIsGood
<1> QED
  BY <1>2 DEF Answers

\* PUT: a rewrite or a new file, and its answer.
LEMMA CallPutInv == ASSUME Inv, NEW path \in Paths, CallPut(path) PROVE Inv'
<1>1. PICK x \in ItemIds :
        /\ Rewrite(x) \/ Create(x, RemoteAt(ParentPath(path)), LastSegment(path))
        /\ \E item \in Answers(x) : Called("PUT", path, path, item)
  BY DEF CallPut, PutContent
<1>2. DriveInv /\ LastSegment(path) \in Names
  BY PathParts DEF Inv
<1>3. DriveInv'
  BY <1>1, <1>2, RewriteInv, CreateInv
<1>4. PICK item \in Answers(x) : Called("PUT", path, path, item)
  BY <1>1
<1>5. item # None => GoodItem(item)
  BY <1>3, AnswerIsGood
<1> QED
  BY <1>3, <1>4, <1>5, CalledInv

\* MKCOL: a new folder, and its answer.
LEMMA CallMkcolInv == ASSUME Inv, NEW path \in Paths, CallMkcol(path) PROVE Inv'
<1>1. PICK x \in ItemIds :
        /\ Create(x, RemoteAt(ParentPath(path)), LastSegment(path))
        /\ \E item \in Answers(x) : Called("MKCOL", path, path, item)
  BY DEF CallMkcol, CreateFolder
<1>2. DriveInv /\ LastSegment(path) \in Names
  BY PathParts DEF Inv
<1>3. DriveInv'
  BY <1>1, <1>2, CreateInv
<1>4. PICK item \in Answers(x) : Called("MKCOL", path, path, item)
  BY <1>1
<1>5. item # None => GoodItem(item)
  BY <1>3, AnswerIsGood
<1> QED
  BY <1>3, <1>4, <1>5, CalledInv

\* DELETE: a deletion, or Graph's 404.
LEMMA CallDeleteInv == ASSUME Inv, NEW path \in Paths, CallDelete(path) PROVE Inv'
<1>1. /\ IF RemoteAt(path) # None THEN Delete(RemoteAt(path)) ELSE UNCHANGED driveVars
      /\ Called("DELETE", path, path, None)
  BY DEF CallDelete, DeleteAt
<1>2. DriveInv
  BY DEF Inv
<1>3. CASE RemoteAt(path) # None
  <2>1. DriveInv'
    BY <1>1, <1>2, <1>3, RemoteAtIsId, DeleteInv
  <2> QED
    BY <1>1, <2>1, CalledInv
<1>4. CASE RemoteAt(path) = None
  <2>1. DriveInv'
    BY <1>1, <1>2, <1>4 DEF driveVars, DriveInv, DriveTypeOK, DriveShape
  <2> QED
    BY <1>1, <2>1, CalledInv
<1> QED
  BY <1>3, <1>4

\* MOVE: an item under another parent or name, and its answer.
LEMMA CallMoveInv == ASSUME Inv, NEW path \in Paths, NEW to \in Paths, CallMove(path, to) PROVE Inv'
<1> DEFINE x == RemoteAt(path)
<1>1. Move(x, RemoteAt(ParentPath(to)), LastSegment(to))
  BY DEF CallMove, MoveOrRename
<1>2. PICK item \in Answers(x) : Called("MOVE", path, to, item)
  BY DEF CallMove
<1>3. DriveInv /\ LastSegment(to) \in Names
  BY PathParts DEF Inv
<1>4. x \in ItemIds
  BY <1>1, FeedAssumption DEF Move
<1> HIDE DEF x
<1>5. DriveInv'
  BY <1>1, <1>3, MoveInv
<1>6. item # None => GoodItem(item)
  BY <1>2, <1>4, <1>5, AnswerIsGood
<1> QED
  BY <1>2, <1>5, <1>6, CalledInv

\* Every mutation keeps the invariant up to the patch.
LEMMA ClientCallInv == Inv /\ ClientCall => Inv'
  BY CallPutInv, CallMkcolInv, CallDeleteInv, CallMoveInv DEF ClientCall

\* A patched index is sound as it loads; without a live index nothing is written.
LEMMA PatchInv == Inv /\ Patch => Inv'
<1> SUFFICES ASSUME Inv, Patch PROVE Inv'
  OBVIOUS
<1> DEFINE edit == Patched(live, call)
<1>1. /\ IF live # Missing /\ edit.ok THEN live' = Reload(edit.idx) ELSE UNCHANGED live
      /\ pc' = "idle" /\ call' = None
      /\ UNCHANGED <<driveVars, rebuild, tick, faults>>
  BY DEF Patch, WriteIndex, diskVars
<1>2. CallOK(call)
  BY DEF Patch, Inv, PcOK
<1>3. live # Missing => Sound(edit.idx)
  BY <1>2, PatchedSound DEF CallOK, Inv, FileOK
<1> HIDE DEF edit
<1>4. FileOK(live)'
  BY <1>1, <1>3, ReloadSound DEF Inv, FileOK
<1> QED
  BY <1>1, <1>4 DEF Inv, driveVars, DriveInv, DriveTypeOK, DriveShape, FileOK, TickOK, PcOK

\* A change by another device touches no file and nothing in hand.
LEMMA RemoteChangeInv == Inv /\ RemoteChange => Inv'
<1> SUFFICES ASSUME Inv, RemoteChange PROVE Inv'
  OBVIOUS
<1>1. DriveInv'
  BY OtherDeviceInv DEF RemoteChange, Inv
<1> QED
  BY <1>1 DEF RemoteChange, Inv, FileOK, TickOK, CallOK, PcOK

-----------------------------------------------------------------------------
(***************************************************************************)
(* The theorems.                                                           *)
(***************************************************************************)
\* The invariant is inductive.
LEMMA StepInv == Inv /\ [Next]_vars => Inv'
<1> SUFFICES ASSUME Inv, [Next]_vars PROVE Inv'
  OBVIOUS
<1>1. CASE TickStep
  BY <1>1, BeginTickInv, FetchPageInv, ApplyItemInv, TakeNextLinkInv, TakeDeltaLinkInv,
     StopFetchingInv, SaveInv, FinishTickInv DEF TickStep
<1>2. CASE FetchResync
  BY <1>2, FetchResyncInv
<1>3. CASE LoseInvocation
  BY <1>3, LoseInvocationInv
<1>4. CASE ClientCall
  BY <1>4, ClientCallInv
<1>5. CASE Patch
  BY <1>5, PatchInv
<1>6. CASE RemoteChange
  BY <1>6, RemoteChangeInv
<1>7. CASE UNCHANGED vars
  BY <1>7 DEF vars, Inv, DriveInv, DriveTypeOK, DriveShape, FileOK, TickOK, CallOK, PcOK
<1> QED
  BY <1>1, <1>2, <1>3, <1>4, <1>5, <1>6, <1>7 DEF Next

(***************************************************************************)
(* Types: what a tick holds, what is on disk and what a mutation carries   *)
(* are indexes, pages and items throughout, however ticks, mutations, lost *)
(* invocations and changes by other devices alternate.                     *)
(***************************************************************************)
THEOREM TypeCorrectness == Spec => []TypeOK
<1>1. Spec => []Inv
  BY InitInv, StepInv, PTL DEF Spec
<1> QED
  BY <1>1, InvMeansTypes, PTL

(***************************************************************************)
(* Index::apply, remove, sweep_orphans, the edits by path and the snapshot *)
(* format each write parent ids and child sets in several places; no       *)
(* sequence of them, over any drive and any order of the feed, makes the   *)
(* two disagree in an index on disk or in a tick's hands.                  *)
(***************************************************************************)
THEOREM ChildSetsAlwaysMatch == Spec => []ChildSetsMatch
<1>1. Spec => []Inv
  BY InitInv, StepInv, PTL DEF Spec
<1> QED
  BY <1>1, InvMeansMatch, PTL

-----------------------------------------------------------------------------
(***************************************************************************)
(* The shadow: what it takes for a newer generation to replace the live    *)
(* index with a root and a complete crawl.                                 *)
(***************************************************************************)
\* A crawl that goes on at `link` ends with the root in the index.
RootComes(link, idx) ==
    \/ HasNode(idx, RootId)
    \/ link.kind = "initial"
    \/ link.kind = "next" /\ RootId \in link.todo

(***************************************************************************)
(* What the links of an index say of its crawl: it is complete when a      *)
(* token and no pending link is recorded, and then the root has come.      *)
(***************************************************************************)
Lasting(idx) ==
    /\ idx.crawl_complete <=> idx.pending_next_link = None /\ idx.delta_token # None
    /\ idx.delta_token # None => idx.delta_token.kind = "delta"
    /\ RootComes(ResumeUrl(idx), idx)

\* The links and the root of an index survive.
KeepsRoot(new, idx) == SameLinks(new, idx) /\ (idx.root # None => new.root # None)

\* Keeping links and root is transitive.
LEMMA KeepsOn ==
  ASSUME NEW a, NEW b, NEW c, KeepsRoot(b, a), KeepsRoot(c, b)
  PROVE  KeepsRoot(c, a)
  BY DEF KeepsRoot, SameLinks

\* Index::apply never takes the root or a link.
LEMMA ApplyKeeps ==
  ASSUME NEW idx, Sound(idx), NEW it, GoodItem(it)
  PROVE  KeepsRoot(Apply(idx, it), idx)
<1>1. it \in DeltaItem /\ it.id \in Ids
  BY DEF GoodItem, DeltaItem
<1>2. CASE it.deleted
  <2>1. Apply(idx, it) = Remove(idx, it.id) /\ it.id # RootId
    BY <1>2 DEF Apply, GoodItem
  <2> QED
    BY <1>1, <2>1, RemoveEffect DEF KeepsRoot
<1>3. CASE ~it.deleted /\ it.is_root
  <2>1. Apply(idx, it) = InsertRoot(idx, it)
    BY <1>3 DEF Apply
  <2>2. it.id # None /\ idx \in Index
    BY <1>1, RootIsId DEF Sound
  <2> QED
    BY <2>1, <2>2 DEF InsertRoot, KeepsRoot, SameLinks, Index
<1>4. CASE ~it.deleted /\ ~it.is_root /\ it.parent = None
  BY <1>4 DEF Apply, KeepsRoot, SameLinks
<1>5. CASE Entering(it)
  BY <1>5, EnterEffect DEF KeepsRoot
<1> QED
  BY <1>2, <1>3, <1>4, <1>5 DEF Entering

\* An index that is sound has its root's entry when the root is recorded.
LEMMA RootHasNode == ASSUME NEW idx, Sound(idx) PROVE idx.root # None <=> HasNode(idx, RootId)
  BY RootIsId DEF Sound, RootKnown

\* What keeps links and root keeps what the links say of the crawl.
LEMMA KeepsLasting ==
  ASSUME NEW idx, NEW new, Sound(idx), Sound(new), KeepsRoot(new, idx), Lasting(idx)
  PROVE  Lasting(new)
<1>1. HasNode(idx, RootId) => HasNode(new, RootId)
  BY RootHasNode DEF KeepsRoot
<1>2. ResumeUrl(new) = ResumeUrl(idx)
  BY DEF ResumeUrl, KeepsRoot, SameLinks
<1> QED
  BY <1>1, <1>2 DEF Lasting, RootComes, KeepsRoot, SameLinks

\* A save and a load keep links and root.
LEMMA ReloadKeeps == ASSUME NEW idx, Sound(idx) PROVE KeepsRoot(Reload(idx), idx)
<1>1. idx \in Index
  BY DEF Sound
<1>2. SameLinks(Reload(idx), idx)
  BY <1>1 DEF Reload, SameLinks, Index
<1>3. idx.root # None => Reload(idx).root = idx.root
  BY <1>1 DEF Reload, Index
<1> QED
  BY <1>2, <1>3 DEF KeepsRoot

\* sweep_orphans keeps links and root.
LEMMA SweepKeeps == ASSUME NEW idx, Sound(idx) PROVE KeepsRoot(SweepOrphans(idx), idx)
<1>1. idx \in Index
  BY DEF Sound
<1> QED
  BY <1>1 DEF SweepOrphans, KeepsRoot, SameLinks, Index

(***************************************************************************)
(* No edit of a mutation takes the root or a link.                         *)
(***************************************************************************)
\* upsert_at_path.
LEMMA UpsertKeeps ==
  ASSUME NEW idx, Sound(idx), NEW path \in Paths, NEW dir \in BOOLEAN
  PROVE  KeepsRoot(UpsertAtPath(idx, path, dir).idx, idx)
<1> DEFINE id == Resolve(idx, path)
           parent == Resolve(idx, ParentPath(path))
           item == [id |-> LocalId(path), parent |-> parent, name |-> LastSegment(path),
                    dir |-> dir, deleted |-> FALSE, is_root |-> FALSE]
           rewritten == [idx EXCEPT !.nodes[id].dir = dir]
<1>1. id \in Ids \cup {None} /\ parent \in Ids \cup {None}
  BY PathParts, ResolveFinds
<1>2. CASE id # None /\ idx.nodes[id] # NoNode
  <2>1. UpsertAtPath(idx, path, dir).idx = rewritten
    BY <1>2 DEF UpsertAtPath, Edit
  <2>2. idx \in Index
    BY DEF Sound
  <2> HIDE DEF id
  <2>3. KeepsRoot(rewritten, idx)
    BY <2>2 DEF KeepsRoot, SameLinks, Index
  <2> QED
    BY <2>1, <2>3
<1>3. CASE ~(id # None /\ idx.nodes[id] # NoNode) /\ parent = None
  BY <1>3 DEF UpsertAtPath, Edit, KeepsRoot, SameLinks
<1>4. CASE ~(id # None /\ idx.nodes[id] # NoNode) /\ parent # None
  <2>1. UpsertAtPath(idx, path, dir).idx = Apply(idx, item)
    BY <1>4 DEF UpsertAtPath, Edit
  <2> HIDE DEF id, parent
  <2>2. item \in DeltaItem
    BY <1>1, LocalIdIsId, PathParts DEF DeltaItem
  <2>3. GoodItem(item)
    BY <1>4, <2>2, LocalIdIsId, PathParts DEF GoodItem
  <2> HIDE DEF item
  <2> QED
    BY <2>1, <2>3, ApplyKeeps
<1> QED
  BY <1>2, <1>3, <1>4

\* remove_at_path.
LEMMA RemoveAtPathKeeps ==
  ASSUME NEW idx, Sound(idx), NEW path \in Paths
  PROVE  KeepsRoot(RemoveAtPath(idx, path).idx, idx)
<1> DEFINE id == Resolve(idx, path)
<1>1. id \in Ids \cup {None} /\ (id # None => id # RootId)
  BY PathParts, ResolveFinds
<1>2. CASE id = None
  BY <1>2 DEF RemoveAtPath, Edit, KeepsRoot, SameLinks
<1>3. CASE id # None
  <2>1. RemoveAtPath(idx, path).idx = Remove(idx, id)
    BY <1>3 DEF RemoveAtPath, Edit
  <2> HIDE DEF id
  <2> QED
    BY <1>1, <1>3, <2>1, RemoveEffect DEF KeepsRoot
<1> QED
  BY <1>2, <1>3

\* move_at_path.
LEMMA MoveKeeps ==
  ASSUME NEW idx, Sound(idx), NEW from \in Paths, NEW to \in Paths
  PROVE  KeepsRoot(MoveAtPath(idx, from, to).idx, idx)
<1> DEFINE id == Resolve(idx, from)
           parent == Resolve(idx, ParentPath(to))
           item == [id |-> id, parent |-> parent, name |-> LastSegment(to),
                    dir |-> idx.nodes[id].dir, deleted |-> FALSE, is_root |-> FALSE]
<1>1. /\ id \in Ids \cup {None} /\ (id # None => id # RootId)
      /\ parent \in Ids \cup {None}
  BY PathParts, ResolveFinds
<1>2. CASE id = None \/ parent = None
  BY <1>2 DEF MoveAtPath, Edit, KeepsRoot, SameLinks
<1>3. CASE ~(id = None \/ parent = None) /\ idx.nodes[id] = NoNode
  BY <1>3 DEF MoveAtPath, Edit, KeepsRoot, SameLinks
<1>4. CASE ~(id = None \/ parent = None) /\ idx.nodes[id] # NoNode
  <2>1. MoveAtPath(idx, from, to).idx = Apply(idx, item)
    BY <1>4 DEF MoveAtPath, Edit
  <2> HIDE DEF id, parent
  <2>2. id \in Ids /\ parent \in Ids
    BY <1>1, <1>4
  <2>3. idx.nodes[id] \in Node
    BY <1>4, <2>2, IndexFields DEF Sound
  <2>4. idx.nodes[id].dir \in BOOLEAN
    BY <2>3 DEF Node
  <2>5. item \in DeltaItem
    BY <2>2, <2>4, PathParts DEF DeltaItem
  <2>6. GoodItem(item)
    BY <1>1, <1>4, <2>5, PathParts DEF GoodItem
  <2> HIDE DEF item
  <2> QED
    BY <2>1, <2>6, ApplyKeeps
<1> QED
  BY <1>2, <1>3, <1>4

\* Whatever the mutation and its answer.
LEMMA PatchedKeeps ==
  ASSUME NEW idx, Sound(idx), NEW c \in Call, c.item # None => GoodItem(c.item)
  PROVE  KeepsRoot(Patched(idx, c).idx, idx)
<1> DEFINE applied == IF c.item = None THEN idx ELSE Apply(idx, c.item)
<1>1. Sound(applied) /\ KeepsRoot(applied, idx)
  BY ApplySound, ApplyKeeps DEF KeepsRoot, SameLinks
<1>2. c.path \in Paths /\ c.to \in Paths /\ c.op \in {"PUT", "MKCOL", "DELETE", "MOVE"}
  BY DEF Call
<1>3. ASSUME NEW dir \in BOOLEAN PROVE KeepsRoot(ApplyOrUpsert(idx, c.item, c.path, dir).idx, idx)
  <2>1. \/ ApplyOrUpsert(idx, c.item, c.path, dir).idx = applied
        \/ ApplyOrUpsert(idx, c.item, c.path, dir).idx = UpsertAtPath(applied, c.path, dir).idx
    BY DEF ApplyOrUpsert, Edit
  <2> HIDE DEF applied
  <2>2. KeepsRoot(UpsertAtPath(applied, c.path, dir).idx, applied)
    BY <1>1, <1>2, UpsertKeeps
  <2> QED
    BY <1>1, <2>1, <2>2, KeepsOn
<1>4. KeepsRoot(ApplyOrMove(idx, c.item, c.path, c.to).idx, idx)
  <2>1. \/ ApplyOrMove(idx, c.item, c.path, c.to).idx = applied
        \/ ApplyOrMove(idx, c.item, c.path, c.to).idx = MoveAtPath(applied, c.path, c.to).idx
    BY DEF ApplyOrMove, Edit
  <2> HIDE DEF applied
  <2>2. KeepsRoot(MoveAtPath(applied, c.path, c.to).idx, applied)
    BY <1>1, <1>2, MoveKeeps
  <2> QED
    BY <1>1, <2>1, <2>2, KeepsOn
<1>5. KeepsRoot(RemoveAtPath(idx, c.path).idx, idx)
  BY <1>2, RemoveAtPathKeeps
<1> QED
  BY <1>2, <1>3, <1>4, <1>5 DEF Patched

\* The guest runs a tick.
Ticking == pc \in {"fetch", "apply", "save", "rename"}

\* A snapshot file keeps what its links say.
FileLasting(file) == file # Missing => Lasting(file)

\* The page in hand ends with the root in the index.
PageBrings(page, idx) ==
    /\ page.next_link # None => page.next_link.kind = "next"
    /\ page.delta_token # None => page.delta_token.kind = "delta"
    /\ page.next_link = None => page.delta_token # None
    /\ \/ HasNode(idx, RootId)
       \/ \E it \in page.items : it.id = RootId
       \/ page.next_link # None /\ RootId \in page.next_link.todo

(***************************************************************************)
(* What a tick has in hand: an index whose crawl goes on at its url, the   *)
(* next generation of a live index without root or a shadow; once that is  *)
(* saved, or when there is nothing to save, the file of the shadow is as   *)
(* complete as the index in hand.                                          *)
(***************************************************************************)
TickLasting ==
    /\ Lasting(tick.idx)
    /\ tick.complete => tick.idx.crawl_complete
    /\ pc = "fetch" => tick.url = ResumeUrl(tick.idx)
    /\ pc = "apply" => PageBrings(tick.page, tick.idx)
    /\ (pc # "rename" /\ tick.target = "index" /\ live # Missing /\ live.root # None) =>
          tick.idx.root # None /\ tick.idx.generation = live.generation
    /\ (tick.target = "rebuild" /\ (tick.dirty => pc = "rename")) =>
          rebuild # Missing /\ rebuild.crawl_complete = tick.idx.crawl_complete

ShadowInv ==
    /\ FileLasting(live) /\ FileLasting(rebuild)
    /\ Ticking => TickLasting

\* A complete crawl has seen the root.
LEMMA CompleteHasRoot ==
  ASSUME NEW idx, Sound(idx), Lasting(idx), idx.crawl_complete
  PROVE  idx.root # None
<1>1. ResumeUrl(idx) = idx.delta_token /\ idx.delta_token # None /\ idx.delta_token.kind = "delta"
  BY DEF Lasting, ResumeUrl, OrElse
<1> QED
  BY <1>1, RootHasNode DEF Lasting, RootComes

\* A new index starts at the beginning of the feed.
LEMMA BlankLasting == ASSUME NEW g \in Nat PROVE Lasting(Blank(g)) /\ ResumeUrl(Blank(g)) = InitialLink
  BY NoLinkAssumption DEF Lasting, Blank, RootComes, ResumeUrl, OrElse, InitialLink

\* Nothing to keep at the start.
LEMMA InitShadow == Init => ShadowInv
  BY DEF Init, ShadowInv, FileLasting, Ticking

\* A tick takes up the shadow, or else the live index.
LEMMA BeginTickShadow == ASSUME ~OpenFaults PROVE Inv /\ ShadowInv /\ BeginTick => ShadowInv'
<1> SUFFICES ASSUME Inv, ShadowInv, BeginTick PROVE ShadowInv'
  OBVIOUS
<1> DEFINE idx == IF rebuild # Missing THEN rebuild ELSE IF live # Missing THEN live ELSE Blank(0)
           dirty == live # Missing /\ live.crawl_complete /\ DirRows(live) = {}
           complete == idx.crawl_complete /\ idx.pending_next_link = None
           target == IF rebuild # Missing THEN "rebuild" ELSE "index"
<1>1. tick' = [idx |-> idx, target |-> target, url |-> ResumeUrl(idx), pages |-> 0,
               dirty |-> dirty, complete |-> complete, page |-> NoPage]
  <2>1. PICK base \in Opened(live), meta \in Opened(live), shadow \in Opened(rebuild) :
          LET mine == IF shadow # Missing THEN shadow
                      ELSE IF base # Missing THEN base ELSE Blank(0)
          IN  tick' = [idx |-> mine,
                       target |-> IF shadow # Missing THEN "rebuild" ELSE "index",
                       url |-> ResumeUrl(mine),
                       pages |-> 0,
                       dirty |-> meta # Missing /\ meta.crawl_complete /\ DirRows(meta) = {},
                       complete |-> mine.crawl_complete /\ mine.pending_next_link = None,
                       page |-> NoPage]
    BY DEF BeginTick
  <2>2. base = live /\ meta = live /\ shadow = rebuild
    BY DEF Opened
  <2> QED
    BY <2>1, <2>2
<1>2. Lasting(idx)
  BY BlankLasting DEF ShadowInv, FileLasting
<1> HIDE DEF idx
<1> DEFINE url == ResumeUrl(idx)
<1> HIDE DEF dirty, url
<1>3. /\ tick'.idx = idx /\ tick'.url = url /\ tick'.target = target
      /\ tick'.complete => idx.crawl_complete
  <2>1. tick' = [idx |-> idx, target |-> target, url |-> url, pages |-> 0,
                 dirty |-> dirty, complete |-> complete, page |-> NoPage]
    BY <1>1 DEF url
  <2> QED
    BY <2>1
<1>4. pc' = "fetch" /\ UNCHANGED <<live, rebuild>>
  BY DEF BeginTick
<1>5. (target = "index" /\ live # Missing) => idx = live
  BY DEF idx
<1>6. target = "rebuild" => rebuild # Missing /\ idx = rebuild
  BY DEF idx
<1> HIDE DEF target
<1>7. TickLasting'
  BY <1>2, <1>3, <1>4, <1>5, <1>6 DEF TickLasting, Lasting, RootComes, HasNode, ResumeUrl, url
<1> QED
  BY <1>4, <1>7 DEF ShadowInv, FileLasting, Lasting, RootComes, HasNode, ResumeUrl

\* A page that Graph serves at the link of a crawl brings what is missing of the root, or its link does.
LEMMA PageBringsRoot ==
  ASSUME DriveInv, NEW link \in Link, NEW page \in Pages(link), NEW idx, RootComes(link, idx)
  PROVE  PageBrings(page, idx)
<1>1. PICK served \in SUBSET Todo(link) : page = Served(served, link)
  BY DEF Pages
<1> DEFINE rest == Todo(link) \ served
           items == {ItemOf(remote, x) : x \in served}
<1>2. page = IF rest = {} THEN Page(items, None, DeltaLink(Begun(link)))
             ELSE Page(items, NextLink(Begun(link), rest), None)
  BY <1>1 DEF Served
<1>3. RootId \in ItemIds /\ RootId \in Present(remote)
  BY ItemIsId DEF DriveInv, DriveShape, Present
<1>4. HasNode(idx, RootId) \/ RootId \in Todo(link)
  BY <1>3 DEF RootComes, Todo
<1>5. RootId \in served => \E it \in items : it.id = RootId
  <2>1. ItemOf(remote, RootId).id = RootId
    BY DEF ItemOf
  <2> QED
    BY <2>1
<1>6. Begun(link) \in Nat
  BY DEF Begun, Link, DriveInv, DriveTypeOK
<1>7. Todo(link) \subseteq ItemIds
  BY DEF Todo, Link
<1> HIDE DEF items
<1>8. CASE rest = {}
  <2>1. /\ page.items = items /\ page.next_link = None
        /\ page.delta_token = DeltaLink(Begun(link))
    BY <1>2, <1>8 DEF Page
  <2>2. DeltaLink(Begun(link)) \in Link /\ DeltaLink(Begun(link)).kind = "delta"
    BY <1>6 DEF DeltaLink, Link
  <2>3. DeltaLink(Begun(link)) # None
    BY <2>2, NoLinkAssumption
  <2>4. RootId \in Todo(link) => RootId \in served
    BY <1>8
  <2> QED
    BY <1>4, <1>5, <2>1, <2>2, <2>3, <2>4 DEF PageBrings
<1>9. CASE rest # {}
  <2> DEFINE next == NextLink(Begun(link), rest)
  <2>1. page.items = items /\ page.next_link = next /\ page.delta_token = None
    BY <1>2, <1>9 DEF Page
  <2>2. next \in Link /\ next.kind = "next" /\ next.todo = rest
    BY <1>6, <1>7 DEF NextLink, Link
  <2>3. next # None
    BY <2>2, NoLinkAssumption
  <2>4. RootId \in Todo(link) => RootId \in served \/ RootId \in next.todo
    BY <2>2
  <2> HIDE DEF next
  <2> QED
    BY <1>4, <1>5, <2>1, <2>2, <2>3, <2>4 DEF PageBrings
<1> QED
  BY <1>8, <1>9

\* A page comes from the link at which the index goes on.
LEMMA FetchPageShadow == Inv /\ ShadowInv /\ FetchPage => ShadowInv'
<1> SUFFICES ASSUME Inv, ShadowInv, FetchPage PROVE ShadowInv'
  OBVIOUS
<1>1. PICK page \in Pages(tick.url) :
        tick' = [tick EXCEPT !.pages = @ + 1, !.dirty = @ \/ page.items # {}, !.page = page]
  BY DEF FetchPage
<1>2. /\ tick \in Tick /\ tick.url \in Link /\ tick.dirty \in BOOLEAN /\ pc = "fetch" /\ pc' = "apply"
      /\ UNCHANGED <<live, rebuild>>
  BY TickFields DEF Inv, FetchPage
<1>3. /\ tick'.idx = tick.idx /\ tick'.target = tick.target /\ tick'.complete = tick.complete
      /\ tick'.page = page /\ (tick.dirty => tick'.dirty)
  BY <1>1, <1>2 DEF Tick
<1>4. TickLasting
  BY <1>2 DEF ShadowInv, Ticking
<1>5. PageBrings(page, tick.idx)
  <2>1. RootComes(tick.url, tick.idx)
    BY <1>2, <1>4 DEF TickLasting, Lasting
  <2> QED
    BY <1>2, <2>1, PageBringsRoot DEF Inv
<1>6. TickLasting'
  BY <1>2, <1>3, <1>4, <1>5
     DEF TickLasting, Lasting, RootComes, HasNode, ResumeUrl, PageBrings
<1> QED
  BY <1>2, <1>6 DEF ShadowInv, FileLasting, Lasting, RootComes, HasNode, ResumeUrl

\* A resync starts a new generation, in the live index only where that has no root.
LEMMA FetchResyncShadow == ASSUME ~OpenFaults PROVE Inv /\ ShadowInv /\ FetchResync => ShadowInv'
<1> SUFFICES ASSUME Inv, ShadowInv, FetchResync PROVE ShadowInv'
  OBVIOUS
<1> DEFINE blank == Blank(tick.idx.generation + 1)
           target == IF live # Missing /\ (live.crawl_complete \/ live.root # None)
                     THEN "rebuild" ELSE "index"
<1>1. tick' = [tick EXCEPT !.idx = blank, !.target = target, !.url = InitialLink,
                           !.pages = @ + 1, !.dirty = TRUE, !.complete = FALSE]
  <2>1. live \in Opened(live) /\ Opened(live) = {live}
    BY DEF Opened
  <2> QED
    BY <2>1 DEF FetchResync
<1>2. tick \in Tick /\ pc = "fetch" /\ pc' = "fetch" /\ UNCHANGED <<live, rebuild>>
  BY TickFields DEF Inv, FetchResync
<1>3. Lasting(blank) /\ ResumeUrl(blank) = InitialLink
  <2>1. tick.idx.generation + 1 \in Nat
    BY TickFields DEF Inv
  <2> QED
    BY <2>1, BlankLasting
<1> HIDE DEF blank
<1>4. target = "index" => live = Missing \/ live.root = None
  OBVIOUS
<1> HIDE DEF target
<1>5. /\ tick'.idx = blank /\ tick'.target = target /\ tick'.url = InitialLink
      /\ tick'.dirty = TRUE /\ tick'.complete = FALSE
  BY <1>1, <1>2 DEF Tick
<1>6. TickLasting'
  BY <1>2, <1>3, <1>4, <1>5 DEF TickLasting, Lasting, RootComes, HasNode, ResumeUrl
<1> QED
  BY <1>2, <1>6 DEF ShadowInv, FileLasting, Lasting, RootComes, HasNode, ResumeUrl

\* An item is applied, the root's among them.
LEMMA ApplyItemShadow == Inv /\ ShadowInv /\ ApplyItem => ShadowInv'
<1> SUFFICES ASSUME Inv, ShadowInv, ApplyItem PROVE ShadowInv'
  OBVIOUS
<1>1. PICK it \in tick.page.items :
        tick' = [tick EXCEPT !.idx = Apply(@, it), !.page.items = @ \ {it}]
  BY DEF ApplyItem
<1> DEFINE idx == Apply(tick.idx, it)
           page == [tick.page EXCEPT !.items = @ \ {it}]
<1>2. /\ tick \in Tick /\ tick.page \in PageType /\ pc = "apply" /\ pc' = "apply"
      /\ UNCHANGED <<live, rebuild>>
  BY TickFields DEF Inv, ApplyItem
<1>3. GoodItem(it) /\ Sound(tick.idx) /\ tick.idx \in Index
  BY TickFields DEF Inv, TickOK
<1>4. Sound(idx) /\ KeepsRoot(idx, tick.idx)
  BY <1>3, ApplySound, ApplyKeeps
<1>5. TickLasting
  BY <1>2 DEF ShadowInv, Ticking
<1>6. Lasting(idx) /\ ResumeUrl(idx) = ResumeUrl(tick.idx)
  BY <1>3, <1>4, <1>5, KeepsLasting DEF TickLasting, KeepsRoot, SameLinks, ResumeUrl
<1>7. it.id = RootId => HasNode(idx, RootId)
  <2>1. ASSUME it.id = RootId PROVE HasNode(idx, RootId)
    <3>1. idx = InsertRoot(tick.idx, it)
      BY <1>3, <2>1 DEF GoodItem, Apply
    <3>2. idx.root = RootId
      BY <1>3, <2>1, <3>1 DEF InsertRoot, Index
    <3> QED
      BY <1>4, <3>2, RootHasNode, RootIsId
  <2> QED
    BY <2>1
<1>8. HasNode(tick.idx, RootId) => HasNode(idx, RootId)
  BY <1>3, <1>4, RootHasNode DEF KeepsRoot
<1> HIDE DEF idx
<1>9. /\ page.items = tick.page.items \ {it} /\ page.next_link = tick.page.next_link
      /\ page.delta_token = tick.page.delta_token
  BY <1>2 DEF PageType
<1>10. PageBrings(page, idx)
  BY <1>2, <1>5, <1>7, <1>8, <1>9 DEF PageBrings, TickLasting
<1> HIDE DEF page
<1>11. /\ tick'.idx = idx /\ tick'.page = page /\ tick'.target = tick.target
       /\ tick'.complete = tick.complete /\ tick'.dirty = tick.dirty
  BY <1>1, <1>2 DEF Tick, idx, page
<1>12. TickLasting'
  BY <1>2, <1>4, <1>5, <1>6, <1>10, <1>11
     DEF TickLasting, Lasting, RootComes, HasNode, ResumeUrl, PageBrings, KeepsRoot, SameLinks
<1> QED
  BY <1>2, <1>12 DEF ShadowInv, FileLasting, Lasting, RootComes, HasNode, ResumeUrl

\* The crawl goes on at the page's nextLink.
LEMMA TakeNextLinkShadow == Inv /\ ShadowInv /\ TakeNextLink => ShadowInv'
<1> SUFFICES ASSUME Inv, ShadowInv, TakeNextLink PROVE ShadowInv'
  OBVIOUS
<1> DEFINE next == tick.page.next_link
           idx == [tick.idx EXCEPT !.pending_next_link = next, !.crawl_complete = FALSE]
           dirty == tick.dirty \/ tick.idx.pending_next_link # next
<1>1. /\ tick \in Tick /\ tick.idx \in Index /\ tick.page.items = {} /\ next # None
      /\ pc = "apply" /\ pc' = "fetch" /\ UNCHANGED <<live, rebuild>>
  BY TickFields DEF Inv, TakeNextLink
<1>2. TickLasting
  BY <1>1 DEF ShadowInv, Ticking
<1>3. /\ idx.nodes = tick.idx.nodes /\ idx.root = tick.idx.root /\ idx.generation = tick.idx.generation
      /\ idx.delta_token = tick.idx.delta_token /\ idx.pending_next_link = next /\ idx.crawl_complete = FALSE
  <2> HIDE DEF next
  <2> QED
    BY <1>1 DEF Index
<1>4. /\ tick'.idx = idx /\ tick'.url = next /\ tick'.dirty = dirty /\ tick'.complete = FALSE
      /\ tick'.target = tick.target
  <2>1. tick' = [[[[[tick EXCEPT !.idx = idx] EXCEPT !.url = next] EXCEPT !.dirty = dirty]
                   EXCEPT !.complete = FALSE] EXCEPT !.page = NoPage]
    BY <1>1 DEF TakeNextLink, Tick
  <2> HIDE DEF next, idx, dirty
  <2> QED
    BY <1>1, <2>1 DEF Tick
<1>5. PageBrings(tick.page, tick.idx)
  BY <1>1, <1>2 DEF TickLasting
<1> HIDE DEF idx
<1>6. ResumeUrl(idx) = next
  BY <1>1, <1>3 DEF ResumeUrl, OrElse
<1>7. Lasting(idx)
  BY <1>1, <1>2, <1>3, <1>5, <1>6 DEF Lasting, RootComes, HasNode, PageBrings, TickLasting
<1>8. ~dirty => tick.idx.crawl_complete = FALSE
  <2>1. tick.idx.crawl_complete \in BOOLEAN
    BY <1>1 DEF Index
  <2> QED
    BY <1>1, <1>2, <2>1 DEF TickLasting, Lasting
<1> HIDE DEF next
<1>9. dirty => tick'.dirty
  BY <1>4
<1>10. ~dirty => ~tick.dirty
  OBVIOUS
<1> HIDE DEF dirty
<1>11. TickLasting'
  BY <1>1, <1>2, <1>3, <1>4, <1>6, <1>7, <1>8, <1>9, <1>10
     DEF TickLasting, Lasting, RootComes, HasNode, ResumeUrl
<1> QED
  BY <1>1, <1>11 DEF ShadowInv, FileLasting, Lasting, RootComes, HasNode, ResumeUrl

\* The crawl is complete, with the root.
LEMMA TakeDeltaLinkShadow == Inv /\ ShadowInv /\ TakeDeltaLink => ShadowInv'
<1> SUFFICES ASSUME Inv, ShadowInv, TakeDeltaLink PROVE ShadowInv'
  OBVIOUS
<1> DEFINE token == OrElse(tick.page.delta_token, tick.idx.delta_token)
           ended == [tick.idx EXCEPT !.pending_next_link = None, !.delta_token = token,
                                     !.crawl_complete = TRUE]
           idx == SweepOrphans(ended)
           dirty == \/ tick.dirty
                    \/ tick.idx.delta_token # tick.page.delta_token
                    \/ tick.idx.pending_next_link # None
<1>1. /\ tick \in Tick /\ tick.idx \in Index /\ Sound(tick.idx)
      /\ tick.page.items = {} /\ tick.page.next_link = None
      /\ pc = "apply" /\ pc' = "save" /\ UNCHANGED <<live, rebuild>>
  BY TickFields DEF Inv, TakeDeltaLink
<1>2. TickLasting
  BY <1>1 DEF ShadowInv, Ticking
<1>3. /\ HasNode(tick.idx, RootId) /\ tick.page.delta_token # None
      /\ tick.page.delta_token.kind = "delta" /\ token = tick.page.delta_token
  BY <1>1, <1>2 DEF TickLasting, PageBrings, OrElse
<1>4. token \in Link \cup {None}
  BY <1>3, TickFields DEF Inv
<1>5. /\ ended \in Index
      /\ ended.nodes = tick.idx.nodes /\ ended.kids = tick.idx.kids /\ ended.root = tick.idx.root
      /\ ended.generation = tick.idx.generation /\ ended.pending_next_link = None
      /\ ended.delta_token = token /\ ended.crawl_complete = TRUE
  <2> HIDE DEF token
  <2> QED
    BY <1>1, <1>4 DEF Index
<1>6. Sound(ended)
  <2> HIDE DEF ended
  <2> QED
    BY <1>1, <1>5, ProgressSound
<1> HIDE DEF ended
<1>7. Sound(idx) /\ KeepsRoot(idx, ended)
  BY <1>6, SweepSound, SweepKeeps
<1>8. Lasting(ended)
  BY <1>3, <1>5 DEF Lasting, RootComes, HasNode, ResumeUrl, OrElse
<1>9. Lasting(idx)
  BY <1>6, <1>7, <1>8, KeepsLasting
<1>10. /\ tick'.idx = idx /\ tick'.dirty = dirty /\ tick'.complete = TRUE
       /\ tick'.target = tick.target
  <2>1. tick' = [tick EXCEPT !.idx = idx, !.dirty = dirty, !.complete = TRUE, !.page = NoPage]
    BY DEF TakeDeltaLink, ended
  <2> HIDE DEF idx, dirty
  <2> QED
    BY <1>1, <2>1 DEF Tick
<1> HIDE DEF idx
<1>11. idx.crawl_complete = TRUE /\ idx.generation = tick.idx.generation
       /\ (tick.idx.root # None => idx.root # None)
  BY <1>5, <1>7 DEF KeepsRoot, SameLinks
<1>12. ~dirty => tick.idx.crawl_complete = TRUE /\ ~tick.dirty
  <2>1. tick.idx.crawl_complete \in BOOLEAN
    BY <1>1 DEF Index
  <2> QED
    BY <1>2, <1>3, <2>1 DEF TickLasting, Lasting
<1> HIDE DEF dirty
<1>13. TickLasting'
  BY <1>1, <1>2, <1>9, <1>10, <1>11, <1>12
     DEF TickLasting, Lasting, RootComes, HasNode, ResumeUrl
<1> QED
  BY <1>1, <1>13 DEF ShadowInv, FileLasting, Lasting, RootComes, HasNode, ResumeUrl

\* A tick that stops has what it had.
LEMMA StopFetchingShadow == Inv /\ ShadowInv /\ StopFetching => ShadowInv'
<1> SUFFICES ASSUME Inv, ShadowInv, StopFetching PROVE ShadowInv'
  OBVIOUS
<1>1. pc = "fetch" /\ pc' = "save" /\ UNCHANGED <<live, rebuild, tick>>
  BY DEF StopFetching
<1>2. TickLasting'
  BY <1>1 DEF ShadowInv, Ticking, TickLasting, Lasting, RootComes, HasNode, ResumeUrl
<1> QED
  BY <1>1, <1>2 DEF ShadowInv, FileLasting, Lasting, RootComes, HasNode, ResumeUrl

\* What is saved keeps what its links say.
LEMMA SaveShadow == Inv /\ ShadowInv /\ Save => ShadowInv'
<1> SUFFICES ASSUME Inv, ShadowInv, Save PROVE ShadowInv'
  OBVIOUS
<1> DEFINE new == Reload(tick.idx)
<1>1. /\ tick.target \in {"index", "rebuild"} /\ Sound(tick.idx) /\ tick.idx \in Index
      /\ pc = "save" /\ pc' = "rename" /\ tick' = tick
  BY TickFields DEF Inv, Save
<1>2. TickLasting
  BY <1>1 DEF ShadowInv, Ticking
<1>3. Sound(new) /\ KeepsRoot(new, tick.idx)
  BY <1>1, ReloadSound, ReloadKeeps
<1>4. Lasting(new)
  BY <1>1, <1>2, <1>3, KeepsLasting DEF TickLasting
<1>5. new.crawl_complete = tick.idx.crawl_complete /\ new # Missing
  BY <1>3, SyncAssumption DEF KeepsRoot, SameLinks, Sound
<1>6. /\ live' = IF tick.dirty /\ tick.target = "index" THEN new ELSE live
      /\ rebuild' = IF tick.dirty /\ tick.target = "rebuild" THEN new ELSE rebuild
  BY <1>1 DEF Save, WriteIndex, diskVars
<1> HIDE DEF new
<1>7. FileLasting(live)' /\ FileLasting(rebuild)'
  BY <1>4, <1>6 DEF ShadowInv, FileLasting, Lasting, RootComes, HasNode, ResumeUrl
<1>8. TickLasting'
  BY <1>1, <1>2, <1>5, <1>6 DEF TickLasting, Lasting, RootComes, HasNode, ResumeUrl
<1> QED
  BY <1>7, <1>8 DEF ShadowInv

\* The swap moves a file.
LEMMA FinishTickShadow == Inv /\ ShadowInv /\ FinishTick => ShadowInv'
  BY DEF FinishTick, ShadowInv, Ticking, FileLasting, Lasting, RootComes, HasNode, ResumeUrl, diskVars

\* A lost invocation leaves the files.
LEMMA LoseInvocationShadow == Inv /\ ShadowInv /\ LoseInvocation => ShadowInv'
  BY DEF LoseInvocation, ShadowInv, Ticking, FileLasting, Lasting, RootComes, HasNode, ResumeUrl

\* A mutation, up to its patch, leaves the files.
LEMMA ClientCallShadow == Inv /\ ShadowInv /\ ClientCall => ShadowInv'
<1> SUFFICES ASSUME Inv, ShadowInv, ClientCall PROVE ShadowInv'
  OBVIOUS
<1>1. UNCHANGED <<live, rebuild>> /\ pc' = "patch"
  BY DEF ClientCall, CallPut, CallMkcol, CallDelete, CallMove, Called
<1> QED
  BY <1>1 DEF ShadowInv, Ticking, FileLasting, Lasting, RootComes, HasNode, ResumeUrl

\* What a patch writes to the live index.
LEMMA PatchWrites ==
  ASSUME Inv, Patch
  PROVE  live' # live => /\ live # Missing /\ live' # Missing /\ Sound(live) /\ Sound(live')
                         /\ KeepsRoot(live', live)
<1> DEFINE edit == Patched(live, call)
<1>1. IF live # Missing /\ edit.ok THEN live' = Reload(edit.idx) ELSE UNCHANGED live
  BY DEF Patch, WriteIndex, diskVars
<1>2. CallOK(call)
  BY DEF Patch, Inv, PcOK
<1>3. live # Missing => Sound(live) /\ Sound(edit.idx) /\ KeepsRoot(edit.idx, live)
  BY <1>2, PatchedSound, PatchedKeeps DEF CallOK, Inv, FileOK
<1> HIDE DEF edit
<1>4. Sound(edit.idx) => Sound(Reload(edit.idx)) /\ KeepsRoot(Reload(edit.idx), edit.idx)
  BY ReloadSound, ReloadKeeps
<1>5. \A idx : Sound(idx) => idx # Missing
  BY SyncAssumption DEF Sound
<1> QED
  BY <1>1, <1>3, <1>4, <1>5, KeepsOn

\* A patch keeps the links of the live index.
LEMMA PatchShadow == Inv /\ ShadowInv /\ Patch => ShadowInv'
<1> SUFFICES ASSUME Inv, ShadowInv, Patch PROVE ShadowInv'
  OBVIOUS
<1>1. pc' = "idle" /\ UNCHANGED rebuild
  BY DEF Patch, WriteIndex, diskVars
<1>2. FileLasting(live)'
  <2>1. CASE live' = live
    BY <2>1 DEF ShadowInv, FileLasting, Lasting, RootComes, HasNode, ResumeUrl
  <2>2. CASE live' # live
    <3>1. Lasting(live')
      BY <2>2, PatchWrites, KeepsLasting DEF ShadowInv, FileLasting
    <3> QED
      BY <3>1 DEF FileLasting, Lasting, RootComes, HasNode, ResumeUrl
  <2> QED
    BY <2>1, <2>2
<1> QED
  BY <1>1, <1>2 DEF ShadowInv, Ticking, FileLasting, Lasting, RootComes, HasNode, ResumeUrl

\* The invariant is inductive where snapshot files open.
LEMMA ShadowStep == ASSUME ~OpenFaults PROVE Inv /\ ShadowInv /\ [Next]_vars => ShadowInv'
<1> SUFFICES ASSUME Inv, ShadowInv, [Next]_vars PROVE ShadowInv'
  OBVIOUS
<1>1. CASE TickStep
  BY <1>1, BeginTickShadow, FetchPageShadow, ApplyItemShadow, TakeNextLinkShadow, TakeDeltaLinkShadow,
     StopFetchingShadow, SaveShadow, FinishTickShadow DEF TickStep
<1>2. CASE FetchResync
  BY <1>2, FetchResyncShadow
<1>3. CASE LoseInvocation
  BY <1>3, LoseInvocationShadow
<1>4. CASE ClientCall
  BY <1>4, ClientCallShadow
<1>5. CASE Patch
  BY <1>5, PatchShadow
<1>6. CASE RemoteChange
  BY <1>6 DEF RemoteChange, ShadowInv, Ticking, TickLasting, PageBrings, FileLasting, Lasting, RootComes,
     HasNode, ResumeUrl
<1>7. CASE UNCHANGED vars
  BY <1>7 DEF vars, ShadowInv, Ticking, TickLasting, PageBrings, FileLasting, Lasting, RootComes,
     HasNode, ResumeUrl
<1> QED
  BY <1>1, <1>2, <1>3, <1>4, <1>5, <1>6, <1>7 DEF Next

\* What replaces a live index with a root has one, and a newer generation is complete.
LEMMA ShadowTakesOver ==
  ASSUME Inv, ShadowInv, Next, live # Missing, live.root # None
  PROVE  /\ live' # Missing /\ live'.root # None
         /\ live'.generation # live.generation => live'.crawl_complete
<1>1. CASE Save
  <2> DEFINE new == Reload(tick.idx)
  <2>1. Sound(tick.idx) /\ tick.target \in {"index", "rebuild"}
    BY TickFields DEF Inv
  <2>2. KeepsRoot(new, tick.idx) /\ Sound(new)
    BY <2>1, ReloadKeeps, ReloadSound
  <2>3. new # Missing
    BY <2>2, SyncAssumption DEF Sound
  <2>4. live' = live \/ (tick.target = "index" /\ live' = new)
    BY <1>1, <2>1 DEF Save, WriteIndex, diskVars
  <2>5. TickLasting /\ pc = "save"
    BY <1>1 DEF Save, ShadowInv, Ticking
  <2> HIDE DEF new
  <2> QED
    BY <2>2, <2>3, <2>4, <2>5 DEF TickLasting, KeepsRoot, SameLinks
<1>2. CASE FinishTick
  <2>1. live' = live \/ (tick.complete /\ tick.target = "rebuild" /\ live' = rebuild)
    BY <1>2 DEF FinishTick, diskVars
  <2>2. TickLasting /\ pc = "rename"
    BY <1>2 DEF FinishTick, ShadowInv, Ticking
  <2>3. (tick.complete /\ tick.target = "rebuild") => rebuild # Missing /\ rebuild.crawl_complete
    BY <2>2 DEF TickLasting
  <2>4. (rebuild # Missing /\ rebuild.crawl_complete) => rebuild.root # None
    BY CompleteHasRoot DEF ShadowInv, FileLasting, Inv, FileOK
  <2> QED
    BY <2>1, <2>3, <2>4
<1>3. CASE Patch
  <2>1. live' # live => live' # Missing /\ KeepsRoot(live', live)
    BY <1>3, PatchWrites
  <2> QED
    BY <2>1 DEF KeepsRoot, SameLinks
<1>4. CASE TickStep /\ ~Save /\ ~FinishTick
  <2>1. live' = live
    BY <1>4 DEF TickStep, BeginTick, FetchPage, ApplyItem, TakeNextLink, TakeDeltaLink, StopFetching
  <2> QED
    BY <2>1
<1>5. CASE FetchResync \/ LoseInvocation \/ RemoteChange
  BY <1>5 DEF FetchResync, LoseInvocation, RemoteChange
<1>6. CASE ClientCall
  BY <1>6 DEF ClientCall, CallPut, CallMkcol, CallDelete, CallMove, Called
<1> QED
  BY <1>1, <1>2, <1>3, <1>4, <1>5, <1>6 DEF Next

(***************************************************************************)
(* sync.rs: "Keep serving the existing live snapshot until the shadow      *)
(* crawl finishes".  Where snapshot files open, no crawl, resync, crash or *)
(* patch takes the root from a live index that has one, and a newer        *)
(* generation takes its place only with its crawl complete.                *)
(***************************************************************************)
THEOREM ShadowAlwaysServes == ASSUME ~OpenFaults PROVE Spec => ShadowServes
<1>1. Init => Inv /\ ShadowInv
  BY InitInv, InitShadow
<1>2. Inv /\ ShadowInv /\ [Next]_vars => (Inv /\ ShadowInv)'
  BY StepInv, ShadowStep
<1>3. Inv /\ ShadowInv /\ [Next]_vars =>
        [(IsIndex(live) /\ live.root # None) =>
            /\ IsIndex(live') /\ live'.root # None
            /\ live'.generation # live.generation => live'.crawl_complete]_vars
  BY ShadowTakesOver DEF IsIndex
<1> QED
  BY <1>1, <1>2, <1>3, PTL DEF Spec, ShadowServes
=============================================================================
