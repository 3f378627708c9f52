----------------------------- MODULE IndexSync -----------------------------
(***************************************************************************)
(* The metadata index of a mounted drive: the sync tick (src/sync.rs) that *)
(* crawls Graph's delta feed into it, and the WebDAV mutations             *)
(* (src/dav.rs) that patch it, over the two snapshot files of the state    *)
(* directory.  The host runs one guest invocation at a time (Host.tla), so *)
(* one program counter is enough; other devices change the drive between   *)
(* any two steps, and the guest may be lost at any step (a trap, the CPU   *)
(* deadline, a kill, a failed write).                                      *)
(***************************************************************************)
EXTENDS IndexTree, GraphDrive

CONSTANTS
    Missing,        \* a snapshot file that does not exist
    MaxPages,       \* config.sync_max_pages
    MaxFaults,      \* bound: lost invocations, failed requests, 410 answers
    MaxEvents,      \* bound: faults and changes of the drive together
    ClientOps,      \* the mutations clients use: a subset of {"PUT", "MKCOL", "DELETE", "MOVE"}
    Unparsed,       \* TRUE: the answer to a mutation may be one the code cannot parse
    StaleTypes,     \* TRUE: clients write where the index shows a file for a folder, or
                    \* a folder for a file
    OpenFaults      \* TRUE: the open of a snapshot file may fail

ASSUME SyncAssumption ==
    /\ MaxPages \in Nat \ {0} /\ MaxFaults \in Nat /\ MaxEvents \in Nat
    /\ Unparsed \in BOOLEAN /\ StaleTypes \in BOOLEAN /\ OpenFaults \in BOOLEAN
    /\ Missing \notin Index

VARIABLES
    live,       \* index.bin: what PROPFIND and HEAD serve, as it loads
    rebuild,    \* the shadow index of a crawl after a 410
    pc,         \* where the guest is: "idle", in a tick, or about to patch
    tick,       \* the locals of sync::run_inner
    call,       \* the mutation Graph has done and the index has not seen
    faults
diskVars == <<live, rebuild>>
vars == <<remote, version, changed, live, rebuild, pc, tick, call, faults>>

Snapshot == Index \cup {Missing}
NoPage == Page({}, None, None)
PageType == [items : SUBSET DeltaItem, next_link : Link \cup {None}, delta_token : Link \cup {None}]
Tick == [idx : Index, target : {"index", "rebuild"}, url : Link, pages : Nat,
         dirty : BOOLEAN, complete : BOOLEAN, page : PageType]
NoTick == [idx |-> Blank(0), target |-> "index", url |-> InitialLink, pages |-> 0,
           dirty |-> FALSE, complete |-> FALSE, page |-> NoPage]
Call == [op : {"PUT", "MKCOL", "DELETE", "MOVE"}, path : Paths, to : Paths,
         item : DeltaItem \cup {None}]

TypeOK ==
    /\ DriveTypeOK
    /\ live \in Snapshot /\ rebuild \in Snapshot
    /\ pc \in {"idle", "fetch", "apply", "save", "rename", "patch"}
    /\ tick \in Tick
    /\ call \in Call \cup {None}
    /\ faults \in Nat

Init ==
    /\ DriveInit
    /\ live = Missing /\ rebuild = Missing
    /\ pc = "idle" /\ tick = NoTick /\ call = None
    /\ faults = 0

\* What the bounds leave room for.
Room == version - 1 + faults < MaxEvents
Fault == faults < MaxFaults /\ Room /\ faults' = faults + 1

-----------------------------------------------------------------------------
(***************************************************************************)
(* sync::run_inner                                                         *)
(***************************************************************************)
OrElse(a, b) == IF a # None THEN a ELSE b
ResumeUrl(idx) == OrElse(idx.pending_next_link, OrElse(idx.delta_token, InitialLink))

\* What read_file may find of a snapshot file: a file it cannot open is a missing file.
Opened(file) == {file} \cup (IF OpenFaults THEN {Missing} ELSE {})
Spend(fault) == IF fault THEN Fault ELSE UNCHANGED faults

\* Loads the rebuild if there is one, else the live index, and picks up where its crawl
\* stands; `meta` is what read_meta sees.
BeginTick ==
    /\ pc = "idle"
    /\ \E base, meta \in Opened(live), shadow \in Opened(rebuild) :
          /\ LET idx == IF shadow # Missing THEN shadow
                        ELSE IF base # Missing THEN base ELSE Blank(0)
             IN  tick' = [idx |-> idx,
                          target |-> IF shadow # Missing THEN "rebuild" ELSE "index",
                          url |-> ResumeUrl(idx),
                          pages |-> 0,
                          dirty |-> meta # Missing /\ meta.crawl_complete /\ DirRows(meta) = {},
                          complete |-> idx.crawl_complete /\ idx.pending_next_link = None,
                          page |-> NoPage]
          /\ Spend(base # live \/ meta # live \/ shadow # rebuild)
    /\ pc' = "fetch"
    /\ UNCHANGED <<driveVars, live, rebuild, call>>

FetchPage ==
    /\ pc = "fetch" /\ tick.pages < MaxPages
    /\ \E page \in Pages(tick.url) :
          tick' = [tick EXCEPT !.pages = @ + 1,
                               !.dirty = @ \/ page.items # {},
                               !.page = page]
    /\ pc' = "apply"
    /\ UNCHANGED <<driveVars, live, rebuild, call, faults>>

\* Mutant of FetchResync: the live index itself starts over.
FetchResyncInPlace ==
    /\ pc = "fetch" /\ tick.pages < MaxPages
    /\ Fault
    /\ tick' = [tick EXCEPT !.idx = Blank(tick.idx.generation + 1),
                            !.target = "index",
                            !.url = InitialLink,
                            !.pages = @ + 1,
                            !.dirty = TRUE,
                            !.complete = FALSE]
    /\ UNCHANGED <<driveVars, live, rebuild, pc, call>>

\* 410 or resyncRequired: the crawl starts over, beside a live index that is worth serving.
FetchResync ==
    /\ pc = "fetch" /\ tick.pages < MaxPages
    /\ Fault
    /\ \E base \in Opened(live) :
          LET worth == base # Missing /\ (base.crawl_complete \/ base.root # None)
          IN  tick' = [tick EXCEPT !.idx = Blank(tick.idx.generation + 1),
                                   !.target = IF worth THEN "rebuild" ELSE "index",
                                   !.url = InitialLink,
                                   !.pages = @ + 1,
                                   !.dirty = TRUE,
                                   !.complete = FALSE]
    /\ UNCHANGED <<driveVars, live, rebuild, pc, call>>

\* The items of a page, in the order the page has them: any order.
ApplyItem ==
    /\ pc = "apply"
    /\ \E it \in tick.page.items :
          tick' = [tick EXCEPT !.idx = Apply(@, it), !.page.items = @ \ {it}]
    /\ UNCHANGED <<driveVars, live, rebuild, pc, call, faults>>

\* Mutant of TakeNextLink: the deltaLink field is read for the nextLink.
TakeNextLinkFromToken ==
    /\ pc = "apply" /\ tick.page.items = {} /\ tick.page.next_link # None
    /\ LET next == tick.page.delta_token
       IN  tick' = [tick EXCEPT !.idx.pending_next_link = next,
                                !.idx.crawl_complete = FALSE,
                                !.url = next,
                                !.dirty = TRUE,
                                !.complete = FALSE,
                                !.page = NoPage]
    /\ pc' = "fetch"
    /\ UNCHANGED <<driveVars, live, rebuild, call, faults>>

TakeNextLink ==
    /\ pc = "apply" /\ tick.page.items = {} /\ tick.page.next_link # None
    /\ LET next == tick.page.next_link
       IN  tick' = [tick EXCEPT !.idx.pending_next_link = next,
                                !.idx.crawl_complete = FALSE,
                                !.url = next,
                                !.dirty = @ \/ tick.idx.pending_next_link # next,
                                !.complete = FALSE,
                                !.page = NoPage]
    /\ pc' = "fetch"
    /\ UNCHANGED <<driveVars, live, rebuild, call, faults>>

TakeDeltaLink ==
    /\ pc = "apply" /\ tick.page.items = {} /\ tick.page.next_link = None
    /\ LET token == OrElse(tick.page.delta_token, tick.idx.delta_token)
           idx == SweepOrphans([tick.idx EXCEPT !.pending_next_link = None,
                                                !.delta_token = token,
                                                !.crawl_complete = TRUE])
       IN  tick' = [tick EXCEPT !.idx = idx,
                                !.dirty = \/ @
                                          \/ tick.idx.delta_token # tick.page.delta_token
                                          \/ tick.idx.pending_next_link # None,
                                !.complete = TRUE,
                                !.page = NoPage]
    /\ pc' = "save"
    /\ UNCHANGED <<driveVars, live, rebuild, call, faults>>

\* The page limit, or the time budget once a page was fetched.
StopFetching ==
    /\ pc = "fetch" /\ tick.pages > 0
    /\ pc' = "save"
    /\ UNCHANGED <<driveVars, live, rebuild, tick, call, faults>>

\* write_atomic: a whole new file under a temporary name, renamed over the old one.
WriteIndex(target, idx) ==
    IF target = "rebuild"
    THEN rebuild' = Reload(idx) /\ UNCHANGED live
    ELSE live' = Reload(idx) /\ UNCHANGED rebuild

\* Mutant of Save: the progress of an unfinished crawl is not worth a write.
SaveWhenComplete ==
    /\ pc = "save"
    /\ IF tick.dirty /\ tick.complete THEN WriteIndex(tick.target, tick.idx) ELSE UNCHANGED diskVars
    /\ pc' = "rename"
    /\ UNCHANGED <<driveVars, tick, call, faults>>

\* The progress of the tick, if any.
Save ==
    /\ pc = "save"
    /\ IF tick.dirty THEN WriteIndex(tick.target, tick.idx) ELSE UNCHANGED diskVars
    /\ pc' = "rename"
    /\ UNCHANGED <<driveVars, tick, call, faults>>

\* A finished shadow replaces the live index; the invocation ends.
FinishTick ==
    /\ pc = "rename"
    /\ IF tick.complete /\ tick.target = "rebuild"
       THEN live' = rebuild /\ rebuild' = Missing
       ELSE UNCHANGED diskVars
    /\ pc' = "idle" /\ tick' = NoTick
    /\ UNCHANGED <<driveVars, call, faults>>

(***************************************************************************)
(* The invocation is lost with everything in memory: a trap, the deadline, *)
(* the host killed, or an error that run_inner returns (a failed request,  *)
(* a failed write) before anything more is written.  A patch that cannot   *)
(* read or write the live index is lost in silence, to the same effect.    *)
(***************************************************************************)
LoseInvocation ==
    /\ pc # "idle"
    /\ Fault
    /\ pc' = "idle" /\ tick' = NoTick /\ call' = None
    /\ UNCHANGED <<driveVars, live, rebuild>>

-----------------------------------------------------------------------------
(***************************************************************************)
(* The mutations of dav.rs: Graph changes the drive, then the answer       *)
(* patches the live index.                                                 *)
(***************************************************************************)
\* What the code has of Graph's answer about item x: the item, or None if it does not parse.
Answers(x) == {ItemOf(remote', x)} \cup (IF Unparsed THEN {None} ELSE {})

(***************************************************************************)
(* The index does not show an item of another type where a client writes:  *)
(* a file for the folder that has the new entry, or another type than the  *)
(* entry has.  Another device can make it so until the next tick           *)
(* (StaleTypes).                                                           *)
(***************************************************************************)
ShownAs(x, dir) == (x # None /\ live.nodes[x] # NoNode) => live.nodes[x].dir = dir
ParentFits(path) ==
    (~StaleTypes /\ live # Missing) => ShownAs(Resolve(live, ParentPath(path)), TRUE)
EntryFits(path, dir) ==
    /\ ParentFits(path)
    /\ (~StaleTypes /\ live # Missing) =>
          ShownAs(Resolve(live, path), dir) /\ ShownAs(LocalId(path), dir)

Called(op, path, to, item) ==
    /\ Room
    /\ call' = [op |-> op, path |-> path, to |-> to, item |-> item]
    /\ pc' = "patch"
    /\ UNCHANGED <<live, rebuild, tick, faults>>

CallPut(path) ==
    /\ "PUT" \in ClientOps /\ pc = "idle" /\ EntryFits(path, FALSE)
    /\ \E x \in ItemIds :
          /\ PutContent(x, path)
          /\ \E item \in Answers(x) : Called("PUT", path, path, item)

CallMkcol(path) ==
    /\ "MKCOL" \in ClientOps /\ pc = "idle" /\ EntryFits(path, TRUE)
    /\ \E x \in ItemIds :
          /\ CreateFolder(x, path)
          /\ \E item \in Answers(x) : Called("MKCOL", path, path, item)

\* The patch removes what the index has at the path, also after a 404.
CallDelete(path) ==
    /\ "DELETE" \in ClientOps /\ pc = "idle"
    /\ DeleteAt(path)
    /\ Called("DELETE", path, path, None)

CallMove(path, to) ==
    /\ "MOVE" \in ClientOps /\ pc = "idle" /\ path # to /\ ParentFits(to)
    /\ MoveOrRename(path, to)
    /\ \E item \in Answers(RemoteAt(path)) : Called("MOVE", path, to, item)

ClientCall ==
    \/ \E path \in Paths : CallPut(path) \/ CallMkcol(path) \/ CallDelete(path)
    \/ \E path, to \in Paths : CallMove(path, to)

\* apply_or_upsert
ApplyOrUpsert(idx, item, path, dir) ==
    LET applied == IF item = None THEN idx ELSE Apply(idx, item)
    IN  IF item # None /\ Resolve(applied, path) # None THEN Edit(TRUE, applied)
        ELSE UpsertAtPath(applied, path, dir)

\* The closure of r#move.
ApplyOrMove(idx, item, from, to) ==
    LET applied == IF item = None THEN idx ELSE Apply(idx, item)
    IN  IF item # None /\ Resolve(applied, to) # None THEN Edit(TRUE, applied)
        ELSE MoveAtPath(applied, from, to)

Patched(idx, c) ==
    CASE c.op = "PUT"    -> ApplyOrUpsert(idx, c.item, c.path, FALSE)
      [] c.op = "MKCOL"  -> ApplyOrUpsert(idx, c.item, c.path, TRUE)
      [] c.op = "DELETE" -> RemoveAtPath(idx, c.path)
      [] c.op = "MOVE"   -> ApplyOrMove(idx, c.item, c.path, c.to)

\* snapshot::mutate: load, edit, save; nothing without a live index or when the edit declines.
Patch ==
    /\ pc = "patch"
    /\ LET edit == Patched(live, call)
       IN  IF live # Missing /\ edit.ok THEN WriteIndex("index", edit.idx) ELSE UNCHANGED diskVars
    /\ pc' = "idle" /\ call' = None
    /\ UNCHANGED <<driveVars, tick, faults>>

-----------------------------------------------------------------------------
\* Items are applied from memory, so a change of the drive commutes with it.
RemoteChange ==
    /\ pc \notin {"apply", "rename"} /\ Room
    /\ OtherDevice
    /\ UNCHANGED <<live, rebuild, pc, tick, call, faults>>

TickStep ==
    \/ BeginTick \/ FetchPage \/ ApplyItem \/ TakeNextLink \/ TakeDeltaLink
    \/ StopFetching \/ Save \/ FinishTick

Next ==
    \/ TickStep
    \/ FetchResync
    \/ LoseInvocation
    \/ ClientCall \/ Patch
    \/ RemoteChange

Spec == Init /\ [][Next]_vars

(***************************************************************************)
(* The timer starts a tick every 30 s, and an invocation, once running,    *)
(* goes on.  The tick waits for its turn in the host's FIFO queue behind   *)
(* finitely many mutations at a time (Service), however many come: its     *)
(* fairness is strong.  Both conjuncts are SF_vars with the ENABLED of the *)
(* action written out, which TLC evaluates much faster.  Faults and        *)
(* changes of the drive are not fair, and there are finitely many          *)
(* (MaxFaults, MaxChanges).                                                *)
(***************************************************************************)
FairSpec ==
    /\ Spec
    /\ <>[](pc = "patch") \/ [] (<> <<TickStep>>_vars)
    /\ <>[](pc # "patch") \/ [] (<> <<Patch>>_vars)

-----------------------------------------------------------------------------
(***************************************************************************)
(* Properties                                                              *)
(***************************************************************************)
IsIndex(idx) == idx # Missing

\* What the feed will still say to a crawl that resumes from `idx`.
Owed(idx) ==
    LET link == ResumeUrl(idx)
        since == {x \in ItemIds : changed[x] > link.begun}
    IN  CASE link.kind = "initial" -> ItemIds
          [] link.kind = "next"    -> link.todo \cup since
          [] link.kind = "delta"   -> since
Differing(idx) == {x \in ItemIds : idx.nodes[x] # remote[x]}
UpToDate(idx) == idx.crawl_complete /\ Owed(idx) = {}

(***************************************************************************)
(* In every index, on disk or in the hands of a tick, the child sets and   *)
(* the parent ids are each other's inverse and sibling names are unique:   *)
(* apply, remove, sweep, the edits by path and the snapshot format each    *)
(* change both sides, in several places.                                   *)
(***************************************************************************)
ChildSetsMatch ==
    /\ IsIndex(live) => Matched(live)
    /\ IsIndex(rebuild) => Matched(rebuild)
    /\ Matched(tick.idx)

(***************************************************************************)
(* The drive's root, once seen, is recorded, and no other entry is without *)
(* a parent: no pruned folder, orphan or "local:" entry comes out of a     *)
(* save and a load as a second "/".                                        *)
(***************************************************************************)
IndexesRooted ==
    /\ IsIndex(live) => Rooted(live)
    /\ IsIndex(rebuild) => Rooted(rebuild)
    /\ Rooted(tick.idx)

(***************************************************************************)
(* Whatever a snapshot file has wrong about the drive, the crawl that      *)
(* resumes from the link saved with it will be told.  A save that loses an *)
(* entry, a link saved ahead of its items, a crash between two pages or a  *)
(* patch from a stale path would leave an error nobody corrects.           *)
(***************************************************************************)
FeedOwesEveryDifference ==
    /\ IsIndex(live) => Differing(live) \subseteq Owed(live)
    /\ IsIndex(rebuild) => Differing(rebuild) \subseteq Owed(rebuild)

(***************************************************************************)
(* A live index whose crawl is complete and to which the feed owes nothing *)
(* is the drive: the same items, and no "local:" entry left over.          *)
(***************************************************************************)
Converged == (IsIndex(live) /\ UpToDate(live) /\ pc # "patch") => live.nodes = remote

(***************************************************************************)
(* sync.rs: "Keep serving the existing live snapshot until the shadow      *)
(* crawl finishes, unless there is no live snapshot yet."  A live index    *)
(* with a root keeps one, and a newer generation takes its place only with *)
(* its crawl complete.                                                     *)
(***************************************************************************)
ShadowServes ==
    [][(IsIndex(live) /\ live.root # None) =>
          /\ IsIndex(live') /\ live'.root # None
          /\ live'.generation # live.generation => live'.crawl_complete]_vars

(***************************************************************************)
(* README: "Local PUT/MKCOL/DELETE/MOVE patch the snapshot immediately."   *)
(* If the live index differs from the drive only in what the mutation      *)
(* changed, its patch makes the live index the drive.                      *)
(***************************************************************************)
OnlyTheCallDiffers ==
    CASE call.op = "DELETE" ->
            /\ Resolve(live, call.path) # None
            /\ LET gone == Below(live.kids, Resolve(live, call.path))
               IN  Differing(live) \subseteq gone /\ \A x \in gone : remote[x] = NoNode
      [] call.op # "DELETE" /\ call.item # None ->
            /\ Differing(live) \subseteq {call.item.id}
            /\ call.item = ItemOf(remote, call.item.id)
      [] OTHER -> FALSE
PatchedAtOnce ==
    [][(/\ pc = "patch" /\ pc' = "idle" /\ faults' = faults
        /\ IsIndex(live) /\ live.root # None
        /\ \A x \in LocalIds : live.nodes[x] = NoNode
        /\ OnlyTheCallDiffers) => live'.nodes = remote]_vars

(***************************************************************************)
(* The same sentence of the README, of what happens next: an entry that    *)
(* the live index has right is not wrong again because a shadow takes the  *)
(* live index's place.                                                     *)
(***************************************************************************)
SwapKeepsPatches ==
    [][(pc = "rename" /\ IsIndex(live) /\ IsIndex(live') /\ remote' = remote) =>
          \A x \in Present(remote) : live.nodes[x] = remote[x] => live'.nodes[x] = remote[x]]_vars

(***************************************************************************)
(* README: "A miss or corrupt snapshot always falls back to Graph, so a    *)
(* bad index cannot break the mount."  The snapshot a patch writes has one *)
(* row at most for "/", so that a listing of the mount, which looks its    *)
(* row up by path, is the listing of the root.                             *)
(***************************************************************************)
RootRows(idx) == {x \in DirRows(idx) : idx.nodes[x].parent = None}
OneRootRow ==
    [][(pc = "patch" /\ IsIndex(live) /\ Patched(live, call).ok) =>
          Cardinality(RootRows(Patched(live, call).idx)) <= 1]_vars

(***************************************************************************)
(* Once other devices and clients leave the drive alone, the live index    *)
(* becomes the drive and stays so, whatever crawl, resync or crash came    *)
(* before.                                                                 *)
(***************************************************************************)
EventuallyFresh == <>[](IsIndex(live) /\ UpToDate(live) /\ live.nodes = remote)
=============================================================================
