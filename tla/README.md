# TLA+ models of onedrive-davfs

`onedrive-davfs` serves a OneDrive account as a WebDAV share on the loopback
interface. A native host (`host/src/main.rs`) runs a sandboxed guest component
(`src/*.rs`) once per HTTP request; the guest talks to Microsoft Graph and keeps
its state in files of one directory. These modules model the parts that carry
the program's own logic: the metadata index, the delta crawl that feeds it and
what clients read of it, uploads and the HTTP exchanges they are made of, the
OAuth tokens, the host with the guests it runs, and the way of a request from
the bytes of its target to the handler and the address Graph is given.

Paths below are relative to the repository root.

## 1. Inventory

| Component | State | Operations | Interacts with |
|---|---|---|---|
| Index (`src/index.rs`) | node map, child sets, root id, crawl links, generation | `apply`, `remove`, `resolve`, `sweep_orphans`, `upsert_at_path`, `remove_at_path`, `move_at_path` | called by the tick and by the mutations |
| Snapshot (`src/snapshot.rs`) | `index.bin`, `index.rebuild.bin` | `encode`/`decode`, `load`, `save`, `mutate`, `lookup_file` | state files; readers of the index |
| Sync tick (`src/sync.rs`) | none of its own: locals of one invocation | `run_inner`: load, fetch pages, apply, save, rename | Graph's delta feed, both snapshot files |
| WebDAV (`src/dav.rs`) | none | `put`, `mkcol`, `delete`, `move` (Graph, then a patch of the live index); `propfind`, `head` (index, else Graph); `get`; `lock`/`unlock` (stateless) | Graph, the live snapshot |
| Graph client (`src/graph.rs`) | none; the drive is Graph's | delta pages, resync detection, path-addressed mutations, upload sessions | HTTP client, tokens |
| Tokens (`src/auth.rs`, `tools/device-code-login.sh`) | `token.json` | load, refresh, save in place; sign in | identity service, the user |
| State files (`src/state_file.rs`) | the state directory | `read_file`, `read_at`, `write_file`, `write_atomic`, `rename` | everything above |
| Dispatch and paths (`src/lib.rs`) | none | `handle_request`, `check_basic_auth`, `sanitize_path`, `destination_path`, reading a body, writing a response | all handlers |
| Plugin API (`src/api.rs`) | none | `_status`, `_tree`, `_search` | snapshot, Graph |
| WebDAV XML (`src/xml.rs`) | none | hrefs, percent coding, dates, multistatus | dispatch, WebDAV |
| HTTP client (`src/http_client.rs`) | one exchange | `send`: hand over, write the body, wait, read | the host's outgoing requests |
| Host (`host/src/main.rs`) | one execution permit, the counter of waiting requests, detached guest tasks, connections to Graph | `admit`, `handle_request`, `send_restricted_request` with its time limits, epoch ticker, shutdown | guests, Graph |
| `sync_stats.rs`, `config.rs` | none (the statistics file is read by reports only) | reports, configuration | |

What makes each part correct, and hard to get right:

* **Index.** Two maps hold one tree (parents in the nodes, children in sorted
  sets) and a dozen places update one or the other. They must stay each other's
  inverse, with unique sibling names, after any sequence of moves, clashes,
  removals, sweeps, edits by path and reloads.
* **Crawl.** The feed reports an item once per change. An index may be wrong
  about the drive only where the feed still has something to say to the crawl
  that resumes from it: pages cut anywhere, changes between pages, a tick that
  stops at its limits, a crash at any step, a 410 that starts over in a shadow
  file, patches by path made from a stale index. When nothing is owed the index
  must be the drive, and it must get there.
* **Write-through.** A mutation shows in the index at once, and stays.
* **Reads.** `lookup_file` searches a file by path that was written from a tree;
  it must find what the tree has, and answer as Graph would once the index is
  up to date.
* **Uploads.** What is acknowledged is on the drive, whole; nothing shows half
  a body; a session that failed is closed; limits, chunks and ranges fit; every
  wait has an end.
* **Tokens.** The bearer is still good when it is used, and one sign-in lasts,
  although the service rotates refresh tokens and the file is rewritten in place.
* **Host.** One guest at a time (the state files have no other lock), a bounded
  queue, a counter that never wraps, no waiter left behind, although clients
  disconnect at any await and guests outlive the requests that started them,
  trap, or wait for somebody who never comes.
* **Paths and dates.** An entry's name is escaped, unescaped and escaped again
  between Graph, a listing, a client, a handler and Graph: it must come back as
  itself. Two calendar algorithms must be each other's inverse.

Not hard to test and left out for good: the layout of XML and JSON, reports
(`sync_stats.rs`), configuration, generated bindings.

## 2. Modules

```
Namespace      ids, names, nodes, the two tree walks, delta items, links
  IndexTree    src/index.rs, and save-then-load of src/snapshot.rs
  GraphDrive   the drive and its delta feed, as src/graph.rs uses them (external)
    IndexSync  IndexTree + GraphDrive: sync tick, WebDAV mutations, crashes
      Listings   PROPFIND, HEAD, _tree and _search: rows of the file, else Graph
        MCIndexSync     small drives for TLC
IndexTreeProofs   theorems about IndexTree, and lemmas about its walks
IndexSyncProofs   theorems about IndexSync that hold of any feed: types, child
                  sets, the shadow
FeedProofs        theorems about IndexSync and Listings that are about what the
                  feed brings: convergence, patches, reads

Host           admission, guest tasks and disconnects of host/src/main.rs
  Service      Host + what guests do with index.bin, stalls, traps, shutdown
IndexStore     abstract: edits and lookups of one file, each a single step
HostProofs, ServiceProofs   theorems; Service implements Host and IndexStore

Token          src/auth.rs and write_file, the identity service, the user, time
  TokenProofs  theorems about Token

Upload         put_content of src/graph.rs: simple uploads and upload sessions
  Outbound     its requests as HTTP exchanges: src/http_client.rs and the host
FileStore      abstract: a file that holds one whole body at every moment
UploadProofs   theorems; Upload implements FileStore, Outbound implements Upload

Encoding       percent coding, paths, addresses, base64, dates: pure operators
  Gateway      handle_request of src/lib.rs between clients and handlers
    MCGateway  names, spellings, credentials and days for TLC
GatewayProofs  theorems about Gateway, and the laws of its conversions
```

### Namespace, IndexTree

A `HashMap<Id, _>` is a total function on `Ids`; an absent key is `NoNode` in
the node map and the empty set in the child map. Size, time and etag are
payload that no decision reads, and are left out. The recursion of `remove` is
the least set closed under children (`Below`); the parent walks of `path_of`
and `sweep_orphans` are the least set closed under "its parent is a member"
(`Climb`). The code gives up after 64 steps; the assumption `DepthAssumption`
(at most 64 ids) makes that the same as "never ends", so depth limits are not
modelled.

`Apply` follows `Index::apply` in its order: leave the old parent's child set
(`Detach`), remove the entry that has the name (`Evict`), enter the new one
(`Attach`). `UpsertAtPath`, `RemoveAtPath` and `MoveAtPath` give the edited
index and whether the closure handed to `snapshot::mutate` returned true.

`Reload` is `decode(encode(idx))`: a snapshot has a row for each folder that
walks to an entry without parent, and the children of the rows. Everything else
is dropped, which is what makes a save in the middle of a crawl matter. The
code links a row to its parent by path; that is the row of its parent as long
as one row only has the path `/`. Where that may fail (the run `stale_parent`)
the model is exact up to the step that violates the property.

### GraphDrive

The drive is a node map changed by `Create`, `Rewrite`, `Move` and `Delete`,
and `changed` records when each item last changed. The feed promises little: an
enumeration is fixed when it starts, is served in pages of any cut up to
`PageSize`, an item appears in the state it has when its page is served, and an
item that changed meanwhile comes again in the next enumeration. Folders are
deleted with their contents, and the feed reports each item. `DriveAssumption`
says what a drive is when the program first meets it: typed items with unique
sibling names, each of which the walk from the root leads to.

### IndexSync

`live` and `rebuild` are the two snapshot files, as they load. `pc`, `tick` and
`call` are the one guest invocation that runs (the host admits one at a time,
and the permit makes an invocation's use of the files atomic: `Service`). The
correspondence:

| Action | Code |
|---|---|
| `BeginTick` | `run_inner` up to the loop: which file, which link, `dirty`, `complete`; `Opened` is `read_file`, to which a file it cannot open is a missing one |
| `FetchPage`, `FetchResync` | one `graph::delta`: a page, or a 410 |
| `ApplyItem` | one iteration of the loop over the page's items |
| `TakeNextLink`, `TakeDeltaLink` | the two arms after it; the second sweeps orphans |
| `StopFetching` | page limit or time budget |
| `Save`, `FinishTick` | the save if dirty (`WriteIndex` is `write_atomic`); the rename of a finished shadow |
| `CallPut` … `CallMove` | Graph's side of a mutation (`PutContent` … `MoveOrRename` of GraphDrive); `Answers` is what the code gets of it |
| `Patch` | `write_through` and `snapshot::mutate`, with the closure of the handler |
| `LoseInvocation` | a trap, a kill, the CPU deadline, or an error return: memory is gone, files stay |
| `RemoteChange` | another device, between any two steps that read the drive |

`write_atomic` is one step: its temporary file is read by nobody (`Service` has
its two). Two rules
keep other devices' steps out of places where they only multiply states: they
do not run between the items of a page (items are applied from memory) nor
between save and rename.

### Listings

A read changes no state, and the index cannot change under it (one guest at a
time), so PROPFIND and HEAD are functions of the state (`Propfind`, `DavHead`),
and what is said of them is said of the states where no other invocation runs
(`pc = "idle"`). `Lookup` searches the rows by path and else the parent's block
by name (`lookup_with`), a miss is answered `FromGraph`. Rows are found by parent ids (`Named` is `path_of`), the tree walk
`Resolve` goes by child sets; that the two agree is the property, and that the
plugin's `SearchIndex`, which climbs by `PathOf`, and its `PluginTree`, which
shows folders only, agree with them. `PathOf` keeps the code's 64 steps; its None is no
path (`NoPathAssumption`). `FromGraph` is taken at one moment: a folder that
another device changes between `stat` and the pages of `children` is Graph's
affair. Times, sizes and content types are payload.

### Token

A refresh token is its number, an access token the time it really expires;
`expires_at` is what the code writes down, and `delay`, how long its answer was on
its way, is history that no step looks at. `pc` follows `bearer_token`:
`TakeStored` or `AskRefresh`; the service's `Issue` or `Refused`; `Receive`
makes the new `TokenFile`; `OpenFile` truncates token.json and `WriteFile`
writes it; `Use` puts the bearer into a request. `Lose` is a lost guest or an
error return anywhere. The service gives a new refresh token or none (as it
likes), `SignIn` and `SignInWrites` are the script (`tools/device-code-login.sh`),
`Revoke` the user. `Tick` is time. An answer may be slower than the margin: the
host waits 300 s for its first byte and as long for each further one
(`host/src/main.rs:43`), the margin is 60 s (`src/auth.rs:23`); `MaxDelay` is
only TLC's bound on it. Writing the file takes less than a second.

### Upload, FileStore

A body is the number of its PUT and its size. `Route` is the choice of
`put_content`; `PutSimple`, `CreateSession`, `SendChunk` (one turn of the loop)
and `Cancel` are one request each, with three outcomes: answered, done but not
answered, not done. A simple PUT has a fourth: given up on, and carried out by
the drive later (`late`, `CarryOut`), also after the client's next PUT. The
drive (external) takes the chunks of a session in order and in whole units, and
has the file when a range reaches its stated total.

`FileStore` is what PUT promises: at every moment the file is one whole body,
each body is stored once at most, and a PUT is reported as done only with the
step that stores it. `PutsAreStores` is `Upload`'s refinement of it; what may
yet be stored is what is late or under way.

### Outbound

One exchange at a time. `Take` makes the request and its body, `Handle` hands it
to the host, `Write` is one `blocking_write_and_flush`, which waits while the
pipe to the connection is full. The host's stages are `Connect`, `Handshake`,
`Pull` and `Respond`, `Deliver`; `TimeOut` and `Break` end one of them, before
the request was sent whole (`broken`) or after it (`cut`), when nobody knows
whether Graph acted. `Conclude` gives the request of Upload its outcome:
`Possible` is the contract between the two modules. Connecting, the wait for the
head of the answer and the waits between its bytes have time limits (`Timed`);
the TLS handshake (`host/src/main.rs:310`) has none.

A late chunk, DELETE or session is not modelled: a chunk is tied to its offset,
and the session of a request nobody heard of is counted in `leaks` either way.

### Host

A request is a connection (it may send one request after another). Its `pc`
says where its future is: between `fetch_add` and the test, about to be
rejected, about to poll the semaphore, queued, granted but not yet polled,
admitted, or waiting for the detached guest. The tokio semaphore is FIFO and
hands a returned permit to the first waiter (external). A disconnect drops the
future at its await: a queued waiter leaves the queue, a granted one returns the
permit, a served one leaves its guest running.

### Service, IndexStore

What a guest does while it has the permit, at the grain of file operations. An
editor is a mutation's patch or the load and save of a tick: `Load`, `WriteTmp`,
`RenameTmp`; `Unsaved` is every way to give up in between. A lookup opens
`index.bin` for each part it reads: `ReadHeader`, `ReadBlock`. The file is the
set of edits it has. `Answered` is the response leaving the handler (the guest
may go on), `Returns` the end of `call_handle`, `Traps` and `EpochTrap` the other
ends. `Stall`, `ServerStalls` and `Compute` are the three ways to be stuck: on a
client, on a TLS handshake, in a loop. `Shutdown` aborts the ticker and goes on
serving the connections that are open; `RestartAll` is a new process over the
files as they are.

`IndexStore` has three single steps: an edit, a lookup, and forgetting an answer.
`IndexIsAtomic` is the refinement; that the admission of `Service` is `Host`'s is
a second one, `ServiceImplementsHost`.

### Encoding, Gateway

A string is a sequence of bytes, so that escaping and UTF-8 are what they are in
the code; a sanitized path is the sequence of its segments. The operators have
the names of the functions. `Gateway` takes one entry of a drive, what
`Propfind` says of it, and one request at a time: davfs2 asks by the href in any
spelling, moves to a Destination on this host or another, the plugin asks for
`_tree` and `_status`, the timer for a tick, and some spell paths oddly. Each of
these requests is sent with the right credentials and with all others that are
tried (`Tried`, `Asks`): no header, another scheme, base64 that is padded, bare,
between spaces or broken, of any bytes. `knows` is history, whether the client has
the password (`HasPassword`, which is RFC 7617 and not the code's parser); `meant`
is the answer it must get if it has, `outcome` the one it gets: `handle_request`
with each of its early returns, in their order.

What a string is turned into element by element is a recursive function or a
fold, never a RECURSIVE operator, so that it can be proved about. `Without` is
what a loop with `continue`, or a filter, leaves of a sequence. The assumptions
say what the rest of the world is: Graph's names are whole UTF-8 without slashes
and control characters and none is a dot segment, its dates are of the calendar
(`ItemsAssumption`, `TargetsAssumption`); request targets are ASCII
(`EndingsAssumption`); the secret is text (`SecretAssumption`), and credentials are
any bytes, in one of four forms and under any scheme (`LoginsAssumption`); the two
hosts are not the same (`HostsAssumption`); None, which is every absent value and
every error, is no number, string, path or header (`NoneAssumption`,
`DestinationsAssumption`, `HeadersAssumption`). `Suspects` is a bound: about
entries outside it only the right credentials are sent.

## 3. Runs

| Run | Bounds | Checks |
|---|---|---|
| `writes` | 2 folders, 2 files and the root; 2 names; paths `/b` and `/a/b`; pages of 2, ticks of 2 pages; 3 changes, 2 faults, 3 of both together; under fairness | `TypeOK`, `ChildSetsMatch`, `IndexesRooted`, `FeedOwesEveryDifference`, `Converged`, `PatchedAtOnce`, `EventuallyFresh`; `ReadsAreGraphs` at every path up to length 2 |
| `unparsed` | as `writes` with ticks of 1 page, answers that may not parse, files that open | the invariants that hold with `local:` entries; `ShadowServes`; `LookupsResolve` at every path up to length 2 |
| `token` | tokens good for 4 s, margin 1 s, answers up to 5 s on their way, 8 s, 4 refresh tokens (old ones revoked or not), 2 lost guests; under fairness | `TypeOK`, `SignInLasts`, `BearerIsFresh`, `SignedInIsServed` |
| `upload` (module Outbound) | limits 4 and 24, chunks of 10, units of 5, writes of 3, a pipe of 1; 12 sizes on, below and above each boundary; 3 PUTs, 3 faults; under fairness | `OutboundTypeOK`, `OnlyFaultsFail`, `SessionsClosed`, `PutsAreStores`, `PutsEndUnlessTls` |
| `service` | 3 connections, a queue of 2, 2 editors and a lookup; under fairness | `ServiceTypeOK`, `OneGuest`, `CounterCovers`, `BoundedQueue`, `IndexIsAtomic`, `WaitersServedUnlessStuck` |
| `gateway` | names of one and two characters out of ten, longer ones that look escaped or like endpoints; 3 spellings, 16 odd endings; every request about three of the entries with 43 credentials in 4 forms, with 4 other schemes and without a header; 8 years, the ends of their months | `TypeOK`, `HrefsLeadBack`, `PasswordDecides`, `GraphGetsThePath`, `DatesSurvive` |
| `folder_moves`, `shadow_swap`, `stale_parent`, `token_torn`, `host_leak`, `tree_path` | smaller instances, or that of `gateway` | one documented statement each, violated (section 6) |

Why these bounds are enough for the cases they aim at. Two folders and two names
give nesting, moves between folders, clashes and swaps of names. Pages of two
over five items cut every enumeration, so changes fall between its pages;
a tick of two pages ends both with a nextLink and with a deltaLink. Three
changes give a create, a move and a delete of related items in any order and at
any step. A fault is a 410 in the first crawl or in a later delta, a file that
does not open, or a lost invocation at any step, a shadow's included; two
give a fault in the recovery from another. `MaxEvents` leaves out only three
changes with a fault and two with two. Two client paths, one inside the folder
that other devices delete or replace, give stale patches. Three connections on a
queue of two are a guest and a full queue; `host_leak` fills it. A token that
lasts four seconds, with a margin of one, is fresh, held for expired and expired
within eight seconds, twice; an answer may come before the margin has passed, after
it, and after its token has expired. Three PUTs of sizes that need no, one, two or three
requests, with three faults, leave up to three sessions behind, or fail and are
sent again; a request of four writes on a pipe of one has to be drained while it
is written. The characters of `gateway` are those that escaping treats apart (a
percent sign and hex digits after it, a dot, a space, a delimiter of URLs, of
queries and of fragments, a two-byte character, one of no interest), and two of
them make every pair. The credentials are passwords that the secret begins with,
or that begin or end with it, or differ in a byte, users with a colon, without
text or with half a character, and text without a colon; their lengths leave every
remainder by three. What `check_basic_auth` does is the same for every entry, so
three (the root, a file `%2F`, a folder `_status`) bring them to every method and
endpoint.

Assumed in the passing runs of IndexSync:

* `ParentsFirst`: an enumeration serves a folder before its contents. Without it
  `Converged` fails: the save that ends a tick drops an item whose folder comes
  in a later tick (`encode` writes folders that walk to a root and their
  children), and the feed does not repeat it. In memory the order does not
  matter, as the test `out_of_order_page_converges` (`src/index.rs:347`) says;
* folders are not moved or renamed, only created and deleted, files move
  (`Movable`; `folder_moves` drops it);
* clients do not write where the index shows an entry of another type
  (`StaleTypes`; `stale_parent` drops it);
* answers to mutations parse (`Unparsed`; `unparsed` drops it, and `Converged`
  is not claimed there: see the hazard on `local:` entries in PROJECT.json);
* `ShadowServes` is checked where snapshot files open (`OpenFaults` FALSE). A tick
  whose open of `index.bin` fails takes it for missing and starts a crawl over it
  (`src/state_file.rs:10`), and that new, unfinished index replaces the complete
  one. The other properties hold with such failures.

Assumed in the runs of Token: the script does not run while a guest does
(`ConcurrentSignIn`), and no guest is lost, and no write fails, while nothing but
its memory has a refresh token the service accepts (`LosesOnlyCopy`; `token_torn`
drops it). That is so between a rotation that revokes the old token and the end
of the write, where nothing can help, and from the truncation of the file to the
end of the write, where the code could.

Deadlock is checked in every run but two. `upload` stops when all its PUTs were
sent. `token` stops when the last sign-in the bound allows was revoked and its
file lost: every request then returns an error and changes nothing.

## 4. Fairness

`FairSpec` of IndexSync has strong fairness of the steps of a tick and of
`Patch`: the systemd timer starts a tick every 30 s, it waits for its turn in the
host's FIFO queue behind finitely many mutations, and an invocation that runs
goes on. (The `ENABLED` of the two is written out, as `pc # "patch"` and
`pc = "patch"`, which is much cheaper to check.) Changes of the drive, faults and
mutations are not fair, and are bounded, as is any run of them between which one
expects the index to catch up.

`ServiceFairSpec` has weak fairness of admission, since the runtime polls every
task that can go on; strong fairness of a guest's own steps, which are finitely
many between two waits for a client; and weak fairness of `EpochTrap`, which the
ticker forces while it ticks. Clients and servers owe nothing, so
`WaitersServedUnlessStuck` is conditional: every request that waits is served or
goes away, provided no guest is stuck for ever on a client or a handshake, or
computes for ever after the shutdown signal. The code has no limit for those
three, and the property says that it needs none elsewhere.

`FairOutbound` has weak fairness of the guest's steps and, for each stage with a
time limit, of "it goes on or it times out". The TLS handshake has none, so
`PutsEndUnlessTls` assumes that the exchange is out of it again and again.

`FairSpec` of Token has weak fairness of the guest's steps (the timer makes a
request every 30 s, and a request needs a bearer), of the service's answer and
of the script's write. Lost guests, sign-ins, revocations and time are not fair.

## 5. Proofs

`HostProofs`, for any set of connections and any queue limit, clients that
disconnect included:

* `GuestsSerialized`: one guest at a time. The invariant is `Types /\ OneGuest`;
  `OneGuest` says besides that a returned permit is either free or granted, and
  a free one has no holder, which is what a step of the semaphore needs.
* `CounterNeverWraps`, `QueueBounded`, `TypeCorrect`. `CounterCovers` alone is
  not inductive: that the requests between `fetch_add` and `fetch_sub` are
  finitely many, that those queued are among them (`WaitersWait`), and that the
  queue fits what is counted (`QueueFits`) go with it. The counting itself is
  cardinalities of finite sets.

`ServiceProofs`, for any connections, editors and queue limit:

* `ServiceImplementsHost`: each step of a guest is a step of Host or leaves
  admission alone, so the theorems of HostProofs hold of Service.
* `StoreIsAtomic`: `Service` implements `IndexStore`. The invariant is that only
  who has the permit is anywhere but at its start, that what a guest has read is
  what the file still has, and that a temporary file written by the running guest
  is its copy with its edit; it rests on `OneGuest`.
* `ServiceTypeCorrect`, from the same invariant.

`IndexTreeProofs`, for any ids, names and paths: `Sound(idx)` (types; `Fits`,
the elementwise form of "child sets are the inverse of parent ids"; siblings
with distinct names; entries with a parent have a name; the root is recorded
exactly when it is there) is preserved by each operation.

* `ApplySound`: removal takes a set closed under children (`Below`, the least
  one, so it does not reach the root); a moved entry first leaves its old
  parent's set, after which the sets have every entry but that one, and once the
  entry of the same name is gone the new one can enter.
* `UpsertSound`, `RemoveAtPathSound`, `MoveSound`: the edits by path. A path
  names an entry with a parent (`ResolveFinds`), so never the root.
* `SweepSound`, `ReloadSound`: what is kept is closed under "its parent is kept"
  (`Climb`, the least set, so each member but the root has its parent in it).

`IndexSyncProofs`, for any drive, page size, limits and number of changes and
faults, any client paths, and whatever the passing runs assume of the feed and
of clients dropped (`ParentsFirst`, `Movable`, `StaleTypes`, `Unparsed` are
arbitrary):

* `ChildSetsAlwaysMatch`: `ChildSetsMatch` in every reachable state, and
  `TypeCorrectness`. Neither is inductive: an item without a name, or a deleted
  root, would break an index. The invariant `Inv` adds that the drive has its
  root and every other item a parent and a name (`DriveShape`), that the items of
  the page in hand and the answer of a mutation are well formed, and `Sound` for
  the two files and the tick's index.
* `ShadowAlwaysServes`, where snapshot files open (`~OpenFaults`), for any feed.
  That a crawl is complete is recorded in three fields, and that it has seen the
  root in a fourth. `ShadowInv` says that they agree in each file and in the
  tick's index (`Lasting`: complete exactly when there is a token and no pending
  link, and then the root is there, or is still to come: `RootComes`), that the
  page in hand keeps that up (`PageBrings`), and that the file about to be
  renamed is as complete as the index in memory that decides the rename
  (`TickLasting`). No operation on an index loses its root or changes its links
  (`KeepsRoot`).

`FeedProofs`, for any drive, page cuts, limits, changes, 410s, files that do not
open, lost invocations and client paths, when `Orderly` holds: `ParentsFirst`,
only files move (`FilesMove`), and clients write only where the index shows that
type (`~StaleTypes`). The hypotheses are those of the passing runs, and each is
needed: section 3 has the reason for the first, `folder_moves` refutes
`Converged` without the second, `stale_parent` finds a second row for `/` without
the third.

* `IndexesStayRooted`, `FeedAlwaysOwes`, and `ConvergedAlways` when also answers
  parse (`~Unparsed`). `FeedOwesEveryDifference` is far from inductive. `FeedInv`
  says, of each file and of the tick's index against the drive of this moment
  (`DriveTree`): what differs is owed by the link that is saved with it (`Told`);
  a link that owes a folder owes what is in it (`Family`), so that contents which
  a save drops with their folder come again with it; each entry has the type and
  a place the drive gave it, and a folder that exists is where it is there
  (`Typed`), so that a patch by a stale path ends up in the right folder or in
  one that is gone; a saved entry leads up to a root (`Climbs`); a `local:` entry
  hangs below something that is gone (`Hangs`), which is what the sweep takes
  away. While a page is applied, its remaining items count as owed (`PageTold`);
  between the answer of a mutation and its patch, the answer's place and what its
  paths lead to in the index count as well (`CallTold`). The steps in order: a
  change of the drive only adds to what a link owes; an item of a page settles
  what it is about and evicts nothing that is not owed; a save and a load drop
  only what is owed; a patch changes the index only where the feed will speak.
* `LookupsAlwaysResolve`, with `local:` entries too. A row's path, found by
  parent ids level by level (`Named`), and a walk down the child sets are each
  other's inverse in a `Sound` index with one root; a walk up ends within 64
  steps, because one that leads somewhere meets no entry twice (`PathsAreShort`,
  from `DepthAssumption`, by an injection of its steps into the ids).
* `ReadsAreGraphsAlways`: in an index that is the drive, the same lookups are
  Graph's answers, types and children included.
* `PatchesAtOnce`, from `FilesMove` alone: feeds in any order, clients that write
  anywhere, answers that may not parse. `PlacedInv` says that between its call
  and its patch the answer's folder, if it still exists, is still at the path the
  client gave. A folder moved away and back in that time would break it.

`TokenProofs`, for any lifetime, any margin and any delays:

* `BearersAreFresh`. A bearer is handed out expired only if its own answer was
  longer on its way than the margin, and then expired for less than the excess;
  how slow other answers were does not matter. With the code's values (a lifetime
  above the margin) that is every bearer. `Covered(t)`: a token is held for
  expired, or `expires_at + Margin <= access_token + delay`; `Fresh(t)` is the
  claim. `TimeInv` says `Covered` of the file and of the script's token, both of
  the one being saved, and that an answer is not from the future; `CoveredIsFresh`
  and `NewTokenIsGood` are the arithmetic. It needs no assumption on delays, and
  neither of those on losses and sign-ins.
* `OneSignInLasts`, for `LosesOnlyCopy` and `ConcurrentSignIn` false, rotations
  that revoke included: one writer has the file at a time (`OneWriter`), who has
  a token to write has one the service accepts, if it accepts any, and so has
  the file when nobody has one to write (`Accepted`).
* `TokenTypes`.

`UploadProofs`, for any sizes, limits, chunks and number of faults:

* `PutsImplementStore`: `Upload` implements `FileStore`. `Progress` says that the
  drive's session has exactly the bytes before `offset` and that something is
  left; `ChunkFits` is the arithmetic of `end`; `LateBefore` that a late body is
  of an earlier PUT, or of this one after it failed, so that it is never the one
  under way.
* `FailuresAreFaults`, `UploadTypes`, from the same invariant.
* `NoSessionForgotten`: sessions of earlier PUTs are counted by `leaks`, and the
  current one has one at most (`Accounted`).

`UploadProofs` also has, for Outbound and any size of the writes and of the pipe:
`ExchangesImplementPuts` (each step of an exchange is a step of Upload or leaves
it alone), hence `ExchangesStoreWhole`; and `OutboundTypes`.

`GatewayProofs`, for any drive with names and dates as assumed, and strings,
paths and years of any size. `EntryInv` says that a listing is that of the entry
(`Listed`), `RequestInv` that a request is one that a client sends of the entry
(`ClientRequest`), with any credentials (`Asked`), and that its answer, once there
is one, is `handle_request` of it. The invariants follow from laws of the conversions:

* `HrefsAlwaysLeadBack`, `TypesAlwaysOK`. `EscapedBack`: what is escaped byte by
  byte, by `pct_encode` or by a client in either case of hex digits, is decoded to
  what it was. `SplitJoined` and `WithoutLaws`: segments joined by slashes are
  split into themselves, and what is dropped is only the empty ones and dots; a
  slash at the end of a folder's href changes nothing (`TrailingSlash`).
* `GraphAlwaysGetsThePath`, of any request at all. `SanitizedPath`: what
  `sanitize_path` gives is a path that a drive can have; the parts of whole UTF-8
  are whole, since a slash is never half of a character (`SplitGivesPieces`,
  `PieceIsProper`). `GraphReadsIt`: an address of such a path has no colon but
  its own, and is read as the path.
* `PasswordAlwaysDecides`, of every request there is in the model, by any method
  and of any client: it is told 401 exactly if its sender has not the password.
  `Base64Back`: `base64_decode` gives back what was encoded, where the shifts of u8
  drop no bit that counts (`OctetsOf`) and the chunks of the text are the groups of
  three bytes, the last one shorter (`GroupCount`, `CutsAt`). White space around it
  changes nothing (`SpacesAreIgnored`), a foreign character makes it nothing
  (`BrokenIsNothing`), so that each form of the header is read as what was written
  (`WrittenIsRead`). What `check_basic_auth` cuts at the first colon has the secret
  behind it exactly if the credentials are a user without a colon, a colon and the
  secret (`SplitAtColon`, `CredentialsAre`). Who is let in is told something else
  than 401, by every branch behind the check (`LetIn`).
* `DatesAlwaysSurvive`. Years counted from March, in eras of 400, have their leap
  day last; in an era, `civil_from_days` undoes `days_from_civil`, and both agree
  with a count year by year and month by month (`DateBack`).

The proofs use the constants' assumptions `RootAssumption`, `PathsAssumption`,
`FreshValuesAssumption`, `NoLinkAssumption`, `NoItemAssumption`,
`DepthAssumption`, `DriveAssumption`, `FeedAssumption`, `SyncAssumption`,
`ReadPathsAssumption`, `NoPathAssumption`, `HostAssumption`, `ServiceAssumption`,
`TimesAssumption`, `FreshTokensAssumption`, `LimitsAssumption`,
`PipeAssumption`, `NoneAssumption`, `ItemsAssumption`, `TargetsAssumption`,
`EndingsAssumption`, `SecretAssumption`, `LoginsAssumption`, `HostsAssumption`,
`DestinationsAssumption` and `HeadersAssumption`; no bound on changes, faults or time.

The library's induction theorems take an operator and are out of reach. Where a
proof needs induction on a number, it takes the least counterexample
(`LeastNumber` in `IndexTreeProofs`), or shows that a set of numbers has 0 and
with each number the next (`AllNumbers` in `GatewayProofs`; both rest on the
library's `WFMin`). `AllSequences` is the same for sequences and one more element
in front. That a function defined by recursion exists, and is determined by its
steps, is `DefinedDownwards` and `SameDownwards`.

Only model-checked: everything about liveness (`EventuallyFresh`,
`SignedInIsServed`, `WaitersServedUnlessStuck`, `PutsEndUnlessTls`), which is out
of the prover's reach, as is `ENABLED`. The invariants and refinements of all
passing runs are theorems, those of FeedProofs under the hypotheses stated there,
which their runs have too.

## 6. Where code and documentation disagree

* `folder_moves`. "A move is a reparent" (`src/index.rs:3`), but when a page
  has a new folder before the rename of the folder that had its name, `apply`
  evicts the renamed folder with its contents; the rename brings the folder back
  and nothing brings the contents.
* `shadow_swap`. "Local PUT/MKCOL/DELETE/MOVE patch the snapshot immediately"
  (`README.md:64`). During a resync the shadow is not patched, and replaces the
  patched file; the change is gone from listings until the next tick.
* `stale_parent`. "A bad index cannot break the mount" (`README.md:66`). A
  folder created under what the index still shows as a file loses its parent in
  the save; the next patch writes a second row for `/`, and a listing of the
  mount may be that of the empty folder until a tick sweeps it.
* `token_torn`. "Re-run this script only if that refresh token is ever revoked"
  (`README.md:119`). `save` truncates token.json when it opens it and writes it
  afterwards; a trap, a kill or a full disk in between loses the refresh token,
  and only the script helps. `index.bin` is written beside and renamed,
  token.json is not.
* `tree_path`. "`GET /_tree?path=/…` -- one directory of the index"
  (`README.md:71`). `query_param` decodes the path and `sanitize_path` decodes it
  again, so a folder whose name has a percent sign is shown by its parent's `_tree`
  and not found by its own: a folder `%` or `100%` is answered 400, as malformed
  percent-encoding, and one named `%2F` is taken for another path.
* `host_leak`. "request queue full" (`host/src/main.rs:512`). A client that goes
  away while it waits stays counted, since `fetch_sub` follows the await.

Four more that no run is spent on:

* `.` segments are "rejected with 400" (`README.md:229`, and the comment at
  `src/lib.rs:144`); `sanitize_path` drops them (`src/lib.rs:154`) and rejects only
  `..`. `GraphGetsThePath` holds all the same: what is left has neither.
* `bearer_token` "returns a valid" bearer (`src/auth.rs:106`), but `expires_at`
  counts from when the answer has come, and the host waits longer for it (300 s,
  `host/src/main.rs:43`) than the margin (60 s, `src/auth.rs:23`). After an answer
  slower than the margin, a bearer goes out that the service no longer accepts;
  `BearerIsFresh` says for how long at most.
* `ONEDRIVE_ALLOW_UNAUTHENTICATED` (`README.md:218`, `src/config.rs:91`) is not
  among the variables the host hands to guests (`GUEST_ENV_NAMES`,
  `host/src/main.rs:46`), so it has no effect under this host.
* The signal handler is installed anew each time the accept loop goes round
  (`host/src/main.rs:730`), so a signal between two turns may be missed.

## 7. Not modelled

* **The byte layout of snapshots**, and a file that does not decode: every tick
  then returns an error (`src/sync.rs:49`) until somebody removes the file. Each
  write is atomic (`StoreIsAtomic`), so only the disk can bring it about.
* **Depth.** `path_of` and the sweep give up after 64 steps. `DepthAssumption`
  says that no walk is that long; a deeper drive loses its deep folders from
  listings, and no instance TLC can enumerate gets there.
* **Case.** OneDrive's names are case-insensitive, the index's are exact
  (`src/index.rs:124`); the drive of the model compares names exactly.
* **Listings during the first crawl**, and a folder that another device changes
  between `stat` and the pages of `children`: the documentation says nothing of
  them.
* **Host:** the lists of allowed hosts and addresses (predicates without state),
  the reading of the configuration, the limits of the store but for the traps
  they cause. The epoch deadline is counted from the making of the store, so a
  guest that waited long may trap when it comes back: `Traps` allows that at any
  step.
* **Reports:** `_status`, the statistics of a tick, the cut of a search at 100
  results, ETags, sizes, XML and JSON layout.
* **Generated code:** `src/bindings.rs`, which is two thirds of the repository's
  lines of Rust.

What could be proved next: that `_tree` paths lead back where no name has a
percent sign, which is what is left of the statement that `tree_path` refutes; and of a drive of any depth what `path_of` and the sweep do
at 64 steps.
