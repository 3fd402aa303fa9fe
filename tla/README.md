# Verification of Quantica

Quantica is a document store behind an HTTP interface.  A client sends JSON
documents; the server stores them under generated keys in paged files, keeps old
versions, gives records names, and indexes the rows of tables.  This directory
holds TLA+ models of its storage engine, of the requests on it, of the text that
documents come as and of the server in front, TLC configurations for small
instances, and TLAPS proofs.

`PROJECT.json` lists components, runs, mutants, findings, hazards and theorems,
and the source lines that each definition stands for.

Check a run with `tlc -config <file>.cfg <module>` and a proof with
`tlapm <module>.tla`.

## The system

| Component | State | Operations | Interacts with |
|---|---|---|---|
| Pages (`pager.c`) | open page files, address space made of them | allocate, resolve an address, synchronise, close | control file; every component that stores anything |
| Control file (`base.c`) | allocation point, clean mark, page lists with checksums, offsets of the lists | read at start, synchronise, close | pages, engine, lists |
| Heap (`engine.c`) | data blocks, cache of free blocks, free counters | insert, free, reuse | pages, history |
| History (`history.c`) | lists of (key, version, block) | add, delete by block, look up | heap |
| Record tree (`engine.c`) | B-tree of key, metadata, block; list of free tables | insert, look up, purge, change metadata, vacuum | heap, table cache |
| Table cache (`engine.c`) | slots with tables of the tree | get, put, flush | record tree |
| Index tree (`btree.c`, `index.c`) | B-tree of value and row, list of free nodes | build, add, delete, get, list | pages |
| Alias list (`alias.c`) | lists of (key, name), a counter | add, look up both ways, rename, delete, rebuild | database requests |
| Index list (`index_list.c`) | list of (index, group, element, tree), a counter | add, look up, delete, rebuild | database requests, index tree |
| Record encoding (`slay_marshall.c`) | none | document to stored rows and back | engine: rows of groups are records |
| Documents (`marshall.c`) | none | merge, separate, compare, filter, condition | database requests |
| Database requests (`core.c`) | all of the above, the error flag | put, get, update, delete, purge, items, aliases, indexes, select, vacuum | everything |
| JSON text (`json_check.c`, `dict.c`, `dict_marshall.c`) | stack of the checker, place in the text | check, take apart, decode, write | documents |
| Server (`webapi.c`) | listening sockets, connections, the `run` flag, the error state, whether the core is attached | wait, accept, read a request, route it, answer it, shut down, detach on a signal | database requests |

The server is one thread and finishes one request before it reads the next.
What makes the code hard is not concurrency of requests but

* **reads that block the only thread**: accepted sockets block, and there is no
  timeout; whoever is slow holds up everybody;
* **signals**: the SIGINT handler closes the database from inside whatever the
  process is doing, and a write to a client that has gone may end the process;
* **operations of several writes**: an insertion that splits tables writes up to
  one table per level, new ones included, and the super block last;

* **crashes**: page, checksum, allocation point and clean mark are separate
  writes (`pager_sync`, `base_sync`), and the next start decides from them which
  pages to accept;
* **addresses**: `pager_get_fd()` changes the address it is given into a position
  in a page; using it as an address afterwards is right in the first page only;
* **caches and counters**: tables and free blocks are cached, and counters size
  arrays elsewhere;
* **nesting**: recursive tree code holds several tables that share cache slots;
* **one fact in several places**: a group is a type in the metadata, a schema in
  its data, rows that are records of their own, an alias, and entries of indexes;
* **a global error flag**: what one helper leaves behind changes what the next
  engine call does;
* **in-place editing** of documents while looping over them;
* **text formats**: the checker, the parser and the writer of JSON are three
  separate definitions of it.

## Modules

Order of the plan: storage first, then what is built on it.

| Module | Models | Uses |
|---|---|---|
| `PageArith` | page and position of an address, the choice of a page | |
| `PageRequests` | what callers ask of the pager: lengths, and the bound on pages | PageArith |
| `Allocator` | **abstract**: chunks handed out once, inside one page | PageRequests |
| `Pager` | page files, control file, start, synchronisation, crash | PageRequests; implements Allocator |
| `History` | operators of `history.c` on a sequence of entries | |
| `Heap` | data blocks, free-block cache, history, updates, restarts | PageArith, History |
| `TableTree` | the record tree, and what an interrupted operation leaves of it | |
| `TableCache` | the cache of tables with nested holders | PageArith |
| `IndexTree` | the B-tree of an index and `index.c` | |
| `Marshall` | `marshall.c` as functions on document trees; `db_select()` | |
| `DocStore` | **abstract**: a map from keys to documents | |
| `Database` | requests of `core.c` with alias list, index list, rows, error flag | implements DocStore |
| `JsonText` | the checker, the parser, the decoder and the writer of JSON on sequences of characters | |
| `Server` | the process with its sockets, its clients, its shutdown and its signals | |
| `MC...` | small instances | |
| `PageArithProofs` | lemmas on page arithmetic | PageArith |
| `AllocatorProofs`, `PagerProofs`, `HeapProofs`, `TableCacheProofs`, `DatabaseProofs`, `ServerProofs` | theorems | the module each is named after |
| `DatabaseCleanProofs` | theorems on `Database` in clean workloads, and the refinement of DocStore | DatabaseProofs |

Correspondence of state and actions:

* **Pager.** `pages` is `base->core->pages` (page numbers in the order in which
  `open_page()` accepted them), `offset` the allocation point, `ctl` and `items`
  the control file, `file` the contents of the page files, `chunks` what was
  handed out and last written there.  `pc` splits an operation at its writes to
  disk: `Alloc` (no new page), `AllocPage` then `AllocSync`; `Flush` then
  `FlushPage` for each page, then `SyncBase` or `CloseBase`.  `Crash` is possible
  between any two.  A checksum is modelled as the contents it was computed from.
* **Heap.** `blob` maps a position to a block's length, contents and free mark,
  `dbcache` is the cache array, `hist` the history, `rec` the tree as a function
  from keys to blocks, `truth` what each record should contain, `failed` whether
  the last call reported failure.  Actions are `engine_insert_data()`,
  `db_update()`, `engine_update_data()` on its own (`Merge`), `engine_purge()`, lock and unlock, and a
  stop and start.  Overwritten neighbours disappear from `blob`.
* **TableTree.** Tables with items and children; insertion splits when a table
  has T - 1 items, deletion replaces an item from a child on either side (the code
  tosses a coin) and joins empty tables.  `Rebuild` is the copy a vacuum makes.
  Every operation keeps in `eng.log` the writes it makes, in their order.  `Interrupt`
  picks an operation and a place between two of them: the state that follows is what
  the files hold if the process is killed there, or what they hold if the SIGINT
  handler detaches the engine there, which writes the super block of that moment.
  `cut` remembers the operation; nothing follows it.
* **TableCache.** `get_table()` takes a table out of its slot and makes the caller
  its holder; `put_table()` and `flush_table()` give it back.  Callers are free to
  hold several tables, of which two may share a slot.
* **IndexTree.** Nodes on disk, header with root and free list, `index_add()`,
  `index_delete()`, and the building of an index by repeated insertion.  The
  order of the tree with its `INDEX_SIZE` is that of the program (MSize = 2).
* **Database.** `db.rec` maps keys to records (type, alias mark, lock, life cycle,
  data); `db.alias`, `db.alias_size`, `db.ilist`, `db.index_list_size` are the two
  lists and their counters; `db.tree` how often each value is in an index; `db.err`
  the error flag; `db.dead` that a null pointer was followed or an assertion
  failed, after which no request is answered.  `db.top` (the keys that clients were
  given) and `db.stale` (trees whose table was replaced as a whole) are history
  variables that properties use.  Every request is one action, composed of the
  functions `core.c` calls in their order, and `Reply` clears the error flag.
* **Marshall.** Each step applies one function to a pair of small documents; the
  properties compare the result with a definition by sequences and sets.
* **JsonText.** `text` is typed character by character (`Type`), taken for a document
  or refused (`Send`, `marshall_convert()` with everything it calls), written as the answer
  to a later request (`Reply`), and sent again.  The checker is its transition table, row by
  row, with the stack of modes and its depth; the parser is `dict_parse()` with its
  tokens.  The reference is a grammar and a meaning of texts written independently of both.
* **Server.** `conn` holds for every client the state of its connection, how much
  of its request has arrived, whether it hung up (closed or reset), its descriptor and its
  answer; `queue` the connections not yet accepted; `readsock` the descriptors that
  `select()` found ready; `work` the locals of `handle_request()`; `files` the descriptors that
  page files took; `run`, `err` and `ready` are the globals of that name; `closes` counts how
  often each part of the core was closed; `main` and `hand` are the progress of
  `detach_core()` in the main line and in the handler; `how` says how the last
  process ended.  Each blocking call is an action of its own (`Select`, `Accept`, `ReadHead`,
  `ReadBody`, `Respond`), so that clients and signals come in between.  `Interrupt` is
  possible at every step, and while the handler runs the main line does not.  The IPv4
  and the IPv6 listener are one, `readfds` is the set of open connections, an answer fits the
  buffer of its socket, and a client that nobody will read from again is cut off.
  `Call` leaves an error or none, and may take a descriptor: `Database` is the model of what it does.

## Runs

| Run | Bounds | Shows |
|---|---|---|
| `pager` | page of 6, lengths 2 and 4, 2 pages, 3 starts, 1 crash between any two writes | until the crash chunks read back, the clean mark is right and Pager implements Allocator; a page that was synchronised and not written since is accepted after it |
| `pager_crash_reissue` | same, 2 starts | *violation*: used space handed out again |
| `heap_one_page` | one page of 17, 2 keys, lengths 3 to 5, 2 cache slots, density 75, 2 history entries | records, free cache, history and counter consistent; versions retrievable |
| `heap_two_pages` | two pages of 12 | *violation*: a record is overwritten |
| `tables` | tables of at most three items at rest; six workloads of whole operations with up to 9 keys and three levels; interrupted operations on trees of 4 to 17 records (see `MCTableTree`) | search tree, exact look-up, no table shared or lost, exact counts; an interrupted operation leaves a tree whose items lead to written data, and loses no more than its own record, the pivot being moved and what a split had just moved to a new table |
| `table_purge_missing` | 6 records | *violation*: purging a missing key removes another record |
| `table_cache` | 3 tables in 4 slots, two of which collide | the cache returns what was flushed last |
| `index_tree` | node size of the program; 8 rows from empty, 17 rows in three levels, shared values | balanced, no node shared or lost, unique rows found |
| `database` | 2 values, 2 elements, 2 names, up to 10 keys; five clean and two wild workloads | lists, marks, rows, indexes and reads agree; Database implements DocStore |
| `json` | all texts over eight small alphabets up to 5 to 10 characters, and texts composed of values up to three levels; depth of the checker 4 | the checker accepts what the grammar accepts, what it accepts decodes to its meaning, and an answered document that is sent again is the same |
| `server` | 2 clients that come back for ever, 4 kinds of request, 2 descriptors of which a page file may take one | requests used whole and answered for themselves; no end with the core attached; every request answered and every shutdown completed, unless a client stalls the process |
| `documents` | 2 values, 2 names; arrays of 3, tables of 2 rows, objects of 2 pairs | merge, separate, condition and select are exact; index and scan agree |

**Bounds.** Sizes are the smallest at which the special cases happen: a page that is
filled to its last byte and a second one; a block that is reused whole, reused
with slack (the code's density test) or refused; a table that splits and one that
joins, a root that grows and shrinks, three levels so that a replacement comes
from a grandchild; a second list of aliases; a cache slot that two tables share.
Longer histories repeat these cases: the states are counted by tables, blocks and
lists, not by how often they were used.  `MaxOpens`, `MaxCrashes`, `MaxHistory`,
`MaxPages`, `MaxFiles` and the `keys` and `aliases` of a workload cut off counters that the
program lets grow.  `MaxFds` is the limit of descriptors, small enough to be reached;
`Depth` is the program's 15 made small enough to be exceeded.  The bounds on texts in
`MCJsonText` are lengths at which every transition of the checker and every error of the parser
occurs.  Keys, values and names are interchangeable where a
configuration declares a symmetry, and no liveness is checked with one.
Deadlock is not checked where a bound stops the model.

**Clean workloads.** Some requests leave the base in a state that later requests do
not expect (see the deviations below).  A workload with `clean` set leaves those
out and keeps to the keys that clients were given; the guards of the actions that mention
`load.clean` are the complete list: requests name documents and indexes, and new names go to
live ones; metadata is left alone; a group stays one, and a record with a name does not become
one; a table keeps a row; an alias mark is copied only with a group; and an index that is
rebuilt is in the list.  Properties that speak of clean workloads say so,
and are proved for all of them.  The others (`ListsFit`, `NamesResolve`, the second half of
`RowsAlive`) hold for wild ones as well, and are proved for those too.

**Types.** Each module defines `TypeOK`, which describes its state and holds in its
runs when it is added to the configuration; it is proved for `Allocator`, `Heap`,
`TableCache` and `Server`, and `PagerProofs!Types` and `DatabaseProofs!Good` contain what the
proofs about `Pager` and `Database` need of it.  The runs spend their time on the other properties.

**Fairness.** Only `Server` has liveness properties, and it assumes only
`WF_vars(ServerStep)`: the process goes on when it can, as the operating system
schedules it.  One conjunct for the whole process is enough, as it is a single thread
whose next step is determined by where it is.  Nothing is assumed of clients (they may never finish a
request nor hang up), of signals, or of a restart.  As the code has no timeout, a client that
stops in the middle of its request then holds up the process for ever; `Stalled`
describes that state, and `Answered` and `Stops` say that it is the only way in which a
request that arrived stays without an answer, or a shutdown without an end.  That the sweep visits the descriptors in
order and serves all of them before the next `select()` is what makes weak fairness of the process
suffice: a client that comes back for ever cannot overtake another one for ever.
No liveness is checked of the other modules, whose operations are single steps.

Each property of each passing run has a mutant in `PROJECT.json`: a plausible slip in
one of the translated definitions with which TLC finds the property violated.

## Proofs

* **`AllocatorProofs!AllocatorSafe`**: for every page size, header size and set of
  request lengths that fit a page, chunks are disjoint and lie in one page.  The
  invariant adds to these two that the allocation point is in the last page,
  behind its header, and beyond every chunk.  The lemmas are the arithmetic of
  page number and position.
* **`HeapProofs!HeapSafe`**: for all keys, values, lengths, cache sizes, densities
  and history sizes, while the heap fits one page, type correctness,
  `RecordsIntact`, `CacheSound`, `HistoryIntact` and `FreeCount` hold.  On its own
  `RecordsIntact` is not inductive: that an insertion may take a cached block needs
  that cached blocks are free, exactly as long as the cache says, and cached once; that a
  fresh block overwrites nothing needs that blocks are disjoint and end before the
  allocation point.  The invariant `Inv` is the conjunction of these for blocks, cache,
  history and counter, with one lemma per helper (`WriteBlock`, `Keep`,
  `HistoryDelete`, `HistoryAdd`, `Advance`) and one step per action.  The assumption
  of one page is necessary: `heap_two_pages` is the counterexample without it.
* **`TableCacheProofs!TableCacheCoherent`**: for any number of slots, and tables of
  the first page, a table taken from the cache is what was flushed last.
* **`HeapProofs!VersionsFound`**: while the history fits one list (`MaxHistory <= HistListSize`)
  `VersionsRetrievable` holds.  `HistoryIntact` says where a version leads; that a version is found needs
  that the numbers of one key do not repeat, which is true because `history_add()`
  counts on from the number it sees last on its walk, within one list that of the key's newest
  entry.  Beyond one list it is not (see the deviations), so the hypothesis is necessary.
* **`PagerProofs`**, for every page size, list size and set of lengths, and any number of pages,
  starts and crashes.  Its invariant has two parts.  `Types` holds whatever happens:
  a page's key is its place in the lists, every listed page has a file, and a page that
  has a checksum was marked as flushed when it was taken and still is (`SumsClean`).
  From it follows **`SyncSurvives`** (`SyncedPagesSurvive`), crashes included.  `Sound` is about
  histories without a crash: the array holds all pages in their order, the
  allocation point is in the last page and beyond every chunk, the pages flushed so far would
  be accepted, and a chunk's contents are in the file of its page.  From it follow
  **`WrittenIsRead`** (`ReadsBack`), **`MarkIsClean`** (`CleanMark`) and
  **`PagerAllocates`** (`Allocates`, the refinement of Allocator: every step maps to a step of it
  or to a stutter), with which `AllocatorSafe` speaks of the pager.  `SyncSurvives` and `WrittenIsRead`
  suppose that the pages fit one list of the control file, and all but `SyncSurvives`
  that requests fit a page: without either the addresses are wrong (see the deviations).
  `MarkIsClean` and `PagerAllocates` hold for any number of lists.
* **`ServerProofs`**, for any number of clients and descriptors and any requests:
  **`RequestsWhole`** (`UsedWhole`), **`ErrorsOwn`** (`OwnError`) and **`EndsClean`**
  (`CleanEnd`).  That a request is used whole needs that the connection which
  `handle_request()` works for is open and is the one the descriptor belongs to, hence that open
  connections have descriptors of their own, that the sweep has only open ones left, and that
  the queue holds each waiting connection once (`Queued`, `Descriptors`); and how much of the
  request is known at each stage (`Reading`).  That errors are a client's own needs that a request begins
  without one (`Serving`).  That the process ends detached needs how often each part was closed
  as a function of how far the two runs of `detach_core()` have come (`Detaching`), the handler's
  being nested in the other.
* **`DatabaseProofs`**, for all elements, names, inputs, list sizes and workloads, wild ones
  included: **`CountersFit`** (`ListsFit`), **`NamesLead`** (`NamesResolve`) and **`RowsOwned`**
  (`RowsApart`, the second half of `RowsAlive`).  A request is a composition of helpers, each of which
  may fail halfway, so the invariant is a predicate `Good` on states of the base that every helper
  preserves, with the error flag or without: one lemma per helper, one per request.
  Counters are the number of places in use.  Names lead to their records because aliases of one
  name are of one record: `db_alias_update()` looks for the name first, and a group or an index
  is named after its own key, which needs that clients' names are not keys (`DatabaseAssumption`).
  Rows are not shared because a row gets a key that was never given out, also when a record is
  copied, and because every key in a record was given out.  The loops over rows, aliases and indexes
  are recursive functions on an interval; that such a function exists is proved for the shape they
  all have (`Turn`, `TurnsExist`), and what each turn preserves holds at the end (`Turns`, from
  the least turn that would break it).
* **`DatabaseCleanProofs`**, for all elements, names, inputs, list sizes and clean workloads:
  **`RowsFollowed`** (`RowsAlive`), **`AliasesMatch`** (`AliasExact`), **`IndexesFollow`**
  (`IndexesOnGroups`), **`IndexesMatch`** (`IndexCurrent`), **`DeletesTake`** (`DeleteTakes`),
  **`ReadsMatch`** (`ReadsAgree`) and **`DocumentsKept`** (`Documents`, the refinement of DocStore).
  None of them is inductive, as one fact is kept in several places; the invariant `CleanInv` adds
  to `Good` that these agree (`Sound`, which `DatabaseProofs` defines with what each helper does to it):
  * `RecordsIn`: each record is a document, a row, an index or the record of `bootstrap()`; a document is
    a group by its type exactly if it is by its data, and then has an alias; the rows of a live
    one are live, are no documents and are listed once;
  * `AliasMatch`: each aliased document has one alias, and each alias is of a live record that
    is marked;
  * `IndexesIn`: an entry of the index list is on a live group, or has lost its index, group and
    tree together; no two entries share an index or a tree, so that a change of one tree, or a
    deletion that clears too much, reaches one entry;
  * `TreesIn`: an index that is not behind counts the values of the rows of its table.

  Between the helpers of a request these do not hold: a group that is deleted has lost its rows
  before it goes.  So each request is described as a `Step` that changes one record,
  drops some of its rows and adds new ones (`StepRecords`, `StepAliases`, `StepIndexes` and `StepDocs` say
  what such a step preserves), and a lemma per request shows that it is one, that `Sound` holds
  again at its end, and which document it changes (`DbPutIs`, `DbUpdateIs`, `DbDuplicateIs`, `DbDeleteIs`,
  `DbPurgeIs`, `DbItemAddIs`, `DbItemRemoveIs`, `DbAliasUpdateIs`, `DbIndexCreateIs`, `DbIndexRebuildIs`,
  `VacuumedIs`).  The refinement follows: each of these is the step of DocStore of that document, or a stutter.
  The proofs use of `DatabaseAssumption` that inputs are documents (`IsDocument`), that items are
  scalars or objects of one (`Parts`), and that `None` is neither a key, an element nor data.

All assumptions on constants are named `ASSUME`s of the modules that declare them,
and TLC evaluates them in the runs.  The inductive invariants were checked with TLC on
the instances of the runs before they were proved.  Only model-checked:

* `TableTree`, `IndexTree`, `Marshall` and `JsonText`, which are written with recursive operators
  that this prover does not accept, and whose properties need induction over trees and texts;
* `Answered` and `Stops` of `Server`: liveness under fairness is out of the prover's reach.

## Findings and known deviations

The three violation runs are findings, with their quotations in `PROJECT.json`.
The following were met while modelling; each can be reproduced with the constants
named, or follows from the lines given.

Storage:
* A request longer than a page has room for is handed out over the end of its page
  (a length in `Lens` that does not fit, `ChunksInPage`; README.md:18 promises any size).
* With more than one page list, or a refused page after a crash, addresses resolve to
  other pages (`ListSize = 1`, or `MaxCrashes = 1`: `AddressesResolve`; pager.c:218 and 134).
* An insertion that reuses a block may report failure although it stored the record
  (`InsertReported`, constants of `HeapOnePage.cfg`; engine.c:247 and 677).
* An update may free the block whose version it saves, and reuse it
  (`OldVersionSaved`; engine.c:1003).
* Beyond the first history list version numbers repeat (`VersionsRetrievable` with
  `HistListSize = 2`, `MaxHistory = 4`, one key, `PageSize = 40`, one slot; history.c:80).
* Tables of different pages share a cache entry (`Tables = {1, 9}`, `CacheCoherent`; engine.c:139).
* A pivot gets the metadata of the record being inserted (`Workloads <- Marked`,
  `MetaKept`; engine.c:554), and `split_table()` overwrites the caller's key
  (`KeyUntouched`; engine.c:391).  A vacuum may count records twice (engine.c:953).
* An operation that is cut short may leave a table with as many items as a split needs, and the next
  insertion into it fails an assertion, or an empty table (engine.c:503); a purge cut short
  after it put a table on the list of free ones leaves it both there and in the tree, which
  `InterruptedTree` and `InterruptedRecords` leave out (`CutUnjoined`); a split cut short by a kill leaves
  a super block whose list of free tables begins with the one the split took.

Indexes:
* With rows that share a value, a deletion loses a row (`Workloads <- SharedValues`,
  `RowsKept`; btree.c:388), and `index_get()` finds only the rows on one path.
* Only the first index on a group is maintained (core.c:1142); an index on a table with
  scalar rows follows a null child (index.c:52); the indexes of a copy lead to the
  rows of the original (core.c:680).
* `index_list_delete()` clears 64 bytes of an 8-byte field (index_list.c:444).
* After its group is deleted an index key stays live, cannot be deleted, and a rebuild
  follows a null pointer.

Records and groups:
* A group updated to plain data stays marked as a group and as aliased
  (`Workloads <- Ungroup`, `TypeHonest`; core.c:617); an aliased record updated to a group
  gets a second alias (core.c:608).
* Setting metadata clears type and alias mark (core.c:1538); copying metadata copies the
  alias mark without an alias; naming a missing or locked record leaves an alias
  (core.c:1590).
* Requests on rows directly leave groups with missing rows, and reads of them follow a
  null pointer; removing the last row of a table fails an assertion (slay_marshall.c:30).
* Adding an item to a plain record stores an uninitialised schema (core.c:1255).
* Purging a deleted, aliased record skips counters and flush (core.c:903, engine.c:848).
* A record that becomes a group, and an index, is named after its key whether or not another record
  has that text as its name (core.c:608): with a key among
  `Names`, which `DatabaseAssumption` excludes, `NamesResolve` fails.
* With two alias lists a vacuum does not end (alias.c:286).

Documents:
* Of two equal neighbours only one is separated by a single item; a null among the items to remove never ends
  (marshall.c:634); `shift_left()` leaves sizes behind, so nested neighbours lose or gain
  children (marshall.c:224); nested items merged into a scalar lose their contents.
* A condition answered by an index uses its first pair only and ignores types; one that
  finds nothing is forgotten if there is a selector (core.c:1058).

JSON:
* The checker accepts `1.` and refuses `0e1`, nests to 15, and takes a byte above 127
  for the end of the text (json_check.c:143): JSON with such bytes is stored as a string, and a
  complete text followed by one is accepted and then not decoded, so that `db_put()` fails
  without an error and the answer reports success with an uninitialised key.  The grammar that
  `ValidExact` compares with states these rules.
* Empty containers become null; strings outside objects are escaped again on
  every round; a nested container with an empty name loses it and makes the answer invalid
  (dict_marshall.c:181); a string at the top comes back in quotes.
* The CSV parser sizes an array by the newlines of the text (csv.c).

Server:
* A client that stops in the middle of a request holds up all others (webapi.c:1147), although
  src/README.md:19 speaks of "non-blocking communication".
* A failed `accept()` ends the server (webapi.c:1777); descriptors beyond `FD_SETSIZE` are not
  refused; a failed `fdopen()` leaks the descriptor.
* Without IPv6 descriptor 0 is watched in place of the second listener.
* `SIGPIPE` keeps its default action unless the HTTP client ran (webclient.c:346): an answer to a
  client that has gone ends the process without a detach (`BrokenPipe`, which `CleanEnd` excepts).
* A request whose connection ends early is carried out with what was read of it: lines of the
  head before a reset, or a part of the body (webapi.c:1458).  `UsedWhole` speaks of clients
  that did not hang up.
* A signal during `detach_core()` closes parts a second time (core.c:74).
* A request line with a colon is refused; a key in the path of a POST or PUT hides parameters in the
  head; the hash table of parameters turns the order of equal names when it grows
  (hashtable.c:99 says otherwise) and leaves a pointer to the body behind.

## Not modelled

* The SQL front end: the body of its parser is disabled by the preprocessor; a tokenizer and `sql_exec()`,
  which calls one request, are left.
* CSV, key generation, containers, memory management, hashes and ciphers, the HTTP client and
  resolver, logging, the decoding of escapes in paths: see the notes in `PROJECT.json`.
* Failures of the operating system other than a failed `accept()` and a failed start (no memory, failed reads and writes):
  the code raises a fatal error.
* A crash is modelled for the pager and for the record tree, with writes kept in their order;
  the server's end is modelled without the contents of the database.

## Plan

Done: the modules above.  Next, in this order:

1. Proofs: a version of `TableTree` with its tables as a function, for the search-tree invariant.
2. Capacities of child arrays in `Marshall` (marshall.c:488); items of plain records; a second
   index list.
3. The composition of `Server` with `Database`, for a signal inside a request of several engine calls.
4. The SQL tokenizer, CSV and the containers of the request parser.
