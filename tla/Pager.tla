-------------------------------- MODULE Pager --------------------------------
(***************************************************************************)
(* The pager (pager.c) and the control file it is described in (base.c).   *)
(*                                                                         *)
(* On disk there is a control file, a header followed by lists of page     *)
(* entries, and one file per page.  In memory there is the allocation      *)
(* point and the array of open pages; an address is resolved through the   *)
(* position of its page in that array.  Writes go straight to the files,   *)
(* but the control file's header is rewritten only now and then, and a     *)
(* page carries a checksum (in its entry) and an exit status (in its own   *)
(* header) that are brought up to date only by a synchronisation or a      *)
(* clean shutdown.  The process may die between any two of these writes.   *)
(*                                                                         *)
(* The page lists are kept as one sequence of entries: base_list_add()     *)
(* fills the lists in order, and since no code calls base_list_delete()    *)
(* there is no gap to reuse.  List i holds the entries i * ListSize + 1 .. *)
(* (i + 1) * ListSize.  A page's key stands for its file name; keys are    *)
(* numbered in the order the pages are made.                               *)
(***************************************************************************)
EXTENDS PageRequests, Sequences, FiniteSets

CONSTANTS
    ListSize,                       \* PAGE_LIST_SIZE
    Vals,                           \* what a caller writes into a chunk
    NULL,                           \* no page, no checksum, no content yet
    MaxOpens,                       \* bound: starts of the process
    MaxCrashes                      \* bound: deaths of the process

Keys == 1 .. MaxPages

\* The exit status in the control file: EXSTAT_INVALID, _CHECKPOINT, _SUCCESS.
ExitStatus == {"INVALID", "CHECKPOINT", "SUCCESS"}

ASSUME PagerAssumption == /\ ListSize \in Nat \ {0}
                          /\ NULL \notin Keys
                          /\ NULL \notin [offset : Nat, status : ExitStatus]
                          /\ MaxOpens \in Nat
                          /\ MaxCrashes \in Nat

VARIABLES
    pc,         \* where the process is, see TypeOK
    pages,      \* base->core->pages, the keys of the open pages
    offset,     \* base->pager.offset
    todo,       \* length of the request being served / page being flushed
    ctl,        \* header of the control file: allocation point, exit status
    items,      \* the page lists of the control file
    file,       \* the page files: exit status and content
    chunks,     \* what was handed out, and what its owner last wrote to it
    opens, crashes

disk == <<ctl, items, file>>
vars == <<pc, pages, offset, todo, ctl, items, file, chunks, opens, crashes>>

Addr == 0 .. MaxPages * PageSize

PageFile == [status : {"CHECKPOINT", "SUCCESS"},
             data   : UNION {[s -> Vals] : s \in SUBSET (HDR .. PageSize - 1)}]

Ctl == [offset : Addr, status : ExitStatus]

A == INSTANCE Allocator WITH
         offset <- IF items = <<>> THEN HDR
                   ELSE IF pc \in {"down", "init"} THEN ctl.offset ELSE offset,
         count  <- IF items = <<>> THEN 1
                   ELSE IF pc \in {"down", "init"} THEN Len(items)
                   ELSE Len(pages) - (IF pc = "alloc" THEN 1 ELSE 0),
         chunks <- {[addr |-> c.addr, len |-> c.len] : c \in chunks}

TypeOK ==
    /\ pc \in {"down",      \* not running
               "init",      \* start_core(): base_init() done
               "run",       \* serving
               "alloc",     \* pager_alloc(): page made, header not yet written
               "sync",      \* filesync(): in pager_sync()
               "close",     \* detach_core(): in pager_close()
               "dead"}      \* killed by an assertion or a null page
    /\ pages \in Seq(Keys \cup {NULL}) /\ Len(pages) <= MaxPages
    /\ offset \in Addr
    /\ todo \in Nat
    /\ ctl \in Ctl \cup {NULL}
    /\ \A i \in 1 .. Len(items) : /\ items[i].key \in Keys
                                  /\ items[i].crc \in PageFile \cup {NULL}
    /\ DOMAIN file \subseteq Keys
    /\ \A k \in DOMAIN file : file[k] \in PageFile
    /\ \A c \in chunks : c.addr \in Addr /\ c.len \in Lens /\ c.val \in Vals \cup {NULL}

Init ==
    /\ pc = "down"
    /\ pages = <<>>
    /\ offset = 0
    /\ todo = 0
    /\ ctl = NULL
    /\ items = <<>>
    /\ file = <<>>
    /\ chunks = {}
    /\ opens = 0
    /\ crashes = 0

-----------------------------------------------------------------------------
(* Helpers *)

\* base_sync(): the header as the running process writes it.
Header(point) == [offset |-> point, status |-> "CHECKPOINT"]

\* pager_get_fd(): the page file behind an address.  The assertion on the page
\* number, and a page that was not opened, both end the process.
Resolves(addr) == PageOf(addr) < Len(pages) /\ pages[PageOf(addr) + 1] # NULL

GetFdNewest(addr) == pages[Len(pages)]      \* mutant: the page being filled

GetFd(addr) == pages[PageOf(addr) + 1]

\* create_page(): a new file, entered in the page list, its header flushed.
NewKey == Len(items) + 1

CreatePage ==
    /\ pages' = Append(pages, NewKey)
    /\ items' = Append(items, [key |-> NewKey, crc |-> NULL])
    /\ file' = [k \in DOMAIN file \cup {NewKey} |->
                  IF k = NewKey THEN [status |-> "CHECKPOINT", data |-> <<>>]
                                ELSE file[k]]

\* open_page(): a page is taken only if its checksum matches and its header
\* says that it was flushed on exit.
Accepts(e) == e.crc = file[e.key] /\ file[e.key].status = "SUCCESS"

\* pager_init(): a page goes to the place that the number of pages taken so far
\* gives it; a refused page leaves no trace in the array.
Taken(list) == {i \in DOMAIN list : Accepts(list[i])}

Place(list, i) == Cardinality({j \in Taken(list) : j <= i})

Opened(list) == [n \in 1 .. Cardinality(Taken(list)) |->
                   list[CHOOSE i \in Taken(list) : Place(list, i) = n].key]

\* pager_init(): opens the lists one after the other.  The page array is
\* allocated anew for each list, while the page count carries on: only the
\* pages of the last list are in the array in the end.
OpenLists ==
    LET before == ((Len(items) - 1) \div ListSize) * ListSize
        lost   == Opened(SubSeq(items, 1, before))
        kept   == Opened(SubSeq(items, before + 1, Len(items)))
    IN  [i \in 1 .. Len(lost) |-> NULL] \o kept

-----------------------------------------------------------------------------
(* Start *)

\* Mutant of BaseInit: does not take the allocation point from the file.
BaseInitNoPoint ==
    /\ pc = "down" /\ opens < MaxOpens
    /\ ctl' = IF ctl = NULL THEN [offset |-> 0, status |-> "INVALID"] ELSE ctl
    /\ offset' = HDR
    /\ pc' = "init"
    /\ opens' = opens + 1
    /\ UNCHANGED <<pages, todo, items, file, chunks, crashes>>

\* base_init(): reads the control file or makes an empty one.  The exit status
\* found there changes nothing: diag_exerr() always lets the start go on.
BaseInit ==
    /\ pc = "down" /\ opens < MaxOpens
    /\ IF ctl = NULL
         THEN /\ ctl' = [offset |-> 0, status |-> "INVALID"]
              /\ offset' = 0
         ELSE /\ offset' = ctl.offset
              /\ UNCHANGED ctl
    /\ pc' = "init"
    /\ opens' = opens + 1
    /\ UNCHANGED <<pages, todo, items, file, chunks, crashes>>

\* pager_init(): makes the first page or opens the listed ones.  start_core()
\* goes on to engine_init(), whose first access is to page 0.
PagerInit ==
    /\ pc = "init"
    /\ IF items = <<>>
         THEN CreatePage /\ offset' = HDR
         ELSE pages' = OpenLists /\ UNCHANGED <<offset, items, file>>
    /\ ctl' = Header(offset')
    /\ pc' = IF pages' # <<>> /\ pages'[1] # NULL THEN "run" ELSE "dead"
    /\ UNCHANGED <<todo, chunks, opens, crashes>>

-----------------------------------------------------------------------------
(* Service *)

HandOut(addr, len) ==
    /\ chunks' = chunks \cup {[addr |-> addr, len |-> len, val |-> NULL]}
    /\ offset' = addr + len

\* pager_alloc(), the request fits behind the allocation point.
Alloc(len) ==
    /\ pc = "run"
    /\ ~NeedsPage(offset, len)
    /\ HandOut(offset, len)
    /\ UNCHANGED <<pc, pages, todo, disk, opens, crashes>>

\* pager_alloc(), first half: the page is made.  base_list_add() rewrites the
\* control header, with the allocation point not yet moved, only when it had to
\* begin a new list.
AllocPage(len) ==
    /\ pc = "run"
    /\ NeedsPage(offset, len)
    /\ Len(items) < MaxPages
    /\ CreatePage
    /\ ctl' = IF Len(items) % ListSize = 0 THEN Header(offset) ELSE ctl
    /\ todo' = len
    /\ pc' = "alloc"
    /\ UNCHANGED <<offset, chunks, opens, crashes>>

\* pager_alloc(), second half: the chunk is the first one of the new page, whose
\* position is the last one of the array, and the control header is written.
AllocSync ==
    /\ pc = "alloc"
    /\ HandOut((Len(pages) - 1) * PageSize + HDR, todo)
    /\ ctl' = Header(offset')
    /\ todo' = 0
    /\ pc' = "run"
    /\ UNCHANGED <<pages, items, file, opens, crashes>>

\* A caller writes its chunk through pager_get_fd().
Write(c, v) ==
    /\ pc = "run"
    /\ c \in chunks
    /\ IF Resolves(c.addr)
         THEN /\ file' = [file EXCEPT ![GetFd(c.addr)].data =
                            [l \in DOMAIN @ \cup {Local(c.addr)} |->
                               IF l = Local(c.addr) THEN v ELSE @[l]]]
              /\ chunks' = (chunks \ {c}) \cup {[c EXCEPT !.val = v]}
              /\ UNCHANGED pc
         ELSE pc' = "dead" /\ UNCHANGED <<file, chunks>>
    /\ UNCHANGED <<pages, offset, todo, ctl, items, opens, crashes>>

-----------------------------------------------------------------------------
(* Synchronisation and shutdown *)

\* filesync() and detach_core() begin with the engine's own blocks, which are
\* chunks that Write covers, and then go through the pages.
Flush(how) ==
    /\ pc = "run"
    /\ pc' = how
    /\ todo' = 1
    /\ UNCHANGED <<pages, offset, disk, chunks, opens, crashes>>

\* Mutant of FlushPage: takes the checksum before the header is written.
FlushPageSumFirst ==
    /\ pc \in {"sync", "close"} /\ todo <= Len(pages) /\ pages[todo] # NULL
    /\ file' = [file EXCEPT ![pages[todo]].status = "SUCCESS"]
    /\ items' = [i \in 1 .. Len(items) |->
                   IF items[i].key = pages[todo]
                     THEN [items[i] EXCEPT !.crc = file[pages[todo]]]
                     ELSE items[i]]
    /\ todo' = todo + 1
    /\ UNCHANGED <<pc, pages, offset, ctl, chunks, opens, crashes>>

\* base_list_set_crc_sum(): the checksum of a page goes into its list entry.
SetCrcSum(key, sum) ==
    items' = [i \in 1 .. Len(items) |-> IF items[i].key = key THEN [items[i] EXCEPT !.crc = sum]
                                                             ELSE items[i]]

\* pager_sync(), pager_close(): one page at a time, its header first, then the
\* checksum of the file with that header, stored in the page's list entry.
FlushPage ==
    /\ pc \in {"sync", "close"} /\ todo <= Len(pages)
    /\ IF pages[todo] = NULL
         THEN pc' = "dead" /\ UNCHANGED <<file, items, todo>>
         ELSE /\ file' = [file EXCEPT ![pages[todo]].status = "SUCCESS"]
              /\ SetCrcSum(pages[todo], file'[pages[todo]])
              /\ todo' = todo + 1
              /\ UNCHANGED pc
    /\ UNCHANGED <<pages, offset, ctl, chunks, opens, crashes>>

\* filesync() ends with base_sync().
SyncBase ==
    /\ pc = "sync" /\ todo > Len(pages)
    /\ ctl' = Header(offset)
    /\ pc' = "run"
    /\ todo' = 0
    /\ UNCHANGED <<pages, offset, items, file, chunks, opens, crashes>>

Forget == pages' = <<>> /\ offset' = 0 /\ todo' = 0 /\ pc' = "down"

\* Mutant of CloseBase: marks the file clean without the allocation point.
CloseBaseStale ==
    /\ pc = "close" /\ todo > Len(pages)
    /\ ctl' = [ctl EXCEPT !.status = "SUCCESS"]
    /\ Forget
    /\ UNCHANGED <<items, file, chunks, opens, crashes>>

\* detach_core() ends with base_close().
CloseBase ==
    /\ pc = "close" /\ todo > Len(pages)
    /\ ctl' = [offset |-> offset, status |-> "SUCCESS"]
    /\ Forget
    /\ UNCHANGED <<items, file, chunks, opens, crashes>>

\* The process dies; what it had written is on disk.
Crash ==
    /\ pc # "down" /\ crashes < MaxCrashes
    /\ crashes' = crashes + 1
    /\ Forget
    /\ UNCHANGED <<disk, chunks, opens>>

-----------------------------------------------------------------------------

Next ==
    \/ BaseInit \/ PagerInit
    \/ \E len \in Lens : Alloc(len) \/ AllocPage(len)
    \/ AllocSync
    \/ \E c \in chunks, v \in Vals : Write(c, v)
    \/ \E how \in {"sync", "close"} : Flush(how)
    \/ FlushPage \/ SyncBase \/ CloseBase
    \/ Crash

Spec == Init /\ [][Next]_vars

-----------------------------------------------------------------------------
(* Properties *)

(***************************************************************************)
(* However often the process is stopped and started, as long as it does    *)
(* not die, what a caller last wrote to a chunk is what pager_get_fd()     *)
(* leads a reader of its address to.                                       *)
(***************************************************************************)
ReadsBack ==
    (crashes = 0 /\ pc \in {"run", "dead"}) =>
      \A c \in chunks : c.val # NULL =>
        /\ Resolves(c.addr)
        /\ Local(c.addr) \in DOMAIN file[GetFd(c.addr)].data
        /\ file[GetFd(c.addr)].data[Local(c.addr)] = c.val

(***************************************************************************)
(* A control file marked EXSTAT_SUCCESS by base_close() describes a        *)
(* complete database: open_page() takes every page it lists, and its       *)
(* allocation point is past everything that was handed out.  A start after *)
(* a crash leaves pages out, and still ends with that mark.                *)
(***************************************************************************)
CleanMark ==
    (crashes = 0 /\ ctl # NULL /\ ctl.status = "SUCCESS") =>
      /\ \A i \in 1 .. Len(items) : Accepts(items[i])
      /\ \A c \in chunks : c.addr + c.len <= ctl.offset

(***************************************************************************)
(* The pager is the abstract allocator, restarts included, as long as the  *)
(* process does not die.                                                   *)
(***************************************************************************)
Allocates == A!Init /\ [][A!Next \/ crashes' > 0]_(A!avars)

(***************************************************************************)
(* The assertion of pager_get_fd(): every address under which something    *)
(* was stored is in an open page.                                          *)
(***************************************************************************)
AddressesResolve ==
    pc \in {"run", "dead"} => \A c \in chunks : c.val # NULL => Resolves(c.addr)

(***************************************************************************)
(* A page that was synchronised and not written since is opened by the     *)
(* next start, even if the process died in between: pager_sync() leaves    *)
(* each page in a state that open_page() takes.                            *)
(***************************************************************************)
Untouched(k) == \E i \in 1 .. Len(items) : /\ items[i].key = k
                                           /\ items[i].crc # NULL
                                           /\ items[i].crc.data = file[k].data

SyncedPagesSurvive ==
    [][PagerInit => \A k \in DOMAIN file :
                       Untouched(k) => \E i \in DOMAIN pages' : pages'[i] = k]_vars

(***************************************************************************)
(* What base_init() lets a start go on with is fit for use: no byte that   *)
(* holds what an owner stored, and that can be read, is handed out again.  *)
(***************************************************************************)
NoReissue ==
    pc = "run" =>
      \A c, d \in chunks :
        (c # d /\ c.val # NULL /\ Resolves(c.addr))
          => A!Bytes(c) \cap A!Bytes(d) = {}
=============================================================================
