-------------------------------- MODULE Heap --------------------------------
(***************************************************************************)
(* The data heap of the engine (engine.c): the blocks that hold the        *)
(* contents of records, the cache of freed blocks that later insertions    *)
(* take their space from, and the history entries that keep pointing to    *)
(* the blocks of older versions.                                           *)
(*                                                                         *)
(* The tree of tables that maps a key to its block is module TableTree;    *)
(* here it is the function rec.  A block is a header (struct _blob_info)   *)
(* with the length of the data, and the data.  Space comes from the        *)
(* pager, whose arithmetic is PageArith.                                   *)
(***************************************************************************)
EXTENDS PageArith, History, FiniteSets

CONSTANTS
    Keys,       \* record keys (quids); each is inserted once
    Lens,       \* lengths of record data
    Vals,       \* contents of records
    BlobInfo,   \* sizeof(struct _blob_info)
    HistBytes,  \* sizeof(struct _history_list)
    Slots,      \* DBCACHE_SLOTS
    Density,    \* DBCACHE_DENSITY, percent
    MaxPages,   \* bound: pages created
    MaxHistory  \* bound: history entries

ASSUME HeapAssumption == /\ Lens \subseteq Nat \ {0}
                         /\ BlobInfo \in Nat
                         /\ HistBytes \in Nat \ {0}
                         /\ Slots \in Nat \ {0}
                         /\ Density \in Nat
                         /\ MaxPages \in Nat \ {0}
                         /\ MaxHistory \in Nat
                         /\ NoKey \notin Keys \cup Vals

VARIABLES
    point,      \* the pager: allocation point and number of pages
    blob,       \* the blocks on disk: address -> length, content, free flag
    dbcache,    \* base->engine->dbcache
    hist,       \* the record history
    rec,        \* the tree: key -> address of its block, 0 if it has none
    locked,     \* keys whose record has the system lock
    freed,      \* base->stats.heap_free_size
    truth,      \* what each key's last successful operation stored
    failed      \* the last operation returned -1

vars == <<point, blob, dbcache, hist, rec, locked, freed, truth, failed>>

Slot == 0 .. Slots - 1

Block == [len : Nat, val : Vals, free : BOOLEAN]

Entry == [quid : Keys \cup {NoKey}, version : Nat, offset : Nat,
          val : Vals \cup {NoKey}]

TypeOK ==
    /\ point \in [offset : Nat, count : Nat]
    /\ DOMAIN blob \subseteq Nat
    /\ \A o \in DOMAIN blob : blob[o] \in Block
    /\ dbcache \in [Slot -> [len : Nat, offset : Nat]]
    /\ hist \in Seq(Entry)
    /\ rec \in [Keys -> Nat]
    /\ locked \subseteq Keys
    /\ freed \in Nat
    /\ truth \in [Keys -> Vals \cup {NoKey}]
    /\ failed \in BOOLEAN

EmptyCache == [i \in Slot |-> [len |-> 0, offset |-> 0]]

Init ==
    /\ point = [offset |-> HDR, count |-> 1]
    /\ blob = <<>>
    /\ dbcache = EmptyCache
    /\ hist = <<>>
    /\ rec = [k \in Keys |-> 0]
    /\ locked = {}
    /\ freed = 0
    /\ truth = [k \in Keys |-> NoKey]
    /\ failed = FALSE

-----------------------------------------------------------------------------
(* The pager and the disk *)

\* pager_alloc(): the allocation point after a request, and the address given.
Address(pt, len) == AddrOf(pt.offset, pt.count, len)

Advance(pt, len) == [offset |-> Address(pt, len) + len,
                     count  |-> CountAfter(pt.offset, pt.count, len)]

Extent(o, len) == o .. o + BlobInfo + len - 1

\* Writing a block: whatever it overlaps is no longer a block.
WriteBlock(b, o, len, v) ==
    LET intact == {p \in DOMAIN b : Extent(p, b[p].len) \cap Extent(o, len) = {}}
    IN  [p \in intact \cup {o} |->
           IF p = o THEN [len |-> len, val |-> v, free |-> FALSE] ELSE b[p]]

-----------------------------------------------------------------------------
(* The cache of freed blocks *)

\* free_dbchunk(): the block goes to the highest slot that holds something
\* shorter; if that slot was taken, the slots below it move down by one and
\* the lowest is dropped.  A block no longer than any slot is not kept.
Shorter(c, len) == {i \in Slot : len > c[i].len}

Top(S) == CHOOSE i \in S : \A j \in S : j <= i

Keep(c, o, len) ==
    LET i == Top(Shorter(c, len))
        e == [len |-> len, offset |-> o]
    IN  IF Shorter(c, len) = {} THEN c
        ELSE IF c[i].len = 0 THEN [c EXCEPT ![i] = e]
        ELSE [j \in Slot |-> IF j < i THEN c[j + 1] ELSE IF j = i THEN e ELSE c[j]]

\* Taking a block out of the cache empties its slot, and there is one free block
\* less.
TakeNothing(c, i) == c          \* mutant: the slot is not emptied

Take(c, i) == [c EXCEPT ![i].len = 0]

FreedAfterNone(n, reuse) == n       \* mutant: does not count reuse

FreedAfter(n, reuse) == IF reuse THEN n - 1 ELSE n

\* alloc_dbchunk(): the lowest slot whose block is long enough and not too
\* long.  Nothing is looked up while the highest slot is empty.
SuitableLonger(c, len) ==       \* mutant: the block may be too short
    {i \in Slot : /\ c[Slots - 1].len # 0
                  /\ c[i].len # 0
                  /\ (len * 100) \div c[i].len >= Density}

Suitable(c, len) ==
    {i \in Slot : /\ c[Slots - 1].len # 0
                  /\ len <= c[i].len
                  /\ (len * 100) \div c[i].len >= Density}

Bottom(S) == CHOOSE i \in S : \A j \in S : i <= j

\* free_dbchunk(): the slot records the address after pager_get_fd() has
\* reduced it to the position inside its page.
FreedCache(c, o) == Keep(c, Local(o), blob[o].len)

FreedBlob(o) == [blob EXCEPT ![o].free = TRUE]

-----------------------------------------------------------------------------
(* insert_data(): stores v for key, from the cache c, the history h, the   *)
(* allocation point pt, the blocks b and the count n of freed blocks.      *)
(* Reusing a block erases its history entry; a block that has none leaves  *)
(* an error behind.                                                        *)

InsertData(key, len, v, c, h, pt, b, n, checksError) ==
    LET S     == Suitable(c, len)
        i     == Bottom(S)
        reuse == S # {}
        o     == IF reuse THEN c[i].offset ELSE Address(pt, BlobInfo + len)
    IN  /\ point' = IF reuse THEN pt ELSE Advance(pt, BlobInfo + len)
        /\ point'.count <= MaxPages
        /\ dbcache' = IF reuse THEN Take(c, i) ELSE c
        /\ hist' = IF reuse THEN HistoryDelete(h, o) ELSE h
        /\ freed' = FreedAfter(n, reuse)
        /\ blob' = WriteBlock(b, o, len, v)
        /\ rec' = [rec EXCEPT ![key] = o]
        /\ truth' = [truth EXCEPT ![key] = v]
        /\ failed' = (checksError /\ reuse /\ HistoryDeleteFails(h, o))

Stored(key) == rec[key] \in DOMAIN blob

\* db_get_version(): what is in the block that the history has for a version.
DbGetVersion(key, version) ==
    LET o == VersionOffset(hist, key, version) IN IF o = 0 THEN NoKey ELSE blob[o].val

-----------------------------------------------------------------------------
(* Operations *)

\* engine_insert_data() of a new key: fails if an error was left behind.
Put(key, len, v) ==
    /\ truth[key] = NoKey
    /\ InsertData(key, len, v, dbcache, hist, point, blob, freed, TRUE)
    /\ UNCHANGED locked

\* db_update(): the current block enters the history, then engine_update_data()
\* frees it and stores the new contents.  The lock is only looked at in the
\* latter.
Update(key, len, v) ==
    /\ Stored(key)
    /\ Len(hist) < MaxHistory
    /\ LET h  == HistoryAdd(hist, key, rec[key], truth[key])
           pt == IF TakesList(hist) THEN Advance(point, HistBytes) ELSE point
           o  == rec[key]
       IN  IF key \in locked
             THEN /\ hist' = h
                  /\ point' = pt
                  /\ point'.count <= MaxPages
                  /\ failed' = TRUE
                  /\ UNCHANGED <<blob, dbcache, rec, freed, truth>>
             ELSE InsertData(key, len, v, FreedCache(dbcache, o), h, pt,
                             FreedBlob(o), freed + 1, FALSE)
    /\ UNCHANGED locked

\* engine_update_data() as db_item_add() and db_item_remove() call it: no
\* history is kept.
Merge(key, len, v) ==
    /\ Stored(key)
    /\ IF key \in locked
         THEN /\ failed' = TRUE
              /\ UNCHANGED <<point, blob, dbcache, hist, rec, freed, truth>>
         ELSE InsertData(key, len, v, FreedCache(dbcache, rec[key]), hist, point,
                         FreedBlob(rec[key]), freed + 1, FALSE)
    /\ UNCHANGED locked

\* engine_purge() of a record: leaves the tree, and its block is freed.
Purge(key) ==
    /\ Stored(key)
    /\ IF key \in locked
         THEN /\ failed' = TRUE
              /\ UNCHANGED <<blob, dbcache, rec, freed>>
         ELSE /\ dbcache' = FreedCache(dbcache, rec[key])
              /\ blob' = FreedBlob(rec[key])
              /\ freed' = freed + 1
              /\ rec' = [rec EXCEPT ![key] = 0]
              /\ failed' = FALSE
    /\ UNCHANGED <<point, hist, locked, truth>>

\* engine_setmeta() with the system lock set; a locked record stays locked.
Lock(key) ==
    /\ Stored(key) /\ key \notin locked
    /\ locked' = locked \cup {key}
    /\ UNCHANGED <<point, blob, dbcache, hist, rec, freed, truth, failed>>

\* A shutdown and a start: engine_open() begins with an empty cache.
Restart ==
    /\ dbcache' = EmptyCache
    /\ failed' = FALSE
    /\ UNCHANGED <<point, blob, hist, rec, locked, freed, truth>>

Next ==
    \/ \E k \in Keys, len \in Lens, v \in Vals :
          Put(k, len, v) \/ Update(k, len, v) \/ Merge(k, len, v)
    \/ \E k \in Keys : Purge(k) \/ Lock(k)
    \/ Restart

Spec == Init /\ [][Next]_vars

-----------------------------------------------------------------------------
(* Properties *)

Live == {k \in Keys : rec[k] # 0}

(***************************************************************************)
(* A record's block holds what was last stored under its key: no other     *)
(* insertion, update or purge, and no reuse of a freed block, touches it.  *)
(***************************************************************************)
RecordsIntact ==
    \A k \in Live : /\ rec[k] \in DOMAIN blob
                    /\ blob[rec[k]].val = truth[k]
                    /\ ~blob[rec[k]].free

(***************************************************************************)
(* The cache offers only free blocks, each once and with the length it     *)
(* has on disk: two insertions never get the same space.                   *)
(***************************************************************************)
CacheSound ==
    /\ \A i \in Slot : dbcache[i].len > 0 =>
         /\ dbcache[i].offset \in DOMAIN blob
         /\ blob[dbcache[i].offset].free
         /\ blob[dbcache[i].offset].len = dbcache[i].len
    /\ \A i, j \in Slot :
         (i # j /\ dbcache[i].len > 0 /\ dbcache[j].len > 0)
           => dbcache[i].offset # dbcache[j].offset

(***************************************************************************)
(* A version that the history still lists is there: its block holds what   *)
(* the record held when the version was saved, although that block is      *)
(* free and may be reused at any time.                                     *)
(***************************************************************************)
HistoryIntact ==
    \A p \in DOMAIN hist : hist[p].offset # 0 =>
        /\ hist[p].offset \in DOMAIN blob
        /\ blob[hist[p].offset].val = hist[p].val

(***************************************************************************)
(* heap_free_size, reported as the number of free blocks, is that number,  *)
(* whether or not the cache still knows the blocks.                        *)
(***************************************************************************)
FreeCount == freed = Cardinality({o \in DOMAIN blob : blob[o].free})

(***************************************************************************)
(* db_get_version() with a version number that db_get_history() lists      *)
(* returns that version.                                                   *)
(***************************************************************************)
VersionsRetrievable ==
    \A p \in DOMAIN hist : hist[p].offset # 0 =>
        /\ VersionOffset(hist, hist[p].quid, hist[p].version) = hist[p].offset
        /\ DbGetVersion(hist[p].quid, hist[p].version) = hist[p].val

(***************************************************************************)
(* db_update() saves the old version as record history: after a successful *)
(* update the history lists the contents the record had before.            *)
(***************************************************************************)
OldVersionSaved ==
    [][\A k \in Keys : (\E len \in Lens, v \in Vals : Update(k, len, v)) /\ ~failed'
         => \E p \in DOMAIN hist' : /\ hist'[p].quid = k
                                    /\ hist'[p].val = truth[k]]_vars

(***************************************************************************)
(* engine_insert_data() of a new key returns 0: it does not report failure *)
(* for a record that it stored.                                            *)
(***************************************************************************)
InsertReported == [][\A k \in Keys : rec[k] = 0 /\ rec'[k] # 0 => ~failed']_vars
=============================================================================
