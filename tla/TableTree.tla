------------------------------ MODULE TableTree ------------------------------
(***************************************************************************)
(* The tree of tables of the engine (engine.c): a B-tree variant that maps *)
(* a key (quid) to the block of its record and its metadata.  Insertion    *)
(* splits full tables on the way up; removal takes a replacement from a    *)
(* child and joins a table only once it is empty, so the tree need not be  *)
(* balanced.  Empty tables go to a free list linked through their first    *)
(* child.                                                                  *)
(*                                                                         *)
(* A table is [items, kids]: kids[i] is the child left of items[i] and the *)
(* last one the child right of them all; 0 is no child.  Tables are        *)
(* numbered in the order they are first allocated.  The blocks themselves  *)
(* are module Heap: here a block is a number that tells whose it is.       *)
(* Metadata is the set of its flags.                                       *)
(*                                                                         *)
(* A table is written to its page as soon as it is changed; the super      *)
(* block, with the top table and the head of the free list, at the end of  *)
(* an operation.  The order of these writes is kept in eng.log while an    *)
(* operation runs: it may be cut short, by the death of the process or by  *)
(* the signal handler that closes the base in the middle of it.            *)
(***************************************************************************)
EXTENDS Integers, Sequences, FiniteSets, SequencesExt

CONSTANTS
    T,          \* TABLE_SIZE: a table is split when it holds T - 1 items
    Workloads   \* what the callers of the engine do, one of these per behaviour:
                \*   keys     the quids, numbered in the order of quidcmp(),
                \*   preload  the keys the base already holds, as inserted,
                \*   metas    metadata that records are inserted with or given,
                \*   ops      the calls, and "interrupt" if they may be cut short

AllMeta == {"syslock", "freeze", "nodata", "recycled"}

ASSUME TableAssumption ==
    /\ T \in Nat /\ T > 4
    /\ \A load \in Workloads :
         /\ load.keys \subseteq Nat \ {0}
         /\ load.preload \in Seq(load.keys)
         /\ load.metas \subseteq SUBSET AllMeta
         /\ load.ops \subseteq {"insert", "purge", "setmeta", "recycle", "update", "vacuum",
                                 "missing", "nodata", "interrupt"}

VARIABLES
    load,       \* the workload
    eng,        \* base->engine and base->stats: tables, top, free list, counters
    truth,      \* what the callers stored: key -> block and metadata
    cut         \* the operation that was cut short, or None

vars == <<load, eng, truth, cut>>

None == [op |-> "none"]

-----------------------------------------------------------------------------
(* Tables *)

Item(quid, offset, meta) == [quid |-> quid, offset |-> offset, meta |-> meta]

ZeroItem == Item(0, 0, {})

Size(s, t) == Len(s.tab[t].items)

\* The binary search of every function here: the position of the key, or the
\* position where it would be.
RECURSIVE Search(_, _, _, _)
Search(items, quid, left, right) ==
    LET i == (right - left) \div 2 + left
    IN  IF left >= right THEN left
        ELSE IF items[i + 1].quid = quid THEN i
        ELSE IF quid < items[i + 1].quid THEN Search(items, quid, left, i)
        ELSE Search(items, quid, i + 1, right)

Position(table, quid) == Search(table.items, quid, 0, Len(table.items)) + 1

Found(table, quid) == LET i == Position(table, quid)
                      IN  i <= Len(table.items) /\ table.items[i].quid = quid

\* lookup_key(): the table that holds the key, 0 if there is none.
RECURSIVE TableOf(_, _, _)
TableOf(s, t, quid) ==
    IF t = 0 \/ Found(s.tab[t], quid) THEN t
    ELSE TableOf(s, s.tab[t].kids[Position(s.tab[t], quid)], quid)

Holds(s, quid) == TableOf(s, s.top, quid) # 0

Lookup(s, quid) == LET table == s.tab[TableOf(s, s.top, quid)]
                   IN  table.items[Position(table, quid)]

-----------------------------------------------------------------------------
(* Writes, and the free list *)

\* A write, with the super block as it is in memory at that time.
Logged(s, write) == [s EXCEPT !.log = Append(@, [write |-> write, top |-> s.top, free |-> s.free])]

\* flush_table()
Flush(s, t, table) ==
    LET old == Logged(s, [at |-> t, table |-> table])
    IN  [old EXCEPT !.tab = IF t > Len(@) THEN Append(@, table) ELSE [@ EXCEPT ![t] = table]]

\* insert_data(): nothing is written for a record without data.
WriteBlock(s, offset) == IF offset = 0 THEN s ELSE Logged(s, [block |-> offset])

\* alloc_table_chunk() and the flush of the table it is for.
AllocTable(s, table) ==
    IF s.free # 0
      THEN [at |-> s.free,
            s  |-> Flush([s EXCEPT !.free = s.tab[s.free].kids[1], !.freesize = @ - 1],
                         s.free, table)]
      ELSE [at |-> Len(s.tab) + 1, s |-> Flush(s, Len(s.tab) + 1, table)]

\* free_index_chunk(): what it leaves of a table.
FreedTable(link) == [items |-> <<ZeroItem>>, kids |-> <<link, 0>>]

\* table_join(): an empty table is freed and replaced by its only child.
JoinNot(s, t) == [s |-> s, at |-> t]        \* mutant: empty tables stay

JoinLink(s, t) ==       \* mutant: the freed table does not link to the list
    IF Size(s, t) > 0 THEN [s |-> s, at |-> t]
    ELSE [at |-> s.tab[t].kids[1],
          s  |-> [Flush(s, t, FreedTable(0)) EXCEPT !.free = t, !.freesize = @ + 1]]

Join(s, t) ==
    IF Size(s, t) > 0 THEN [s |-> s, at |-> t]
    ELSE [at |-> s.tab[t].kids[1],
          s  |-> [Flush(s, t, FreedTable(s.free)) EXCEPT !.free = t, !.freesize = @ + 1]]

-----------------------------------------------------------------------------
(* Insertion *)

\* split_table(): the items above the middle one move to a new table, which is
\* written first; the caller then writes the table that is left.
SplitLeftFirst(s, t) ==     \* mutant: the shortened table is written first
    LET tab   == s.tab[t]
        mid   == T \div 2 + 1
        right == [items |-> SubSeq(tab.items, mid + 1, T - 1),
                  kids  |-> SubSeq(tab.kids, mid + 1, T)]
        left  == [items |-> SubSeq(tab.items, 1, mid - 1), kids |-> SubSeq(tab.kids, 1, mid)]
        new   == AllocTable(Flush(s, t, left), right)
    IN  [pivot |-> tab.items[mid], right |-> new.at, s |-> new.s]

Split(s, t) ==
    LET tab   == s.tab[t]
        mid   == T \div 2 + 1
        right == [items |-> SubSeq(tab.items, mid + 1, T - 1),
                  kids  |-> SubSeq(tab.kids, mid + 1, T)]
        left  == [items |-> SubSeq(tab.items, 1, mid - 1), kids |-> SubSeq(tab.kids, 1, mid)]
        new   == AllocTable(s, right)
    IN  [pivot |-> tab.items[mid], right |-> new.at,
         s |-> Flush(new.s, t, left)]

InsertItem(table, i, item, right) ==
    [items |-> InsertAt(table.items, i, item),
     kids  |-> InsertAt(table.kids, i + 1, right)]

\* The end of insert_table() in a table without children: data, then the item.
AddItemTableFirst(s, t, i, item) ==     \* mutant: the item is written before its data
    WriteBlock(Flush(s, t, InsertItem(s.tab[t], i, item, 0)), item.offset)

AddItem(s, t, i, item) ==
    Flush(WriteBlock(s, item.offset), t, InsertItem(s.tab[t], i, item, 0))

\* insert_table(): quid is the caller's variable; after a split it holds the
\* pivot's key, and the pivot gets the metadata of the new item.
RECURSIVE InsertTable(_, _, _, _, _)
InsertTable(s, t, quid, offset, meta) ==
    LET table == s.tab[t]
        i     == Position(table, quid)
        kid   == table.kids[i]
        r     == InsertTable(s, kid, quid, offset, meta)
        p     == Split(r.s, kid)
    IN  IF Found(table, quid) THEN [s |-> s, quid |-> quid, exists |-> TRUE]
        ELSE IF kid = 0
          THEN [s |-> AddItem(s, t, i, Item(quid, offset, meta)),
                quid |-> quid, exists |-> FALSE]
        ELSE IF Size(r.s, kid) < T - 1 THEN r
        ELSE [s |-> Flush(p.s, t,
                      InsertItem(table, i, Item(p.pivot.quid, p.pivot.offset, meta), p.right)),
              quid |-> p.pivot.quid, exists |-> r.exists]

\* insert_toplevel(): a new top table if there was none or it was split.
InsertToplevel(s, quid, offset, meta) ==
    LET r   == InsertTable(s, s.top, quid, offset, meta)
        p   == Split(r.s, s.top)
        one == AllocTable(WriteBlock(s, offset), [items |-> <<Item(quid, offset, meta)>>, kids |-> <<0, 0>>])
        two == AllocTable(p.s, [items |-> <<Item(p.pivot.quid, p.pivot.offset, meta)>>,
                                kids  |-> <<s.top, p.right>>])
    IN  IF s.top = 0
          THEN [s |-> [one.s EXCEPT !.top = one.at], quid |-> quid, exists |-> FALSE]
        ELSE IF Size(r.s, s.top) < T - 1 THEN r
        ELSE [s |-> [two.s EXCEPT !.top = two.at], quid |-> p.pivot.quid, exists |-> r.exists]

-----------------------------------------------------------------------------
(* Removal *)

\* remove_table() of an item with at most one child: the child moves up.
Drop(table, i) ==
    [items |-> RemoveAt(table.items, i),
     kids  |-> RemoveAt(table.kids, IF table.kids[i] # 0 THEN i + 1 ELSE i)]

\* take_smallest(), take_largest(): the item goes, joining tables on the way up.
RECURSIVE TakeSmallest(_, _)
TakeSmallest(s, t) ==
    LET table == s.tab[t]
        kid   == table.kids[1]
        r     == TakeSmallest(s, kid)
        j     == Join(r.s, kid)
    IN  IF kid = 0
          THEN [item |-> table.items[1], s |-> Flush(s, t, Drop(table, 1))]
          ELSE [item |-> r.item, s |-> Flush(j.s, t, [table EXCEPT !.kids[1] = j.at])]

RECURSIVE TakeLargest(_, _)
TakeLargest(s, t) ==
    LET table == s.tab[t]
        n     == Len(table.items)
        kid   == table.kids[n + 1]
        r     == TakeLargest(s, kid)
        j     == Join(r.s, kid)
    IN  IF kid = 0
          THEN [item |-> table.items[n], s |-> Flush(s, t, Drop(table, n))]
          ELSE [item |-> r.item, s |-> Flush(j.s, t, [table EXCEPT !.kids[n + 1] = j.at])]

\* remove_table(): side is the outcome of arc4random().  The item taken from a
\* child brings its key and block; the metadata in its new place stays.
RemoveTableKeyOnly(s, t, i, side) ==    \* mutant: the block is not replaced
    LET table == s.tab[t]
        at    == IF side THEN i ELSE i + 1
        r     == IF side THEN TakeLargest(s, table.kids[i]) ELSE TakeSmallest(s, table.kids[i + 1])
        j     == Join(r.s, table.kids[at])
    IN  IF table.kids[i] # 0 /\ table.kids[i + 1] # 0
          THEN Flush(j.s, t, [table EXCEPT !.items[i].quid = r.item.quid, !.kids[at] = j.at])
          ELSE Flush(s, t, Drop(table, i))

RemoveTable(s, t, i, side) ==
    LET table == s.tab[t]
        at    == IF side THEN i ELSE i + 1
        r     == IF side THEN TakeLargest(s, table.kids[i]) ELSE TakeSmallest(s, table.kids[i + 1])
        j     == Join(r.s, table.kids[at])
    IN  IF table.kids[i] # 0 /\ table.kids[i + 1] # 0
          THEN Flush(j.s, t,
                 [table EXCEPT !.items[i] = Item(r.item.quid, r.item.offset, table.items[i].meta),
                               !.kids[at] = j.at])
          ELSE Flush(s, t, Drop(table, i))

\* delete_table(): returns the block of the removed item.  A result of 0 makes
\* the table above remove its next larger item (TABLE_DELETE_LARGE).
RECURSIVE DeleteTable(_, _, _, _)
DeleteTable(s, t, quid, side) ==
    LET table == s.tab[t]
        i     == Position(table, quid)
        r     == DeleteTable(s, table.kids[i], quid, side)
        j     == Join(r.s, table.kids[i])
    IN  IF t = 0 THEN [s |-> s, ret |-> 0, error |-> TRUE]
        ELSE IF Found(table, quid)
          THEN IF table.items[i].meta \cap {"syslock", "freeze"} # {}
                 THEN [s |-> s, ret |-> 0, error |-> TRUE]
                 ELSE [s |-> RemoveTable(s, t, i, side), ret |-> table.items[i].offset,
                       error |-> FALSE]
        ELSE IF r.ret # 0
          THEN [r EXCEPT !.s = Flush(j.s, t, [table EXCEPT !.kids[i] = j.at])]
        ELSE IF i <= Len(table.items)
          THEN [s |-> RemoveTable(r.s, t, i, side), ret |-> table.items[i].offset,
                error |-> r.error]
        ELSE r

-----------------------------------------------------------------------------
(* Vacuum *)

\* engine_copy(): every item of a table, then the tables left and right of it.
\* A table between two items is copied twice; its items exist by then, but are
\* counted again.
RECURSIVE Copy(_, _, _)
Copy(s, new, t) ==
    LET table == s.tab[t]
        Insert(n, item) ==
            IF "recycled" \in item.meta THEN n
            ELSE [InsertToplevel(n, item.quid, item.offset, item.meta).s EXCEPT !.size = @ + 1]
        Child(n, kid) == IF kid = 0 THEN n ELSE Copy(s, n, kid)
        Step(n, i) == Child(Child(Insert(n, table.items[i]), table.kids[i]), table.kids[i + 1])
    IN  FoldLeft(Step, new, [i \in 1 .. Len(table.items) |-> i])

-----------------------------------------------------------------------------
(* Operations *)

Empty == [tab |-> <<>>, top |-> 0, free |-> 0, size |-> 0, freesize |-> 0, log |-> <<>>]

\* flush_super() at the end of an operation: all that it changed is on disk.
Done(s) == [s EXCEPT !.log = <<>>]

\* Block 2k or 2k + 1 belongs to key k.
BlockFor(k, meta) == IF "nodata" \in meta THEN 0 ELSE 2 * k

Inserted(s, k, meta) ==
    LET r == InsertToplevel(s, k, BlockFor(k, meta), meta)
    IN  IF r.exists THEN s ELSE [r.s EXCEPT !.size = @ + 1]

Init ==
    /\ load \in Workloads
    /\ eng = FoldLeft(LAMBDA s, k : Done(Inserted(s, k, {})), Empty, load.preload)
    /\ truth = [k \in ToSet(load.preload) |->
                  [offset |-> BlockFor(k, {}), meta |-> {}]]
    /\ cut = None

\* engine_insert_data(), engine_insert_meta_data(), engine_insert_meta(),
\* engine_insert(): refused if the key exists.
Insert(k, meta) ==
    /\ ~Holds(eng, k)
    /\ eng' = Done(Inserted(eng, k, meta))
    /\ truth' = (k :> [offset |-> BlockFor(k, meta), meta |-> meta]) @@ truth

\* engine_purge(): after an error the top table is not joined and the records
\* are not counted down.
PurgedUncounted(s, k, side) ==      \* mutant: the records are not counted down
    LET r == DeleteTable(s, s.top, k, side)
        j == Join(r.s, s.top)
    IN  [error |-> r.error, s |-> IF r.error THEN r.s ELSE [j.s EXCEPT !.top = j.at]]

Purged(s, k, side) ==
    LET r == DeleteTable(s, s.top, k, side)
        j == Join(r.s, s.top)
    IN  [error |-> r.error, s |-> IF r.error THEN r.s ELSE [j.s EXCEPT !.top = j.at, !.size = @ - 1]]

Purge(k, side) ==
    LET r == Purged(eng, k, side)
    IN  /\ eng' = Done(r.s)
        /\ truth' = IF r.error THEN truth ELSE [l \in DOMAIN truth \ {k} |-> truth[l]]

\* An item is changed where it is, and its table written.
Changed(s, k, item) ==
    LET t == TableOf(s, s.top, k)
    IN  Flush(s, t, [s.tab[t] EXCEPT !.items[Position(s.tab[t], k)] = item])

\* set_meta() and engine_setmeta(): refused if the record has the system lock.
SetMeta(k, meta) ==
    /\ Holds(eng, k)
    /\ "syslock" \notin Lookup(eng, k).meta
    /\ eng' = Done(Changed(eng, k, [Lookup(eng, k) EXCEPT !.meta = meta]))
    /\ truth' = [truth EXCEPT ![k].meta = meta]

\* engine_delete(): a record that is not there or already recycled is refused.
Recycle(k) ==
    /\ Holds(eng, k)
    /\ "recycled" \notin Lookup(eng, k).meta
    /\ SetMeta(k, Lookup(eng, k).meta \cup {"recycled"})

\* engine_update_data(): a new block for the record.
NewBlock(s, k) == IF Lookup(s, k).offset = 2 * k THEN 2 * k + 1 ELSE 2 * k

Updated(s, k) ==
    Changed(WriteBlock(s, NewBlock(s, k)), k, [Lookup(s, k) EXCEPT !.offset = NewBlock(s, k)])

UpdateData(k) ==
    /\ Holds(eng, k)
    /\ "syslock" \notin Lookup(eng, k).meta
    /\ eng' = Done(Updated(eng, k))
    /\ truth' = [truth EXCEPT ![k].offset = NewBlock(eng, k)]

\* engine_rebuild(): the tree is copied to a new base, without the recycled
\* records.  Of a base without records, or with a record without data, it reads
\* a table or a block at address 0: these two are left out.
Rebuild ==
    /\ eng.top # 0
    /\ \A k \in load.keys : Holds(eng, k) => Lookup(eng, k).offset # 0
    /\ eng' = Done(Copy(eng, Empty, eng.top))
    /\ truth' = [k \in {j \in DOMAIN truth : "recycled" \notin truth[j].meta} |-> truth[k]]

\* Purging a record that is there, has data and no lock; "missing" and "nodata"
\* are the other callers.
Purgeable(k) ==
    /\ Holds(eng, k)
    /\ Lookup(eng, k).offset # 0
    /\ Lookup(eng, k).meta \cap {"syslock", "freeze"} = {}

PurgeCalled(k) ==
    \/ "purge" \in load.ops /\ Purgeable(k)
    \/ "missing" \in load.ops
         /\ (Holds(eng, k) => Lookup(eng, k).meta \cap {"syslock", "freeze"} # {})
    \/ "nodata" \in load.ops /\ Holds(eng, k) /\ Lookup(eng, k).offset = 0

-----------------------------------------------------------------------------
(* An operation that is cut short *)

\* The tables of the tree and of the free list, each as often as it is reached.
RECURSIVE Reached(_, _)
Reached(s, t) ==
    IF t = 0 THEN <<>>
    ELSE FoldLeft(LAMBDA seq, kid : seq \o Reached(s, kid), <<t>>, s.tab[t].kids)

RECURSIVE FreeList(_, _)
FreeList(s, t) == IF t = 0 THEN <<>> ELSE <<t>> \o FreeList(s, s.tab[t].kids[1])

RECURSIVE InOrder(_, _)
InOrder(s, t) ==
    LET table == s.tab[t]
    IN  IF t = 0 THEN <<>>
        ELSE FoldLeft(LAMBDA seq, i : seq \o <<table.items[i].quid>> \o InOrder(s, table.kids[i + 1]),
                      InOrder(s, table.kids[1]), [i \in 1 .. Len(table.items) |-> i])

\* The tables after the first n writes of an operation.
Written(log, n) ==
    FoldLeft(LAMBDA tab, w : IF "at" \in DOMAIN w.write
                               THEN (w.write.at :> w.write.table) @@ tab ELSE tab,
             eng.tab, SubSeq(log, 1, n))

BlocksWritten(log, n) ==
    {truth[k].offset : k \in DOMAIN truth}
      \cup {log[i].write.block : i \in {j \in 1 .. n : "block" \in DOMAIN log[j].write}}

\* Tables that an operation has taken from the free list or made.
FreshTables(log, n) ==
    {log[i].write.at : i \in {j \in 1 .. n : "at" \in DOMAIN log[j].write}}
      \ ToSet(Reached(eng, eng.top))

\* The super block that is found at the next start.  The process may die, and
\* the one of the last operation is still there; or handle_shutdown() runs
\* detach_core() and engine_close() writes the one that is in memory, as it was
\* at the last write or has become by the next.
Supers(s, n) ==
    LET log == s.log
        At(x) == [top |-> x.top, free |-> x.free]
    IN  {At(eng)} \cup {At(log[i]) : i \in {n, n + 1} \cap DOMAIN log}
                  \cup (IF n = Len(log) THEN {At(s)} ELSE {})

\* table_join() overwrites a table that it frees while the table's parent still
\* leads to it.
FreesTable(log, n) ==
    \E i \in 1 .. n : "at" \in DOMAIN log[i].write /\ log[i].write.table.items = <<ZeroItem>>

CutShort(op, k, s) ==
    \E n \in 1 .. Len(s.log) : \E super \in Supers(s, n) :
        /\ cut' = [op |-> op, key |-> k, blocks |-> BlocksWritten(s.log, n),
                   fresh |-> FreshTables(s.log, n), freed |-> FreesTable(s.log, n)]
        /\ eng' = [Empty EXCEPT !.tab = Written(s.log, n), !.top = super.top, !.free = super.free]
        /\ UNCHANGED truth

Interrupt ==
    \/ \E k \in load.keys, meta \in load.metas :
          ~Holds(eng, k) /\ CutShort("insert", k, Inserted(eng, k, meta))
    \/ \E k \in load.keys : Holds(eng, k) /\ CutShort("update", k, Updated(eng, k))
    \/ \E k \in load.keys, side \in BOOLEAN :
          Purgeable(k) /\ CutShort("purge", k, Purged(eng, k, side).s)

-----------------------------------------------------------------------------

Operation ==
    \/ \E k \in load.keys, meta \in load.metas : "insert" \in load.ops /\ Insert(k, meta)
    \/ \E k \in load.keys, side \in BOOLEAN : PurgeCalled(k) /\ Purge(k, side)
    \/ \E k \in load.keys, meta \in load.metas : "setmeta" \in load.ops /\ SetMeta(k, meta)
    \/ \E k \in load.keys : "recycle" \in load.ops /\ Recycle(k)
    \/ \E k \in load.keys : "update" \in load.ops /\ UpdateData(k)
    \/ "vacuum" \in load.ops /\ Rebuild

Next == /\ cut = None
        /\ \/ Operation /\ UNCHANGED cut
           \/ "interrupt" \in load.ops /\ Interrupt
        /\ UNCHANGED load

Spec == Init /\ [][Next]_vars

-----------------------------------------------------------------------------
(* Properties *)

TableType == [items : Seq([quid : load.keys \cup {0}, offset : Nat,
                           meta : SUBSET AllMeta]),
              kids : Seq(0 .. Len(eng.tab))]

TypeOK ==
    /\ DOMAIN eng = {"tab", "top", "free", "size", "freesize", "log"}
    /\ \A t \in DOMAIN eng.tab : eng.tab[t] \in TableType
    /\ {eng.top, eng.free} \subseteq 0 .. Len(eng.tab)
    /\ eng.size \in Nat /\ eng.freesize \in Nat
    /\ DOMAIN truth \subseteq load.keys
    /\ cut.op \in {"none", "insert", "update", "purge"}

(***************************************************************************)
(* After every operation that ran to its end, every table is reached       *)
(* exactly once, from the top or from the free list: no operation shares a *)
(* table between two parents, frees a table that is in use, or loses one.  *)
(***************************************************************************)
TablesOwned ==
    LET seq == Reached(eng, eng.top) \o FreeList(eng, eng.free)
    IN  cut = None => /\ Len(seq) = Len(eng.tab)
                      /\ {seq[i] : i \in DOMAIN seq} = DOMAIN eng.tab

(***************************************************************************)
(* The tree is a search tree: its keys are in increasing order, and every  *)
(* table has an item, room for one more and one child more than items, as  *)
(* take_smallest(), take_largest() and insert_table() assert.              *)
(***************************************************************************)
Increasing(keys) == \A i \in 1 .. Len(keys) - 1 : keys[i] < keys[i + 1]

SearchTree ==
    LET tabs == Reached(eng, eng.top)
    IN  cut = None =>
          /\ Increasing(InOrder(eng, eng.top))
          /\ \A i \in DOMAIN tabs : /\ Size(eng, tabs[i]) \in 1 .. T - 2
                                    /\ Len(eng.tab[tabs[i]].kids) = Size(eng, tabs[i]) + 1

(***************************************************************************)
(* Looking up a key finds the block that was last stored for it, and finds *)
(* nothing for a key that was not inserted or was purged: no insertion or  *)
(* removal of another key changes that.                                    *)
(***************************************************************************)
LookupExact ==
    cut = None =>
      \A k \in load.keys :
        /\ Holds(eng, k) <=> k \in DOMAIN truth
        /\ Holds(eng, k) => Lookup(eng, k).offset = truth[k].offset

(***************************************************************************)
(* Up to a vacuum, which counts some records more than once, zero_size is  *)
(* the number of records; zero_free_size is always that of free tables.    *)
(***************************************************************************)
CountsExact ==
    cut = None =>
      /\ "vacuum" \notin load.ops => eng.size = Len(InOrder(eng, eng.top))
      /\ eng.freesize = Len(FreeList(eng, eng.free))

CutUnjoined == cut # None /\ ~cut.freed

(***************************************************************************)
(* An insertion, an update or a purge that is cut short between any two of *)
(* its writes leaves a tree that can be read: the tables that are reached  *)
(* were written and are reached once, the keys are in order, and the block *)
(* of an item was written before the item and is the block of its key.  A  *)
(* table may be left with T - 1 items, one more than insert_table() takes, *)
(* or with none, which take_smallest() does not take.  Not so once         *)
(* table_join() has freed a table: its parent still leads to it, and       *)
(* through it to the free list.                                            *)
(***************************************************************************)
InterruptedTree ==
    LET tabs  == Reached(eng, eng.top)
        items == UNION {ToSet(eng.tab[tabs[i]].items) : i \in DOMAIN tabs}
    IN  CutUnjoined =>
          /\ IsInjective(tabs)
          /\ Increasing(InOrder(eng, eng.top))
          /\ \A i \in DOMAIN tabs : Size(eng, tabs[i]) \in 0 .. T - 1
          /\ \A item \in items :
               item.offset # 0 => item.offset \in cut.blocks /\ item.offset \div 2 = item.quid

(***************************************************************************)
(* What an operation that is cut short may lose: the record it was about,  *)
(* at most one item on its way from one table to another, and the items of *)
(* tables that split_table() has written and no table leads to yet.  Every *)
(* other record is found, with the block it had; an update loses nothing.  *)
(***************************************************************************)
InterruptedRecords ==
    LET lost    == {k \in DOMAIN truth : ~Holds(eng, k)}
        written == UNION {ToSet(InOrder(eng, t)) : t \in cut.fresh}
    IN  CutUnjoined =>
          /\ Cardinality(lost \ (written \cup {cut.key})) <= 1
          /\ cut.op = "update" => lost = {}
          /\ \A k \in DOMAIN truth \ (lost \cup {cut.key}) :
               Lookup(eng, k).offset = truth[k].offset

(***************************************************************************)
(* The metadata of a record is what it was inserted with or given last.    *)
(***************************************************************************)
MetaKept == \A k \in DOMAIN truth : Lookup(eng, k).meta = truth[k].meta

(***************************************************************************)
(* Inserting a new key leaves the caller's quid as it is.                  *)
(***************************************************************************)
KeyUntouched ==
    \A k \in load.keys : ~Holds(eng, k) => InsertToplevel(eng, k, 2 * k, {}).quid = k
=============================================================================
