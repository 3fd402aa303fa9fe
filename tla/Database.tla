------------------------------ MODULE Database ------------------------------
(***************************************************************************)
(* The operations of core.c on a base: records, groups (tables and sets,   *)
(* whose rows are records of their own), the list of aliases (alias.c) and *)
(* the list of indexes (index_list.c).  The engine is taken by what module *)
(* TableTree shows of it, a map from keys to records; an index by the      *)
(* values in it (module IndexTree); history is in module Heap.             *)
(*                                                                         *)
(* A request is one action: the server handles one at a time.  The error   *)
(* flag of error.c is the field err; it is set by helpers, looked at by    *)
(* later calls of the same request, and clear between requests.            *)
(***************************************************************************)
EXTENDS Integers, Sequences, FiniteSets, SequencesExt

CONSTANTS
    Vals,           \* values of fields
    Elements,       \* names inside objects
    Names,          \* names that clients give to records
    None,           \* no value, no data, no name
    AliasListSize,  \* ALIAS_LIST_SIZE
    Workloads       \* [clean, keys, aliases, inputs, items, ops]

VARIABLES
    db,     \* rec, alias, alias_size, ilist, index_list_size, tree, stale, next, err, dead;
            \* and in top the keys that clients were given for their documents
    load    \* the kind of requests this base gets

vars == <<db, load>>

-----------------------------------------------------------------------------
(* Data *)

\* What a client sends: a scalar, an object with one scalar, or an array or
\* object of such items.  struct marshall.
Field(v) == [kind |-> "FIELD", el |-> None, val |-> v, items |-> <<>>]
Object(e, v) == [kind |-> "OBJECT", el |-> e, val |-> v, items |-> <<>>]
Item(n, data) == [name |-> n, data |-> data]
Items(kind, items) == [kind |-> kind, el |-> None, val |-> None, items |-> items]

Parts == {Field(v) : v \in Vals} \cup {Object(e, v) : e \in Elements, v \in Vals}

IsDocument(d) ==
    \/ d \in Parts
    \/ /\ d.kind \in {"ARRAY", "OBJECT"}
       /\ d = Items(d.kind, d.items)
       /\ d.items \in Seq({Item(n, x) : n \in Elements \cup {None}, x \in Parts})

\* What is stored: the schema of a row, and the scalars and keys in it.
Row(n, k, v) == [name |-> n, key |-> k, val |-> v]
Plain(d) == [schema |-> d.kind, el |-> d.el, val |-> d.val, rows |-> <<>>]
IsGroup(data) == data # None /\ data.schema \in {"TABLE", "SET"}
KeysOf(data) == {data.rows[i].key : i \in DOMAIN data.rows}

Labels == Elements \cup {None} \cup Nat
Data == [schema : {"FIELD", "OBJECT", "ARRAY", "TABLE", "SET"}, el : Elements \cup {None}, val : Vals \cup {None},
         rows : Seq([name : Labels, key : Nat, val : Vals \cup {None}])]

\* Keys are numbers; a name that a client gives is none, and None is no data.
ASSUME DatabaseAssumption ==
    /\ AliasListSize \in Nat \ {0}
    /\ None \notin Elements \cup Nat \cup Data
    /\ Names \cap Nat = {}
    /\ \A l \in Workloads : (\A in \in l.inputs : IsDocument(in)) /\ l.items \subseteq Parts

\* The keys that the data of a record refers to; 0 stands for none.
RowKeys(r) == IF r.data = None THEN {} ELSE KeysOf(r.data)

\* engine_insert_data(): the metadata of a new record.
Record(data) == [type |-> "RECORD", alias |-> FALSE, lock |-> FALSE, life |-> "finite", data |-> data]

\* slay_put(): nested items become records of their own; if all are nested,
\* and there are two or more, the result is a table or a set.
SlayPut(s, in) ==
    LET n == Len(in.items)
        Nested(i) == in.items[i].data.kind # "FIELD"
        nested == {i \in 1 .. n : Nested(i)}
        KeyFor(i) == s.next + Cardinality({j \in nested : j < i})
        RowFor(i) == IF Nested(i) THEN Row(in.items[i].name, KeyFor(i), None)
                     ELSE Row(in.items[i].name, 0, in.items[i].data.val)
        schema == IF n > 1 /\ nested = 1 .. n
                  THEN IF in.kind = "ARRAY" THEN "TABLE" ELSE "SET"
                  ELSE in.kind
        keys == {KeyFor(i) : i \in nested}
        New(k) == Record(Plain(in.items[CHOOSE i \in nested : KeyFor(i) = k].data))
    IN  [s    |-> [s EXCEPT !.rec = [k \in keys \cup DOMAIN s.rec |-> IF k \in keys THEN New(k) ELSE s.rec[k]],
                            !.next = @ + Cardinality(nested)],
         data |-> [schema |-> schema, el |-> in.el, val |-> in.val, rows |-> [i \in 1 .. n |-> RowFor(i)]]]

-----------------------------------------------------------------------------
(* The engine *)

Throw(s) == [s EXCEPT !.err = TRUE]
Clear(s) == [s EXCEPT !.err = FALSE]

Live(s, k) == k \in DOMAIN s.rec /\ s.rec[k].life = "finite"

\* engine_get(), engine_get_force() with get_data_block(): the metadata of a
\* missing record is all zero, and an error of an earlier call hides the data.
Get(s, k, force) ==
    LET found == Live(s, k) \/ (force /\ k \in DOMAIN s.rec)
    IN  [s    |-> IF found THEN s ELSE Throw(s),
         meta |-> IF found THEN s.rec[k] ELSE Record(None),
         data |-> IF found /\ ~s.err THEN s.rec[k].data ELSE None]

Insert(s, k, r) == [s EXCEPT !.rec = [j \in DOMAIN s.rec \cup {k} |-> IF j = k THEN r ELSE s.rec[j]]]

SetMeta(s, k, m) ==
    IF k \notin DOMAIN s.rec \/ s.rec[k].lock THEN Throw(s)
    ELSE [s EXCEPT !.rec[k] = [m EXCEPT !.data = s.rec[k].data]]

EngineDelete(s, k) ==
    IF ~Live(s, k) THEN Throw(s)
    ELSE IF s.err THEN s
    ELSE SetMeta(s, k, [s.rec[k] EXCEPT !.life = "recycle"])

\* engine_purge() of a key that exists (see TableTree for one that does not).
EnginePurge(s, k) ==
    IF s.rec[k].lock THEN Throw(s)
    ELSE [s EXCEPT !.rec = [j \in DOMAIN @ \ {k} |-> @[j]]]

UpdateData(s, k, data) ==
    IF s.rec[k].lock THEN Throw(s) ELSE [s EXCEPT !.rec[k].data = data]

-----------------------------------------------------------------------------
(* Aliases *)

\* The walks of alias.c: the newest list first, and each list from its start.
FirstSeen(found) ==
    LET ListOf(p) == (p - 1) \div AliasListSize
    IN  IF found = {} THEN 0
        ELSE CHOOSE p \in found : \A q \in found \ {p} :
                 ListOf(p) > ListOf(q) \/ (ListOf(p) = ListOf(q) /\ p < q)

AliasesOf(s, k) == {p \in DOMAIN s.alias : s.alias[p].len /\ s.alias[p].quid = k}

AliasNamed(s, name) == {p \in DOMAIN s.alias : s.alias[p].len /\ s.alias[p].name = name}

AliasAdd(s, k, name) ==
    [s EXCEPT !.alias = Append(@, [quid |-> k, name |-> name, len |-> TRUE]),
              !.alias_size = IF s.alias = <<>> THEN 1 ELSE @ + 1]

AliasGetVal(s, k) ==
    LET p == FirstSeen(AliasesOf(s, k)) IN IF p = 0 THEN Throw(s) ELSE s

AliasGetKey(s, name) ==
    LET p == FirstSeen(AliasNamed(s, name)) IN IF p = 0 THEN None ELSE s.alias[p].quid

AliasUpdate(s, k, name) ==
    LET p == FirstSeen(AliasesOf(s, k))
    IN  IF p = 0 THEN Throw(s) ELSE [s EXCEPT !.alias[p].name = name]

AliasDeleteUncounted(s, k) ==       \* mutant: the number of aliases stays
    LET p == FirstSeen(AliasesOf(s, k))
    IN  IF p = 0 THEN Throw(s) ELSE [s EXCEPT !.alias[p].len = FALSE, !.alias[p].quid = 0]

AliasDelete(s, k) ==
    LET p == FirstSeen(AliasesOf(s, k))
    IN  IF p = 0 THEN Throw(s)
        ELSE [s EXCEPT !.alias[p].len = FALSE, !.alias[p].quid = 0, !.alias_size = @ - 1]

\* The entries that alias_all() lists.
AliasAll(s) == {p \in DOMAIN s.alias : s.alias[p].len}

-----------------------------------------------------------------------------
(* Indexes *)

\* An entry of the list is skipped once its element and offset are zero.  One
\* list suffices: load.keys is below INDEX_LIST_SIZE.
Listed(s) == {p \in DOMAIN s.ilist : s.ilist[p].el # None}

First(found) == IF found = {} THEN 0 ELSE CHOOSE p \in found : \A q \in found : p <= q

OnGroup(s, g) == First({p \in Listed(s) : s.ilist[p].group = g})

EntryOf(s, i) == First({p \in Listed(s) : s.ilist[p].index = i})

IndexListAdd(s, i, g, e, offset) ==
    [s EXCEPT !.ilist = Append(@, [index |-> i, group |-> g, el |-> e, offset |-> offset]),
              !.index_list_size = IF s.ilist = <<>> THEN 1 ELSE @ + 1]

\* index_list_delete() clears 64 bytes from the element on, which are the rest
\* of the entry and the index, the group and the offset of the next one.
IndexListDelete(s, i) ==
    LET p == EntryOf(s, i)
        Zeroed(q) == IF q = p THEN [index |-> 0, group |-> 0, el |-> None, offset |-> 0]
                     ELSE IF q = p + 1 THEN [s.ilist[q] EXCEPT !.index = 0, !.group = 0, !.offset = 0]
                     ELSE s.ilist[q]
    IN  IF p = 0 THEN Throw(s)
        ELSE [s EXCEPT !.ilist = [q \in DOMAIN @ |-> Zeroed(q)], !.index_list_size = @ - 1]

\* index_btree_create_table(): the values that rows have for the element.
Indexed(s, data, e) ==
    {i \in DOMAIN data.rows : /\ Live(s, data.rows[i].key)
                              /\ s.rec[data.rows[i].key].data.el = e}

Contents(s, data, e) ==
    [v \in Vals |-> Cardinality({i \in Indexed(s, data, e) : s.rec[data.rows[i].key].data.val = v})]

\* index_add() (d = 1) or index_delete() (d = -1) of a value in the first index
\* on a group, if that is on element e.  index_list_on_group() looks up the
\* alias of the group on the way.
OnFirstIndexAddsOnly(s, g, e, v, d) ==      \* mutant: a removal leaves the index
    LET p == OnGroup(s, g)
    IN  IF p = 0 \/ d < 0 THEN s
        ELSE IF s.ilist[p].el # e \/ s.ilist[p].offset = 0 THEN s
        ELSE [s EXCEPT !.tree[s.ilist[p].offset][v] = @ + d]

OnFirstIndex(s, g, e, v, d) ==
    LET p == OnGroup(s, g)
        t == AliasGetVal(s, g)
    IN  IF p = 0 THEN s
        ELSE IF s.ilist[p].el # e THEN t
        ELSE IF s.ilist[p].offset = 0 THEN [t EXCEPT !.dead = TRUE]
        ELSE [t EXCEPT !.tree[s.ilist[p].offset][v] = IF @ + d < 0 THEN 0 ELSE @ + d]

\* A new tree for a table; its offset is its number.  The code looks for the
\* element among the children of a row, of which a scalar has none.  For a set,
\* an element that is no position is an error, and there is no tree.
Build(s, data, e) ==
    IF data.schema # "TABLE" THEN Throw(s)
    ELSE [s EXCEPT !.tree = Append(@, Contents(s, data, e)),
                   !.dead = @ \/ \E k \in KeysOf(data) : Live(s, k) /\ s.rec[k].data.schema = "FIELD"]

OffsetOf(s, data) == IF data.schema = "TABLE" THEN Len(s.tree) ELSE 0

\* engine_insert_meta(), alias_add() and index_list_add() of a new index.
AddIndex(s, g, data, e) ==
    LET i == s.next
        t == Build([s EXCEPT !.next = @ + 1], data, e)
        u == Insert(t, i, [Record(None) EXCEPT !.type = "INDEX", !.alias = TRUE])
    IN  IndexListAdd(AliasAdd(u, i, i), i, g, e, OffsetOf(t, data))

\* The trees of the indexes on a group, and of those that are not its first.
TreesOf(s, g) == {s.ilist[p].offset : p \in {q \in Listed(s) : s.ilist[q].group = g}}
OtherTrees(s, g) ==
    {s.ilist[p].offset : p \in {q \in Listed(s) : s.ilist[q].group = g /\ q # OnGroup(s, g)}}

-----------------------------------------------------------------------------
(* Requests *)

\* Rows that a group lists; slay_get() with descent of a row that is missing
\* gives a null pointer, which its callers follow.
Broken(s, data) == IsGroup(data) /\ \E k \in KeysOf(data) : ~Live(s, k)

\* slay_get() with descent: the data as a client would send it.
Expand(s, data) ==
    LET Sent(d) == [kind |-> d.schema, el |-> d.el, val |-> d.val, items |-> <<>>]
        ItemFor(r) == Item(r.name, IF r.key = 0 THEN Field(r.val)
                                   ELSE IF Live(s, r.key) THEN Sent(s.rec[r.key].data)
                                   ELSE Field(None))
    IN  [kind  |-> CASE data.schema = "TABLE" -> "ARRAY" [] data.schema = "SET" -> "OBJECT"
                     [] OTHER -> data.schema,
         el    |-> data.el, val |-> data.val,
         items |-> [i \in DOMAIN data.rows |-> ItemFor(data.rows[i])]]

MakeGroupUntyped(s, k, meta) ==      \* mutant: the type stays
    SetMeta(AliasAdd(s, k, k), k, [meta EXCEPT !.alias = TRUE])

\* A group gets its key as its alias.
MakeGroup(s, k, meta) ==
    SetMeta(AliasAdd(s, k, k), k, [meta EXCEPT !.type = "GROUP", !.alias = TRUE])

DbPut(s, in) ==
    LET k == s.next
        put == SlayPut([s EXCEPT !.next = @ + 1], in)
        t == Insert([put.s EXCEPT !.top = @ \cup {k}], k, Record(put.data))
    IN  IF IsGroup(put.data) THEN MakeGroup(t, k, t.rec[k]) ELSE t

\* One row of a group that is updated, deleted or purged with its rows.
DropRow(s, k, how) ==
    LET g == Get(s, k, FALSE)
    IN  Clear(CASE how = "update" -> EngineDelete(IF g.meta.alias THEN AliasDelete(g.s, k) ELSE g.s, k)
                [] how = "delete" -> EngineDelete(s, k)
                [] how = "purge"  -> EnginePurge(s, k))

DropRows(s, data, how) ==
    LET rows == data.rows
        Dropped[i \in 0 .. Len(rows)] ==
            IF i = 0 THEN s
            ELSE IF rows[i].key = 0 THEN Dropped[i - 1]
            ELSE DropRow(Dropped[i - 1], rows[i].key, how)
    IN  IF data.schema = "FIELD" THEN [s EXCEPT !.dead = TRUE] ELSE Dropped[Len(rows)]

DbUpdate(s, k, in, descent) ==
    LET g == Get(s, k, FALSE)
        t == IF g.meta.type = "GROUP" /\ descent THEN DropRows(s, g.data, "update") ELSE s
        put == SlayPut(t, in)
        u == UpdateData(put.s, k, put.data)
    IN  IF g.s.err \/ g.meta.type \notin {"RECORD", "GROUP"} THEN Throw(s)
        ELSE IF u.err THEN u
        ELSE LET w == [u EXCEPT !.stale = @ \cup TreesOf(s, k)]
             IN  IF IsGroup(put.data) /\ g.meta.type # "GROUP" THEN MakeGroup(w, k, g.meta)
                 ELSE IF ~IsGroup(put.data) /\ g.meta.type = "GROUP" THEN AliasDelete(w, k)
                 ELSE w

\* index_list_get_element(): the elements of the indexes on a group, and for
\* each of them an index on the copy.
CopyIndexes(s, t, g, copy, data) ==
    LET Copied[i \in 0 .. Len(s.ilist)] ==
            IF i = 0 THEN t
            ELSE IF s.ilist[i].el = None \/ s.ilist[i].group # g THEN Copied[i - 1]
            ELSE AddIndex(Copied[i - 1], copy, data, s.ilist[i].el)
    IN  Copied[Len(s.ilist)]

\* db_duplicate(): the indexes of the copy are built from the rows of the
\* original.
DbDuplicate(s, k, copy_meta) ==
    LET g == Get(s, k, FALSE)
        n == s.next
        put == SlayPut([s EXCEPT !.next = @ + 1], Expand(s, g.data))
        t == Insert([put.s EXCEPT !.top = @ \cup {n}], n, Record(put.data))
        meta == IF copy_meta THEN g.meta ELSE Record(None)
        u == IF copy_meta THEN CopyIndexes(s, t, k, n, g.data) ELSE t
    IN  IF g.meta.type \notin {"RECORD", "GROUP"} \/ g.data = None THEN s
        ELSE IF Broken(s, g.data) THEN [s EXCEPT !.dead = TRUE]
        ELSE IF IsGroup(put.data) THEN MakeGroup(Clear(u), n, meta)
        ELSE SetMeta(t, n, meta)

\* The loop over the indexes of a group that goes.
DropIndexesNot(s, g) == s            \* mutant: the indexes stay in the list

DropIndex(s, g) ==
    LET p == OnGroup(s, g)
    IN  IF p = 0 THEN s
        ELSE IndexListDelete(AliasDelete(s, s.ilist[p].index), s.ilist[p].index)

DropIndexesError(s, g) ==            \* mutant: the error at the end of the loop stays
    LET Left[i \in 0 .. Len(s.ilist)] == IF i = 0 THEN s ELSE DropIndex(Left[i - 1], g)
    IN  Throw(Left[Len(s.ilist)])

DropIndexes(s, g) ==
    LET Left[i \in 0 .. Len(s.ilist)] == IF i = 0 THEN s ELSE DropIndex(Left[i - 1], g)
    IN  Clear(Left[Len(s.ilist)])

\* What db_delete() and db_purge() do before the record itself goes.
DetachNamed(s, k, meta, descent, how) ==     \* mutant: the alias stays
    CASE meta.type = "GROUP" -> DropIndexes(IF descent THEN DropRows(s, meta.data, how) ELSE s, k)
      [] meta.type = "INDEX" -> IndexListDelete(s, k)
      [] OTHER -> s

Detach(s, k, meta, descent, how) ==
    LET t == CASE meta.type = "GROUP" -> DropIndexes(IF descent THEN DropRows(s, meta.data, how) ELSE s, k)
               [] meta.type = "INDEX" -> IndexListDelete(s, k)
               [] OTHER -> s
    IN  IF meta.alias THEN AliasDelete(t, k) ELSE t

DbDelete(s, k, descent) ==
    LET g == Get(s, k, FALSE)
    IN  EngineDelete(Detach(g.s, k, g.meta, descent, "delete"), k)

DbPurge(s, k, descent) ==
    LET g == Get(s, k, TRUE)
    IN  EnginePurge(Detach(g.s, k, g.meta, descent, "purge"), k)

\* db_item_add() to a table or a set.
DbItemAdd(s, k, in) ==
    LET data == s.rec[k].data
        n == s.next
        row == IF data.schema = "SET" THEN Field(in.val) ELSE in
        name == IF data.schema = "TABLE" THEN None ELSE IF in.kind = "OBJECT" THEN in.el ELSE n
        t == Insert([s EXCEPT !.next = @ + 1], n, Record(Plain(row)))
        u == IF data.schema = "TABLE" /\ in.kind = "OBJECT" THEN OnFirstIndex(t, k, in.el, in.val, 1) ELSE t
    IN  IF u.err THEN u
        ELSE UpdateData([u EXCEPT !.stale = @ \cup OtherTrees(s, k)], k,
                        [data EXCEPT !.rows = Append(@, Row(name, n, None))])

\* db_item_remove(): the row it removes.  A row that is missing raises an error
\* that hides the rows after it; of a set, only the first row with the name is
\* looked at.
RemovedNamed(s, data, in) ==         \* mutant: of a set, the name alone decides
    LET seen == {i \in DOMAIN data.rows : \A j \in 1 .. i : Live(s, data.rows[j].key)}
        Same(i) == LET d == s.rec[data.rows[i].key].data IN d.schema = in.kind /\ d.el = in.el /\ d.val = in.val
    IN  IF data.schema = "TABLE" THEN First({i \in seen : Same(i)})
        ELSE First({i \in seen : data.rows[i].name = in.el})

Removed(s, data, in) ==
    LET Same(i) == LET d == s.rec[data.rows[i].key].data
                       x == IF data.schema = "SET" THEN Field(in.val) ELSE in
                   IN  d.schema = x.kind /\ d.el = x.el /\ d.val = x.val
        seen == {i \in DOMAIN data.rows : \A j \in 1 .. i : Live(s, data.rows[j].key)}
        first == First({i \in seen : data.rows[i].name = in.el})
    IN  IF data.schema = "TABLE" THEN First({i \in seen : Same(i)})
        ELSE IF in.kind = "OBJECT" /\ first # 0 /\ Same(first) THEN first
        ELSE 0

DbItemRemoveListed(s, k, in) ==      \* mutant: the group is not written back
    LET i == Removed(s, s.rec[k].data, in)
    IN  IF i = 0 THEN s ELSE EngineDelete(s, s.rec[k].data.rows[i].key)

DbItemRemove(s, k, in) ==
    LET data == s.rec[k].data
        i == Removed(s, data, in)
        r == data.rows[i].key
        t == IF data.schema = "TABLE" /\ in.kind = "OBJECT" THEN OnFirstIndex(s, k, in.el, in.val, -1) ELSE s
        u == EngineDelete(t, r)
        w == IF s.rec[r].alias THEN AliasDelete(u, r) ELSE u
    IN  IF i = 0 THEN s
        ELSE IF data.schema = "TABLE" /\ Len(data.rows) = 1 THEN [w EXCEPT !.dead = TRUE]
        ELSE UpdateData([w EXCEPT !.stale = @ \cup OtherTrees(s, k)], k,
                        [data EXCEPT !.rows = RemoveAt(@, i)])

\* db_record_set_meta() after db_record_get_meta(), which looks up the alias.
DbSetMeta(s, k, lock) ==
    IF s.rec[k].alias /\ AliasesOf(s, k) = {} THEN [s EXCEPT !.dead = TRUE]
    ELSE SetMeta(s, k, [Record(None) EXCEPT !.lock = lock])

DbAliasUpdateTaken(s, k, name) ==    \* mutant: the name may be in use
    LET g == Get(s, k, FALSE)
    IN  IF g.meta.alias THEN AliasUpdate(s, k, name)
        ELSE SetMeta(AliasAdd(g.s, k, name), k, [g.meta EXCEPT !.alias = TRUE])

DbAliasUpdate(s, k, name) ==
    LET g == Get(s, k, FALSE)
    IN  IF AliasGetKey(s, name) # None THEN s
        ELSE IF g.meta.alias THEN AliasUpdate(s, k, name)
        ELSE SetMeta(AliasAdd(g.s, k, name), k, [g.meta EXCEPT !.alias = TRUE])

DbIndexCreate(s, g, e) ==
    LET data == s.rec[g].data
    IN  IF Len(data.rows) < 2 THEN s
        ELSE IF Cardinality(Indexed(s, data, e)) >= 2 /\ data.schema = "TABLE" THEN AddIndex(s, g, data, e)
        ELSE [s EXCEPT !.dead = Build(s, data, e).dead]

\* index_list_update_offset()
UpdateOffset(s, i, offset) ==
    IF EntryOf(s, i) = 0 THEN Throw(s) ELSE [s EXCEPT !.ilist[EntryOf(s, i)].offset = offset]

\* The new tree takes the number of the old one, which nothing refers to.
DbIndexRebuild(s, i) ==
    LET p == EntryOf(s, i)
        e == s.ilist[p].el
        g == Get(s, s.ilist[p].group, FALSE)
        t == Build(s, g.data, e)
        old == s.ilist[p].offset
    IN  IF p = 0 THEN [s EXCEPT !.dead = TRUE]
        ELSE IF g.data = None THEN s
        ELSE IF g.data.schema # "TABLE" \/ Cardinality(Indexed(s, g.data, e)) < 2
        THEN [s EXCEPT !.dead = t.dead]
        ELSE IF old = 0 THEN UpdateOffset(t, i, Len(t.tree))
        ELSE [s EXCEPT !.tree[old] = Contents(s, g.data, e), !.stale = @ \ {old}, !.dead = t.dead]

\* alias_rebuild() of a base with one list, into t.
AliasRebuild(s, t) ==
    LET Again[i \in 0 .. Len(s.alias)] ==
            IF i = 0 THEN t
            ELSE IF s.alias[i].len THEN AliasAdd(Again[i - 1], s.alias[i].quid, s.alias[i].name)
            ELSE Again[i - 1]
    IN  Again[Len(s.alias)]

\* An entry of the list again.  A group that is missing raises an error that
\* hides the groups after it.
IndexAgain(u, x) ==
    LET g == Get(u, x.group, FALSE)
        w == Build(u, g.data, x.el)
    IN  IF x.el = None THEN u
        ELSE IF g.meta.type # "GROUP" \/ g.data = None THEN g.s
        ELSE IF ~IsGroup(g.data) THEN u
        ELSE IndexListAdd(w, x.index, x.group, x.el, OffsetOf(w, g.data))

IndexListRebuild(s, t) ==
    LET Again[i \in 0 .. Len(s.ilist)] == IF i = 0 THEN t ELSE IndexAgain(Again[i - 1], s.ilist[i])
    IN  Again[Len(s.ilist)]

\* zvacuum(): a new base with the live records, and the lists again.
Vacuumed(s) ==
    LET copy == [s EXCEPT !.rec = [k \in {j \in DOMAIN @ : Live(s, j)} |-> @[k]],
                          !.alias = <<>>, !.alias_size = 0,
                          !.ilist = <<>>, !.index_list_size = 0, !.tree = <<>>, !.stale = {}]
    IN  IndexListRebuild(s, AliasRebuild(s, copy))

\* db_get() with descent, of a record or a group.
DbGet(s, k) ==
    LET g == Get(s, k, FALSE)
    IN  IF g.meta.type \notin {"RECORD", "GROUP"} \/ g.data = None THEN None ELSE Expand(s, g.data)

\* db_get_type() and db_get_schema()
DbGetSchema(s, k) == LET g == Get(s, k, FALSE) IN IF g.data = None THEN None ELSE g.data.schema

DbGetType(s, k) == CASE DbGetSchema(s, k) = "TABLE" -> "ARRAY"
                     [] DbGetSchema(s, k) = "SET" -> "OBJECT"
                     [] OTHER -> DbGetSchema(s, k)

\* db_count_group() of a group
DbCountGroup(s, k) ==
    LET g == Get(s, k, FALSE)
    IN  IF g.meta.type # "GROUP" \/ g.data = None THEN -1 ELSE Len(g.data.rows)

\* The name that db_record_get_meta() and db_alias_get_name() report.
DbAliasGetName(s, k) ==
    LET p == FirstSeen(AliasesOf(s, k)) IN IF p = 0 THEN None ELSE s.alias[p].name

DbAliasGetData(s, name) ==
    LET k == AliasGetKey(s, name) IN IF k = None THEN None ELSE DbGet(s, k)

-----------------------------------------------------------------------------
(* The server *)

\* A base that bootstrap() has put its locked record in.
Init == /\ load \in Workloads
        /\ db = [rec |-> <<[Record(None) EXCEPT !.type = "RAW", !.lock = TRUE]>>,
                 alias |-> <<>>, alias_size |-> 0, ilist |-> <<>>, index_list_size |-> 0,
                 tree |-> <<>>, stale |-> {}, top |-> {}, next |-> 2, err |-> FALSE, dead |-> FALSE]

\* A request of a kind that this base gets, up to a bound on the keys that
\* quid_create() makes and on the entries in the lists of aliases; the error
\* flag is cleared after it.
Reply(op, s) == /\ op \in load.ops
                /\ ~db.dead
                /\ s.next <= load.keys + 1
                /\ Len(s.alias) <= load.aliases
                /\ db' = Clear(s)
                /\ UNCHANGED load

\* A clean workload names the keys that its clients were given.
Clean(k) == load.clean => k \in db.top \/ db.rec[k].type = "INDEX"

Records == {k \in DOMAIN db.rec : Live(db, k) /\ Clean(k)}
Groups == {k \in Records : db.rec[k].type = "GROUP" /\ IsGroup(db.rec[k].data)}

Put == \E in \in load.inputs : Reply("put", DbPut(db, in))

\* In a clean workload a group stays one, and a record with an alias of its own
\* does not become one.
Update ==
    \E k \in Records, in \in load.inputs, descent \in BOOLEAN :
        /\ load.clean => \/ IsGroup(SlayPut(db, in).data) <=> db.rec[k].type = "GROUP"
                         \/ ~db.rec[k].alias
        /\ Reply("update", DbUpdate(db, k, in, descent))

\* In a clean workload the metadata of a record with an alias is not copied.
Duplicate ==
    \E k \in Records, copy_meta \in BOOLEAN :
        /\ load.clean /\ copy_meta /\ db.rec[k].alias => k \in Groups /\ IsGroup(SlayPut(db, Expand(db, db.rec[k].data)).data)
        /\ Reply("dup", DbDuplicate(db, k, copy_meta))

Delete(k, descent) ==
    /\ k \in Records
    /\ Reply("delete", DbDelete(db, k, descent))

\* Keys that do not exist are not purged; module TableTree shows what happens.
Purge(k, descent) ==
    /\ k \in DOMAIN db.rec /\ Clean(k)
    /\ descent /\ db.rec[k].type = "GROUP" =>
           IsGroup(db.rec[k].data) /\ KeysOf(db.rec[k].data) \subseteq DOMAIN db.rec
    /\ Reply("purge", DbPurge(db, k, descent))

ItemAdd == \E k \in Groups, in \in load.items : Reply("item", DbItemAdd(db, k, in))

\* In a clean workload a table keeps a row.
ItemRemove ==
    \E k \in Groups, in \in load.items :
        /\ ~db.rec[k].lock
        /\ load.clean => Len(db.rec[k].data.rows) > 1
        /\ Reply("item", DbItemRemove(db, k, in))

\* A clean workload leaves the metadata alone.
SetMetadata ==
    \E k \in Records, lock \in BOOLEAN :
        /\ ~load.clean
        /\ Reply("setmeta", DbSetMeta(db, k, lock))

\* A clean workload names records that exist.
Alias ==
    \E k \in DOMAIN db.rec, name \in Names :
        /\ load.clean => k \in Records
        /\ Reply("alias", DbAliasUpdate(db, k, name))

IndexCreate == \E k \in Groups, e \in Elements : Reply("index", DbIndexCreate(db, k, e))

\* A clean workload rebuilds indexes that are in the list.
IndexRebuild ==
    \E k \in Records :
        /\ db.rec[k].type = "INDEX"
        /\ load.clean => EntryOf(db, k) # 0
        /\ Reply("rebuild", DbIndexRebuild(db, k))

\* With a second list of aliases alias_rebuild() does not end.
Vacuum == /\ Len(db.alias) < AliasListSize
          /\ Reply("vacuum", Vacuumed(db))

Next ==
    \/ Put
    \/ Update
    \/ Duplicate
    \/ \E k \in DOMAIN db.rec, descent \in BOOLEAN : Delete(k, descent)
    \/ \E k \in DOMAIN db.rec, descent \in BOOLEAN : Purge(k, descent)
    \/ ItemAdd
    \/ ItemRemove
    \/ SetMetadata
    \/ Alias
    \/ IndexCreate
    \/ IndexRebuild
    \/ Vacuum

Spec == Init /\ [][Next]_vars

-----------------------------------------------------------------------------
(* Properties *)

TypeOK ==
    /\ load \in Workloads
    /\ DOMAIN db.rec \subseteq 1 .. db.next - 1
    /\ \A k \in DOMAIN db.rec :
         /\ db.rec[k].type \in {"RECORD", "GROUP", "INDEX", "RAW"}
         /\ db.rec[k].life \in {"finite", "recycle"}
         /\ {db.rec[k].alias, db.rec[k].lock} \subseteq BOOLEAN
         /\ db.rec[k].data # None => KeysOf(db.rec[k].data) \subseteq 0 .. db.next - 1
    /\ \A p \in DOMAIN db.alias : db.alias[p].quid \in 0 .. db.next - 1
    /\ \A p \in DOMAIN db.ilist : db.ilist[p].offset \in 0 .. Len(db.tree)
    /\ ~db.err

(***************************************************************************)
(* alias_all() and index_list_all() allocate as many children as alias_size*)
(* and index_list_size say and then store one for every entry they meet:   *)
(* the counters are the number of entries, whatever the requests.          *)
(***************************************************************************)
ListsFit ==
    /\ db.alias_size = Cardinality(AliasAll(db))
    /\ db.index_list_size = Cardinality(Listed(db))

(***************************************************************************)
(* Requests on a base implement DocStore: in a clean workload, db_get() of *)
(* the keys that db_put() and db_duplicate() gave returns what was sent,   *)
(* attached and detached, whatever happens to other records, groups, names *)
(* and indexes, and over a vacuum.                                         *)
(***************************************************************************)
DocsOf(s) == [k \in {j \in s.top : Live(s, j)} |-> DbGet(s, k)]

D == INSTANCE DocStore WITH
        Inputs <- UNION {l.inputs : l \in Workloads},
        Attached <- UNION {l.items : l \in Workloads},
        FieldOf <- Field,
        docs <- IF load.clean THEN DocsOf(db) ELSE <<>>

Documents == D!Spec

(***************************************************************************)
(* The ways to ask for a document agree in a clean workload: its type, its *)
(* schema, its number of items and its name, which leads back to it.       *)
(***************************************************************************)
ReadsAgree ==
    load.clean => \A k \in DOMAIN DocsOf(db) :
        LET d == DbGet(db, k)
        IN  /\ DbGetType(db, k) = d.kind
            /\ DbGetSchema(db, k) \in {"TABLE", "SET"} <=> db.rec[k].type = "GROUP"
            /\ db.rec[k].type = "GROUP" => DbCountGroup(db, k) = Len(d.items)
            /\ db.rec[k].alias => DbAliasGetData(db, DbAliasGetName(db, k)) = d

(***************************************************************************)
(* db_alias_get_data(): the name of an alias leads to the record that has  *)
(* it, whatever the requests; no other record can take the name.           *)
(***************************************************************************)
NamesResolve ==
    \A p \in DOMAIN db.alias : db.alias[p].len => AliasGetKey(db, db.alias[p].name) = db.alias[p].quid

(***************************************************************************)
(* "Key is aliased" (struct metadata): in a clean workload, a live record  *)
(* is marked as aliased exactly if it has one alias, which is what         *)
(* db_record_get_meta() and db_delete() rely on, and no alias is left of a *)
(* record that is gone.                                                    *)
(***************************************************************************)
AliasExact ==
    load.clean =>
      /\ \A k \in DOMAIN db.rec : Live(db, k) /\ db.rec[k].type # "INDEX" =>
             Cardinality(AliasesOf(db, k)) = IF db.rec[k].alias THEN 1 ELSE 0
      /\ \A p \in DOMAIN db.alias : db.alias[p].len => Live(db, db.alias[p].quid)

(***************************************************************************)
(* A row belongs to one record: whatever the requests, what db_delete(),   *)
(* db_purge() and db_item_remove() take as rows of one record is not       *)
(* listed by another one, deleted ones included.                           *)
(***************************************************************************)
RowsApart ==
    \A k, l \in DOMAIN db.rec : k # l => RowKeys(db.rec[k]) \cap RowKeys(db.rec[l]) \subseteq {0}

(***************************************************************************)
(* slay_get() follows the rows of a group: in a clean workload they are    *)
(* live.  Whatever the requests, no two records share a row.               *)
(***************************************************************************)
RowsAlive ==
    /\ load.clean => \A k \in DOMAIN db.rec :
           Live(db, k) /\ db.rec[k].type = "GROUP" => ~Broken(db, db.rec[k].data)
    /\ RowsApart

(***************************************************************************)
(* db_delete() and db_purge() take the indexes of a group with it: in a    *)
(* clean workload an index in the list is on a live group, or is lost.     *)
(***************************************************************************)
IndexesOnGroups ==
    load.clean => \A p \in Listed(db) : db.ilist[p].group # 0 => Live(db, db.ilist[p].group)

(***************************************************************************)
(* In a clean workload, the first index on a table has the values that the *)
(* rows of the table have, since it was built or the table last replaced.  *)
(***************************************************************************)
IndexCurrent ==
    load.clean => \A g \in DOMAIN db.rec :
        LET p == OnGroup(db, g)
            x == db.ilist[p]
            data == db.rec[g].data
        IN  (p # 0 /\ x.offset \notin db.stale \cup {0} /\ data.schema = "TABLE")
                => db.tree[x.offset] = Contents(db, data, x.el)

(***************************************************************************)
(* "Delete dataset by key": in a clean workload db_delete() of any record  *)
(* or group would succeed; no error of a helper keeps the record.          *)
(***************************************************************************)
DeleteTakes ==
    load.clean => \A k \in Records, descent \in BOOLEAN :
        db.rec[k].type # "INDEX" => ~Live(DbDelete(db, k, descent), k)

(***************************************************************************)
(* "Key represents a table or set" (enum key_type): the type of a live     *)
(* record agrees with the schema of its data.                              *)
(***************************************************************************)
TypeHonest ==
    \A k \in DOMAIN db.rec : Live(db, k) /\ db.rec[k].data # None =>
        (db.rec[k].type = "GROUP" <=> IsGroup(db.rec[k].data))
=============================================================================
