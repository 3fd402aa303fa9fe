--------------------------- MODULE DatabaseProofs ---------------------------
(***************************************************************************)
(* Theorems about Database: whatever the requests, the counters of the two *)
(* lists are the number of their entries, the names of aliases lead to     *)
(* their records, and no two records share a row.  Before them, what       *)
(* helpers do to what agrees in clean workloads, for DatabaseCleanProofs.  *)
(***************************************************************************)
EXTENDS Database, FiniteSetTheorems, WellFoundedInduction, TLAPS

-----------------------------------------------------------------------------
(* The invariant *)

\* Records with the fields that their constructors give them, and sequences.
IsBase(s) ==
    s = [f \in {"rec", "alias", "alias_size", "ilist", "index_list_size", "tree", "stale", "top", "next",
                "err", "dead"} |-> s[f]]
IsRecord(r) == r = [f \in {"type", "alias", "lock", "life", "data"} |-> r[f]]
IsData(d) == d = [f \in {"schema", "el", "val", "rows"} |-> d[f]]
IsAlias(a) == a = [f \in {"quid", "name", "len"} |-> a[f]]
IsEntry(x) == x = [f \in {"index", "group", "el", "offset"} |-> x[f]]
IsSeq(q) == q \in Seq({q[i] : i \in DOMAIN q})

\* Data with rows, and a record with data or none, which a group has.
Whole(d) == IsData(d) /\ IsSeq(d.rows)

RecordOK(r) == /\ IsRecord(r)
               /\ r.data = None \/ Whole(r.data)
               /\ r.type = "GROUP" => Whole(r.data)

\* Rows have keys that were given out, and belong to one record.
RecordsOK(s) ==
    /\ IsBase(s)
    /\ s.next \in Nat \ {0}
    /\ DOMAIN s.rec \subseteq Nat
    /\ \A k \in DOMAIN s.rec : RecordOK(s.rec[k]) /\ RowKeys(s.rec[k]) \subseteq 0 .. s.next - 1
    /\ \A k, l \in DOMAIN s.rec : k # l => RowKeys(s.rec[k]) \cap RowKeys(s.rec[l]) \subseteq {0}

\* An alias has a name that a client gave it or is named after its key, and
\* aliases of one name are of one record.
AliasOK(a) == /\ IsAlias(a)
              /\ a.len \in BOOLEAN
              /\ a.len => a.quid \in Nat /\ (a.name \in Names \/ a.name = a.quid)

AliasesOK(s) ==
    /\ IsSeq(s.alias)
    /\ \A p \in DOMAIN s.alias : AliasOK(s.alias[p])
    /\ \A p, q \in AliasAll(s) : s.alias[p].name = s.alias[q].name => s.alias[p].quid = s.alias[q].quid
    /\ s.alias_size = Cardinality(AliasAll(s))

IndexesOK(s) ==
    /\ IsSeq(s.ilist)
    /\ \A p \in DOMAIN s.ilist : IsEntry(s.ilist[p])
    /\ s.index_list_size = Cardinality(Listed(s))

Good(s) == RecordsOK(s) /\ AliasesOK(s) /\ IndexesOK(s)

Inv == Good(db) /\ ~db.err /\ load \in Workloads

-----------------------------------------------------------------------------
(* Sequences and sets of places in them *)

\* A set of natural numbers has a least element.
LEMMA LeastExists ==
    ASSUME NEW S, S \subseteq Nat, S # {}
    PROVE  \E x \in S : \A y \in S : x <= y
<1>1. \E x \in S : \A y \in S : ~(<<y, x>> \in OpToRel(<, Nat))
  BY NatLessThanWellFounded, WFMin, Zenon
<1>2. PICK x \in S : \A y \in S : ~(<<y, x>> \in OpToRel(<, Nat))
  BY <1>1, Zenon
<1>3. \A y \in S : x \in Nat /\ y \in Nat /\ ~(y < x)
  BY <1>2, Zenon DEF OpToRel
<1>4. \A y \in S : x <= y
  BY <1>3
<1> QED BY <1>4, Zenon

\* The turns of a loop, one after the other.
LEMMA Turns ==
    ASSUME NEW n \in Nat, NEW I, 0 \in I, \A i \in 1 .. n : i - 1 \in I => i \in I
    PROVE  n \in I
<1> DEFINE S == {i \in 0 .. n : i \notin I}
<1> SUFFICES ASSUME n \notin I PROVE FALSE
  OBVIOUS
<1>1. S \subseteq Nat /\ n \in S
  OBVIOUS
<1>2. PICK x \in S : \A y \in S : x <= y
  BY <1>1, LeastExists
<1>3. x \in 1 .. n /\ x - 1 \in 0 .. n /\ x - 1 \notin S
  BY <1>2
<1> QED BY <1>2, <1>3

LEMMA SeqPlaces ==
    ASSUME NEW q, IsSeq(q)
    PROVE  Len(q) \in Nat /\ DOMAIN q = 1 .. Len(q)
  BY DEF IsSeq

\* Append() adds a place, and the others keep what they have.
LEMMA SeqAppend ==
    ASSUME NEW q, NEW e, IsSeq(q)
    PROVE  /\ IsSeq(Append(q, e))
           /\ DOMAIN Append(q, e) = DOMAIN q \cup {Len(q) + 1}
           /\ Len(q) + 1 \notin DOMAIN q
           /\ \A i \in DOMAIN q : Append(q, e)[i] = q[i]
           /\ Append(q, e)[Len(q) + 1] = e
  BY DEF IsSeq

LEMMA SeqMade ==
    ASSUME NEW n \in Nat, NEW r, DOMAIN r = 1 .. n, r = [i \in DOMAIN r |-> r[i]]
    PROVE  IsSeq(r)
  BY DEF IsSeq

LEMMA SeqExcept ==
    ASSUME NEW q, IsSeq(q), NEW p, NEW e
    PROVE  /\ IsSeq([q EXCEPT ![p] = e])
           /\ DOMAIN [q EXCEPT ![p] = e] = DOMAIN q
           /\ \A i \in DOMAIN q : [q EXCEPT ![p] = e][i] = IF i = p THEN e ELSE q[i]
<1> DEFINE r == [q EXCEPT ![p] = e]
<1>1. DOMAIN r = DOMAIN q /\ r = [i \in DOMAIN r |-> r[i]]
  OBVIOUS
<1>2. \A i \in DOMAIN q : r[i] = IF i = p THEN e ELSE q[i]
  OBVIOUS
<1>3. IsSeq(r)
  <2> HIDE DEF r
  <2> QED BY <1>1, SeqPlaces, SeqMade
<1> QED BY <1>1, <1>2, <1>3

\* The places of a list that are in use, with one more or one less.
LEMMA CountPlaces ==
    ASSUME NEW n \in Nat, NEW S, S \subseteq 1 .. n
    PROVE  /\ IsFiniteSet(S) /\ Cardinality(S) \in Nat
           /\ \A p : p \notin S => Cardinality(S \cup {p}) = Cardinality(S) + 1
           /\ \A p \in S : Cardinality(S \ {p}) = Cardinality(S) - 1
<1>1. IsFiniteSet(1 .. n)
  BY FS_Interval
<1>2. IsFiniteSet(S)
  BY <1>1, FS_Subset
<1> QED BY <1>2, FS_CardinalityType, FS_AddElement, FS_RemoveElement

\* The walk over the lists of aliases ends at one of the entries looked for
\* (alias.c).
LEMMA SeenIsFound ==
    ASSUME NEW n \in Nat, NEW found, found \subseteq 1 .. n, found # {}
    PROVE  FirstSeen(found) \in found /\ FirstSeen(found) # 0
<1> DEFINE ListOf(p) == (p - 1) \div AliasListSize
           far == {n - ListOf(p) : p \in found}
<1>1. \A p \in 1 .. n : ListOf(p) \in Nat /\ ListOf(p) <= n
  <2> SUFFICES ASSUME NEW p \in 1 .. n PROVE ListOf(p) \in Nat /\ ListOf(p) <= n
    OBVIOUS
  <2>1. AliasListSize \in Nat /\ AliasListSize > 0
    BY DatabaseAssumption
  <2>2. ListOf(p) \in Nat
    BY <2>1
  <2>3. AliasListSize * ListOf(p) <= p - 1
    BY <2>1
  <2>4. ListOf(p) <= AliasListSize * ListOf(p)
    BY <2>1, <2>2
  <2> QED BY <2>1, <2>2, <2>3, <2>4
<1> HIDE DEF ListOf
<1>2. far \subseteq Nat /\ far # {}
  <2>1. PICK p \in found : TRUE
    OBVIOUS
  <2>2. n - ListOf(p) \in far
    BY <2>1
  <2>3. \A q \in found : n - ListOf(q) \in Nat
    BY <1>1
  <2> QED BY <2>2, <2>3
<1>3. PICK x \in far : \A y \in far : x <= y
  BY <1>2, LeastExists
<1> DEFINE last == {p \in found : n - ListOf(p) = x}
<1>4. last \subseteq Nat /\ last # {}
  <2>1. PICK p \in found : x = n - ListOf(p)
    BY <1>3
  <2>2. p \in last
    BY <2>1
  <2>3. last \subseteq 1 .. n
    OBVIOUS
  <2> QED BY <2>2, <2>3
<1>5. PICK p \in last : \A q \in last : p <= q
  BY <1>4, LeastExists
<1>6. p \in found /\ \A q \in found \ {p} : ListOf(p) > ListOf(q) \/ (ListOf(p) = ListOf(q) /\ p < q)
  <2> SUFFICES ASSUME NEW q \in found \ {p}
               PROVE  ListOf(p) > ListOf(q) \/ (ListOf(p) = ListOf(q) /\ p < q)
    BY <1>5
  <2>1. n - ListOf(p) = x /\ x <= n - ListOf(q) /\ p \in Nat /\ q \in Nat /\ p # q
    BY <1>3, <1>5
  <2>2. ListOf(p) \in Nat /\ ListOf(q) \in Nat
    BY <1>1, <1>5
  <2>3. CASE ListOf(p) = ListOf(q)
    <3>1. q \in last
      BY <2>1, <2>3
    <3>2. p <= q
      BY <3>1, <1>5
    <3> QED BY <3>2, <2>1, <2>3
  <2> QED BY <2>1, <2>2, <2>3
<1>7. FirstSeen(found) \in found
  BY <1>6 DEF FirstSeen, ListOf
<1> QED BY <1>7

LEMMA FirstIsFound ==
    ASSUME NEW found, found \subseteq Nat \ {0}, found # {}
    PROVE  First(found) \in found /\ First(found) # 0
<1>1. \E p \in found : \A q \in found : p <= q
  BY LeastExists
<1> QED BY <1>1 DEF First

-----------------------------------------------------------------------------
(* Steps that leave the two lists alone *)

SameLists(s, t) == /\ IsBase(t)
                   /\ t.alias = s.alias /\ t.alias_size = s.alias_size
                   /\ t.ilist = s.ilist /\ t.index_list_size = s.index_list_size

SameRest(s, t) == SameLists(s, t) /\ t.rec = s.rec /\ t.next = s.next

LEMMA ListsKept ==
    ASSUME NEW s, NEW t, Good(s), SameLists(s, t), RecordsOK(t)
    PROVE  Good(t)
  BY DEF Good, SameLists, AliasesOK, IndexesOK, AliasAll, Listed

LEMMA RestKept ==
    ASSUME NEW s, NEW t, Good(s), SameRest(s, t)
    PROVE  Good(t)
<1>1. RecordsOK(t)
  BY DEF SameRest, SameLists, Good, RecordsOK
<1> QED BY <1>1, ListsKept DEF SameRest

LEMMA GoodIsBase == ASSUME NEW s, Good(s) PROVE IsBase(s)
  BY DEF Good, RecordsOK

LEMMA ThrowGood ==
    ASSUME NEW s, Good(s)
    PROVE  Good(Throw(s)) /\ Throw(s).rec = s.rec /\ Throw(s).next = s.next
<1>1. SameRest(s, Throw(s))
  BY GoodIsBase DEF SameRest, SameLists, IsBase, Throw
<1> QED BY <1>1, RestKept DEF SameRest

LEMMA ClearGood ==
    ASSUME NEW s, Good(s)
    PROVE  Good(Clear(s)) /\ Clear(s).rec = s.rec /\ ~Clear(s).err
<1>1. SameRest(s, Clear(s))
  BY GoodIsBase, ZenonT(60) DEF SameRest, SameLists, IsBase, Clear
<1>2. ~Clear(s).err
  BY GoodIsBase DEF IsBase, Clear
<1> QED BY <1>1, <1>2, RestKept DEF SameRest

\* The fields that are no part of the invariant.
LEMMA OtherFields ==
    ASSUME NEW s, Good(s), NEW x
    PROVE  /\ SameRest(s, [s EXCEPT !.dead = x])
           /\ SameRest(s, [s EXCEPT !.stale = x])
           /\ SameRest(s, [s EXCEPT !.tree = x])
           /\ SameRest(s, [s EXCEPT !.top = x])
  BY GoodIsBase, SMTT(30) DEF SameRest, SameLists, IsBase

LEMMA NextGood ==
    ASSUME NEW s, Good(s)
    PROVE  /\ Good([s EXCEPT !.next = @ + 1])
           /\ [s EXCEPT !.next = @ + 1].rec = s.rec
           /\ SameLists(s, [s EXCEPT !.next = @ + 1])
<1> DEFINE t == [s EXCEPT !.next = @ + 1]
<1>1. SameLists(s, t) /\ t.rec = s.rec /\ t.next = s.next + 1
  BY GoodIsBase DEF SameLists, IsBase
<1>2. RecordsOK(t)
  <2> HIDE DEF t
  <2>1. 0 .. s.next - 1 \subseteq 0 .. t.next - 1 /\ t.next \in Nat \ {0}
    BY <1>1 DEF Good, RecordsOK
  <2> QED BY <1>1, <2>1 DEF Good, RecordsOK, SameLists
<1> HIDE DEF t
<1>3. Good(t)
  BY <1>1, <1>2, ListsKept
<1> QED BY <1>1, <1>3 DEF t

\* Rows that a record may have: their keys are given out, to no other record.
Own(s, k, r) ==
    /\ RowKeys(r) \subseteq 0 .. s.next - 1
    /\ \A l \in DOMAIN s.rec \ {k} : RowKeys(s.rec[l]) \cap RowKeys(r) \subseteq {0}

LEMMA InsertGood ==
    ASSUME NEW s, Good(s), NEW k \in Nat, NEW r, RecordOK(r), Own(s, k, r)
    PROVE  /\ Good(Insert(s, k, r))
           /\ Insert(s, k, r).rec[k] = r
           /\ \A j \in DOMAIN s.rec \ {k} : Insert(s, k, r).rec[j] = s.rec[j]
           /\ DOMAIN Insert(s, k, r).rec = DOMAIN s.rec \cup {k}
           /\ Insert(s, k, r).next = s.next
           /\ SameLists(s, Insert(s, k, r))
<1> DEFINE t == Insert(s, k, r)
<1>1. SameLists(s, t) /\ t.next = s.next
  BY GoodIsBase DEF SameLists, IsBase, Insert
<1>2. DOMAIN t.rec = DOMAIN s.rec \cup {k} /\ \A j \in DOMAIN t.rec : t.rec[j] = IF j = k THEN r ELSE s.rec[j]
  BY GoodIsBase DEF IsBase, Insert
<1> HIDE DEF t
<1>3. RecordsOK(t)
  BY <1>1, <1>2 DEF Good, RecordsOK, SameLists, Own
<1>4. Good(t)
  BY <1>1, <1>3, ListsKept
<1> QED BY <1>1, <1>2, <1>4 DEF t

LEMMA PlainRecord ==
    /\ RecordOK(Record(None)) /\ RowKeys(Record(None)) = {}
    /\ \A d : Whole(d) => RecordOK(Record(d)) /\ RowKeys(Record(d)) \subseteq KeysOf(d)
    /\ \A d : Record(d).data = d
  BY DEF RecordOK, Record, IsRecord, RowKeys

\* A record whose metadata or data is replaced.
Replaced(s, t, k, r) ==
    /\ SameLists(s, t)
    /\ t.next = s.next
    /\ t.rec = [s.rec EXCEPT ![k] = r]

LEMMA ReplacedGood ==
    ASSUME NEW s, NEW t, NEW k, NEW r, Good(s), Replaced(s, t, k, r),
           k \in DOMAIN s.rec => RecordOK(r) /\ Own(s, k, r)
    PROVE  Good(t)
<1>1. DOMAIN t.rec = DOMAIN s.rec /\ \A j \in DOMAIN t.rec : t.rec[j] = IF j = k THEN r ELSE s.rec[j]
  BY DEF Replaced
<1>2. RecordsOK(t)
  BY <1>1 DEF Good, RecordsOK, Replaced, SameLists, Own
<1> QED BY <1>2, ListsKept DEF Replaced

\* What a record has it owns.
LEMMA OwnSame ==
    ASSUME NEW s, NEW k \in DOMAIN s.rec, NEW r, Good(s), RowKeys(r) \subseteq RowKeys(s.rec[k])
    PROVE  Own(s, k, r)
  BY DEF Own, Good, RecordsOK

SameData(s, t) == /\ DOMAIN t.rec = DOMAIN s.rec
                  /\ \A j \in DOMAIN s.rec : t.rec[j].data = s.rec[j].data

LEMMA SetMetaGood ==
    ASSUME NEW s, NEW k, NEW m, Good(s), IsRecord(m),
           k \in DOMAIN s.rec => (m.type = "GROUP" => Whole(s.rec[k].data))
    PROVE  Good(SetMeta(s, k, m)) /\ SameData(s, SetMeta(s, k, m)) /\ SetMeta(s, k, m).next = s.next
<1>1. CASE k \notin DOMAIN s.rec \/ s.rec[k].lock
  BY <1>1, ThrowGood DEF SetMeta, SameData
<1>2. CASE ~(k \notin DOMAIN s.rec \/ s.rec[k].lock)
  <2> DEFINE r == [m EXCEPT !.data = s.rec[k].data]
  <2>1. SetMeta(s, k, m) = [s EXCEPT !.rec[k] = r]
    BY <1>2 DEF SetMeta
  <2>2. IsRecord(r) /\ r.type = m.type /\ r.data = s.rec[k].data
    BY DEF IsRecord
  <2> HIDE DEF r
  <2>3. RecordOK(s.rec[k])
    BY <1>2 DEF Good, RecordsOK
  <2>4. RecordOK(r)
    BY <1>2, <2>2, <2>3 DEF RecordOK
  <2>5. Replaced(s, [s EXCEPT !.rec[k] = r], k, r)
    BY GoodIsBase DEF Replaced, SameLists, IsBase
  <2>6. Own(s, k, r)
    BY <1>2, <2>2, OwnSame DEF RowKeys
  <2>7. SameData(s, [s EXCEPT !.rec[k] = r])
    BY <2>2, <2>5 DEF Replaced, SameData
  <2> QED BY <2>1, <2>4, <2>5, <2>6, <2>7, ReplacedGood DEF Replaced
<1> QED BY <1>1, <1>2

LEMMA UpdateDataGood ==
    ASSUME NEW s, NEW k, NEW d, Good(s), Whole(d), k \in DOMAIN s.rec => Own(s, k, Record(d))
    PROVE  /\ Good(UpdateData(s, k, d))
           /\ ~UpdateData(s, k, d).err /\ k \in DOMAIN UpdateData(s, k, d).rec =>
                  UpdateData(s, k, d).rec[k].data = d
           /\ UpdateData(s, k, d).next = s.next
<1>1. CASE s.rec[k].lock
  <2>1. UpdateData(s, k, d) = Throw(s)
    BY <1>1 DEF UpdateData
  <2>2. Throw(s).err
    BY GoodIsBase DEF Throw, IsBase
  <2> QED BY <2>1, <2>2, ThrowGood
<1>2. CASE ~s.rec[k].lock
  <2> DEFINE r == [s.rec[k] EXCEPT !.data = d]
  <2>1. UpdateData(s, k, d) = [s EXCEPT !.rec[k] = r]
    BY <1>2 DEF UpdateData
  <2>2. Replaced(s, [s EXCEPT !.rec[k] = r], k, r)
    <3> HIDE DEF r
    <3> QED BY GoodIsBase DEF Replaced, SameLists, IsBase
  <2>3. k \in DOMAIN s.rec => RecordOK(r) /\ r.data = d /\ Own(s, k, r)
    <3> SUFFICES ASSUME k \in DOMAIN s.rec PROVE RecordOK(r) /\ r.data = d /\ Own(s, k, r)
      OBVIOUS
    <3>1. IsRecord(s.rec[k])
      BY DEF Good, RecordsOK, RecordOK
    <3>2. RecordOK(r) /\ r.data = d
      BY <3>1 DEF RecordOK, IsRecord
    <3> HIDE DEF r
    <3>3. RowKeys(r) = RowKeys(Record(d))
      BY <3>2, PlainRecord DEF RowKeys
    <3> QED BY <3>2, <3>3 DEF Own
  <2> HIDE DEF r
  <2> QED BY <2>1, <2>2, <2>3, ReplacedGood DEF Replaced
<1> QED BY <1>1, <1>2

LEMMA EngineDeleteGood ==
    ASSUME NEW s, NEW k, Good(s)
    PROVE  Good(EngineDelete(s, k)) /\ SameData(s, EngineDelete(s, k)) /\ EngineDelete(s, k).next = s.next
<1>1. CASE ~Live(s, k)
  BY <1>1, ThrowGood DEF EngineDelete, SameData
<1>2. CASE Live(s, k) /\ s.err
  BY <1>2 DEF EngineDelete, SameData
<1>3. CASE Live(s, k) /\ ~s.err
  <2> DEFINE m == [s.rec[k] EXCEPT !.life = "recycle"]
  <2>1. RecordOK(s.rec[k])
    BY <1>3 DEF Good, RecordsOK, Live
  <2>2. IsRecord(m) /\ m.type = s.rec[k].type
    BY <2>1 DEF RecordOK, IsRecord
  <2>3. m.type = "GROUP" => Whole(s.rec[k].data)
    BY <2>1, <2>2 DEF RecordOK
  <2>4. EngineDelete(s, k) = SetMeta(s, k, m)
    BY <1>3 DEF EngineDelete
  <2> HIDE DEF m
  <2> QED BY <2>2, <2>3, <2>4, SetMetaGood
<1> QED BY <1>1, <1>2, <1>3

LEMMA EnginePurgeGood ==
    ASSUME NEW s, NEW k, Good(s)
    PROVE  Good(EnginePurge(s, k))
<1>1. CASE s.rec[k].lock
  BY <1>1, ThrowGood DEF EnginePurge
<1>2. CASE ~s.rec[k].lock
  <2> DEFINE t == [s EXCEPT !.rec = [j \in DOMAIN @ \ {k} |-> @[j]]]
  <2>1. SameLists(s, t) /\ t.next = s.next /\ t.rec = [j \in DOMAIN s.rec \ {k} |-> s.rec[j]]
    BY GoodIsBase DEF SameLists, IsBase
  <2>2. EnginePurge(s, k) = t
    BY <1>2 DEF EnginePurge
  <2> HIDE DEF t
  <2>3. RecordsOK(t)
    BY <2>1 DEF Good, RecordsOK, SameLists
  <2> QED BY <2>1, <2>2, <2>3, ListsKept
<1> QED BY <1>1, <1>2

\* engine_get() gives a record that is there, or nothing.
LEMMA GetGood ==
    ASSUME NEW s, NEW k, NEW force \in BOOLEAN, Good(s)
    PROVE  LET g == Get(s, k, force)
           IN  /\ Good(g.s) /\ g.s.rec = s.rec /\ g.s.next = s.next
               /\ RecordOK(g.meta)
               /\ g.data = None \/ Whole(g.data)
               /\ g.meta.type = "GROUP" => k \in DOMAIN s.rec /\ g.meta = s.rec[k]
               /\ g.meta.type = "GROUP" /\ ~s.err => g.data = s.rec[k].data
               /\ k \in DOMAIN s.rec => g.meta = s.rec[k] \/ g.meta = Record(None)
<1> DEFINE found == Live(s, k) \/ (force /\ k \in DOMAIN s.rec)
           g == Get(s, k, force)
<1>1. found => k \in DOMAIN s.rec /\ RecordOK(s.rec[k])
  BY DEF Live, Good, RecordsOK
<1>2. /\ g.s = IF found THEN s ELSE Throw(s)
      /\ g.meta = IF found THEN s.rec[k] ELSE Record(None)
      /\ g.data = IF found /\ ~s.err THEN s.rec[k].data ELSE None
  BY DEF Get
<1>3. Record(None).type = "RECORD"
  BY DEF Record
<1> HIDE DEF found, g
<1> SUFFICES /\ Good(g.s) /\ g.s.rec = s.rec /\ g.s.next = s.next
             /\ RecordOK(g.meta)
             /\ g.data = None \/ Whole(g.data)
             /\ g.meta.type = "GROUP" => k \in DOMAIN s.rec /\ g.meta = s.rec[k]
             /\ g.meta.type = "GROUP" /\ ~s.err => g.data = s.rec[k].data
             /\ k \in DOMAIN s.rec => g.meta = s.rec[k] \/ g.meta = Record(None)
  BY DEF g
<1>4. CASE found
  BY <1>1, <1>2, <1>4 DEF RecordOK
<1>5. CASE ~found
  BY <1>2, <1>3, <1>5, ThrowGood, PlainRecord
<1> QED BY <1>4, <1>5

-----------------------------------------------------------------------------
(* The list of aliases *)

\* A step on the list of aliases alone.
AliasStep(s, t) == /\ IsBase(t)
                   /\ t.rec = s.rec /\ t.next = s.next
                   /\ t.ilist = s.ilist /\ t.index_list_size = s.index_list_size

LEMMA AliasStepGood ==
    ASSUME NEW s, NEW t, Good(s), AliasStep(s, t), AliasesOK(t)
    PROVE  Good(t)
  BY DEF Good, AliasStep, RecordsOK, IndexesOK, Listed

\* A name that is free, or that only aliases of the same record have.
CanName(s, k, name) == /\ k \in Nat
                       /\ name \in Names \/ name = k
                       /\ \A p \in AliasNamed(s, name) : s.alias[p].quid = k

LEMMA AliasAddGood ==
    ASSUME NEW s, NEW k, NEW name, Good(s), CanName(s, k, name)
    PROVE  LET t == AliasAdd(s, k, name)
           IN  /\ Good(t) /\ t.rec = s.rec /\ t.next = s.next
               /\ t.alias = Append(s.alias, [quid |-> k, name |-> name, len |-> TRUE])
<1> DEFINE t == AliasAdd(s, k, name)
           a == [quid |-> k, name |-> name, len |-> TRUE]
           n == Len(s.alias) + 1
<1>1. AliasStep(s, t)
  BY GoodIsBase, ZenonT(60) DEF AliasStep, IsBase, AliasAdd
<1>2. t.alias = Append(s.alias, a) /\ t.alias_size = IF s.alias = <<>> THEN 1 ELSE s.alias_size + 1
  BY GoodIsBase DEF IsBase, AliasAdd
<1>3. IsAlias(a) /\ a.quid = k /\ a.name = name /\ a.len = TRUE
  BY DEF IsAlias
<1> HIDE DEF t, a
<1>4. IsSeq(s.alias) /\ Len(s.alias) \in Nat /\ DOMAIN s.alias = 1 .. Len(s.alias)
  BY SeqPlaces DEF Good, AliasesOK
<1>5. /\ IsSeq(t.alias)
      /\ DOMAIN t.alias = DOMAIN s.alias \cup {n} /\ n \notin DOMAIN s.alias
      /\ \A p \in DOMAIN s.alias : t.alias[p] = s.alias[p]
      /\ t.alias[n] = a
  BY <1>2, <1>4, SeqAppend
<1> HIDE DEF n
<1>6. AliasAll(t) = AliasAll(s) \cup {n} /\ n \notin AliasAll(s) /\ AliasAll(s) \subseteq DOMAIN s.alias
  BY <1>3, <1>5 DEF AliasAll
<1>7. t.alias_size = Cardinality(AliasAll(t))
  <2>1. s.alias_size = Cardinality(AliasAll(s))
    BY DEF Good, AliasesOK
  <2>2. Cardinality(AliasAll(t)) = s.alias_size + 1
    BY <1>4, <1>6, <2>1, CountPlaces
  <2>3. s.alias = <<>> => s.alias_size = 0
    <3>1. s.alias = <<>> => AliasAll(s) = {}
      BY DEF AliasAll
    <3> QED BY <2>1, <3>1, FS_EmptySet
  <2> QED BY <1>2, <2>2, <2>3
<1>8. \A p \in DOMAIN t.alias : AliasOK(t.alias[p])
  BY <1>3, <1>5 DEF Good, AliasesOK, AliasOK, CanName
<1>9. ASSUME NEW p \in AliasAll(t), NEW q \in AliasAll(t), t.alias[p].name = t.alias[q].name
      PROVE  t.alias[p].quid = t.alias[q].quid
  <2>1. \A r \in AliasAll(s) : s.alias[r].name = name => s.alias[r].quid = k
    BY DEF CanName, AliasNamed, AliasAll
  <2>2. \A r \in AliasAll(s) : t.alias[r] = s.alias[r]
    BY <1>5, <1>6
  <2>3. CASE p \in AliasAll(s) /\ q \in AliasAll(s)
    BY <1>9, <2>2, <2>3 DEF Good, AliasesOK
  <2>4. CASE p = n \/ q = n
    BY <1>3, <1>5, <1>6, <1>9, <2>1, <2>2, <2>4
  <2> QED BY <1>6, <2>3, <2>4
<1>10. AliasesOK(t)
  BY <1>5, <1>7, <1>8, <1>9 DEF AliasesOK
<1>11. Good(t)
  BY <1>1, <1>10, AliasStepGood
<1> QED BY <1>1, <1>2, <1>11 DEF AliasStep, t, a

\* A walk that finds an alias of the record.
LEMMA AliasSeen ==
    ASSUME NEW s, NEW k, Good(s), FirstSeen(AliasesOf(s, k)) # 0
    PROVE  FirstSeen(AliasesOf(s, k)) \in AliasesOf(s, k)
<1>1. AliasesOf(s, k) \subseteq 1 .. Len(s.alias) /\ Len(s.alias) \in Nat
  BY SeqPlaces DEF Good, AliasesOK, AliasesOf
<1>2. AliasesOf(s, k) # {}
  BY DEF FirstSeen
<1> QED BY <1>1, <1>2, SeenIsFound

LEMMA AliasGetValGood ==
    ASSUME NEW s, NEW k, Good(s)
    PROVE  Good(AliasGetVal(s, k)) /\ AliasGetVal(s, k).rec = s.rec /\ AliasGetVal(s, k).next = s.next
  BY ThrowGood DEF AliasGetVal

\* alias_get_key() of a name finds nothing only if no alias has it.
LEMMA AliasFree ==
    ASSUME NEW s, NEW name, Good(s), AliasGetKey(s, name) = None
    PROVE  AliasNamed(s, name) = {}
<1> SUFFICES ASSUME AliasNamed(s, name) # {} PROVE FALSE
  OBVIOUS
<1> DEFINE p == FirstSeen(AliasNamed(s, name))
<1>1. AliasNamed(s, name) \subseteq 1 .. Len(s.alias) /\ Len(s.alias) \in Nat
  BY SeqPlaces DEF Good, AliasesOK, AliasNamed
<1>2. p \in AliasNamed(s, name) /\ p # 0
  BY <1>1, SeenIsFound
<1>3. s.alias[p].quid = None
  BY <1>2 DEF AliasGetKey
<1>4. s.alias[p].quid \in Nat
  BY <1>2 DEF Good, AliasesOK, AliasOK, AliasNamed
<1> QED BY <1>3, <1>4, DatabaseAssumption

LEMMA AliasUpdateGood ==
    ASSUME NEW s, NEW k, NEW name \in Names, Good(s), AliasNamed(s, name) = {}
    PROVE  Good(AliasUpdate(s, k, name))
<1> DEFINE p == FirstSeen(AliasesOf(s, k))
           a == [s.alias[p] EXCEPT !.name = name]
           t == [s EXCEPT !.alias[p] = a]
<1>1. CASE p = 0
  BY <1>1, ThrowGood DEF AliasUpdate
<1>2. CASE p # 0
  <2>1. p \in DOMAIN s.alias /\ s.alias[p].len
    <3>1. p \in AliasesOf(s, k)
      BY <1>2, AliasSeen
    <3> HIDE DEF p
    <3> QED BY <3>1 DEF AliasesOf
  <2>2. AliasUpdate(s, k, name) = t
    BY <1>2 DEF AliasUpdate
  <2>3. AliasOK(s.alias[p])
    BY <2>1 DEF Good, AliasesOK
  <2>4. IsAlias(a) /\ a.quid = s.alias[p].quid /\ a.name = name /\ a.len = s.alias[p].len
    BY <2>3 DEF AliasOK, IsAlias
  <2> HIDE DEF a, p
  <2>5. AliasStep(s, t) /\ t.alias = [s.alias EXCEPT ![p] = a] /\ t.alias_size = s.alias_size
    BY GoodIsBase DEF AliasStep, IsBase
  <2> HIDE DEF t
  <2>6. /\ IsSeq(t.alias) /\ DOMAIN t.alias = DOMAIN s.alias
        /\ \A i \in DOMAIN s.alias : t.alias[i] = IF i = p THEN a ELSE s.alias[i]
    <3>1. IsSeq(s.alias)
      BY DEF Good, AliasesOK
    <3> QED BY <2>5, <3>1, SeqExcept
  <2>7. AliasAll(t) = AliasAll(s)
    BY <2>1, <2>4, <2>6 DEF AliasAll
  <2>8. \A i \in DOMAIN t.alias : AliasOK(t.alias[i])
    BY <2>3, <2>4, <2>6 DEF Good, AliasesOK, AliasOK
  <2>9. \A i \in AliasAll(s) : s.alias[i].name # name
    BY DEF AliasNamed, AliasAll
  <2>10. \A i, j \in AliasAll(t) : t.alias[i].name = t.alias[j].name => t.alias[i].quid = t.alias[j].quid
    <3>1. \A i \in AliasAll(s) : i \in DOMAIN s.alias
      BY DEF AliasAll
    <3>2. \A i, j \in AliasAll(s) : s.alias[i].name = s.alias[j].name => s.alias[i].quid = s.alias[j].quid
      BY DEF Good, AliasesOK
    <3> QED BY <2>4, <2>6, <2>7, <2>9, <3>1, <3>2
  <2>11. AliasesOK(t)
    BY <2>5, <2>6, <2>7, <2>8, <2>10 DEF Good, AliasesOK
  <2> QED BY <2>2, <2>5, <2>11, AliasStepGood
<1> QED BY <1>1, <1>2

LEMMA AliasDeleteGood ==
    ASSUME NEW s, NEW k, Good(s)
    PROVE  Good(AliasDelete(s, k)) /\ AliasDelete(s, k).rec = s.rec /\ AliasDelete(s, k).next = s.next
<1> DEFINE p == FirstSeen(AliasesOf(s, k))
           a == [s.alias[p] EXCEPT !.len = FALSE, !.quid = 0]
           t == [s EXCEPT !.alias[p] = a, !.alias_size = @ - 1]
<1>1. CASE p = 0
  BY <1>1, ThrowGood DEF AliasDelete
<1>2. CASE p # 0
  <2>1. p \in AliasAll(s) /\ p \in DOMAIN s.alias
    <3>1. p \in AliasesOf(s, k)
      BY <1>2, AliasSeen
    <3> HIDE DEF p
    <3> QED BY <3>1 DEF AliasesOf, AliasAll
  <2>2. AliasDelete(s, k) = t
    BY <1>2, ZenonT(60) DEF AliasDelete
  <2>3. AliasOK(s.alias[p])
    BY <2>1 DEF Good, AliasesOK
  <2>4. IsAlias(a) /\ a.len = FALSE
    BY <2>3 DEF AliasOK, IsAlias
  <2> HIDE DEF a, p
  <2>5. AliasStep(s, t) /\ t.alias = [s.alias EXCEPT ![p] = a] /\ t.alias_size = s.alias_size - 1
    BY GoodIsBase, ZenonT(60) DEF AliasStep, IsBase
  <2> HIDE DEF t
  <2>6. /\ IsSeq(t.alias) /\ DOMAIN t.alias = DOMAIN s.alias
        /\ \A i \in DOMAIN s.alias : t.alias[i] = IF i = p THEN a ELSE s.alias[i]
    <3>1. IsSeq(s.alias)
      BY DEF Good, AliasesOK
    <3> QED BY <2>5, <3>1, SeqExcept
  <2>7. AliasAll(t) = AliasAll(s) \ {p}
    BY <2>1, <2>4, <2>6 DEF AliasAll
  <2>8. t.alias_size = Cardinality(AliasAll(t))
    <3>1. AliasAll(s) \subseteq 1 .. Len(s.alias) /\ Len(s.alias) \in Nat
      BY SeqPlaces DEF Good, AliasesOK, AliasAll
    <3>2. s.alias_size = Cardinality(AliasAll(s))
      BY DEF Good, AliasesOK
    <3> QED BY <2>1, <2>5, <2>7, <3>1, <3>2, CountPlaces
  <2>9. \A i \in DOMAIN t.alias : AliasOK(t.alias[i])
    BY <2>4, <2>6 DEF Good, AliasesOK, AliasOK
  <2>10. \A i, j \in AliasAll(t) : t.alias[i].name = t.alias[j].name => t.alias[i].quid = t.alias[j].quid
    <3>1. \A i \in AliasAll(t) : i \in AliasAll(s) /\ t.alias[i] = s.alias[i]
      BY <2>6, <2>7 DEF AliasAll
    <3> QED BY <3>1 DEF Good, AliasesOK
  <2>11. AliasesOK(t)
    BY <2>6, <2>8, <2>9, <2>10 DEF AliasesOK
  <2>12. Good(t)
    BY <2>5, <2>11, AliasStepGood
  <2> QED BY <2>2, <2>5, <2>12 DEF AliasStep
<1> QED BY <1>1, <1>2

-----------------------------------------------------------------------------
(* The list of indexes *)

\* A step on the list of indexes, and on what is no part of the invariant.
IndexStep(s, t) == /\ IsBase(t)
                   /\ t.rec = s.rec /\ t.next = s.next
                   /\ t.alias = s.alias /\ t.alias_size = s.alias_size

LEMMA IndexStepGood ==
    ASSUME NEW s, NEW t, Good(s), IndexStep(s, t), IndexesOK(t)
    PROVE  Good(t)
  BY DEF Good, IndexStep, RecordsOK, AliasesOK, AliasAll

LEMMA IndexListAddGood ==
    ASSUME NEW s, NEW i, NEW g, NEW e, NEW offset, Good(s), e # None
    PROVE  LET t == IndexListAdd(s, i, g, e, offset)
           IN  Good(t) /\ IndexStep(s, t)
<1> DEFINE t == IndexListAdd(s, i, g, e, offset)
           x == [index |-> i, group |-> g, el |-> e, offset |-> offset]
           n == Len(s.ilist) + 1
<1>1. IndexStep(s, t)
  BY GoodIsBase, ZenonT(60) DEF IndexStep, IsBase, IndexListAdd
<1>2. t.ilist = Append(s.ilist, x) /\ t.index_list_size = IF s.ilist = <<>> THEN 1 ELSE s.index_list_size + 1
  BY GoodIsBase DEF IsBase, IndexListAdd
<1>3. IsEntry(x) /\ x.el = e
  BY DEF IsEntry
<1> HIDE DEF t, x
<1>4. IsSeq(s.ilist) /\ Len(s.ilist) \in Nat /\ DOMAIN s.ilist = 1 .. Len(s.ilist)
  BY SeqPlaces DEF Good, IndexesOK
<1>5. /\ IsSeq(t.ilist)
      /\ DOMAIN t.ilist = DOMAIN s.ilist \cup {n} /\ n \notin DOMAIN s.ilist
      /\ \A p \in DOMAIN s.ilist : t.ilist[p] = s.ilist[p]
      /\ t.ilist[n] = x
  BY <1>2, <1>4, SeqAppend
<1> HIDE DEF n
<1>6. Listed(t) = Listed(s) \cup {n} /\ n \notin Listed(s) /\ Listed(s) \subseteq DOMAIN s.ilist
  BY <1>3, <1>5 DEF Listed
<1>7. t.index_list_size = Cardinality(Listed(t))
  <2>1. s.index_list_size = Cardinality(Listed(s))
    BY DEF Good, IndexesOK
  <2>2. Cardinality(Listed(t)) = s.index_list_size + 1
    BY <1>4, <1>6, <2>1, CountPlaces
  <2>3. s.ilist = <<>> => s.index_list_size = 0
    <3>1. s.ilist = <<>> => Listed(s) = {}
      BY DEF Listed
    <3> QED BY <2>1, <3>1, FS_EmptySet
  <2> QED BY <1>2, <2>2, <2>3
<1>8. \A p \in DOMAIN t.ilist : IsEntry(t.ilist[p])
  BY <1>3, <1>5 DEF Good, IndexesOK
<1>9. IndexesOK(t)
  BY <1>5, <1>7, <1>8 DEF IndexesOK
<1>10. Good(t)
  BY <1>1, <1>9, IndexStepGood
<1> QED BY <1>1, <1>10 DEF t

LEMMA EntryListed ==
    ASSUME NEW s, NEW i, Good(s), EntryOf(s, i) # 0
    PROVE  EntryOf(s, i) \in Listed(s)
<1> DEFINE found == {p \in Listed(s) : s.ilist[p].index = i}
<1>1. found \subseteq Nat \ {0}
  <2>1. DOMAIN s.ilist = 1 .. Len(s.ilist) /\ Len(s.ilist) \in Nat
    BY SeqPlaces DEF Good, IndexesOK
  <2> QED BY <2>1 DEF Listed
<1>2. found # {}
  BY DEF EntryOf, First
<1>3. First(found) \in found
  BY <1>1, <1>2, FirstIsFound
<1> QED BY <1>3 DEF EntryOf

\* The entry goes; the next one, which index_list_delete() clears a part of,
\* stays in the list.
LEMMA IndexListDeleteGood ==
    ASSUME NEW s, NEW i, Good(s)
    PROVE  /\ Good(IndexListDelete(s, i))
           /\ IndexListDelete(s, i).rec = s.rec
           /\ IndexListDelete(s, i).next = s.next
<1> DEFINE p == EntryOf(s, i)
           Zeroed(q) == IF q = p THEN [index |-> 0, group |-> 0, el |-> None, offset |-> 0]
                        ELSE IF q = p + 1 THEN [s.ilist[q] EXCEPT !.index = 0, !.group = 0, !.offset = 0]
                        ELSE s.ilist[q]
           list == [q \in DOMAIN s.ilist |-> Zeroed(q)]
           t == [s EXCEPT !.ilist = list, !.index_list_size = @ - 1]
<1>1. CASE p = 0
  BY <1>1, ThrowGood DEF IndexListDelete
<1>2. CASE p # 0
  <2>1. p \in Listed(s)
    BY <1>2, EntryListed
  <2>2. IndexListDelete(s, i) = t
    BY <1>2 DEF IndexListDelete
  <2>3. \A q \in DOMAIN s.ilist : IsEntry(Zeroed(q)) /\ Zeroed(q).el = IF q = p THEN None ELSE s.ilist[q].el
    <3> SUFFICES ASSUME NEW q \in DOMAIN s.ilist
                 PROVE  IsEntry(Zeroed(q)) /\ Zeroed(q).el = IF q = p THEN None ELSE s.ilist[q].el
      OBVIOUS
    <3>1. IsEntry(s.ilist[q])
      BY DEF Good, IndexesOK
    <3> HIDE DEF p
    <3> QED BY <3>1 DEF IsEntry
  <2> HIDE DEF p, Zeroed
  <2>4. DOMAIN s.ilist = 1 .. Len(s.ilist) /\ Len(s.ilist) \in Nat
    BY SeqPlaces DEF Good, IndexesOK
  <2>5. /\ DOMAIN list = DOMAIN s.ilist /\ list = [q \in DOMAIN list |-> list[q]]
        /\ \A q \in DOMAIN s.ilist : list[q] = Zeroed(q)
    OBVIOUS
  <2> HIDE DEF list
  <2>6. IndexStep(s, t) /\ t.ilist = list /\ t.index_list_size = s.index_list_size - 1
    BY GoodIsBase DEF IndexStep, IsBase
  <2> HIDE DEF t
  <2>7. IsSeq(t.ilist)
    BY <2>4, <2>5, <2>6, SeqMade
  <2>8. Listed(t) = Listed(s) \ {p}
    BY <2>3, <2>5, <2>6 DEF Listed
  <2>9. t.index_list_size = Cardinality(Listed(t))
    <3>1. Listed(s) \subseteq 1 .. Len(s.ilist)
      BY <2>4 DEF Listed
    <3>2. s.index_list_size = Cardinality(Listed(s))
      BY DEF Good, IndexesOK
    <3> QED BY <2>1, <2>4, <2>6, <2>8, <3>1, <3>2, CountPlaces
  <2>10. IndexesOK(t)
    BY <2>3, <2>5, <2>6, <2>7, <2>9 DEF IndexesOK
  <2>11. Good(t)
    BY <2>6, <2>10, IndexStepGood
  <2> QED BY <2>2, <2>6, <2>11 DEF IndexStep
<1> QED BY <1>1, <1>2

LEMMA UpdateOffsetGood ==
    ASSUME NEW s, NEW i, NEW offset, Good(s)
    PROVE  Good(UpdateOffset(s, i, offset))
<1> DEFINE p == EntryOf(s, i)
           x == [s.ilist[p] EXCEPT !.offset = offset]
           t == [s EXCEPT !.ilist[p] = x]
<1>1. CASE p = 0
  BY <1>1, ThrowGood DEF UpdateOffset
<1>2. CASE p # 0
  <2>1. UpdateOffset(s, i, offset) = t
    BY <1>2 DEF UpdateOffset
  <2>2. p \in DOMAIN s.ilist
    <3>1. p \in Listed(s)
      BY <1>2, EntryListed
    <3> HIDE DEF p
    <3> QED BY <3>1 DEF Listed
  <2>3. IsEntry(s.ilist[p])
    BY <2>2 DEF Good, IndexesOK
  <2> HIDE DEF p
  <2>4. IsEntry(x) /\ x.el = s.ilist[p].el
    BY <2>3 DEF IsEntry
  <2> HIDE DEF x
  <2>5. /\ IndexStep(s, t) /\ t.index_list_size = s.index_list_size
        /\ t.ilist = [s.ilist EXCEPT ![p] = x]
    BY GoodIsBase DEF IndexStep, IsBase
  <2> HIDE DEF t
  <2>6. IsSeq(s.ilist)
    BY DEF Good, IndexesOK
  <2>7. /\ IsSeq(t.ilist) /\ DOMAIN t.ilist = DOMAIN s.ilist
        /\ \A q \in DOMAIN s.ilist : t.ilist[q] = IF q = p THEN x ELSE s.ilist[q]
    BY <2>5, <2>6, SeqExcept
  <2>8. Listed(t) = Listed(s)
    BY <2>4, <2>7 DEF Listed
  <2>9. IndexesOK(t)
    BY <2>4, <2>5, <2>7, <2>8 DEF Good, IndexesOK
  <2> QED BY <2>1, <2>5, <2>9, IndexStepGood
<1> QED BY <1>1, <1>2

LEMMA OnFirstIndexGood ==
    ASSUME NEW s, NEW g, NEW e, NEW v, NEW d, Good(s)
    PROVE  /\ Good(OnFirstIndex(s, g, e, v, d))
           /\ OnFirstIndex(s, g, e, v, d).rec = s.rec
           /\ OnFirstIndex(s, g, e, v, d).next = s.next
<1> DEFINE p == OnGroup(s, g)
           t == AliasGetVal(s, g)
           tree == [t.tree EXCEPT ![s.ilist[p].offset][v] = IF @ + d < 0 THEN 0 ELSE @ + d]
<1>1. Good(t) /\ t.rec = s.rec /\ t.next = s.next
  BY AliasGetValGood
<1>2. OnFirstIndex(s, g, e, v, d) \in {s, t, [t EXCEPT !.dead = TRUE], [t EXCEPT !.tree = tree]}
  BY DEF OnFirstIndex
<1> HIDE DEF t, tree
<1>3. SameRest(t, [t EXCEPT !.dead = TRUE]) /\ SameRest(t, [t EXCEPT !.tree = tree])
  BY <1>1, OtherFields
<1>4. Good([t EXCEPT !.dead = TRUE]) /\ Good([t EXCEPT !.tree = tree])
  BY <1>1, <1>3, RestKept
<1> QED BY <1>1, <1>2, <1>3, <1>4 DEF SameRest

LEMMA BuildGood ==
    ASSUME NEW s, NEW data, NEW e, Good(s)
    PROVE  Good(Build(s, data, e)) /\ Build(s, data, e).rec = s.rec /\ Build(s, data, e).next = s.next
<1>1. CASE data.schema # "TABLE"
  BY <1>1, ThrowGood DEF Build
<1>2. CASE data.schema = "TABLE"
  <2>1. SameRest(s, Build(s, data, e))
    BY <1>2, GoodIsBase, ZenonT(60) DEF Build, SameRest, SameLists, IsBase
  <2> QED BY <2>1, RestKept DEF SameRest
<1> QED BY <1>1, <1>2

-----------------------------------------------------------------------------
(* Requests without loops *)

\* Nobody else is named after a key.
LEMMA OwnName ==
    ASSUME NEW s, NEW k \in Nat, Good(s)
    PROVE  CanName(s, k, k)
<1>1. \A p \in AliasNamed(s, k) : s.alias[p].quid = k
  <2> SUFFICES ASSUME NEW p \in AliasNamed(s, k) PROVE s.alias[p].quid = k
    OBVIOUS
  <2>1. AliasOK(s.alias[p]) /\ s.alias[p].len /\ s.alias[p].name = k
    BY DEF Good, AliasesOK, AliasNamed
  <2>2. k \notin Names
    BY DatabaseAssumption
  <2> QED BY <2>1, <2>2 DEF AliasOK
<1> QED BY <1>1 DEF CanName

LEMMA MakeGroupGood ==
    ASSUME NEW s, NEW k \in Nat, NEW meta, Good(s), IsRecord(meta), k \in DOMAIN s.rec => Whole(s.rec[k].data)
    PROVE  Good(MakeGroup(s, k, meta))
<1> DEFINE m == [meta EXCEPT !.type = "GROUP", !.alias = TRUE]
           t == AliasAdd(s, k, k)
<1>1. Good(t) /\ t.rec = s.rec
  <2>1. CanName(s, k, k)
    BY OwnName
  <2> QED BY <2>1, AliasAddGood, ZenonT(60)
<1>2. IsRecord(m)
  BY DEF IsRecord
<1>3. MakeGroup(s, k, meta) = SetMeta(t, k, m)
  BY DEF MakeGroup
<1> HIDE DEF t, m
<1> QED BY <1>1, <1>2, <1>3, SetMetaGood

LEMMA AddIndexGood ==
    ASSUME NEW s, NEW g, NEW data, NEW e, Good(s), e # None
    PROVE  LET t == AddIndex(s, g, data, e)
           IN  /\ Good(t)
               /\ \A j \in DOMAIN s.rec \ {s.next} : t.rec[j] = s.rec[j]
               /\ DOMAIN t.rec = DOMAIN s.rec \cup {s.next}
               /\ t.next = s.next + 1
<1> DEFINE i == s.next
           s1 == [s EXCEPT !.next = @ + 1]
           t == Build(s1, data, e)
           r == [Record(None) EXCEPT !.type = "INDEX", !.alias = TRUE]
           u == Insert(t, i, r)
           w == AliasAdd(u, i, i)
           z == IndexListAdd(w, i, g, e, OffsetOf(t, data))
<1>1. i \in Nat
  BY DEF Good, RecordsOK
<1>2. Good(s1) /\ s1.rec = s.rec /\ s1.next = s.next + 1
  <2>1. s1.next = s.next + 1
    BY GoodIsBase DEF IsBase
  <2> QED BY <2>1, NextGood
<1> HIDE DEF s1
<1>3. Good(t) /\ t.rec = s.rec /\ t.next = s.next + 1
  BY <1>2, BuildGood
<1> HIDE DEF t
<1>4. RecordOK(r) /\ RowKeys(r) = {}
  BY DEF RecordOK, Record, IsRecord, RowKeys
<1> HIDE DEF r
<1>5. Own(t, i, r)
  BY <1>4 DEF Own
<1>6. /\ Good(u) /\ \A j \in DOMAIN s.rec \ {i} : u.rec[j] = s.rec[j]
      /\ DOMAIN u.rec = DOMAIN s.rec \cup {i} /\ u.next = s.next + 1
  BY <1>1, <1>3, <1>4, <1>5, InsertGood
<1> HIDE DEF u
<1>7. Good(w) /\ w.rec = u.rec /\ w.next = u.next
  <2>1. CanName(u, i, i)
    BY <1>1, <1>6, OwnName
  <2>2. Good(u)
    BY <1>6
  <2>3. Good(AliasAdd(u, i, i)) /\ AliasAdd(u, i, i).rec = u.rec /\ AliasAdd(u, i, i).next = u.next
    <3> HIDE DEF i
    <3> QED BY <2>1, <2>2, AliasAddGood, ZenonT(60)
  <2> QED BY <2>3
<1> HIDE DEF w
<1>8. Good(z) /\ z.rec = w.rec /\ z.next = w.next
  BY <1>7, IndexListAddGood DEF IndexStep
<1> HIDE DEF z
<1>9. AddIndex(s, g, data, e) = z
  BY DEF AddIndex, z, w, u, r, t, s1
<1> QED BY <1>6, <1>7, <1>8, <1>9

\* slay_put() gives its rows keys of their own.
LEMMA SlayPutGood ==
    ASSUME NEW s, NEW in, Good(s), Len(in.items) \in Nat
    PROVE  LET put == SlayPut(s, in)
           IN  /\ Good(put.s)
               /\ Whole(put.data)
               /\ KeysOf(put.data) \subseteq 0 .. put.s.next - 1
               /\ DOMAIN s.rec \subseteq DOMAIN put.s.rec
               /\ s.next <= put.s.next
               /\ \A k \in DOMAIN put.s.rec : RowKeys(put.s.rec[k]) \cap KeysOf(put.data) \subseteq {0}
<1> DEFINE put == SlayPut(s, in)
           n == Len(in.items)
           Nested(i) == in.items[i].data.kind # "FIELD"
           nested == {i \in 1 .. n : Nested(i)}
           KeyFor(i) == s.next + Cardinality({j \in nested : j < i})
           RowFor(i) == IF Nested(i) THEN Row(in.items[i].name, KeyFor(i), None)
                        ELSE Row(in.items[i].name, 0, in.items[i].data.val)
           keys == {KeyFor(i) : i \in nested}
           New(k) == Record(Plain(in.items[CHOOSE i \in nested : KeyFor(i) = k].data))
           t == [s EXCEPT !.rec = [k \in keys \cup DOMAIN s.rec |-> IF k \in keys THEN New(k) ELSE s.rec[k]],
                          !.next = @ + Cardinality(nested)]
           c == Cardinality(nested)
<1>1. IsFiniteSet(nested) /\ c \in Nat /\ s.next \in Nat \ {0}
  <2>1. nested \subseteq 1 .. n
    OBVIOUS
  <2> HIDE DEF nested
  <2> QED BY <2>1, CountPlaces DEF Good, RecordsOK
<1>2. \A i \in nested : KeyFor(i) \in s.next .. s.next + c - 1
  <2> SUFFICES ASSUME NEW i \in nested PROVE KeyFor(i) \in s.next .. s.next + c - 1
    OBVIOUS
  <2> DEFINE before == {j \in nested : j < i}
  <2>1. before \subseteq nested \ {i}
    OBVIOUS
  <2> HIDE DEF nested, before
  <2>2. IsFiniteSet(nested \ {i}) /\ Cardinality(nested \ {i}) = c - 1
    BY <1>1, FS_RemoveElement
  <2>3. Cardinality(before) <= c - 1 /\ IsFiniteSet(before)
    BY <1>1, <2>1, <2>2, FS_Subset
  <2>4. Cardinality(before) \in Nat
    BY <2>3, FS_CardinalityType
  <2>5. KeyFor(i) = s.next + Cardinality(before)
    BY SMTT(30) DEF before
  <2> HIDE DEF KeyFor, c
  <2> QED BY <1>1, <2>3, <2>4, <2>5
<1>3. put.s = t /\ put.data.rows = [i \in 1 .. n |-> RowFor(i)] /\ IsData(put.data)
  BY DEF SlayPut, IsData, Plain
<1>4. \A k : RecordOK(New(k)) /\ RowKeys(New(k)) = {}
  <2> SUFFICES ASSUME NEW d PROVE RecordOK(Record(Plain(d))) /\ RowKeys(Record(Plain(d))) = {}
    OBVIOUS
  <2>1. IsData(Plain(d)) /\ Plain(d).rows = <<>>
    BY DEF IsData, Plain
  <2> HIDE DEF Plain
  <2>2. Whole(Plain(d)) /\ KeysOf(Plain(d)) = {}
    BY <2>1 DEF Whole, IsSeq, KeysOf
  <2> QED BY <2>2, PlainRecord
<1> HIDE DEF put, New, KeyFor, nested, Nested
<1>5. \A i \in 1 .. n : RowFor(i).key = 0 \/ (i \in nested /\ RowFor(i).key = KeyFor(i))
  BY DEF Row, nested
<1> HIDE DEF RowFor
<1>6. Whole(put.data)
  <2>1. IsSeq([i \in 1 .. n |-> RowFor(i)])
    BY SeqMade
  <2> QED BY <1>3, <2>1 DEF Whole
<1>7. KeysOf(put.data) \subseteq {0} \cup (s.next .. s.next + c - 1)
  BY <1>2, <1>3, <1>5 DEF KeysOf
<1> HIDE DEF c
<1>8. SameLists(s, t) /\ t.next = s.next + c
  BY GoodIsBase DEF SameLists, IsBase, c
<1>9. /\ DOMAIN t.rec = keys \cup DOMAIN s.rec
      /\ \A k \in DOMAIN t.rec : t.rec[k] = IF k \in keys THEN New(k) ELSE s.rec[k]
  BY GoodIsBase DEF IsBase
<1>10. keys \subseteq Nat
  BY <1>1, <1>2
<1> HIDE DEF t, keys
<1>11. 0 .. s.next - 1 \subseteq 0 .. t.next - 1 /\ t.next \in Nat \ {0}
  BY <1>1, <1>8
<1>12. RecordsOK(t)
  BY <1>4, <1>8, <1>9, <1>10, <1>11, ZenonT(60) DEF Good, RecordsOK, SameLists
<1>13. Good(t)
  BY <1>8, <1>12, ListsKept
<1>14. \A k \in DOMAIN t.rec : RowKeys(t.rec[k]) \subseteq 0 .. s.next - 1
  BY <1>4, <1>9 DEF Good, RecordsOK
<1>15. \A k \in DOMAIN t.rec : RowKeys(t.rec[k]) \cap KeysOf(put.data) \subseteq {0}
  <2>1. \A x \in 0 .. s.next - 1 : x \notin s.next .. s.next + c - 1
    BY <1>1
  <2> QED BY <1>7, <1>14, <2>1
<1>16. KeysOf(put.data) \subseteq 0 .. t.next - 1
  <2>1. CASE c = 0
    <3>1. nested = {}
      BY <1>1, <2>1, FS_EmptySet DEF c
    <3>2. KeysOf(put.data) \subseteq {0}
      BY <1>3, <1>5, <3>1 DEF KeysOf
    <3> QED BY <1>11, <3>2 DEF Good, RecordsOK
  <2>2. CASE c # 0
    BY <1>1, <1>7, <1>8, <2>2
  <2> QED BY <2>1, <2>2
<1> QED BY <1>1, <1>3, <1>6, <1>8, <1>9, <1>13, <1>15, <1>16 DEF put

-----------------------------------------------------------------------------
(* Loops *)

\* A turn of each of the loops: over the rows of a group, the indexes of a group
\* that is copied, those of one that goes, and the two lists that a vacuum
\* builds again.
Turn(q, t, i) ==
    CASE q.loop = "rows"  -> (IF q.list[i].key = 0 THEN t ELSE DropRow(t, q.list[i].key, q.how))
      [] q.loop = "copy"  -> (IF q.list[i].el = None \/ q.list[i].group # q.group THEN t
                              ELSE AddIndex(t, q.copy, q.data, q.list[i].el))
      [] q.loop = "drop"  -> DropIndex(t, q.group)
      [] q.loop = "alias" -> (IF q.list[i].len THEN AliasAdd(t, q.list[i].quid, q.list[i].name) ELSE t)
      [] q.loop = "index" -> IndexAgain(t, q.list[i])

\* What a loop of n turns has after each of them.
Run(q, s, n, f) == f = [i \in 0 .. n |-> IF i = 0 THEN s ELSE Turn(q, f[i - 1], i)]

LEMMA TurnsExist ==
    ASSUME NEW q, NEW s, NEW n \in Nat
    PROVE  \E f : Run(q, s, n, f)
<1> DEFINE Runs(m) == \E f : Run(q, s, m, f)
           I == {m \in 0 .. n : Runs(m)}
<1>1. Runs(0)
  <2> DEFINE f == [i \in 0 .. 0 |-> s]
  <2>1. f = [i \in 0 .. 0 |-> IF i = 0 THEN s ELSE Turn(q, f[i - 1], i)]
    OBVIOUS
  <2> QED BY <2>1 DEF Run
<1>2. ASSUME NEW m \in 1 .. n, Runs(m - 1)
      PROVE  Runs(m)
  <2>1. PICK f : f = [i \in 0 .. m - 1 |-> IF i = 0 THEN s ELSE Turn(q, f[i - 1], i)]
    BY <1>2 DEF Run
  <2> DEFINE g == [i \in 0 .. m |-> IF i = m THEN Turn(q, f[m - 1], m) ELSE f[i]]
  <2>2. ASSUME NEW i \in 0 .. m
        PROVE  g[i] = IF i = 0 THEN s ELSE Turn(q, g[i - 1], i)
    <3>1. CASE i = m
      <4>1. g[i - 1] = f[m - 1] /\ i # 0
        BY <3>1
      <4> QED BY <3>1, <4>1
    <3>2. CASE i # m
      <4>1. i \in 0 .. m - 1 /\ g[i] = f[i]
        BY <3>2
      <4>2. i # 0 => g[i - 1] = f[i - 1]
        BY <3>2
      <4>3. f[i] = IF i = 0 THEN s ELSE Turn(q, f[i - 1], i)
        BY <2>1, <4>1
      <4> QED BY <4>1, <4>2, <4>3
    <3> QED BY <3>1, <3>2
  <2>3. g = [i \in 0 .. m |-> g[i]]
    OBVIOUS
  <2> HIDE DEF g
  <2>4. g = [i \in 0 .. m |-> IF i = 0 THEN s ELSE Turn(q, g[i - 1], i)]
    BY <2>2, <2>3
  <2> QED BY <2>4 DEF Run
<1> HIDE DEF Runs
<1>3. 0 \in I /\ \A i \in 1 .. n : i - 1 \in I => i \in I
  BY <1>1, <1>2
<1> HIDE DEF I
<1>4. n \in I
  BY <1>3, Turns
<1> QED BY <1>4 DEF I, Runs

LEMMA DropRowGood ==
    ASSUME NEW s, NEW k, NEW how \in {"update", "delete", "purge"}, Good(s)
    PROVE  Good(DropRow(s, k, how))
<1> DEFINE g == Get(s, k, FALSE)
           t == IF g.meta.alias THEN AliasDelete(g.s, k) ELSE g.s
<1>1. Good(g.s)
  BY GetGood
<1> HIDE DEF g
<1>2. Good(t)
  BY <1>1, AliasDeleteGood
<1>3. DropRow(s, k, how) \in {Clear(EngineDelete(t, k)), Clear(EngineDelete(s, k)), Clear(EnginePurge(s, k))}
  BY DEF DropRow, g
<1> HIDE DEF t
<1>4. Good(EngineDelete(t, k)) /\ Good(EngineDelete(s, k)) /\ Good(EnginePurge(s, k))
  BY <1>2, EngineDeleteGood, EnginePurgeGood
<1> QED BY <1>3, <1>4, ClearGood

\* The loops of the requests as runs: what there is after each turn.
LEMMA DropRowsRun ==
    ASSUME NEW s, NEW data, NEW how, Whole(data), data.schema # "FIELD"
    PROVE  \E f : /\ f[0] = s
                  /\ \A i \in 1 .. Len(data.rows) :
                         f[i] = IF data.rows[i].key = 0 THEN f[i - 1] ELSE DropRow(f[i - 1], data.rows[i].key, how)
                  /\ DropRows(s, data, how) = f[Len(data.rows)]
<1> DEFINE rows == data.rows
           n == Len(rows)
           f == CHOOSE f : f = [i \in 0 .. n |-> IF i = 0 THEN s
                                                 ELSE IF rows[i].key = 0 THEN f[i - 1]
                                                 ELSE DropRow(f[i - 1], rows[i].key, how)]
           q == [loop |-> "rows", list |-> rows, how |-> how]
<1>1. n \in Nat
  BY SeqPlaces DEF Whole
<1>2. DropRows(s, data, how) = f[n]
  BY DEF DropRows
<1>3. f = [i \in 0 .. n |-> IF i = 0 THEN s
                            ELSE IF rows[i].key = 0 THEN f[i - 1]
                            ELSE DropRow(f[i - 1], rows[i].key, how)]
  <2> HIDE DEF rows, n
  <2>1. PICK g : Run(q, s, n, g)
    <3> HIDE DEF q
    <3> QED BY <1>1, TurnsExist
  <2>2. \A t, i : Turn(q, t, i) = IF rows[i].key = 0 THEN t ELSE DropRow(t, rows[i].key, how)
    BY DEF Turn
  <2> HIDE DEF q
  <2>3. g = [i \in 0 .. n |-> IF i = 0 THEN s
                              ELSE IF rows[i].key = 0 THEN g[i - 1]
                              ELSE DropRow(g[i - 1], rows[i].key, how)]
    BY <2>1, <2>2 DEF Run
  <2> QED BY <2>3
<1> HIDE DEF f, n
<1>4. f[0] = s /\ \A i \in 1 .. n : f[i] = IF rows[i].key = 0 THEN f[i - 1] ELSE DropRow(f[i - 1], rows[i].key, how)
  BY <1>1, <1>3
<1> QED BY <1>2, <1>4 DEF n

LEMMA DropRowsGood ==
    ASSUME NEW s, NEW data, NEW how \in {"update", "delete", "purge"}, Good(s), Whole(data)
    PROVE  Good(DropRows(s, data, how))
<1>1. CASE data.schema = "FIELD"
  <2>1. Good([s EXCEPT !.dead = TRUE])
    BY OtherFields, RestKept
  <2> QED BY <1>1, <2>1 DEF DropRows
<1>2. CASE data.schema # "FIELD"
  <2> DEFINE n == Len(data.rows)
  <2>1. n \in Nat
    BY SeqPlaces DEF Whole
  <2>2. PICK f : /\ f[0] = s
                 /\ \A i \in 1 .. n : f[i] = IF data.rows[i].key = 0 THEN f[i - 1]
                                              ELSE DropRow(f[i - 1], data.rows[i].key, how)
                 /\ DropRows(s, data, how) = f[n]
    BY <1>2, DropRowsRun
  <2> HIDE DEF n
  <2> DEFINE I == {i \in 0 .. n : Good(f[i])}
  <2>3. 0 \in I
    BY <2>1, <2>2
  <2>4. \A i \in 1 .. n : i - 1 \in I => i \in I
    BY <2>1, <2>2, DropRowGood
  <2> HIDE DEF I
  <2>5. n \in I
    BY <2>1, <2>3, <2>4, Turns
  <2> QED BY <2>2, <2>5 DEF I
<1> QED BY <1>1, <1>2

LEMMA CopyIndexesRun ==
    ASSUME NEW s, NEW t, NEW g, NEW copy, NEW data, Good(s)
    PROVE  \E f : /\ f[0] = t
                  /\ \A i \in 1 .. Len(s.ilist) :
                         f[i] = IF s.ilist[i].el = None \/ s.ilist[i].group # g THEN f[i - 1]
                                ELSE AddIndex(f[i - 1], copy, data, s.ilist[i].el)
                  /\ CopyIndexes(s, t, g, copy, data) = f[Len(s.ilist)]
<1> DEFINE n == Len(s.ilist)
           f == CHOOSE f : f = [i \in 0 .. n |->
                    IF i = 0 THEN t
                    ELSE IF s.ilist[i].el = None \/ s.ilist[i].group # g THEN f[i - 1]
                    ELSE AddIndex(f[i - 1], copy, data, s.ilist[i].el)]
           q == [loop |-> "copy", list |-> s.ilist, group |-> g, copy |-> copy, data |-> data]
<1>1. n \in Nat
  BY SeqPlaces DEF Good, IndexesOK
<1>2. CopyIndexes(s, t, g, copy, data) = f[n]
  BY SMTT(30) DEF CopyIndexes
<1>3. f = [i \in 0 .. n |-> IF i = 0 THEN t
                            ELSE IF s.ilist[i].el = None \/ s.ilist[i].group # g THEN f[i - 1]
                            ELSE AddIndex(f[i - 1], copy, data, s.ilist[i].el)]
  <2> HIDE DEF n
  <2>1. PICK h : Run(q, t, n, h)
    <3> HIDE DEF q
    <3> QED BY <1>1, TurnsExist
  <2>2. \A u, i : Turn(q, u, i) = IF s.ilist[i].el = None \/ s.ilist[i].group # g THEN u
                                  ELSE AddIndex(u, copy, data, s.ilist[i].el)
    BY DEF Turn
  <2> HIDE DEF q
  <2>3. h = [i \in 0 .. n |-> IF i = 0 THEN t
                              ELSE IF s.ilist[i].el = None \/ s.ilist[i].group # g THEN h[i - 1]
                              ELSE AddIndex(h[i - 1], copy, data, s.ilist[i].el)]
    BY <2>1, <2>2 DEF Run
  <2> QED BY <2>3
<1> HIDE DEF f, n
<1>4. /\ f[0] = t
      /\ \A i \in 1 .. n : f[i] = IF s.ilist[i].el = None \/ s.ilist[i].group # g THEN f[i - 1]
                                   ELSE AddIndex(f[i - 1], copy, data, s.ilist[i].el)
  BY <1>1, <1>3
<1> QED BY <1>2, <1>4 DEF n

\* The copy keeps its data while indexes on it are made.
LEMMA CopyIndexesGood ==
    ASSUME NEW s, NEW t, NEW g, NEW copy, NEW data, Good(s), Good(t),
           copy \in DOMAIN t.rec, copy \in Nat, copy < t.next
    PROVE  LET u == CopyIndexes(s, t, g, copy, data)
           IN  Good(u) /\ copy \in DOMAIN u.rec /\ u.rec[copy] = t.rec[copy]
<1> DEFINE n == Len(s.ilist)
<1>1. n \in Nat
  BY SeqPlaces DEF Good, IndexesOK
<1>2. \E f : /\ f[0] = t
             /\ \A i \in 1 .. n : f[i] = IF s.ilist[i].el = None \/ s.ilist[i].group # g THEN f[i - 1]
                                          ELSE AddIndex(f[i - 1], copy, data, s.ilist[i].el)
             /\ CopyIndexes(s, t, g, copy, data) = f[n]
  BY ONLY CopyIndexesRun, Good(s)
<1> HIDE DEF n
<1>3. PICK f : /\ f[0] = t
               /\ \A i \in 1 .. n : f[i] = IF s.ilist[i].el = None \/ s.ilist[i].group # g THEN f[i - 1]
                                            ELSE AddIndex(f[i - 1], copy, data, s.ilist[i].el)
               /\ CopyIndexes(s, t, g, copy, data) = f[n]
  BY <1>2, Zenon
<1> DEFINE Fine(u) == Good(u) /\ copy \in DOMAIN u.rec /\ u.rec[copy] = t.rec[copy] /\ copy < u.next
           I == {i \in 0 .. n : Fine(f[i])}
<1>4. \A u, e : Fine(u) /\ e # None => Fine(AddIndex(u, copy, data, e))
  <2> SUFFICES ASSUME NEW u, NEW e, Fine(u), e # None PROVE Fine(AddIndex(u, copy, data, e))
    OBVIOUS
  <2> DEFINE w == AddIndex(u, copy, data, e)
  <2>1. /\ Good(w) /\ \A j \in DOMAIN u.rec \ {u.next} : w.rec[j] = u.rec[j]
        /\ DOMAIN w.rec = DOMAIN u.rec \cup {u.next} /\ w.next = u.next + 1
    BY AddIndexGood
  <2>2. u.next \in Nat /\ copy # u.next
    BY DEF Good, RecordsOK
  <2> HIDE DEF w
  <2>3. copy < w.next
    BY <2>1, <2>2
  <2>4. w.rec[copy] = u.rec[copy] /\ copy \in DOMAIN w.rec
    BY <2>1, <2>2
  <2> QED BY <2>1, <2>3, <2>4 DEF w
<1>5. Fine(t)
  OBVIOUS
<1> HIDE DEF Fine
<1>6. 0 \in I
  BY <1>1, <1>3, <1>5
<1>7. \A i \in 1 .. n : i - 1 \in I => i \in I
  BY <1>1, <1>3, <1>4
<1> HIDE DEF I
<1>8. n \in I
  BY <1>1, <1>6, <1>7, Turns
<1>9. Fine(f[n])
  BY <1>8 DEF I
<1> QED BY <1>3, <1>9 DEF Fine

LEMMA DropIndexesRun ==
    ASSUME NEW s, NEW g, Good(s)
    PROVE  \E f : /\ f[0] = s
                  /\ \A i \in 1 .. Len(s.ilist) : f[i] = DropIndex(f[i - 1], g)
                  /\ DropIndexes(s, g) = Clear(f[Len(s.ilist)])
<1> DEFINE n == Len(s.ilist)
           f == CHOOSE f : f = [i \in 0 .. n |-> IF i = 0 THEN s ELSE DropIndex(f[i - 1], g)]
           q == [loop |-> "drop", group |-> g]
<1>1. n \in Nat
  BY SeqPlaces DEF Good, IndexesOK
<1>2. DropIndexes(s, g) = Clear(f[n])
  BY DEF DropIndexes
<1>3. f = [i \in 0 .. n |-> IF i = 0 THEN s ELSE DropIndex(f[i - 1], g)]
  <2> HIDE DEF n
  <2>1. PICK h : Run(q, s, n, h)
    <3> HIDE DEF q
    <3> QED BY <1>1, TurnsExist
  <2>2. \A u, i : Turn(q, u, i) = DropIndex(u, g)
    BY DEF Turn
  <2> HIDE DEF q
  <2>3. h = [i \in 0 .. n |-> IF i = 0 THEN s ELSE DropIndex(h[i - 1], g)]
    BY <2>1, <2>2 DEF Run
  <2> QED BY <2>3
<1> HIDE DEF f, n
<1>4. f[0] = s /\ \A i \in 1 .. n : f[i] = DropIndex(f[i - 1], g)
  BY <1>1, <1>3
<1> QED BY <1>2, <1>4 DEF n

LEMMA DropIndexesGood ==
    ASSUME NEW s, NEW g, Good(s)
    PROVE  Good(DropIndexes(s, g))
<1> DEFINE n == Len(s.ilist)
<1>1. n \in Nat
  BY SeqPlaces DEF Good, IndexesOK
<1>3. PICK f : /\ f[0] = s
               /\ \A i \in 1 .. n : f[i] = DropIndex(f[i - 1], g)
               /\ DropIndexes(s, g) = Clear(f[n])
  BY DropIndexesRun
<1> HIDE DEF n
<1> DEFINE I == {i \in 0 .. n : Good(f[i])}
<1>4. \A t : Good(t) => Good(DropIndex(t, g))
  <2> SUFFICES ASSUME NEW t, Good(t) PROVE Good(DropIndex(t, g))
    OBVIOUS
  <2> DEFINE i == t.ilist[OnGroup(t, g)].index
  <2>1. Good(AliasDelete(t, i))
    BY AliasDeleteGood
  <2>2. Good(IndexListDelete(AliasDelete(t, i), i))
    BY <2>1, IndexListDeleteGood
  <2> QED BY <2>2 DEF DropIndex
<1>5. 0 \in I
  BY <1>1, <1>3
<1>6. \A i \in 1 .. n : i - 1 \in I => i \in I
  BY <1>1, <1>3, <1>4
<1> HIDE DEF I
<1>7. n \in I
  BY <1>1, <1>5, <1>6, Turns
<1>8. Good(f[n])
  BY <1>7 DEF I
<1> QED BY <1>3, <1>8, ClearGood

\* Aliases that come from those of s: two of one name are of one record.
From(s, u) == \A p \in AliasAll(u) : \E r \in AliasAll(s) : u.alias[p].quid = s.alias[r].quid
                                                         /\ u.alias[p].name = s.alias[r].name

LEMMA AliasAgain ==
    ASSUME NEW s, NEW u, NEW i \in AliasAll(s), Good(s), Good(u), From(s, u)
    PROVE  LET w == AliasAdd(u, s.alias[i].quid, s.alias[i].name)
           IN  Good(w) /\ From(s, w)
<1> DEFINE k == s.alias[i].quid
           name == s.alias[i].name
           a == [quid |-> k, name |-> name, len |-> TRUE]
           w == AliasAdd(u, k, name)
           n == Len(u.alias) + 1
<1>1. CanName(u, k, name)
  <2>1. AliasOK(s.alias[i]) /\ s.alias[i].len
    BY DEF Good, AliasesOK, AliasAll
  <2>2. \A p \in AliasNamed(u, name) : u.alias[p].quid = k
    <3> SUFFICES ASSUME NEW p \in AliasNamed(u, name) PROVE u.alias[p].quid = k
      OBVIOUS
    <3>1. p \in AliasAll(u) /\ u.alias[p].name = name
      BY DEF AliasNamed, AliasAll
    <3>2. PICK r \in AliasAll(s) : u.alias[p].quid = s.alias[r].quid /\ u.alias[p].name = s.alias[r].name
      BY <3>1 DEF From
    <3> QED BY <3>1, <3>2 DEF Good, AliasesOK
  <2> QED BY <2>1, <2>2 DEF CanName, AliasOK
<1>2. Good(w) /\ w.alias = Append(u.alias, a)
  <2> HIDE DEF k, name
  <2> QED BY <1>1, AliasAddGood
<1>3. IsSeq(u.alias)
  BY DEF Good, AliasesOK
<1>4. a.quid = k /\ a.name = name
  OBVIOUS
<1> HIDE DEF w, a
<1>5. /\ DOMAIN w.alias = DOMAIN u.alias \cup {n}
      /\ \A p \in DOMAIN u.alias : w.alias[p] = u.alias[p]
      /\ w.alias[n] = a
  BY <1>2, <1>3, SeqAppend
<1> HIDE DEF n
<1>6. From(s, w)
  <2> SUFFICES ASSUME NEW p \in AliasAll(w)
               PROVE  \E r \in AliasAll(s) : w.alias[p].quid = s.alias[r].quid /\ w.alias[p].name = s.alias[r].name
    BY DEF From
  <2>1. CASE p = n
    BY <1>4, <1>5, <2>1
  <2>2. CASE p # n
    <3>1. p \in AliasAll(u) /\ w.alias[p] = u.alias[p]
      BY <1>5, <2>2 DEF AliasAll
    <3> QED BY <3>1 DEF From
  <2> QED BY <2>1, <2>2
<1> QED BY <1>2, <1>6 DEF w

LEMMA AliasRebuildRun ==
    ASSUME NEW s, NEW t, Good(s)
    PROVE  \E f : /\ f[0] = t
                  /\ \A i \in 1 .. Len(s.alias) :
                         f[i] = IF s.alias[i].len THEN AliasAdd(f[i - 1], s.alias[i].quid, s.alias[i].name)
                                ELSE f[i - 1]
                  /\ AliasRebuild(s, t) = f[Len(s.alias)]
<1> DEFINE n == Len(s.alias)
           f == CHOOSE f : f = [i \in 0 .. n |->
                    IF i = 0 THEN t
                    ELSE IF s.alias[i].len THEN AliasAdd(f[i - 1], s.alias[i].quid, s.alias[i].name)
                    ELSE f[i - 1]]
           q == [loop |-> "alias", list |-> s.alias]
<1>1. n \in Nat /\ DOMAIN s.alias = 1 .. n
  BY SeqPlaces DEF Good, AliasesOK
<1>2. AliasRebuild(s, t) = f[n]
  BY DEF AliasRebuild
<1>3. f = [i \in 0 .. n |-> IF i = 0 THEN t
                            ELSE IF s.alias[i].len THEN AliasAdd(f[i - 1], s.alias[i].quid, s.alias[i].name)
                            ELSE f[i - 1]]
  <2> HIDE DEF n
  <2>1. PICK h : Run(q, t, n, h)
    <3> HIDE DEF q
    <3> QED BY <1>1, TurnsExist
  <2>2. \A u, i : Turn(q, u, i) = IF s.alias[i].len THEN AliasAdd(u, s.alias[i].quid, s.alias[i].name) ELSE u
    BY DEF Turn
  <2> HIDE DEF q
  <2>3. h = [i \in 0 .. n |-> IF i = 0 THEN t
                              ELSE IF s.alias[i].len THEN AliasAdd(h[i - 1], s.alias[i].quid, s.alias[i].name)
                              ELSE h[i - 1]]
    BY <2>1, <2>2 DEF Run
  <2> QED BY <2>3
<1> HIDE DEF f, n
<1>4. /\ f[0] = t
      /\ \A i \in 1 .. n : f[i] = IF s.alias[i].len THEN AliasAdd(f[i - 1], s.alias[i].quid, s.alias[i].name)
                                   ELSE f[i - 1]
  BY <1>1, <1>3
<1> QED BY <1>2, <1>4 DEF n

LEMMA AliasRebuildGood ==
    ASSUME NEW s, NEW t, Good(s), Good(t), t.alias = <<>>
    PROVE  Good(AliasRebuild(s, t))
<1> DEFINE n == Len(s.alias)
<1>1. n \in Nat /\ DOMAIN s.alias = 1 .. n
  BY SeqPlaces DEF Good, AliasesOK
<1>3. PICK f : /\ f[0] = t
               /\ \A i \in 1 .. n :
                      f[i] = IF s.alias[i].len THEN AliasAdd(f[i - 1], s.alias[i].quid, s.alias[i].name)
                             ELSE f[i - 1]
               /\ AliasRebuild(s, t) = f[n]
  BY AliasRebuildRun
<1> HIDE DEF n
<1> DEFINE I == {i \in 0 .. n : Good(f[i]) /\ From(s, f[i])}
<1>4. From(s, t)
  BY DEF From, AliasAll
<1>5. 0 \in I
  BY <1>1, <1>3, <1>4
<1>6. ASSUME NEW i \in 1 .. n, i - 1 \in I PROVE i \in I
  <2>1. Good(f[i - 1]) /\ From(s, f[i - 1])
    BY <1>6
  <2>2. CASE s.alias[i].len
    <3>1. i \in AliasAll(s)
      BY <1>1, <2>2 DEF AliasAll
    <3>2. f[i] = AliasAdd(f[i - 1], s.alias[i].quid, s.alias[i].name)
      BY <1>3, <2>2
    <3> QED BY <2>1, <3>1, <3>2, AliasAgain
  <2>3. CASE ~s.alias[i].len
    <3>1. f[i] = f[i - 1]
      BY <1>3, <2>3
    <3> QED BY <2>1, <3>1
  <2> QED BY <2>2, <2>3
<1> HIDE DEF I
<1>7. n \in I
  BY <1>1, <1>5, <1>6, Turns
<1> QED BY <1>3, <1>7 DEF I

LEMMA IndexAgainGood ==
    ASSUME NEW u, NEW x, Good(u)
    PROVE  Good(IndexAgain(u, x))
<1> DEFINE g == Get(u, x.group, FALSE)
           w == Build(u, g.data, x.el)
           z == IndexListAdd(w, x.index, x.group, x.el, OffsetOf(w, g.data))
<1>1. Good(g.s)
  BY GetGood
<1>2. Good(w)
  BY BuildGood
<1>3. IndexAgain(u, x) \in {u, g.s} \/ (x.el # None /\ IndexAgain(u, x) = z)
  BY DEF IndexAgain
<1>4. x.el # None => Good(z)
  <2> HIDE DEF w
  <2> QED BY <1>2, IndexListAddGood
<1> HIDE DEF g, z
<1> QED BY <1>1, <1>3, <1>4

LEMMA IndexListRebuildRun ==
    ASSUME NEW s, NEW t, Good(s)
    PROVE  \E f : /\ f[0] = t
                  /\ \A i \in 1 .. Len(s.ilist) : f[i] = IndexAgain(f[i - 1], s.ilist[i])
                  /\ IndexListRebuild(s, t) = f[Len(s.ilist)]
<1> DEFINE n == Len(s.ilist)
           f == CHOOSE f : f = [i \in 0 .. n |-> IF i = 0 THEN t ELSE IndexAgain(f[i - 1], s.ilist[i])]
           q == [loop |-> "index", list |-> s.ilist]
<1>1. n \in Nat
  BY SeqPlaces DEF Good, IndexesOK
<1>2. IndexListRebuild(s, t) = f[n]
  BY DEF IndexListRebuild
<1>3. f = [i \in 0 .. n |-> IF i = 0 THEN t ELSE IndexAgain(f[i - 1], s.ilist[i])]
  <2> HIDE DEF n
  <2>1. PICK h : Run(q, t, n, h)
    <3> HIDE DEF q
    <3> QED BY <1>1, TurnsExist
  <2>2. \A u, i : Turn(q, u, i) = IndexAgain(u, s.ilist[i])
    BY DEF Turn
  <2> HIDE DEF q
  <2>3. h = [i \in 0 .. n |-> IF i = 0 THEN t ELSE IndexAgain(h[i - 1], s.ilist[i])]
    BY <2>1, <2>2 DEF Run
  <2> QED BY <2>3
<1> HIDE DEF f, n
<1>4. f[0] = t /\ \A i \in 1 .. n : f[i] = IndexAgain(f[i - 1], s.ilist[i])
  BY <1>1, <1>3
<1> QED BY <1>2, <1>4 DEF n

LEMMA IndexListRebuildGood ==
    ASSUME NEW s, NEW t, Good(s), Good(t)
    PROVE  Good(IndexListRebuild(s, t))
<1> DEFINE n == Len(s.ilist)
<1>1. n \in Nat
  BY SeqPlaces DEF Good, IndexesOK
<1>3. PICK f : /\ f[0] = t
               /\ \A i \in 1 .. n : f[i] = IndexAgain(f[i - 1], s.ilist[i])
               /\ IndexListRebuild(s, t) = f[n]
  BY IndexListRebuildRun
<1> HIDE DEF n
<1> DEFINE I == {i \in 0 .. n : Good(f[i])}
<1>4. 0 \in I
  BY <1>1, <1>3
<1>5. \A i \in 1 .. n : i - 1 \in I => i \in I
  BY <1>1, <1>3, IndexAgainGood
<1> HIDE DEF I
<1>6. n \in I
  BY <1>1, <1>4, <1>5, Turns
<1> QED BY <1>3, <1>6 DEF I

-----------------------------------------------------------------------------
(* Requests *)

\* The data that slay_put() made may be put into any record.
LEMMA PutOwned ==
    ASSUME NEW s, NEW in, NEW k, Good(s), Len(in.items) \in Nat
    PROVE  LET put == SlayPut(s, in) IN Own(put.s, k, Record(put.data)) /\ RecordOK(Record(put.data))
<1> DEFINE put == SlayPut(s, in)
<1>1. /\ Whole(put.data) /\ KeysOf(put.data) \subseteq 0 .. put.s.next - 1
      /\ \A l \in DOMAIN put.s.rec : RowKeys(put.s.rec[l]) \cap KeysOf(put.data) \subseteq {0}
  BY SlayPutGood
<1> HIDE DEF put
<1>2. RecordOK(Record(put.data)) /\ RowKeys(Record(put.data)) \subseteq KeysOf(put.data)
  BY <1>1, PlainRecord
<1>3. Own(put.s, k, Record(put.data))
  BY <1>1, <1>2 DEF Own
<1> QED BY <1>2, <1>3 DEF put

\* A new document under a key of its own, as db_put() and db_duplicate() make it.
NewRecord(s, in) ==
    LET put == SlayPut([s EXCEPT !.next = @ + 1], in)
    IN  Insert([put.s EXCEPT !.top = @ \cup {s.next}], s.next, Record(put.data))

LEMMA NewRecordGood ==
    ASSUME NEW s, NEW in, Good(s), Len(in.items) \in Nat
    PROVE  LET t == NewRecord(s, in)
               data == SlayPut([s EXCEPT !.next = @ + 1], in).data
           IN  /\ Good(t) /\ s.next \in Nat /\ s.next \in DOMAIN t.rec /\ s.next < t.next
               /\ Whole(data) /\ t.rec[s.next].data = data
<1> DEFINE s1 == [s EXCEPT !.next = @ + 1]
           put == SlayPut(s1, in)
           n == s.next
           p1 == [put.s EXCEPT !.top = @ \cup {n}]
           t == Insert(p1, n, Record(put.data))
<1>1. Good(s1) /\ s1.next = s.next + 1 /\ n \in Nat
  <2>1. s1.next = s.next + 1 /\ n \in Nat
    BY GoodIsBase DEF IsBase, Good, RecordsOK
  <2> QED BY <2>1, NextGood
<1> HIDE DEF s1
<1>2. Good(put.s) /\ Whole(put.data) /\ s1.next <= put.s.next /\ put.s.next \in Nat
  <2>1. Good(put.s) /\ Whole(put.data) /\ s1.next <= put.s.next
    BY <1>1, SlayPutGood
  <2> QED BY <2>1 DEF Good, RecordsOK
<1>3. Own(put.s, n, Record(put.data)) /\ RecordOK(Record(put.data))
  BY <1>1, PutOwned
<1> HIDE DEF put
<1>4. SameRest(put.s, p1)
  BY <1>2, OtherFields
<1> HIDE DEF p1
<1>5. Good(p1) /\ Own(p1, n, Record(put.data)) /\ p1.next = put.s.next
  BY <1>2, <1>3, <1>4, RestKept DEF SameRest, Own
<1>6. /\ Good(t) /\ t.rec[n] = Record(put.data)
      /\ n \in DOMAIN t.rec /\ t.next = put.s.next
  BY <1>1, <1>3, <1>5, InsertGood
<1>7. t = NewRecord(s, in)
  BY DEF NewRecord, t, p1, put, s1
<1> HIDE DEF t
<1>8. t.rec[n].data = put.data /\ n < t.next
  BY <1>1, <1>2, <1>6, PlainRecord
<1> QED BY <1>1, <1>2, <1>6, <1>7, <1>8 DEF put, s1

LEMMA DbPutGood ==
    ASSUME NEW s, NEW in, Good(s), Len(in.items) \in Nat
    PROVE  Good(DbPut(s, in))
<1> DEFINE t == NewRecord(s, in)
           k == s.next
           data == SlayPut([s EXCEPT !.next = @ + 1], in).data
<1>1. Good(t) /\ k \in Nat /\ k \in DOMAIN t.rec /\ Whole(data) /\ t.rec[k].data = data
  BY NewRecordGood
<1>2. DbPut(s, in) = IF IsGroup(data) THEN MakeGroup(t, k, t.rec[k]) ELSE t
  BY DEF DbPut, NewRecord
<1> HIDE DEF t, data, k
<1>3. IsRecord(t.rec[k])
  BY <1>1 DEF Good, RecordsOK, RecordOK
<1>4. Good(MakeGroup(t, k, t.rec[k]))
  BY <1>1, <1>3, MakeGroupGood
<1> QED BY <1>1, <1>2, <1>4

LEMMA DbUpdateGood ==
    ASSUME NEW s, NEW k \in DOMAIN s.rec, NEW in, NEW descent, Good(s), ~s.err, Len(in.items) \in Nat
    PROVE  Good(DbUpdate(s, k, in, descent))
<1> DEFINE g == Get(s, k, FALSE)
           t == IF g.meta.type = "GROUP" /\ descent THEN DropRows(s, g.data, "update") ELSE s
           put == SlayPut(t, in)
           u == UpdateData(put.s, k, put.data)
           w == [u EXCEPT !.stale = @ \cup TreesOf(s, k)]
<1>1. k \in Nat
  BY DEF Good, RecordsOK
<1>2. RecordOK(g.meta) /\ (g.meta.type = "GROUP" => g.data = s.rec[k].data /\ g.meta = s.rec[k])
  BY GetGood, ZenonT(60)
<1>4. \/ DbUpdate(s, k, in, descent) \in {Throw(s), u, AliasDelete(w, k), w}
      \/ ~u.err /\ DbUpdate(s, k, in, descent) = MakeGroup(w, k, g.meta)
  BY DEF DbUpdate
<1> HIDE DEF g
<1>5. Good(t)
  <2>1. g.meta.type = "GROUP" => Whole(g.data)
    BY <1>2 DEF RecordOK
  <2>2. g.meta.type = "GROUP" => Good(DropRows(s, g.data, "update"))
    BY <2>1, DropRowsGood
  <2> QED BY <2>2
<1> HIDE DEF t
<1>6. Good(put.s) /\ Whole(put.data)
  BY <1>5, SlayPutGood
<1>7. Own(put.s, k, Record(put.data))
  BY <1>5, PutOwned
<1> HIDE DEF put
<1>8. Good(u) /\ (~u.err /\ k \in DOMAIN u.rec => u.rec[k].data = put.data)
  BY <1>6, <1>7, UpdateDataGood
<1> HIDE DEF u
<1>9. SameRest(u, w)
  BY <1>8, OtherFields
<1> HIDE DEF w
<1>10. Good(w) /\ w.rec = u.rec
  BY <1>8, <1>9, RestKept DEF SameRest
<1>11. ~u.err => Good(MakeGroup(w, k, g.meta))
  <2> SUFFICES ASSUME ~u.err PROVE Good(MakeGroup(w, k, g.meta))
    OBVIOUS
  <2>1. IsRecord(g.meta)
    BY <1>2 DEF RecordOK
  <2>2. k \in DOMAIN w.rec => Whole(w.rec[k].data)
    BY <1>6, <1>8, <1>10
  <2> QED BY <1>1, <1>10, <2>1, <2>2, MakeGroupGood
<1>12. Good(Throw(s)) /\ Good(AliasDelete(w, k))
  BY <1>10, ThrowGood, AliasDeleteGood
<1> QED BY <1>4, <1>8, <1>10, <1>11, <1>12

LEMMA DbDuplicateGood ==
    ASSUME NEW s, NEW k, NEW copy_meta, Good(s)
    PROVE  Good(DbDuplicate(s, k, copy_meta))
<1> DEFINE g == Get(s, k, FALSE)
           n == s.next
           in == Expand(s, g.data)
           data == SlayPut([s EXCEPT !.next = @ + 1], in).data
           t == NewRecord(s, in)
           meta == IF copy_meta THEN g.meta ELSE Record(None)
           u == IF copy_meta THEN CopyIndexes(s, t, k, n, g.data) ELSE t
<1>1. RecordOK(g.meta) /\ (g.data = None \/ Whole(g.data))
  BY GetGood
<1>2. \/ DbDuplicate(s, k, copy_meta) \in {s, [s EXCEPT !.dead = TRUE]}
      \/ g.data # None /\ DbDuplicate(s, k, copy_meta) \in {MakeGroup(Clear(u), n, meta), SetMeta(t, n, meta)}
  BY DEF DbDuplicate, NewRecord
<1>3. g.data # None => Len(in.items) \in Nat
  <2> SUFFICES ASSUME g.data # None PROVE Len(in.items) \in Nat
    OBVIOUS
  <2> HIDE DEF g
  <2>1. Len(g.data.rows) \in Nat /\ DOMAIN g.data.rows = 1 .. Len(g.data.rows)
    BY <1>1, SeqPlaces DEF Whole
  <2>2. in.items = [i \in DOMAIN g.data.rows |-> in.items[i]]
    BY ZenonT(60) DEF Expand
  <2> HIDE DEF in
  <2> QED BY <2>1, <2>2
<1> HIDE DEF g, in
<1>4. Good([s EXCEPT !.dead = TRUE])
  BY OtherFields, RestKept
<1>5. IsRecord(meta)
  BY <1>1, PlainRecord DEF RecordOK
<1>6. ASSUME g.data # None
      PROVE  Good(MakeGroup(Clear(u), n, meta)) /\ Good(SetMeta(t, n, meta))
  <2>1. Good(t) /\ n \in Nat /\ n \in DOMAIN t.rec /\ n < t.next /\ Whole(t.rec[n].data)
    BY <1>3, <1>6, NewRecordGood
  <2> HIDE DEF t, n, meta
  <2>2. Good(u) /\ n \in DOMAIN u.rec /\ u.rec[n] = t.rec[n]
    BY <2>1, CopyIndexesGood
  <2> HIDE DEF u
  <2>3. Good(Clear(u)) /\ Clear(u).rec = u.rec
    BY <2>2, ClearGood
  <2>4. Good(MakeGroup(Clear(u), n, meta))
    BY <1>5, <2>1, <2>2, <2>3, MakeGroupGood
  <2>5. Good(SetMeta(t, n, meta))
    BY <1>5, <2>1, SetMetaGood
  <2> QED BY <2>4, <2>5
<1> HIDE DEF t, u, meta, n
<1> QED BY <1>2, <1>4, <1>6

LEMMA DetachGood ==
    ASSUME NEW s, NEW k, NEW meta, NEW descent, NEW how \in {"delete", "purge"}, Good(s), RecordOK(meta)
    PROVE  Good(Detach(s, k, meta, descent, how))
<1> DEFINE r == IF descent THEN DropRows(s, meta.data, how) ELSE s
           t == CASE meta.type = "GROUP" -> DropIndexes(r, k)
                  [] meta.type = "INDEX" -> IndexListDelete(s, k)
                  [] OTHER -> s
<1>1. meta.type = "GROUP" => Good(r)
  <2>1. meta.type = "GROUP" => Whole(meta.data)
    BY DEF RecordOK
  <2> QED BY <2>1, DropRowsGood
<1> HIDE DEF r
<1>2. meta.type = "GROUP" => Good(DropIndexes(r, k))
  BY <1>1, DropIndexesGood
<1>3. Good(IndexListDelete(s, k))
  BY IndexListDeleteGood
<1>4. Good(t)
  BY <1>2, <1>3
<1>5. Detach(s, k, meta, descent, how) = IF meta.alias THEN AliasDelete(t, k) ELSE t
  BY DEF Detach, r
<1> HIDE DEF t
<1> QED BY <1>4, <1>5, AliasDeleteGood

LEMMA DbDeleteGood ==
    ASSUME NEW s, NEW k, NEW descent, Good(s)
    PROVE  Good(DbDelete(s, k, descent)) /\ Good(DbPurge(s, k, descent))
<1>1. ASSUME NEW force \in BOOLEAN, NEW how \in {"delete", "purge"}
      PROVE  Good(Detach(Get(s, k, force).s, k, Get(s, k, force).meta, descent, how))
  <2>1. Good(Get(s, k, force).s) /\ RecordOK(Get(s, k, force).meta)
    BY GetGood
  <2> QED BY <2>1, DetachGood
<1>2. Good(DbDelete(s, k, descent))
  BY <1>1, EngineDeleteGood DEF DbDelete
<1>3. Good(DbPurge(s, k, descent))
  BY <1>1, EnginePurgeGood DEF DbPurge
<1> QED BY <1>2, <1>3

LEMMA DbItemAddGood ==
    ASSUME NEW s, NEW k \in DOMAIN s.rec, NEW in, Good(s), Whole(s.rec[k].data), s.rec[k].data # None
    PROVE  Good(DbItemAdd(s, k, in))
<1> DEFINE data == s.rec[k].data
           n == s.next
           row == IF data.schema = "SET" THEN Field(in.val) ELSE in
           name == IF data.schema = "TABLE" THEN None ELSE IF in.kind = "OBJECT" THEN in.el ELSE n
           d == Plain(row)
           s1 == [s EXCEPT !.next = @ + 1]
           t == Insert(s1, n, Record(d))
           u == IF data.schema = "TABLE" /\ in.kind = "OBJECT" THEN OnFirstIndex(t, k, in.el, in.val, 1) ELSE t
           w == [u EXCEPT !.stale = @ \cup OtherTrees(s, k)]
           x == [data EXCEPT !.rows = Append(@, Row(name, n, None))]
<1>1. DbItemAdd(s, k, in) = IF u.err THEN u ELSE UpdateData(w, k, x)
  BY DEF DbItemAdd
<1>2. Good(s1) /\ s1.next = s.next + 1 /\ n \in Nat \ {0} /\ s1.rec = s.rec
  <2>1. s1.next = s.next + 1 /\ n \in Nat \ {0}
    BY GoodIsBase DEF IsBase, Good, RecordsOK
  <2> QED BY <2>1, NextGood
<1>3. RecordOK(Record(d)) /\ RowKeys(Record(d)) = {}
  <2>1. IsData(d) /\ d.rows = <<>>
    BY DEF IsData, Plain
  <2> HIDE DEF d
  <2>2. Whole(d) /\ KeysOf(d) = {}
    BY <2>1 DEF Whole, IsSeq, KeysOf
  <2> QED BY <2>2, PlainRecord
<1> HIDE DEF d, s1
<1>4. Own(s1, n, Record(d))
  BY <1>3 DEF Own
<1>5. /\ Good(t) /\ DOMAIN t.rec = DOMAIN s.rec \cup {n} /\ t.next = n + 1
      /\ t.rec[n] = Record(d) /\ \A j \in DOMAIN s.rec \ {n} : t.rec[j] = s.rec[j]
  BY <1>2, <1>3, <1>4, InsertGood
<1> HIDE DEF t
<1>6. Good(u) /\ u.rec = t.rec /\ u.next = t.next
  BY <1>5, OnFirstIndexGood
<1> HIDE DEF u
<1>7. SameRest(u, w)
  BY <1>6, OtherFields
<1> HIDE DEF w
<1>8. Good(w) /\ w.rec = t.rec /\ w.next = n + 1
  BY <1>5, <1>6, <1>7, RestKept DEF SameRest
<1>9. Whole(x) /\ KeysOf(x) \subseteq KeysOf(data) \cup {n}
  <2> DEFINE e == Row(name, n, None)
             rows == Append(data.rows, e)
  <2>1. e.key = n
    BY DEF Row
  <2> HIDE DEF e, data
  <2>2. IsSeq(data.rows) /\ IsData(data)
    BY DEF Whole, data
  <2>3. IsData(x) /\ x.rows = rows
    BY <2>2 DEF IsData, e
  <2>4. /\ IsSeq(rows) /\ DOMAIN rows = DOMAIN data.rows \cup {Len(data.rows) + 1}
        /\ \A i \in DOMAIN data.rows : rows[i] = data.rows[i]
        /\ rows[Len(data.rows) + 1] = e
    BY <2>2, SeqAppend
  <2> HIDE DEF rows, x, n
  <2>5. KeysOf(x) \subseteq KeysOf(data) \cup {n}
    BY <2>1, <2>3, <2>4 DEF KeysOf
  <2> QED BY <2>3, <2>4, <2>5 DEF Whole
<1> HIDE DEF x
<1>10. KeysOf(data) = RowKeys(s.rec[k])
  BY DEF RowKeys
<1>11. Own(w, k, Record(x))
  <2>1. RowKeys(Record(x)) \subseteq RowKeys(s.rec[k]) \cup {n}
    BY <1>9, <1>10, PlainRecord
  <2>2. \A l \in DOMAIN s.rec : RowKeys(s.rec[l]) \subseteq 0 .. n - 1
    BY DEF Good, RecordsOK
  <2>3. n \notin 0 .. n - 1 /\ 0 .. n - 1 \subseteq 0 .. (n + 1) - 1 /\ n \in 0 .. (n + 1) - 1
    BY <1>2
  <2>4. \A l \in DOMAIN w.rec \ {k} : RowKeys(w.rec[l]) = {} \/ (l \in DOMAIN s.rec /\ RowKeys(w.rec[l]) = RowKeys(s.rec[l]))
    BY <1>3, <1>5, <1>8
  <2>5. \A l \in DOMAIN s.rec \ {k} : RowKeys(s.rec[l]) \cap RowKeys(s.rec[k]) \subseteq {0}
    BY DEF Good, RecordsOK
  <2> HIDE DEF n
  <2>6. RowKeys(Record(x)) \subseteq 0 .. w.next - 1
    BY <1>8, <2>1, <2>2, <2>3
  <2>7. \A l \in DOMAIN w.rec \ {k} : RowKeys(w.rec[l]) \cap RowKeys(Record(x)) \subseteq {0}
    BY <2>1, <2>2, <2>3, <2>4, <2>5
  <2> QED BY <2>6, <2>7 DEF Own
<1>12. Good(UpdateData(w, k, x))
  BY <1>8, <1>9, <1>11, UpdateDataGood
<1> QED BY <1>1, <1>6, <1>12

\* The row that db_item_remove() removes is one of the group.
LEMMA RemovedIsRow ==
    ASSUME NEW s, NEW data, NEW in, Whole(data), Removed(s, data, in) # 0
    PROVE  Removed(s, data, in) \in DOMAIN data.rows
<1> DEFINE Same(i) == LET d == s.rec[data.rows[i].key].data
                          x == IF data.schema = "SET" THEN Field(in.val) ELSE in
                      IN  d.schema = x.kind /\ d.el = x.el /\ d.val = x.val
           seen == {i \in DOMAIN data.rows : \A j \in 1 .. i : Live(s, data.rows[j].key)}
           A == {i \in seen : Same(i)}
           B == {i \in seen : data.rows[i].name = in.el}
<1>1. Removed(s, data, in) \in {First(A), First(B), 0}
  BY ZenonT(60) DEF Removed
<1>2. A \subseteq DOMAIN data.rows /\ B \subseteq DOMAIN data.rows
  OBVIOUS
<1>3. DOMAIN data.rows \subseteq Nat \ {0}
  BY SeqPlaces DEF Whole
<1> HIDE DEF A, B
<1>4. \A S : S \subseteq DOMAIN data.rows => First(S) = 0 \/ First(S) \in S
  <2> SUFFICES ASSUME NEW S, S \subseteq DOMAIN data.rows PROVE First(S) = 0 \/ First(S) \in S
    OBVIOUS
  <2>1. CASE S = {}
    BY <2>1 DEF First
  <2>2. CASE S # {}
    BY <1>3, <2>2, FirstIsFound
  <2> QED BY <2>1, <2>2
<1> QED BY <1>1, <1>2, <1>4, SMTT(30)

LEMMA SeqRemove ==
    ASSUME NEW q, NEW i \in DOMAIN q, IsSeq(q)
    PROVE  /\ IsSeq(RemoveAt(q, i))
           /\ \A j \in DOMAIN RemoveAt(q, i) : \E l \in DOMAIN q : RemoveAt(q, i)[j] = q[l]
<1> DEFINE S == {q[l] : l \in DOMAIN q}
           r == RemoveAt(q, i)
<1>1. q \in Seq(S) /\ Len(q) \in Nat /\ DOMAIN q = 1 .. Len(q)
  BY SeqPlaces DEF IsSeq
<1> HIDE DEF S
<1>2. SubSeq(q, 1, i - 1) \in Seq(S) /\ SubSeq(q, i + 1, Len(q)) \in Seq(S)
  BY <1>1
<1>3. r \in Seq(S)
  BY <1>2 DEF RemoveAt
<1> HIDE DEF r
<1>4. \A j \in DOMAIN r : r[j] \in S
  BY <1>3
<1>5. IsSeq(r)
  <2>1. Len(r) \in Nat /\ DOMAIN r = 1 .. Len(r) /\ r = [j \in DOMAIN r |-> r[j]]
    BY <1>3
  <2> QED BY <2>1, SeqMade
<1> QED BY <1>4, <1>5 DEF S, r

LEMMA DbItemRemoveGood ==
    ASSUME NEW s, NEW k \in DOMAIN s.rec, NEW in, Good(s), Whole(s.rec[k].data), s.rec[k].data # None
    PROVE  Good(DbItemRemove(s, k, in))
<1> DEFINE data == s.rec[k].data
           i == Removed(s, data, in)
           r == data.rows[i].key
           t == IF data.schema = "TABLE" /\ in.kind = "OBJECT" THEN OnFirstIndex(s, k, in.el, in.val, -1) ELSE s
           u == EngineDelete(t, r)
           w == IF s.rec[r].alias THEN AliasDelete(u, r) ELSE u
           z == [w EXCEPT !.stale = @ \cup OtherTrees(s, k)]
           x == [data EXCEPT !.rows = RemoveAt(@, i)]
<1>1. DbItemRemove(s, k, in) =
        IF i = 0 THEN s
        ELSE IF data.schema = "TABLE" /\ Len(data.rows) = 1 THEN [w EXCEPT !.dead = TRUE]
        ELSE UpdateData(z, k, x)
  BY DEF DbItemRemove
<1>2. i # 0 => i \in DOMAIN data.rows
  BY RemovedIsRow
<1> HIDE DEF i, r
<1>3. Good(t) /\ t.rec = s.rec
  BY OnFirstIndexGood
<1> HIDE DEF t
<1>4. Good(u) /\ SameData(s, u)
  <2>1. Good(u) /\ SameData(t, u)
    BY <1>3, EngineDeleteGood
  <2> QED BY <1>3, <2>1 DEF SameData
<1> HIDE DEF u
<1>5. Good(w) /\ SameData(s, w)
  BY <1>4, AliasDeleteGood DEF SameData
<1> HIDE DEF w
<1>6. SameRest(w, z) /\ SameRest(w, [w EXCEPT !.dead = TRUE])
  BY <1>5, OtherFields
<1>7. Good([w EXCEPT !.dead = TRUE])
  BY <1>5, <1>6, RestKept
<1> HIDE DEF z
<1>8. Good(z) /\ k \in DOMAIN z.rec /\ z.rec[k].data = data
  BY <1>5, <1>6, RestKept DEF SameRest, SameData
<1>9. ASSUME i # 0 PROVE Good(UpdateData(z, k, x))
  <2>1. IsSeq(data.rows) /\ IsData(data)
    BY DEF Whole
  <2> HIDE DEF data
  <2> DEFINE rows == RemoveAt(data.rows, i)
  <2>2. IsSeq(rows) /\ \A j \in DOMAIN rows : \E l \in DOMAIN data.rows : rows[j] = data.rows[l]
    BY <1>2, <1>9, <2>1, SeqRemove
  <2>3. IsData(x) /\ x.rows = rows
    <3> HIDE DEF rows
    <3>1. x = [data EXCEPT !.rows = rows]
      BY DEF rows
    <3> HIDE DEF x
    <3> QED BY <2>1, <3>1 DEF IsData
  <2> HIDE DEF x, rows
  <2>4. Whole(x) /\ KeysOf(x) \subseteq KeysOf(data)
    BY <2>2, <2>3 DEF Whole, KeysOf
  <2>5. RowKeys(Record(x)) \subseteq RowKeys(z.rec[k])
    <3>1. data # None
      BY DEF data
    <3> QED BY <1>8, <2>4, <3>1, PlainRecord DEF RowKeys
  <2>6. Own(z, k, Record(x))
    BY <1>8, <2>5, OwnSame
  <2> QED BY <1>8, <2>4, <2>6, UpdateDataGood
<1> HIDE DEF x
<1> QED BY <1>1, <1>7, <1>9

LEMMA DbSetMetaGood ==
    ASSUME NEW s, NEW k, NEW lock, Good(s)
    PROVE  Good(DbSetMeta(s, k, lock))
<1> DEFINE m == [Record(None) EXCEPT !.lock = lock]
<1>1. IsRecord(m) /\ m.type = "RECORD"
  BY DEF IsRecord, Record
<1>2. DbSetMeta(s, k, lock) \in {[s EXCEPT !.dead = TRUE], SetMeta(s, k, m)}
  BY DEF DbSetMeta
<1> HIDE DEF m
<1>3. Good(SetMeta(s, k, m))
  BY <1>1, SetMetaGood
<1>4. Good([s EXCEPT !.dead = TRUE])
  BY OtherFields, RestKept
<1> QED BY <1>2, <1>3, <1>4

LEMMA DbAliasUpdateGood ==
    ASSUME NEW s, NEW k \in DOMAIN s.rec, NEW name \in Names, Good(s)
    PROVE  Good(DbAliasUpdate(s, k, name))
<1> DEFINE g == Get(s, k, FALSE)
           m == [g.meta EXCEPT !.alias = TRUE]
           t == AliasAdd(g.s, k, name)
<1>1. /\ Good(g.s) /\ g.s.rec = s.rec /\ RecordOK(g.meta)
      /\ g.meta.type = "GROUP" => g.meta = s.rec[k]
  BY GetGood
<1>2. \/ DbAliasUpdate(s, k, name) = s
      \/ AliasGetKey(s, name) = None /\ DbAliasUpdate(s, k, name) \in {AliasUpdate(s, k, name), SetMeta(t, k, m)}
  BY DEF DbAliasUpdate
<1>3. g.s.alias = s.alias
  BY GoodIsBase DEF Get, Throw, IsBase
<1> HIDE DEF g
<1>4. k \in Nat
  BY DEF Good, RecordsOK
<1>5. ASSUME AliasGetKey(s, name) = None
      PROVE  Good(AliasUpdate(s, k, name)) /\ Good(SetMeta(t, k, m))
  <2>1. AliasNamed(s, name) = {}
    BY <1>5, AliasFree
  <2>2. Good(AliasUpdate(s, k, name))
    BY <2>1, AliasUpdateGood
  <2>3. CanName(g.s, k, name)
    BY <1>3, <1>4, <2>1 DEF CanName, AliasNamed
  <2>4. Good(t) /\ t.rec = s.rec
    <3>1. Good(g.s)
      BY <1>1
    <3>2. \A h : Good(h) /\ CanName(h, k, name) =>
                Good(AliasAdd(h, k, name)) /\ AliasAdd(h, k, name).rec = h.rec
      BY AliasAddGood, ZenonT(60)
    <3>3. Good(t) /\ t.rec = g.s.rec
      BY <2>3, <3>1, <3>2
    <3> QED BY <1>1, <3>3
  <2>5. IsRecord(m) /\ m.type = g.meta.type
    BY <1>1 DEF RecordOK, IsRecord
  <2> HIDE DEF t, m
  <2>6. m.type = "GROUP" => Whole(t.rec[k].data)
    BY <1>1, <2>4, <2>5 DEF RecordOK
  <2> QED BY <2>2, <2>4, <2>5, <2>6, SetMetaGood
<1> HIDE DEF t, m
<1> QED BY <1>2, <1>5

LEMMA DbIndexCreateGood ==
    ASSUME NEW s, NEW g, NEW e, Good(s), e # None
    PROVE  Good(DbIndexCreate(s, g, e))
<1> DEFINE data == s.rec[g].data
<1>1. DbIndexCreate(s, g, e) \in {s, AddIndex(s, g, data, e), [s EXCEPT !.dead = Build(s, data, e).dead]}
  BY DEF DbIndexCreate
<1>2. Good(AddIndex(s, g, data, e))
  BY AddIndexGood
<1>3. \A x : Good([s EXCEPT !.dead = x])
  BY OtherFields, RestKept
<1> QED BY <1>1, <1>2, <1>3

LEMMA DbIndexRebuildGood ==
    ASSUME NEW s, NEW i, Good(s)
    PROVE  Good(DbIndexRebuild(s, i))
<1> DEFINE p == EntryOf(s, i)
           e == s.ilist[p].el
           g == Get(s, s.ilist[p].group, FALSE)
           t == Build(s, g.data, e)
           old == s.ilist[p].offset
           z == [s EXCEPT !.tree[old] = Contents(s, g.data, e), !.stale = @ \ {old}, !.dead = t.dead]
<1>1. DbIndexRebuild(s, i) \in {[s EXCEPT !.dead = TRUE], s, [s EXCEPT !.dead = t.dead],
                                UpdateOffset(t, i, Len(t.tree)), z}
  BY DEF DbIndexRebuild
<1>2. \A x : Good([s EXCEPT !.dead = x])
  BY OtherFields, RestKept
<1>3. Good(UpdateOffset(t, i, Len(t.tree)))
  BY BuildGood, UpdateOffsetGood
<1>4. SameRest(s, z)
  <2> HIDE DEF t, p, e, g, old
  <2> QED BY GoodIsBase, ZenonT(60) DEF SameRest, SameLists, IsBase
<1>5. Good(z)
  <2> HIDE DEF z
  <2> QED BY <1>4, RestKept
<1> HIDE DEF z
<1> QED BY <1>1, <1>2, <1>3, <1>5

LEMMA VacuumedGood ==
    ASSUME NEW s, Good(s)
    PROVE  Good(Vacuumed(s))
<1> DEFINE copy == [s EXCEPT !.rec = [k \in {j \in DOMAIN @ : Live(s, j)} |-> @[k]],
                             !.alias = <<>>, !.alias_size = 0,
                             !.ilist = <<>>, !.index_list_size = 0, !.tree = <<>>, !.stale = {}]
<1>1. /\ IsBase(copy) /\ copy.next = s.next
      /\ copy.alias = <<>> /\ copy.alias_size = 0 /\ copy.ilist = <<>> /\ copy.index_list_size = 0
      /\ copy.rec = [k \in {j \in DOMAIN s.rec : Live(s, j)} |-> s.rec[k]]
  BY GoodIsBase, ZenonT(60) DEF IsBase
<1>2. Vacuumed(s) = IndexListRebuild(s, AliasRebuild(s, copy))
  BY DEF Vacuumed
<1> HIDE DEF copy
<1>3. RecordsOK(copy)
  BY <1>1, ZenonT(60) DEF Good, RecordsOK
<1>4. IsSeq(<<>>) /\ DOMAIN <<>> = {}
  BY DEF IsSeq
<1>5. AliasesOK(copy)
  <2>1. AliasAll(copy) = {}
    BY <1>1, <1>4 DEF AliasAll
  <2> QED BY <1>1, <1>4, <2>1, FS_EmptySet DEF AliasesOK
<1>6. IndexesOK(copy)
  <2>1. Listed(copy) = {}
    BY <1>1, <1>4 DEF Listed
  <2> QED BY <1>1, <1>4, <2>1, FS_EmptySet DEF IndexesOK
<1>7. Good(copy)
  BY <1>3, <1>5, <1>6 DEF Good
<1> QED BY <1>1, <1>2, <1>7, AliasRebuildGood, IndexListRebuildGood

-----------------------------------------------------------------------------
(* What agrees between the requests of a clean workload *)

\* What a record is: a row, a document that a client has the key of, an index,
\* or the record of bootstrap().
IsInner(r) == /\ r.type = "RECORD" /\ r.alias = FALSE /\ r.lock = FALSE
              /\ \E x \in Parts : r.data = Plain(x)

IsTop(r) == /\ r.type \in {"RECORD", "GROUP"} /\ r.alias \in BOOLEAN /\ r.lock = FALSE
            /\ r.data \in Data
            /\ r.type = "GROUP" <=> IsGroup(r.data)
            /\ r.type = "GROUP" => r.alias
            /\ r.data.schema = "FIELD" => r.data.rows = <<>>
            /\ IsGroup(r.data) \/ r.data.rows # <<>> => r.data.el = None

IsIndex(r) == r.type = "INDEX" /\ r.alias = TRUE /\ r.lock = FALSE /\ r.data = None

IsRaw(r) == r.type = "RAW" /\ r.alias = FALSE /\ r.life = "finite" /\ r.data = None

RoleOK(s, k) ==
    /\ s.rec[k].life \in {"finite", "recycle"}
    /\ k \in s.top => IsTop(s.rec[k])
    /\ k \notin s.top => IsInner(s.rec[k]) \/ IsIndex(s.rec[k]) \/ IsRaw(s.rec[k])

\* The rows of a record are rows; those of a live one are live.
Rows(s, k) == RowKeys(s.rec[k]) \ {0}

Distinct(d) == \A i, j \in DOMAIN d.rows : d.rows[i].key = d.rows[j].key => i = j \/ d.rows[i].key = 0

RowsOK(s, k) ==
    /\ \A x \in Rows(s, k) : /\ x \notin s.top
                             /\ x \in DOMAIN s.rec => IsInner(s.rec[x])
                             /\ s.rec[k].life = "finite" => Live(s, x)
    /\ s.rec[k].type = "GROUP" => 0 \notin RowKeys(s.rec[k])
    /\ s.rec[k].data # None => Distinct(s.rec[k].data)

KeysFit(s) == s.top \subseteq 1 .. s.next - 1 /\ DOMAIN s.rec \subseteq 1 .. s.next - 1

RecordsIn(s) == KeysFit(s) /\ \A k \in DOMAIN s.rec : RoleOK(s, k) /\ RowsOK(s, k)

-----------------------------------------------------------------------------
(* A request changes one record, drops some of its rows and adds records *)

\* From s to t: record k changes in any way, its rows in X go, records that are
\* not live may go, and records with new keys come.
Step(s, t, k, X) ==
    /\ s.next <= t.next
    /\ s.top \subseteq t.top /\ t.top \ s.top \subseteq s.next .. t.next - 1
    /\ DOMAIN t.rec \subseteq DOMAIN s.rec \cup s.next .. t.next - 1
    /\ X \subseteq IF k \in DOMAIN s.rec THEN Rows(s, k) ELSE {}
    /\ k \in DOMAIN s.rec => k \in s.top \/ ~IsInner(s.rec[k])
    /\ \A x \in DOMAIN s.rec \ {k} :
         \/ x \in DOMAIN t.rec /\ t.rec[x] = s.rec[x] /\ x \notin X
         \/ x \notin DOMAIN t.rec /\ ~Live(s, x)
         \/ x \in X /\ (x \in DOMAIN t.rec => t.rec[x] = [s.rec[x] EXCEPT !.life = "recycle"])

\* What s and t have at k, and in its rows, is the same.
SameRows(s, t, k) == \A x \in Rows(s, k) : Live(s, x) /\ Live(t, x) /\ t.rec[x] = s.rec[x]

LEMMA InnerFacts ==
    ASSUME NEW r, IsInner(r), IsRecord(r)
    PROVE  /\ RowKeys(r) = {} /\ r.type # "GROUP" /\ ~r.alias /\ ~r.lock /\ r.data # None
           /\ Distinct(r.data) /\ r.data.rows = <<>> /\ r.data \in Data
           /\ IsInner([r EXCEPT !.life = "recycle"])
<1>1. PICK x \in Parts : r.data = Plain(x)
  BY DEF IsInner
<1>2. x.kind \in {"FIELD", "OBJECT"} /\ x.el \in Elements \cup {None} /\ x.val \in Vals
  BY DEF Parts, Field, Object
<1>3. Plain(x) \in Data /\ Plain(x).rows = <<>>
  <2>1. <<>> \in Seq([name : Labels, key : Nat, val : Vals \cup {None}])
    OBVIOUS
  <2> QED BY <1>2, <2>1 DEF Data, Plain
<1>4. r.data # None
  BY <1>1, <1>3, DatabaseAssumption
<1>5. DOMAIN r.data.rows = {}
  BY <1>1, <1>3
<1>6. RowKeys(r) = {} /\ Distinct(r.data)
  BY <1>5 DEF RowKeys, KeysOf, Distinct
<1>7. LET q == [r EXCEPT !.life = "recycle"] IN q.type = r.type /\ q.alias = r.alias /\ q.lock = r.lock /\ q.data = r.data
  BY DEF IsRecord
<1>8. IsInner([r EXCEPT !.life = "recycle"])
  BY <1>7 DEF IsInner
<1> QED BY <1>1, <1>3, <1>4, <1>6, <1>8 DEF IsInner

\* A record of the base has the fields of one, and its row keys are old.
LEMMA RecordFacts ==
    ASSUME NEW s, Good(s), NEW k \in DOMAIN s.rec
    PROVE  /\ IsRecord(s.rec[k]) /\ RecordOK(s.rec[k])
           /\ RowKeys(s.rec[k]) \subseteq 0 .. s.next - 1
           /\ s.next \in Nat \ {0} /\ k \in Nat
           /\ \A j \in DOMAIN s.rec \ {k} : Rows(s, k) \cap Rows(s, j) = {}
  BY DEF Good, RecordsOK, RecordOK, Rows

\* Only documents have rows.
LEMMA OnlyTop ==
    ASSUME NEW s, Good(s), RecordsIn(s), NEW k \in DOMAIN s.rec, k \notin s.top
    PROVE  RowKeys(s.rec[k]) = {} /\ s.rec[k].type # "GROUP"
<1>1. CASE IsInner(s.rec[k])
  BY <1>1, InnerFacts, RecordFacts
<1>2. CASE IsIndex(s.rec[k]) \/ IsRaw(s.rec[k])
  BY <1>2 DEF IsIndex, IsRaw, RowKeys
<1> QED BY <1>1, <1>2 DEF RecordsIn, RoleOK

LEMMA StepKept ==
    ASSUME NEW s, NEW t, NEW k, NEW X, Good(s), RecordsIn(s), Step(s, t, k, X)
    PROVE  /\ \A x \in DOMAIN s.rec \ {k} : Live(s, x) /\ x \notin X => Live(t, x) /\ t.rec[x] = s.rec[x]
           /\ \A x \in DOMAIN s.rec \ {k} : ~Live(s, x) => ~Live(t, x)
           /\ \A j \in DOMAIN s.rec \ {k} : Live(s, j) => SameRows(s, t, j)
           /\ X = {} => (k \in DOMAIN s.rec /\ Live(s, k) => SameRows(s, t, k))
           /\ \A x \in DOMAIN t.rec : x \notin DOMAIN s.rec <=> x >= s.next
           /\ \A x : x \in DOMAIN s.rec \/ x \notin s.next .. t.next - 1 => (x \in t.top <=> x \in s.top)
           /\ X \cap s.top = {} /\ X \cap s.next .. t.next - 1 = {}
<1>1. \A x \in DOMAIN s.rec \ {k} : Live(s, x) /\ x \notin X => Live(t, x) /\ t.rec[x] = s.rec[x]
  BY DEF Step, Live
<1>2. ASSUME NEW x \in DOMAIN s.rec \ {k}, ~Live(s, x) PROVE ~Live(t, x)
  <2>1. CASE x \in DOMAIN t.rec /\ t.rec[x] = s.rec[x]
    BY <1>2, <2>1 DEF Live
  <2>2. CASE x \notin DOMAIN t.rec
    BY <2>2 DEF Live
  <2>3. CASE x \in X /\ (x \in DOMAIN t.rec => t.rec[x] = [s.rec[x] EXCEPT !.life = "recycle"])
    <3>1. IsRecord(s.rec[x])
      BY RecordFacts
    <3>2. [s.rec[x] EXCEPT !.life = "recycle"].life = "recycle"
      BY <3>1 DEF IsRecord
    <3> QED BY <2>3, <3>2 DEF Live
  <2> QED BY <1>2, <2>1, <2>2, <2>3 DEF Step
<1>3. ASSUME NEW j \in DOMAIN s.rec, Live(s, j), j # k \/ X = {} PROVE SameRows(s, t, j)
  <2> SUFFICES ASSUME NEW x \in Rows(s, j) PROVE Live(s, x) /\ Live(t, x) /\ t.rec[x] = s.rec[x]
    BY DEF SameRows
  <2>1. Live(s, x) /\ x \in DOMAIN s.rec /\ IsInner(s.rec[x]) /\ x \notin s.top
    BY <1>3 DEF RecordsIn, RowsOK, Live
  <2>2. x # k
    BY <2>1 DEF Step
  <2>3. x \notin X
    BY <1>3, RecordFacts DEF Step
  <2> QED BY <1>1, <2>1, <2>2, <2>3
<1>4. \A x \in DOMAIN t.rec : x \notin DOMAIN s.rec <=> x >= s.next
  BY RecordFacts DEF Step, RecordsIn, KeysFit
<1>5. \A x : x \in DOMAIN s.rec \/ x \notin s.next .. t.next - 1 => (x \in t.top <=> x \in s.top)
  BY RecordFacts DEF Step, RecordsIn, KeysFit
<1>6. X \cap s.top = {} /\ X \cap s.next .. t.next - 1 = {}
  <2> SUFFICES ASSUME NEW x \in X PROVE x \notin s.top /\ x \notin s.next .. t.next - 1
    OBVIOUS
  <2>1. k \in DOMAIN s.rec /\ x \in Rows(s, k)
    BY DEF Step
  <2>2. x \in 0 .. s.next - 1 /\ s.next \in Nat
    BY <2>1, RecordFacts DEF Rows
  <2> QED BY <2>1, <2>2 DEF RecordsIn, RowsOK
<1> QED BY <1>1, <1>2, <1>3, <1>4, <1>5, <1>6

LEMMA StepRecords ==
    ASSUME NEW s, NEW t, NEW k, NEW X, Good(s), Good(t), RecordsIn(s), Step(s, t, k, X),
           \A j \in DOMAIN t.rec : j = k \/ j \notin DOMAIN s.rec => RoleOK(t, j) /\ RowsOK(t, j)
    PROVE  RecordsIn(t)
<1>1. KeysFit(t)
  <2>1. s.next \in Nat \ {0} /\ t.next \in Nat \ {0}
    BY DEF Good, RecordsOK
  <2>2. \A x \in 1 .. s.next - 1 : x \in 1 .. t.next - 1
    BY <2>1 DEF Step
  <2>3. \A x \in s.next .. t.next - 1 : x \in 1 .. t.next - 1
    BY <2>1
  <2> QED BY <2>2, <2>3 DEF Step, RecordsIn, KeysFit
<1>2. ASSUME NEW x \in DOMAIN s.rec, x \in DOMAIN t.rec, IsInner(s.rec[x]), x \notin s.top
      PROVE  IsInner(t.rec[x])
  <2>1. x # k
    BY <1>2 DEF Step
  <2>2. t.rec[x] = s.rec[x] \/ t.rec[x] = [s.rec[x] EXCEPT !.life = "recycle"]
    BY <1>2, <2>1 DEF Step
  <2>3. IsInner([s.rec[x] EXCEPT !.life = "recycle"])
    BY <1>2, InnerFacts, RecordFacts
  <2> QED BY <1>2, <2>2, <2>3
<1>3. ASSUME NEW j \in DOMAIN t.rec, j # k, j \in DOMAIN s.rec
      PROVE  RoleOK(t, j) /\ RowsOK(t, j)
  <2>1. j \in t.top <=> j \in s.top
    BY <1>3, StepKept
  <2>2. RoleOK(s, j) /\ RowsOK(s, j)
    BY <1>3 DEF RecordsIn
  <2>3. CASE t.rec[j] = s.rec[j]
    <3>1. RoleOK(t, j)
      BY <2>1, <2>2, <2>3 DEF RoleOK
    <3>2. ASSUME NEW x \in Rows(t, j)
          PROVE  /\ x \notin t.top /\ (x \in DOMAIN t.rec => IsInner(t.rec[x]))
                 /\ t.rec[j].life = "finite" => Live(t, x)
      <4>1. x \in Rows(s, j) /\ x \in 0 .. s.next - 1 /\ s.next \in Nat
        BY <2>3, RecordFacts, <1>3 DEF Rows
      <4>2. x \notin s.top /\ (x \in DOMAIN s.rec => IsInner(s.rec[x])) /\ (s.rec[j].life = "finite" => Live(s, x))
        BY <2>2, <4>1 DEF RowsOK
      <4>3. x \notin t.top
        BY <4>1, <4>2, StepKept
      <4>4. x \in DOMAIN t.rec => x \in DOMAIN s.rec
        BY <4>1 DEF Step
      <4>5. t.rec[j].life = "finite" => Live(t, x)
        BY <1>3, <2>3, <4>1, StepKept DEF Live, SameRows
      <4> QED BY <1>2, <4>2, <4>3, <4>4, <4>5
    <3> QED BY <2>2, <2>3, <3>1, <3>2 DEF RowsOK
  <2>4. CASE j \in X /\ t.rec[j] = [s.rec[j] EXCEPT !.life = "recycle"]
    <3>1. k \in DOMAIN s.rec /\ j \in Rows(s, k)
      BY <2>4 DEF Step
    <3>2. IsInner(s.rec[j]) /\ j \notin s.top
      BY <1>3, <3>1 DEF RecordsIn, RowsOK
    <3>3. IsInner(t.rec[j]) /\ IsRecord(t.rec[j]) /\ IsRecord(s.rec[j])
      BY <1>2, <1>3, <3>2, RecordFacts
    <3>4. RowKeys(t.rec[j]) = {} /\ t.rec[j].type # "GROUP" /\ Distinct(t.rec[j].data)
      BY <3>3, InnerFacts
    <3>5. t.rec[j].life = "recycle"
      BY <2>4, <3>3 DEF IsRecord
    <3> QED BY <2>1, <3>2, <3>3, <3>4, <3>5 DEF RoleOK, RowsOK, Rows
  <2> QED BY <1>3, <2>3, <2>4 DEF Step
<1> QED BY <1>1, <1>3 DEF RecordsIn

-----------------------------------------------------------------------------
(* Aliases *)

\* The records that have an alias, and that each has one.
AliasKeys(s) == {s.alias[p].quid : p \in AliasAll(s)}

AliasOnce(s) == \A p, q \in AliasAll(s) : s.alias[p].quid = s.alias[q].quid => p = q

AliasMatch(s) ==
    /\ AliasOnce(s)
    /\ \A k \in AliasKeys(s) : Live(s, k) /\ s.rec[k].alias
    /\ \A k \in s.top : Live(s, k) /\ s.rec[k].alias => k \in AliasKeys(s)

SameRecords(s, t) == t.rec = s.rec /\ t.next = s.next /\ t.top = s.top
SameIndexes(s, t) == t.ilist = s.ilist /\ t.tree = s.tree /\ t.stale = s.stale

LEMMA AliasAddIs ==
    ASSUME NEW s, NEW k, NEW name, Good(s), AliasOnce(s), k \notin AliasKeys(s)
    PROVE  LET t == AliasAdd(s, k, name)
           IN  /\ AliasOnce(t) /\ AliasKeys(t) = AliasKeys(s) \cup {k}
               /\ SameRecords(s, t) /\ SameIndexes(s, t) /\ t.err = s.err
<1> DEFINE t == AliasAdd(s, k, name)
           a == [quid |-> k, name |-> name, len |-> TRUE]
           n == Len(s.alias) + 1
<1>1. IsBase(s) /\ IsSeq(s.alias)
  BY DEF Good, RecordsOK, AliasesOK
<1>2. /\ t.alias = Append(s.alias, a) /\ a.quid = k /\ a.len
      /\ SameRecords(s, t) /\ SameIndexes(s, t) /\ t.err = s.err
  BY <1>1 DEF AliasAdd, IsBase, SameRecords, SameIndexes
<1> HIDE DEF t, a
<1>3. /\ DOMAIN t.alias = DOMAIN s.alias \cup {n} /\ n \notin DOMAIN s.alias
      /\ \A p \in DOMAIN s.alias : t.alias[p] = s.alias[p]
      /\ t.alias[n] = a
  BY <1>1, <1>2, SeqAppend
<1> HIDE DEF n
<1>4. AliasAll(t) = AliasAll(s) \cup {n}
  BY <1>2, <1>3 DEF AliasAll
<1>5. AliasKeys(t) = AliasKeys(s) \cup {k}
  BY <1>2, <1>3, <1>4 DEF AliasKeys, AliasAll
<1>6. AliasOnce(t)
  BY <1>2, <1>3, <1>4 DEF AliasOnce, AliasKeys, AliasAll
<1> QED BY <1>2, <1>5, <1>6 DEF t

LEMMA AliasDeleteIs ==
    ASSUME NEW s, NEW k, Good(s), AliasOnce(s)
    PROVE  LET t == AliasDelete(s, k)
           IN  /\ AliasOnce(t) /\ AliasKeys(t) = AliasKeys(s) \ {k}
               /\ SameRecords(s, t) /\ SameIndexes(s, t)
               /\ t.err = IF k \in AliasKeys(s) THEN s.err ELSE TRUE
<1> DEFINE t == AliasDelete(s, k)
           p == FirstSeen(AliasesOf(s, k))
           a == [s.alias[p] EXCEPT !.len = FALSE, !.quid = 0]
<1>1. IsBase(s) /\ IsSeq(s.alias)
  BY DEF Good, RecordsOK, AliasesOK
<1>2. CASE AliasesOf(s, k) = {}
  <2>1. p = 0
    BY <1>2 DEF FirstSeen
  <2>2. t = Throw(s)
    BY <2>1 DEF AliasDelete
  <2>3. k \notin AliasKeys(s)
    BY <1>2 DEF AliasKeys, AliasesOf, AliasAll
  <2>4. t.alias = s.alias /\ SameRecords(s, t) /\ SameIndexes(s, t) /\ t.err = TRUE
    BY <1>1, <2>2 DEF Throw, IsBase, SameRecords, SameIndexes
  <2> QED BY <2>3, <2>4, ZenonT(60) DEF AliasOnce, AliasKeys, AliasAll
<1>3. CASE AliasesOf(s, k) # {}
  <2>1. DOMAIN s.alias = 1 .. Len(s.alias) /\ Len(s.alias) \in Nat
    BY <1>1, SeqPlaces
  <2>2. p \in AliasesOf(s, k) /\ p # 0
    BY <1>3, <2>1, SeenIsFound DEF AliasesOf
  <2>3. t = [s EXCEPT !.alias[p] = a, !.alias_size = @ - 1]
    BY <2>2, ZenonT(60) DEF AliasDelete
  <2> HIDE DEF p
  <2>4. p \in DOMAIN s.alias /\ s.alias[p].len /\ s.alias[p].quid = k /\ IsAlias(s.alias[p])
    BY <2>2 DEF AliasesOf, Good, AliasesOK, AliasOK
  <2>5. SameRecords(s, t) /\ SameIndexes(s, t) /\ t.err = s.err
    BY <1>1, <2>3 DEF IsBase, SameRecords, SameIndexes
  <2>6. /\ DOMAIN t.alias = DOMAIN s.alias
        /\ t.alias[p].len = FALSE
        /\ \A q \in DOMAIN s.alias \ {p} : t.alias[q] = s.alias[q]
    <3>1. a.len = FALSE
      BY <2>4 DEF IsAlias
    <3> HIDE DEF a, t
    <3>3. t.alias = [s.alias EXCEPT ![p] = a]
      BY <1>1, <2>3 DEF IsBase
    <3> QED BY <2>4, <3>1, <3>3
  <2> HIDE DEF t
  <2>7. AliasAll(t) = AliasAll(s) \ {p}
    BY <2>4, <2>6 DEF AliasAll
  <2>8. k \in AliasKeys(s)
    BY <2>4 DEF AliasKeys, AliasAll
  <2>9. AliasKeys(t) = AliasKeys(s) \ {k}
    BY <2>4, <2>6, <2>7 DEF AliasKeys, AliasOnce, AliasAll
  <2>10. AliasOnce(t)
    BY <2>6, <2>7 DEF AliasOnce, AliasAll
  <2> QED BY <2>5, <2>8, <2>9, <2>10 DEF t
<1> QED BY <1>2, <1>3

\* Of a record that has an alias the name changes, of another one nothing.
LEMMA AliasUpdateIs ==
    ASSUME NEW s, NEW k, NEW name, Good(s), AliasOnce(s)
    PROVE  LET t == AliasUpdate(s, k, name)
           IN  /\ AliasOnce(t) /\ AliasKeys(t) = AliasKeys(s)
               /\ SameRecords(s, t) /\ SameIndexes(s, t)
<1> DEFINE t == AliasUpdate(s, k, name)
           p == FirstSeen(AliasesOf(s, k))
<1>1. IsBase(s) /\ IsSeq(s.alias)
  BY DEF Good, RecordsOK, AliasesOK
<1>2. CASE p = 0
  <2>1. t = Throw(s)
    BY <1>2 DEF AliasUpdate
  <2>2. t.alias = s.alias /\ SameRecords(s, t) /\ SameIndexes(s, t)
    BY <1>1, <2>1 DEF Throw, IsBase, SameRecords, SameIndexes
  <2> QED BY <2>2 DEF AliasOnce, AliasKeys, AliasAll
<1>3. CASE p # 0
  <2>1. p \in AliasesOf(s, k)
    BY <1>3, AliasSeen
  <2>2. t = [s EXCEPT !.alias[p].name = name]
    BY <1>3 DEF AliasUpdate
  <2> HIDE DEF p
  <2>3. p \in DOMAIN s.alias /\ IsAlias(s.alias[p])
    BY <2>1 DEF AliasesOf, Good, AliasesOK, AliasOK
  <2>4. SameRecords(s, t) /\ SameIndexes(s, t)
    BY <1>1, <2>2 DEF IsBase, SameRecords, SameIndexes
  <2>5. /\ DOMAIN t.alias = DOMAIN s.alias
        /\ \A q \in DOMAIN s.alias : t.alias[q].len = s.alias[q].len /\ t.alias[q].quid = s.alias[q].quid
    BY <1>1, <2>2, <2>3 DEF IsBase, IsAlias
  <2> HIDE DEF t
  <2>6. AliasAll(t) = AliasAll(s)
    BY <2>5 DEF AliasAll
  <2>7. AliasKeys(t) = AliasKeys(s) /\ AliasOnce(t)
    BY <2>5, <2>6 DEF AliasKeys, AliasOnce, AliasAll
  <2> QED BY <2>4, <2>7 DEF t
<1> QED BY <1>2, <1>3

\* Aliases after a step in which only those of k, of new records and of indexes
\* may come and go.
LEMMA StepAliases ==
    ASSUME NEW s, NEW t, NEW k, NEW X, Good(s), RecordsIn(s), AliasMatch(s), Step(s, t, k, X),
           AliasOnce(t),
           \A j \in AliasKeys(t) : j = k \/ j \notin DOMAIN s.rec => Live(t, j) /\ t.rec[j].alias,
           \A j \in AliasKeys(t) : j = k \/ j \notin DOMAIN s.rec \/ j \in AliasKeys(s),
           \A j \in s.top \ {k} : j \in AliasKeys(s) => j \in AliasKeys(t),
           \A j \in t.top : j = k \/ j \notin DOMAIN s.rec => (Live(t, j) /\ t.rec[j].alias => j \in AliasKeys(t))
    PROVE  AliasMatch(t)
<1>1. ASSUME NEW j \in AliasKeys(t) PROVE Live(t, j) /\ t.rec[j].alias
  <2>1. CASE j # k /\ j \in DOMAIN s.rec
    <3>1. j \in AliasKeys(s)
      BY <2>1
    <3>2. Live(s, j) /\ s.rec[j].alias
      BY <3>1 DEF AliasMatch
    <3>3. j \notin X
      <4> SUFFICES ASSUME j \in X PROVE FALSE
        OBVIOUS
      <4>1. k \in DOMAIN s.rec /\ j \in Rows(s, k)
        BY DEF Step
      <4>2. IsInner(s.rec[j])
        BY <2>1, <4>1 DEF RecordsIn, RowsOK
      <4> QED BY <3>2, <4>2 DEF IsInner
    <3> QED BY <2>1, <3>2, <3>3, StepKept
  <2> QED BY <2>1
<1>2. ASSUME NEW j \in t.top, Live(t, j), t.rec[j].alias PROVE j \in AliasKeys(t)
  <2>1. CASE j # k /\ j \in DOMAIN s.rec
    <3>1. j \in s.top
      BY <2>1, StepKept
    <3>2. j \notin X
      BY <3>1, StepKept
    <3>3. Live(s, j) /\ t.rec[j] = s.rec[j]
      BY <1>2, <2>1, <3>2, StepKept
    <3> QED BY <1>2, <2>1, <3>1, <3>3 DEF AliasMatch
  <2> QED BY <1>2, <2>1
<1> QED BY <1>1, <1>2 DEF AliasMatch

-----------------------------------------------------------------------------
(* What the steps of a request do *)

SameAliases(s, t) == t.alias = s.alias

LEMMA ThrowIs ==
    ASSUME NEW s, Good(s)
    PROVE  /\ SameRecords(s, Throw(s)) /\ SameAliases(s, Throw(s)) /\ SameIndexes(s, Throw(s)) /\ Throw(s).err
           /\ SameRecords(s, Clear(s)) /\ SameAliases(s, Clear(s)) /\ SameIndexes(s, Clear(s)) /\ ~Clear(s).err
  BY GoodIsBase DEF IsBase, Throw, Clear, SameRecords, SameAliases, SameIndexes

\* A record takes the place of another.
Changed(s, t, k, r) == /\ t.rec = [s.rec EXCEPT ![k] = r] /\ t.next = s.next /\ t.top = s.top
                       /\ SameAliases(s, t) /\ SameIndexes(s, t) /\ t.err = s.err

LEMMA ChangedIs ==
    ASSUME NEW s, NEW t, NEW k \in DOMAIN s.rec, NEW r, Changed(s, t, k, r)
    PROVE  /\ DOMAIN t.rec = DOMAIN s.rec /\ t.rec[k] = r
           /\ \A x \in DOMAIN s.rec \ {k} : t.rec[x] = s.rec[x]
  BY DEF Changed

LEMMA SetMetaIs ==
    ASSUME NEW s, NEW k \in DOMAIN s.rec, NEW m, Good(s), ~s.rec[k].lock
    PROVE  Changed(s, SetMeta(s, k, m), k, [m EXCEPT !.data = s.rec[k].data])
<1> DEFINE r == [m EXCEPT !.data = s.rec[k].data]
<1>1. SetMeta(s, k, m) = [s EXCEPT !.rec[k] = r]
  BY DEF SetMeta
<1> HIDE DEF r
<1>2. Changed(s, [s EXCEPT !.rec[k] = r], k, r)
  BY GoodIsBase DEF IsBase, Changed, SameAliases, SameIndexes
<1> QED BY <1>1, <1>2 DEF r

LEMMA UpdateDataIs ==
    ASSUME NEW s, NEW k \in DOMAIN s.rec, NEW d, Good(s), ~s.rec[k].lock
    PROVE  Changed(s, UpdateData(s, k, d), k, [s.rec[k] EXCEPT !.data = d])
<1> DEFINE r == [s.rec[k] EXCEPT !.data = d]
<1>1. UpdateData(s, k, d) = [s EXCEPT !.rec[k] = r]
  BY DEF UpdateData
<1> HIDE DEF r
<1>2. Changed(s, [s EXCEPT !.rec[k] = r], k, r)
  BY GoodIsBase DEF IsBase, Changed, SameAliases, SameIndexes
<1> QED BY <1>1, <1>2 DEF r

LEMMA EngineDeleteIs ==
    ASSUME NEW s, NEW k, Good(s), Live(s, k), ~s.err, ~s.rec[k].lock
    PROVE  Changed(s, EngineDelete(s, k), k, [s.rec[k] EXCEPT !.life = "recycle"])
<1> DEFINE m == [s.rec[k] EXCEPT !.life = "recycle"]
<1>1. k \in DOMAIN s.rec /\ IsRecord(s.rec[k])
  BY RecordFacts DEF Live
<1>2. EngineDelete(s, k) = SetMeta(s, k, m)
  BY DEF EngineDelete
<1>3. [m EXCEPT !.data = s.rec[k].data] = m
  BY <1>1 DEF IsRecord
<1> HIDE DEF m
<1> QED BY <1>1, <1>2, <1>3, SetMetaIs DEF m

LEMMA EnginePurgeIs ==
    ASSUME NEW s, NEW k, Good(s), ~s.rec[k].lock
    PROVE  LET t == EnginePurge(s, k)
           IN  /\ t.rec = [j \in DOMAIN s.rec \ {k} |-> s.rec[j]] /\ t.next = s.next /\ t.top = s.top
               /\ SameAliases(s, t) /\ SameIndexes(s, t) /\ t.err = s.err
<1>1. EnginePurge(s, k) = [s EXCEPT !.rec = [j \in DOMAIN @ \ {k} |-> @[j]]]
  BY DEF EnginePurge
<1> QED BY <1>1, GoodIsBase DEF IsBase, SameAliases, SameIndexes

LEMMA InsertIs ==
    ASSUME NEW s, NEW k, NEW r, Good(s)
    PROVE  LET t == Insert(s, k, r)
           IN  /\ DOMAIN t.rec = DOMAIN s.rec \cup {k} /\ t.rec[k] = r
               /\ \A x \in DOMAIN s.rec \ {k} : t.rec[x] = s.rec[x]
               /\ t.next = s.next /\ t.top = s.top
               /\ SameAliases(s, t) /\ SameIndexes(s, t) /\ t.err = s.err
  BY GoodIsBase DEF IsBase, Insert, SameAliases, SameIndexes

\* The fields of a record whose metadata changes.
LEMMA RecordExcept ==
    ASSUME NEW r, IsRecord(r), NEW x
    PROVE  /\ IsRecord([r EXCEPT !.life = x]) /\ IsRecord([r EXCEPT !.alias = x]) /\ IsRecord([r EXCEPT !.data = x])
           /\ LET q == [r EXCEPT !.life = x]
              IN  q.type = r.type /\ q.alias = r.alias /\ q.lock = r.lock /\ q.life = x /\ q.data = r.data
           /\ LET q == [r EXCEPT !.alias = x]
              IN  q.type = r.type /\ q.alias = x /\ q.lock = r.lock /\ q.life = r.life /\ q.data = r.data
           /\ LET q == [r EXCEPT !.data = x]
              IN  q.type = r.type /\ q.alias = r.alias /\ q.lock = r.lock /\ q.life = r.life /\ q.data = x
  BY DEF IsRecord

\* A record becomes a group, with an alias.
Grouped(s, t, k, meta) ==
    /\ DOMAIN t.rec = DOMAIN s.rec
    /\ \A x \in DOMAIN s.rec \ {k} : t.rec[x] = s.rec[x]
    /\ t.rec[k].type = "GROUP" /\ t.rec[k].alias = TRUE /\ t.rec[k].lock = meta.lock
    /\ t.rec[k].life = meta.life /\ t.rec[k].data = s.rec[k].data
    /\ t.next = s.next /\ t.top = s.top
    /\ AliasOnce(t) /\ AliasKeys(t) = AliasKeys(s) \cup {k}
    /\ SameIndexes(s, t) /\ t.err = s.err

LEMMA MakeGroupIs ==
    ASSUME NEW s, NEW k \in DOMAIN s.rec, NEW meta, Good(s), IsRecord(meta), ~s.rec[k].lock, Whole(s.rec[k].data),
           AliasOnce(s), k \notin AliasKeys(s)
    PROVE  Grouped(s, MakeGroup(s, k, meta), k, meta)
<1> DEFINE m == [meta EXCEPT !.type = "GROUP", !.alias = TRUE]
           u == AliasAdd(s, k, k)
           r == [m EXCEPT !.data = s.rec[k].data]
           t == MakeGroup(s, k, meta)
<1>1. k \in Nat
  BY RecordFacts
<1>2. Good(u)
  <2>1. CanName(s, k, k)
    BY <1>1, OwnName
  <2> QED BY <2>1, AliasAddGood
<1>3. /\ AliasOnce(u) /\ AliasKeys(u) = AliasKeys(s) \cup {k}
      /\ SameRecords(s, u) /\ SameIndexes(s, u) /\ u.err = s.err
  BY AliasAddIs
<1>4. /\ r.type = "GROUP" /\ r.alias = TRUE /\ r.lock = meta.lock /\ r.life = meta.life /\ r.data = s.rec[k].data
  BY DEF IsRecord
<1>5. t = SetMeta(u, k, m)
  BY DEF MakeGroup
<1> HIDE DEF u, m, t
<1>6. Changed(u, t, k, r)
  BY <1>2, <1>3, <1>5, SetMetaIs DEF SameRecords
<1> HIDE DEF r
<1>7. AliasOnce(t) /\ AliasKeys(t) = AliasKeys(s) \cup {k}
  BY <1>3, <1>6 DEF Changed, SameAliases, AliasOnce, AliasKeys, AliasAll
<1>8. SameIndexes(s, t)
  BY <1>3, <1>6, SMTT(30) DEF Changed, SameIndexes
<1> QED BY <1>3, <1>4, <1>6, <1>7, <1>8, ChangedIs DEF Grouped, Changed, SameRecords, t

-----------------------------------------------------------------------------
(* What is read of a record *)

\* Rows that have the same in s and in t give the same index.
LEMMA RowsAlike ==
    ASSUME NEW s, NEW t, NEW c, NEW d, NEW e, DOMAIN c.rows = DOMAIN d.rows,
           \A i \in DOMAIN d.rows :
               /\ Live(s, d.rows[i].key) <=> Live(t, c.rows[i].key)
               /\ Live(s, d.rows[i].key) => /\ t.rec[c.rows[i].key].data.el = s.rec[d.rows[i].key].data.el
                                            /\ t.rec[c.rows[i].key].data.val = s.rec[d.rows[i].key].data.val
    PROVE  Contents(t, c, e) = Contents(s, d, e)
<1>1. Indexed(t, c, e) = Indexed(s, d, e)
  BY DEF Indexed
<1>2. \A v : {i \in Indexed(t, c, e) : t.rec[c.rows[i].key].data.val = v}
             = {i \in Indexed(s, d, e) : s.rec[d.rows[i].key].data.val = v}
  BY <1>1 DEF Indexed
<1> QED BY <1>2 DEF Contents

LEMMA RowsRead ==
    ASSUME NEW s, NEW t, NEW d, 0 \notin DOMAIN s.rec, 0 \notin DOMAIN t.rec,
           \A x \in KeysOf(d) \ {0} : Live(s, x) /\ Live(t, x) /\ t.rec[x] = s.rec[x]
    PROVE  Expand(t, d) = Expand(s, d) /\ \A e : Contents(t, d, e) = Contents(s, d, e)
<1>1. \A i \in DOMAIN d.rows : d.rows[i].key = 0 \/ /\ Live(s, d.rows[i].key) /\ Live(t, d.rows[i].key)
                                                    /\ t.rec[d.rows[i].key] = s.rec[d.rows[i].key]
  BY DEF KeysOf
<1>2. ~Live(s, 0) /\ ~Live(t, 0)
  BY DEF Live
<1>3. \A e : Contents(t, d, e) = Contents(s, d, e)
  <2> TAKE e
  <2>1. \A i \in DOMAIN d.rows :
               /\ Live(s, d.rows[i].key) <=> Live(t, d.rows[i].key)
               /\ Live(s, d.rows[i].key) => t.rec[d.rows[i].key] = s.rec[d.rows[i].key]
    BY <1>1, <1>2, SMTT(30)
  <2> QED BY <2>1, RowsAlike
<1>4. Expand(t, d) = Expand(s, d)
  BY <1>1, ZenonT(60) DEF Expand
<1> QED BY <1>3, <1>4

\* The records that a step keeps read as before.
LEMMA StepReads ==
    ASSUME NEW s, NEW t, NEW k, NEW X, Good(s), RecordsIn(s), KeysFit(t), Step(s, t, k, X),
           NEW j \in DOMAIN s.rec, Live(s, j), s.rec[j].data # None, j # k \/ X = {}
    PROVE  /\ Expand(t, s.rec[j].data) = Expand(s, s.rec[j].data)
           /\ \A e : Contents(t, s.rec[j].data, e) = Contents(s, s.rec[j].data, e)
<1>1. 0 \notin DOMAIN s.rec /\ 0 \notin DOMAIN t.rec
  BY DEF KeysFit, RecordsIn
<1>2. SameRows(s, t, j)
  BY StepKept
<1>3. \A x \in KeysOf(s.rec[j].data) \ {0} : Live(s, x) /\ Live(t, x) /\ t.rec[x] = s.rec[x]
  BY <1>2 DEF SameRows, Rows, RowKeys
<1> QED BY <1>1, <1>3, RowsRead

\* db_get() of a live document is its data with the rows.
LEMMA DocIs ==
    ASSUME NEW s, Good(s), RecordsIn(s), ~s.err, NEW k \in s.top, Live(s, k)
    PROVE  /\ DbGet(s, k) = Expand(s, s.rec[k].data)
           /\ s.rec[k].data # None /\ s.rec[k].data \in Data
           /\ s.rec[k].type \in {"RECORD", "GROUP"} /\ k \in DOMAIN s.rec /\ IsTop(s.rec[k])
<1>1. k \in DOMAIN s.rec /\ IsTop(s.rec[k])
  BY DEF Live, RecordsIn, RoleOK
<1>2. s.rec[k].data # None
  BY <1>1, DatabaseAssumption DEF IsTop
<1>3. Get(s, k, FALSE).meta = s.rec[k] /\ Get(s, k, FALSE).data = s.rec[k].data
  BY DEF Get
<1>4. DbGet(s, k) = Expand(s, s.rec[k].data)
  BY <1>1, <1>2, <1>3 DEF DbGet, IsTop
<1> QED BY <1>1, <1>2, <1>4 DEF IsTop

\* The documents, and those of a base in which one came, changed or went.
Docs(s) == [k \in {j \in s.top : Live(s, j)} |-> Expand(s, s.rec[k].data)]

DocsWith(s, t, k, d) == Docs(t) = [j \in DOMAIN Docs(s) \cup {k} |-> IF j = k THEN d ELSE Docs(s)[j]]

DocsWithout(s, t, k) == Docs(t) = [j \in DOMAIN Docs(s) \ {k} |-> Docs(s)[j]]

LEMMA DocsAre ==
    ASSUME NEW s, Good(s), RecordsIn(s), ~s.err
    PROVE  DocsOf(s) = Docs(s)
<1>1. \A k \in {j \in s.top : Live(s, j)} : DbGet(s, k) = Expand(s, s.rec[k].data)
  BY DocIs
<1> QED BY <1>1 DEF DocsOf, Docs

\* The documents after a step: those of others, and what k has.
LEMMA StepDocs ==
    ASSUME NEW s, NEW t, NEW k, NEW X, Good(s), Good(t), RecordsIn(s), KeysFit(t), Step(s, t, k, X)
    PROVE  /\ \A j \in s.top \ {k} : (j \in DOMAIN Docs(t) <=> j \in DOMAIN Docs(s))
           /\ \A j \in DOMAIN Docs(s) \ {k} : Docs(t)[j] = Docs(s)[j]
           /\ \A j \in DOMAIN Docs(s) : j \in s.top /\ j \in DOMAIN s.rec /\ Live(s, j)
<1>1. ASSUME NEW j \in s.top \ {k}, Live(s, j)
      PROVE  Live(t, j) /\ Expand(t, t.rec[j].data) = Expand(s, s.rec[j].data)
  <2>1. j \in DOMAIN s.rec /\ j \notin X
    <3>1. j \in DOMAIN s.rec
      BY <1>1 DEF Live
    <3>2. X \cap s.top = {}
      BY StepKept
    <3> QED BY <3>1, <3>2
  <2>2. Live(t, j) /\ t.rec[j] = s.rec[j]
    BY <1>1, <2>1, StepKept
  <2>3. s.rec[j].data # None
    BY <1>1, <2>1, DatabaseAssumption DEF RecordsIn, RoleOK, IsTop
  <2> QED BY <1>1, <2>1, <2>2, <2>3, StepReads
<1>2. ASSUME NEW j \in s.top \ {k}, ~Live(s, j)
      PROVE  ~Live(t, j)
  <2>1. CASE j \in DOMAIN s.rec
    BY <1>2, <2>1, StepKept
  <2>2. CASE j \notin DOMAIN s.rec
    <3>1. j \notin s.next .. t.next - 1
      BY RecordFacts DEF RecordsIn, KeysFit, Good, RecordsOK
    <3> QED BY <2>2, <3>1 DEF Step, Live
  <2> QED BY <2>1, <2>2
<1>3. s.top \subseteq t.top
  BY DEF Step
<1>4. \A j \in s.top \ {k} : (j \in DOMAIN Docs(t) <=> j \in DOMAIN Docs(s))
  BY <1>1, <1>2, <1>3 DEF Docs
<1>5. \A j \in DOMAIN Docs(s) : j \in s.top /\ j \in DOMAIN s.rec /\ Live(s, j)
  BY DEF Docs, Live
<1>6. \A j \in DOMAIN Docs(s) \ {k} : Docs(t)[j] = Docs(s)[j]
  BY <1>1, <1>3, <1>5 DEF Docs
<1> QED BY <1>4, <1>5, <1>6

LEMMA StepWith ==
    ASSUME NEW s, NEW t, NEW k, NEW X, Good(s), Good(t), RecordsIn(s), KeysFit(t), Step(s, t, k, X),
           t.top \subseteq s.top \cup {k}, k \in t.top, Live(t, k)
    PROVE  DocsWith(s, t, k, Expand(t, t.rec[k].data))
<1>1. DOMAIN Docs(t) = DOMAIN Docs(s) \cup {k}
  <2>1. k \in DOMAIN Docs(t) /\ DOMAIN Docs(t) \subseteq s.top \cup {k} /\ DOMAIN Docs(s) \subseteq s.top
    BY DEF Docs
  <2> QED BY <2>1, StepDocs
<1>2. Docs(t)[k] = Expand(t, t.rec[k].data)
  BY DEF Docs
<1>3. \A j \in DOMAIN Docs(s) \ {k} : Docs(t)[j] = Docs(s)[j]
  BY StepDocs
<1>4. Docs(t) = [j \in DOMAIN Docs(t) |-> Docs(t)[j]]
  BY DEF Docs
<1> QED BY <1>1, <1>2, <1>3, <1>4 DEF DocsWith

LEMMA StepWithout ==
    ASSUME NEW s, NEW t, NEW k, NEW X, Good(s), Good(t), RecordsIn(s), KeysFit(t), Step(s, t, k, X),
           t.top = s.top, k \notin s.top \/ ~Live(t, k)
    PROVE  DocsWithout(s, t, k)
<1>1. DOMAIN Docs(t) = DOMAIN Docs(s) \ {k}
  <2>1. k \notin DOMAIN Docs(t) /\ DOMAIN Docs(t) \subseteq s.top /\ DOMAIN Docs(s) \subseteq s.top
    BY DEF Docs
  <2> QED BY <2>1, StepDocs
<1>2. \A j \in DOMAIN Docs(s) \ {k} : Docs(t)[j] = Docs(s)[j]
  BY StepDocs
<1>3. Docs(t) = [j \in DOMAIN Docs(t) |-> Docs(t)[j]]
  BY DEF Docs
<1> QED BY <1>1, <1>2, <1>3 DEF DocsWithout

-----------------------------------------------------------------------------
(* Indexes *)

\* The live groups that clients know.
GroupsOf(s) == {k \in s.top : Live(s, k) /\ s.rec[k].type = "GROUP"}

\* An entry of the list is on one of the groups G, or has lost its index, its
\* group and its tree to the deletion of the entry before it.  No two entries
\* have an index or a tree in common.
EntryOK(s, x, G) ==
    /\ x.index \in 0 .. s.next - 1 /\ x.index \notin s.top
    /\ x.offset \in 0 .. Len(s.tree)
    /\ x.group \in G \cup {0}
    /\ x.index = 0 => x.group = 0
    /\ x.group = 0 => x.offset = 0

Apart(s) ==
    \A p, q \in Listed(s) :
        \/ p = q
        \/ /\ s.ilist[p].index = s.ilist[q].index => s.ilist[p].index = 0
           /\ s.ilist[p].offset = s.ilist[q].offset => s.ilist[p].offset = 0

IndexesIn(s, G) == IsSeq(s.tree) /\ Apart(s) /\ \A p \in Listed(s) : EntryOK(s, s.ilist[p], G)

\* An index has the values of the table, unless the table was replaced after it
\* was built, or it is not the first and an item came or went.
TreeOK(s, x) ==
    x.offset \notin s.stale \cup {0} => /\ s.rec[x.group].data.schema = "TABLE"
                                        /\ s.tree[x.offset] = Contents(s, s.rec[x.group].data, x.el)

TreesIn(s) == \A p \in Listed(s) : TreeOK(s, s.ilist[p])

\* Entries of t are those of s, or have lost what they had.
Shrunk(s, t) ==
    \A p \in Listed(t) : /\ p \in Listed(s) /\ t.ilist[p].el = s.ilist[p].el
                         /\ \/ t.ilist[p] = s.ilist[p]
                            \/ t.ilist[p].index = 0 /\ t.ilist[p].group = 0 /\ t.ilist[p].offset = 0

\* An entry that a step of k leaves alone.
LEMMA EntryKept ==
    ASSUME NEW s, NEW t, NEW k, NEW X, NEW x, Good(s), Good(t), RecordsIn(s), KeysFit(t), Step(s, t, k, X),
           EntryOK(s, x, GroupsOf(s)), TreeOK(s, x), x.group # k \/ x.group = 0,
           Len(s.tree) \in Nat, Len(t.tree) \in Nat, Len(s.tree) <= Len(t.tree),
           x.offset = 0 \/ (t.tree[x.offset] = s.tree[x.offset] /\ (x.offset \in s.stale => x.offset \in t.stale))
    PROVE  EntryOK(t, x, GroupsOf(t)) /\ TreeOK(t, x)
<1>1. s.next \in Nat /\ t.next \in Nat /\ s.next <= t.next
  BY DEF Good, RecordsOK, Step
<1>2. x.index \in 0 .. t.next - 1 /\ x.index \notin t.top
  <2>1. x.index \in 0 .. s.next - 1 /\ x.index \notin s.top
    BY DEF EntryOK
  <2>2. x.index \notin s.next .. t.next - 1
    BY <1>1, <2>1
  <2> QED BY <1>1, <2>1, <2>2 DEF Step
<1>3. x.offset \in 0 .. Len(t.tree)
  BY DEF EntryOK
<1>4. CASE x.group = 0
  BY <1>2, <1>3, <1>4 DEF EntryOK, TreeOK
<1>5. CASE x.group # k /\ x.group # 0
  <2> DEFINE g == x.group
  <2>1. g \in s.top /\ Live(s, g) /\ s.rec[g].type = "GROUP" /\ g \in DOMAIN s.rec
    BY <1>5 DEF EntryOK, GroupsOf, Live
  <2>2. g \notin X
    BY <2>1, StepKept
  <2>3. Live(t, g) /\ t.rec[g] = s.rec[g] /\ g \in t.top
    <3>1. Live(t, g) /\ t.rec[g] = s.rec[g]
      BY <1>5, <2>1, <2>2, StepKept
    <3> QED BY <2>1, <3>1 DEF Step
  <2>4. s.rec[g].data # None
    BY <2>1, DatabaseAssumption DEF RecordsIn, RoleOK, IsTop
  <2>5. \A e : Contents(t, s.rec[g].data, e) = Contents(s, s.rec[g].data, e)
    BY <1>5, <2>1, <2>4, StepReads
  <2>6. EntryOK(t, x, GroupsOf(t))
    BY <1>2, <1>3, <2>1, <2>3 DEF EntryOK, GroupsOf
  <2>7. TreeOK(t, x)
    BY <2>3, <2>5 DEF TreeOK
  <2> QED BY <2>6, <2>7
<1> QED BY <1>4, <1>5

\* The list of indexes after a step in which entries go, and the trees of k change.
LEMMA StepIndexes ==
    ASSUME NEW s, NEW t, NEW k, NEW X, Good(s), Good(t), RecordsIn(s), KeysFit(t), Step(s, t, k, X),
           IndexesIn(s, GroupsOf(s)), TreesIn(s), Shrunk(s, t), IsSeq(t.tree), Len(t.tree) = Len(s.tree),
           s.stale \subseteq t.stale,
           \A p \in Listed(t) : /\ t.ilist[p].group # k => \/ t.ilist[p].offset = 0
                                                          \/ t.tree[t.ilist[p].offset] = s.tree[t.ilist[p].offset]
                                /\ t.ilist[p].group = k /\ k # 0 => k \in GroupsOf(t) /\ TreeOK(t, t.ilist[p])
    PROVE  IndexesIn(t, GroupsOf(t)) /\ TreesIn(t)
<1>1. Apart(t)
  BY DEF IndexesIn, Apart, Shrunk
<1>2. Len(s.tree) \in Nat /\ Len(t.tree) \in Nat
  BY SeqPlaces
<1>3. ASSUME NEW p \in Listed(t), t.ilist[p].index = 0, t.ilist[p].group = 0, t.ilist[p].offset = 0
      PROVE  EntryOK(t, t.ilist[p], GroupsOf(t)) /\ TreeOK(t, t.ilist[p])
  <2>1. t.next \in Nat \ {0} /\ 0 \notin t.top
    BY DEF KeysFit, Good, RecordsOK
  <2>2. 0 \in 0 .. t.next - 1 /\ 0 \in 0 .. Len(t.tree)
    BY <1>2, <2>1
  <2> QED BY <1>3, <2>1, <2>2 DEF EntryOK, TreeOK
<1>4. ASSUME NEW p \in Listed(t), t.ilist[p] = s.ilist[p], p \in Listed(s)
      PROVE  EntryOK(t, t.ilist[p], GroupsOf(t)) /\ TreeOK(t, t.ilist[p])
  <2> DEFINE x == t.ilist[p]
  <2>1. EntryOK(s, x, GroupsOf(s)) /\ TreeOK(s, x)
    BY <1>4 DEF IndexesIn, TreesIn
  <2>2. x.group # k => x.offset = 0 \/ t.tree[x.offset] = s.tree[x.offset]
    OBVIOUS
  <2>3. x.group = k /\ k # 0 => k \in GroupsOf(t) /\ TreeOK(t, x)
    OBVIOUS
  <2> HIDE DEF x
  <2>4. CASE x.group # k \/ x.group = 0
    <3>1. x.offset = 0 \/ (t.tree[x.offset] = s.tree[x.offset] /\ (x.offset \in s.stale => x.offset \in t.stale))
      BY <2>1, <2>2, <2>4 DEF EntryOK
    <3>2. EntryOK(t, x, GroupsOf(t)) /\ TreeOK(t, x)
      BY <1>2, <2>1, <2>4, <3>1, EntryKept
    <3> QED BY <3>2 DEF x
  <2>5. CASE x.group = k /\ k # 0
    <3>1. x.index \in 0 .. t.next - 1 /\ x.index \notin t.top
      <4>1. s.next \in Nat /\ t.next \in Nat /\ s.next <= t.next
        BY DEF Good, RecordsOK, Step
      <4>2. x.index \in 0 .. s.next - 1 /\ x.index \notin s.top
        BY <2>1 DEF EntryOK
      <4>3. x.index \notin s.next .. t.next - 1
        BY <4>1, <4>2
      <4> QED BY <4>1, <4>2, <4>3 DEF Step
    <3>2. EntryOK(t, x, GroupsOf(t))
      BY <2>1, <2>3, <2>5, <3>1 DEF EntryOK
    <3> QED BY <2>3, <2>5, <3>2 DEF x
  <2> QED BY <2>4, <2>5
<1> QED BY <1>1, <1>3, <1>4 DEF IndexesIn, TreesIn, Shrunk

\* What the requests of a clean workload keep.
Sound(s) == RecordsIn(s) /\ AliasMatch(s) /\ IndexesIn(s, GroupsOf(s)) /\ TreesIn(s)

\* The entry that a step of the list finds.
LEMMA OnGroupIs ==
    ASSUME NEW s, NEW g, Good(s)
    PROVE  /\ OnGroup(s, g) = 0 => \A p \in Listed(s) : s.ilist[p].group # g
           /\ OnGroup(s, g) # 0 => /\ OnGroup(s, g) \in Listed(s) /\ s.ilist[OnGroup(s, g)].group = g
                                   /\ \A p \in Listed(s) : s.ilist[p].group = g => OnGroup(s, g) <= p
<1> DEFINE found == {p \in Listed(s) : s.ilist[p].group = g}
<1>1. found \subseteq Nat \ {0}
  <2>1. DOMAIN s.ilist = 1 .. Len(s.ilist) /\ Len(s.ilist) \in Nat
    BY SeqPlaces DEF Good, IndexesOK
  <2> QED BY <2>1 DEF Listed
<1>2. CASE found = {}
  BY <1>2 DEF OnGroup, First
<1>3. CASE found # {}
  <2>1. First(found) \in found /\ First(found) # 0
    BY <1>1, <1>3, FirstIsFound
  <2>2. \A q \in found : First(found) <= q
    <3>1. \E p \in found : \A q \in found : p <= q
      BY <1>1, <1>3, LeastExists
    <3> HIDE DEF found
    <3> QED BY <1>3, <3>1 DEF First
  <2> QED BY <2>1, <2>2 DEF OnGroup
<1> QED BY <1>2, <1>3

LEMMA EntryIs ==
    ASSUME NEW s, NEW i, Good(s)
    PROVE  /\ EntryOf(s, i) = 0 => \A p \in Listed(s) : s.ilist[p].index # i
           /\ EntryOf(s, i) # 0 => EntryOf(s, i) \in Listed(s) /\ s.ilist[EntryOf(s, i)].index = i
<1> DEFINE found == {p \in Listed(s) : s.ilist[p].index = i}
<1>1. found \subseteq Nat \ {0}
  <2>1. DOMAIN s.ilist = 1 .. Len(s.ilist) /\ Len(s.ilist) \in Nat
    BY SeqPlaces DEF Good, IndexesOK
  <2> QED BY <2>1 DEF Listed
<1>2. CASE found = {}
  BY <1>2 DEF EntryOf, First
<1>3. CASE found # {}
  <2>1. First(found) \in found /\ First(found) # 0
    BY <1>1, <1>3, FirstIsFound
  <2> QED BY <2>1 DEF EntryOf
<1> QED BY <1>2, <1>3

\* index_list_delete(): the entry goes, and the next one may lose what it had.
LEMMA IndexListDeleteIs ==
    ASSUME NEW s, NEW i, Good(s)
    PROVE  LET t == IndexListDelete(s, i)
               p == EntryOf(s, i)
           IN  /\ SameRecords(s, t) /\ SameAliases(s, t) /\ t.tree = s.tree /\ t.stale = s.stale
               /\ Shrunk(s, t) /\ DOMAIN t.ilist = DOMAIN s.ilist
               /\ p # 0 => Listed(t) = Listed(s) \ {p} /\ t.err = s.err
<1> DEFINE t == IndexListDelete(s, i)
           p == EntryOf(s, i)
           Zeroed(q) == IF q = p THEN [index |-> 0, group |-> 0, el |-> None, offset |-> 0]
                        ELSE IF q = p + 1 THEN [s.ilist[q] EXCEPT !.index = 0, !.group = 0, !.offset = 0]
                        ELSE s.ilist[q]
<1>1. CASE p = 0
  <2>1. t = Throw(s)
    BY <1>1 DEF IndexListDelete
  <2>2. SameRecords(s, t) /\ SameAliases(s, t) /\ SameIndexes(s, t)
    BY <2>1, ThrowIs
  <2> HIDE DEF t, p
  <2>3. Shrunk(s, t)
    BY <2>2 DEF SameIndexes, Shrunk, Listed
  <2> QED BY <1>1, <2>2, <2>3 DEF SameIndexes, t, p
<1>2. CASE p # 0
  <2>1. t = [s EXCEPT !.ilist = [q \in DOMAIN s.ilist |-> Zeroed(q)], !.index_list_size = @ - 1]
    BY <1>2 DEF IndexListDelete
  <2>2. ASSUME NEW q \in DOMAIN s.ilist
        PROVE  /\ Zeroed(q).el = IF q = p THEN None ELSE s.ilist[q].el
               /\ \/ Zeroed(q) = s.ilist[q]
                  \/ Zeroed(q).index = 0 /\ Zeroed(q).group = 0 /\ Zeroed(q).offset = 0
    <3>1. IsEntry(s.ilist[q])
      BY DEF Good, IndexesOK
    <3> HIDE DEF p
    <3> QED BY <3>1 DEF IsEntry
  <2>3. p \in Listed(s)
    BY <1>2, EntryIs
  <2> HIDE DEF Zeroed, p, t
  <2>4. /\ SameRecords(s, t) /\ SameAliases(s, t) /\ t.tree = s.tree /\ t.stale = s.stale /\ t.err = s.err
        /\ t.ilist = [q \in DOMAIN s.ilist |-> Zeroed(q)]
    BY <2>1, GoodIsBase DEF IsBase, SameRecords, SameAliases
  <2>5. Listed(t) = Listed(s) \ {p}
    BY <2>2, <2>4 DEF Listed
  <2>6. Shrunk(s, t) /\ DOMAIN t.ilist = DOMAIN s.ilist
    BY <2>2, <2>4, <2>5 DEF Shrunk, Listed
  <2> QED BY <2>4, <2>5, <2>6 DEF t, p
<1> QED BY <1>1, <1>2

LEMMA ShrunkMore ==
    ASSUME NEW s, NEW t, NEW u, Shrunk(s, t), Shrunk(t, u)
    PROVE  Shrunk(s, u)
  BY DEF Shrunk

\* Entries that have an index have one of their own.
Indexes(s) ==
    /\ \A p \in Listed(s) : /\ s.ilist[p].index \notin s.top
                            /\ s.ilist[p].index = 0 => s.ilist[p].group = 0
    /\ \A p, q \in Listed(s) : s.ilist[p].index = s.ilist[q].index => p = q \/ s.ilist[p].index = 0

LEMMA IndexesShrunk ==
    ASSUME NEW s, NEW t, Indexes(s), Shrunk(s, t), t.top = s.top, 0 \notin s.top
    PROVE  Indexes(t)
  BY DEF Indexes, Shrunk

\* The loop of db_delete() and db_purge() over the indexes of a group: the
\* entries on the group go, and of the aliases only those of indexes.
Dropping(s, t) ==
    /\ Good(t) /\ SameRecords(s, t) /\ t.tree = s.tree /\ t.stale = s.stale
    /\ Shrunk(s, t) /\ DOMAIN t.ilist = DOMAIN s.ilist
    /\ AliasOnce(t) /\ AliasKeys(t) \subseteq AliasKeys(s)
    /\ AliasKeys(s) \cap s.top \subseteq AliasKeys(t)

LEMMA DropIndexIs ==
    ASSUME NEW s, NEW t, NEW g, Good(s), Indexes(s), 0 \notin s.top, g # 0, Dropping(s, t), NEW n \in Nat \ {0},
           \A p \in Listed(t) : t.ilist[p].group = g => p > n - 1
    PROVE  LET u == DropIndex(t, g)
           IN  Dropping(s, u) /\ \A p \in Listed(u) : u.ilist[p].group = g => p > n
<1> DEFINE u == DropIndex(t, g)
           p == OnGroup(t, g)
           i == t.ilist[p].index
           w == AliasDelete(t, i)
<1>1. Good(t) /\ Indexes(t)
  BY IndexesShrunk DEF Dropping, SameRecords
<1>2. Listed(t) \subseteq Nat
  <2>1. DOMAIN t.ilist = 1 .. Len(t.ilist) /\ Len(t.ilist) \in Nat
    BY <1>1, SeqPlaces DEF Good, IndexesOK
  <2> QED BY <2>1 DEF Listed
<1>3. CASE p = 0
  <2>1. u = t
    BY <1>3 DEF DropIndex
  <2>2. \A q \in Listed(t) : t.ilist[q].group # g
    BY <1>1, <1>3, OnGroupIs
  <2> HIDE DEF u
  <2> QED BY <2>1, <2>2 DEF u
<1>4. CASE p # 0
  <2>1. u = IndexListDelete(w, i)
    BY <1>4 DEF DropIndex
  <2>2. p \in Listed(t) /\ t.ilist[p].group = g /\ \A q \in Listed(t) : t.ilist[q].group = g => p <= q
    BY <1>1, <1>4, OnGroupIs
  <2> HIDE DEF p
  <2>3. i # 0 /\ i \notin s.top
    BY <1>1, <2>2 DEF Indexes, Dropping, SameRecords
  <2> HIDE DEF i
  <2>4. /\ Good(w) /\ AliasOnce(w) /\ AliasKeys(w) = AliasKeys(t) \ {i}
        /\ SameRecords(t, w) /\ SameIndexes(t, w)
    BY <1>1, AliasDeleteGood, AliasDeleteIs DEF Dropping
  <2> HIDE DEF w
  <2>5. Listed(w) = Listed(t) /\ w.ilist = t.ilist
    BY <2>4 DEF SameIndexes, Listed
  <2>6. EntryOf(w, i) = p
    <3>1. t.ilist[p].index = i
      BY DEF i
    <3>2. EntryOf(w, i) # 0
      BY <2>2, <2>4, <2>5, <3>1, EntryIs
    <3>3. EntryOf(w, i) \in Listed(t) /\ t.ilist[EntryOf(w, i)].index = i
      BY <2>4, <2>5, <3>2, EntryIs
    <3> QED BY <1>1, <2>2, <2>3, <3>1, <3>3 DEF Indexes
  <2>7. /\ SameRecords(w, u) /\ SameAliases(w, u) /\ u.tree = w.tree /\ u.stale = w.stale
        /\ Shrunk(w, u) /\ DOMAIN u.ilist = DOMAIN w.ilist
        /\ Listed(u) = Listed(w) \ {p}
    <3>1. p # 0
      BY <1>2, <1>4 DEF p
    <3> QED BY <2>1, <2>4, <2>6, <3>1, IndexListDeleteIs
  <2>8. Good(u)
    BY <2>1, <2>4, IndexListDeleteGood
  <2> HIDE DEF u
  <2>9. AliasOnce(u) /\ AliasKeys(u) = AliasKeys(w)
    BY <2>4, <2>7 DEF SameAliases, AliasOnce, AliasKeys, AliasAll
  <2>10. Shrunk(t, u)
    BY <2>5, <2>7 DEF Shrunk
  <2>11. Dropping(s, u)
    <3>1. Shrunk(s, u)
      BY <2>10, ShrunkMore DEF Dropping
    <3> QED BY <2>3, <2>4, <2>5, <2>7, <2>8, <2>9, <3>1 DEF Dropping, SameRecords, SameIndexes
  <2>12. ASSUME NEW q \in Listed(u), u.ilist[q].group = g PROVE q > n
    <3>1. q \in Listed(t) /\ t.ilist[q].group = g /\ q # p
      BY <2>5, <2>7, <2>10, <2>12 DEF Shrunk
    <3> QED BY <1>2, <2>2, <3>1
  <2> QED BY <2>11, <2>12 DEF u
<1> QED BY <1>3, <1>4

LEMMA DropIndexesIs ==
    ASSUME NEW s, NEW g, Good(s), Indexes(s), AliasOnce(s), 0 \notin s.top, g # 0
    PROVE  LET t == DropIndexes(s, g)
           IN  Dropping(s, t) /\ ~t.err /\ \A p \in Listed(t) : t.ilist[p].group # g
<1> DEFINE n == Len(s.ilist)
           t == DropIndexes(s, g)
<1>1. n \in Nat /\ DOMAIN s.ilist = 1 .. n
  BY SeqPlaces DEF Good, IndexesOK
<1>2. PICK f : /\ f[0] = s
               /\ \A i \in 1 .. n : f[i] = DropIndex(f[i - 1], g)
               /\ DropIndexes(s, g) = Clear(f[n])
  BY DropIndexesRun
<1> HIDE DEF n
<1> DEFINE I == {i \in 0 .. n : Dropping(s, f[i]) /\ \A p \in Listed(f[i]) : f[i].ilist[p].group = g => p > i}
<1>3. 0 \in I
  <2>1. Dropping(s, s)
    BY DEF Dropping, SameRecords, Shrunk
  <2>2. \A p \in Listed(s) : p > 0
    BY <1>1 DEF Listed
  <2> QED BY <1>1, <1>2, <2>1, <2>2
<1>4. ASSUME NEW i \in 1 .. n, i - 1 \in I PROVE i \in I
  <2>1. Dropping(s, f[i - 1]) /\ \A p \in Listed(f[i - 1]) : f[i - 1].ilist[p].group = g => p > i - 1
    BY <1>4
  <2>2. i \in Nat \ {0} /\ f[i] = DropIndex(f[i - 1], g)
    BY <1>1, <1>2
  <2>3. Dropping(s, f[i]) /\ \A p \in Listed(f[i]) : f[i].ilist[p].group = g => p > i
    BY <2>1, <2>2, DropIndexIs, ZenonT(60)
  <2> QED BY <1>4, <2>3
<1> HIDE DEF I
<1>5. n \in I
  BY <1>1, <1>3, <1>4, Turns
<1> DEFINE u == f[n]
<1>6. Dropping(s, u) /\ \A p \in Listed(u) : u.ilist[p].group = g => p > n
  BY <1>5 DEF I
<1> HIDE DEF u
<1>7. t = Clear(u)
  BY <1>2 DEF u
<1>8. Good(t) /\ SameRecords(u, t) /\ SameAliases(u, t) /\ SameIndexes(u, t) /\ ~t.err
  BY <1>6, <1>7, ClearGood, ThrowIs DEF Dropping
<1> HIDE DEF t
<1>9. Dropping(s, t)
  BY <1>6, <1>8 DEF Dropping, SameRecords, SameAliases, SameIndexes, Shrunk, Listed, AliasOnce, AliasKeys, AliasAll
<1>10. \A p \in Listed(t) : t.ilist[p].group # g
  <2> SUFFICES ASSUME NEW p \in Listed(t), t.ilist[p].group = g PROVE FALSE
    OBVIOUS
  <2>1. p \in Listed(u) /\ u.ilist[p].group = g
    BY <1>8 DEF SameIndexes, Listed
  <2>2. p \in 1 .. n
    BY <1>1, <1>9 DEF Dropping, Listed
  <2> QED BY <1>1, <1>6, <2>1, <2>2
<1> QED BY <1>8, <1>9, <1>10 DEF t

-----------------------------------------------------------------------------
(* The rows of a group that goes, or is replaced *)

\* From s to t the records X go, and all else stays.
Took(s, t, X) ==
    /\ Good(t) /\ t.next = s.next /\ t.top = s.top /\ SameAliases(s, t) /\ SameIndexes(s, t) /\ ~t.err
    /\ DOMAIN t.rec \subseteq DOMAIN s.rec
    /\ \A x \in DOMAIN s.rec :
         /\ x \notin X => x \in DOMAIN t.rec /\ t.rec[x] = s.rec[x]
         /\ x \in X /\ x \in DOMAIN t.rec => t.rec[x] = [s.rec[x] EXCEPT !.life = "recycle"]

LEMMA DropRowIs ==
    ASSUME NEW s, NEW t, NEW X, NEW r \in DOMAIN s.rec, NEW how \in {"update", "delete", "purge"},
           Good(s), Took(s, t, X), r \notin X, IsInner(s.rec[r]), how # "purge" => Live(s, r)
    PROVE  Took(s, DropRow(t, r, how), X \cup {r})
<1> DEFINE u == DropRow(t, r, how)
<1>1. r \in DOMAIN t.rec /\ t.rec[r] = s.rec[r] /\ Good(t) /\ ~t.err /\ ~t.rec[r].lock /\ ~t.rec[r].alias
  BY DEF Took, IsInner
<1>2. PICK w : /\ Good(w) /\ u = Clear(w) /\ w.next = t.next /\ w.top = t.top /\ SameAliases(t, w) /\ SameIndexes(t, w)
               /\ DOMAIN t.rec \ {r} \subseteq DOMAIN w.rec /\ DOMAIN w.rec \subseteq DOMAIN t.rec
               /\ \A x \in DOMAIN t.rec \ {r} : w.rec[x] = t.rec[x]
               /\ r \in DOMAIN w.rec => w.rec[r] = [t.rec[r] EXCEPT !.life = "recycle"]
  <2>1. CASE how = "purge"
    <3> DEFINE w == EnginePurge(t, r)
    <3>1. u = Clear(w)
      BY <2>1 DEF DropRow
    <3>2. /\ w.rec = [j \in DOMAIN t.rec \ {r} |-> t.rec[j]] /\ w.next = t.next /\ w.top = t.top
          /\ SameAliases(t, w) /\ SameIndexes(t, w)
      BY <1>1, EnginePurgeIs
    <3>3. Good(w)
      BY <1>1, EnginePurgeGood
    <3> HIDE DEF w, u
    <3> QED BY <3>1, <3>2, <3>3
  <2>2. CASE how # "purge"
    <3> DEFINE w == EngineDelete(t, r)
    <3>1. Live(t, r)
      BY <1>1, <2>2 DEF Live
    <3>2. u = Clear(w)
      <4>1. Get(t, r, FALSE).s = t /\ Get(t, r, FALSE).meta = t.rec[r]
        BY <3>1 DEF Get
      <4>2. CASE how = "update"
        BY <1>1, <4>1, <4>2 DEF DropRow
      <4>3. CASE how = "delete"
        BY <4>3 DEF DropRow
      <4> QED BY <2>2, <4>2, <4>3
    <3> DEFINE q == [t.rec[r] EXCEPT !.life = "recycle"]
    <3>3. Changed(t, w, r, q)
      BY <1>1, <3>1, EngineDeleteIs
    <3>4. Good(w)
      BY <1>1, EngineDeleteGood
    <3> HIDE DEF w, u, q
    <3>5. /\ DOMAIN w.rec = DOMAIN t.rec /\ w.rec[r] = q
          /\ \A x \in DOMAIN t.rec \ {r} : w.rec[x] = t.rec[x]
      BY <1>1, <3>3 DEF Changed
    <3> QED BY <3>2, <3>3, <3>4, <3>5 DEF Changed, q
  <2> QED BY <2>1, <2>2
<1>3. Good(u) /\ SameRecords(w, u) /\ SameAliases(w, u) /\ SameIndexes(w, u) /\ ~u.err
  BY <1>2, ClearGood, ThrowIs
<1> HIDE DEF u
<1>4. /\ u.next = s.next /\ u.top = s.top /\ SameAliases(s, u) /\ SameIndexes(s, u)
  BY <1>2, <1>3 DEF Took, SameRecords, SameAliases, SameIndexes
<1>5. DOMAIN u.rec = DOMAIN w.rec /\ \A x \in DOMAIN u.rec : u.rec[x] = w.rec[x]
  BY <1>3 DEF SameRecords
<1>6. DOMAIN u.rec \subseteq DOMAIN s.rec
  BY <1>2, <1>5 DEF Took
<1>7. ASSUME NEW x \in DOMAIN s.rec, x \notin X \cup {r} PROVE x \in DOMAIN u.rec /\ u.rec[x] = s.rec[x]
  BY <1>2, <1>5, <1>7 DEF Took
<1>8. ASSUME NEW x \in DOMAIN u.rec, x \in X \cup {r} PROVE u.rec[x] = [s.rec[x] EXCEPT !.life = "recycle"]
  <2>1. x \in DOMAIN t.rec /\ x \in DOMAIN s.rec
    BY <1>2, <1>5, <1>6
  <2>2. CASE x = r
    BY <1>1, <1>2, <1>5, <2>2
  <2>3. CASE x # r
    BY <1>2, <1>5, <1>8, <2>1, <2>3 DEF Took
  <2> QED BY <2>2, <2>3
<1> QED BY <1>3, <1>4, <1>6, <1>7, <1>8 DEF Took, u

LEMMA DropRowsIs ==
    ASSUME NEW s, NEW k \in DOMAIN s.rec, NEW how \in {"update", "delete", "purge"},
           Good(s), RecordsIn(s), ~s.err, s.rec[k].type = "GROUP",
           how # "purge" => Live(s, k), Rows(s, k) \subseteq DOMAIN s.rec
    PROVE  Took(s, DropRows(s, s.rec[k].data, how), Rows(s, k))
<1> DEFINE d == s.rec[k].data
           n == Len(d.rows)
           Keys(i) == {d.rows[j].key : j \in 1 .. i}
<1>1. k \in s.top /\ IsTop(s.rec[k])
  BY OnlyTop DEF RecordsIn, RoleOK
<1>2. Whole(d) /\ d # None /\ IsGroup(d) /\ n \in Nat /\ DOMAIN d.rows = 1 .. n
  BY <1>1, RecordFacts, SeqPlaces, DatabaseAssumption DEF IsTop, RecordOK, Whole
<1>3. d.schema # "FIELD"
  BY <1>2 DEF IsGroup
<1>4. \E f : /\ f[0] = s
             /\ \A i \in 1 .. n : f[i] = IF d.rows[i].key = 0 THEN f[i - 1] ELSE DropRow(f[i - 1], d.rows[i].key, how)
             /\ DropRows(s, d, how) = f[n]
  <2> HIDE DEF d
  <2> QED BY <1>2, <1>3, DropRowsRun
<1>5. 0 \notin KeysOf(d) /\ Distinct(d) /\ Rows(s, k) = KeysOf(d)
  BY <1>1, <1>2 DEF RecordsIn, RowsOK, Rows, RowKeys
<1>6. \A x \in KeysOf(d) : x \in DOMAIN s.rec /\ IsInner(s.rec[x]) /\ (how # "purge" => Live(s, x))
  BY <1>5 DEF RecordsIn, RowsOK, Live
<1> HIDE DEF d, n, Keys
<1>7. PICK f : /\ f[0] = s
               /\ \A i \in 1 .. n : f[i] = IF d.rows[i].key = 0 THEN f[i - 1] ELSE DropRow(f[i - 1], d.rows[i].key, how)
               /\ DropRows(s, d, how) = f[n]
  BY <1>4
<1> DEFINE I == {i \in 0 .. n : Took(s, f[i], Keys(i))}
<1>8. 0 \in I
  <2>1. Took(s, s, {})
    BY DEF Took, SameAliases, SameIndexes
  <2>2. Keys(0) = {}
    BY DEF Keys
  <2>3. Took(s, f[0], Keys(0))
    BY <1>7, <2>1, <2>2, Zenon
  <2> QED BY <1>2, <2>3
<1>9. ASSUME NEW i \in 1 .. n, i - 1 \in I PROVE i \in I
  <2> DEFINE r == d.rows[i].key
  <2>1. r \in KeysOf(d)
    BY <1>2 DEF KeysOf
  <2>2. f[i] = DropRow(f[i - 1], r, how)
    BY <1>5, <1>7, <2>1
  <2>3. r \notin Keys(i - 1)
    <3> SUFFICES ASSUME NEW j \in 1 .. i - 1, d.rows[j].key = r PROVE FALSE
      BY DEF Keys
    <3>1. j \in DOMAIN d.rows /\ i \in DOMAIN d.rows /\ i # j
      BY <1>2
    <3> QED BY <1>5, <2>1, <3>1 DEF Distinct
  <2>4. Keys(i) = Keys(i - 1) \cup {r}
    <3>1. 1 .. i = 1 .. i - 1 \cup {i}
      BY <1>2
    <3> QED BY <3>1 DEF Keys
  <2>5. Took(s, f[i - 1], Keys(i - 1))
    BY <1>9
  <2> HIDE DEF r
  <2>6. Took(s, f[i], Keys(i - 1) \cup {r})
    <3>1. r \in DOMAIN s.rec /\ IsInner(s.rec[r]) /\ (how # "purge" => Live(s, r))
      BY <1>6, <2>1
    <3> QED BY <2>2, <2>3, <2>5, <3>1, DropRowIs
  <2>7. Took(s, f[i], Keys(i)) /\ i \in 0 .. n
    BY <2>4, <2>6
  <2> QED BY <2>7
<1> HIDE DEF I
<1>10. n \in I
  BY <1>2, <1>8, <1>9, Turns
<1>11. Keys(n) = KeysOf(d)
  BY <1>2 DEF Keys, KeysOf
<1> QED BY <1>5, <1>7, <1>10, <1>11 DEF I, d

-----------------------------------------------------------------------------
(* What slay_put() stores *)

\* A document, as a client sends it or as slay_get() gives it.
Slots == [name : Labels, data : Parts \cup {Field(None)}]

IsDoc(in) ==
    /\ in = [kind |-> in.kind, el |-> in.el, val |-> in.val, items |-> in.items]
    /\ in.kind \in {"FIELD", "OBJECT", "ARRAY"} /\ in.el \in Elements \cup {None} /\ in.val \in Vals \cup {None}
    /\ in.items \in Seq(Slots)
    /\ in.kind = "FIELD" => in.items = <<>>
    /\ in.items # <<>> => in.el = None

\* What clients send are documents.
LEMMA InputsAre ==
    ASSUME NEW in, IsDocument(in)
    PROVE  IsDoc(in)
<1>1. CASE in \in Parts
  <2>1. <<>> \in Seq(Slots)
    OBVIOUS
  <2> HIDE DEF Slots
  <2>2. ASSUME NEW v \in Vals, in = Field(v) PROVE IsDoc(in)
    BY <2>1, <2>2 DEF Field, IsDoc
  <2>3. ASSUME NEW e \in Elements, NEW v \in Vals, in = Object(e, v) PROVE IsDoc(in)
    BY <2>1, <2>3 DEF Object, IsDoc
  <2> QED BY <1>1, <2>2, <2>3 DEF Parts
<1>2. CASE in \notin Parts
  <2> DEFINE A == {Item(n, x) : n \in Elements \cup {None}, x \in Parts}
  <2>1. in.kind \in {"ARRAY", "OBJECT"} /\ in = Items(in.kind, in.items) /\ in.items \in Seq(A)
    BY <1>2 DEF IsDocument
  <2>2. A \subseteq Slots
    <3> SUFFICES ASSUME NEW n \in Elements \cup {None}, NEW x \in Parts PROVE Item(n, x) \in Slots
      OBVIOUS
    <3> QED BY DEF Item, Slots, Labels
  <2> HIDE DEF Slots, A
  <2>3. in.items \in Seq(Slots)
    BY <2>1, <2>2
  <2>4. in = [kind |-> in.kind, el |-> None, val |-> None, items |-> in.items]
    BY <2>1 DEF Items
  <2> QED BY <2>1, <2>3, <2>4 DEF IsDoc
<1> QED BY <1>1, <1>2

\* The places of a set, counted from 0.
LEMMA Numbered ==
    ASSUME NEW n \in Nat, NEW S, S \subseteq 1 .. n
    PROVE  /\ Cardinality(S) \in Nat
           /\ \A i \in S : Cardinality({j \in S : j < i}) \in 0 .. Cardinality(S) - 1
           /\ \A i, l \in S : Cardinality({j \in S : j < i}) = Cardinality({j \in S : j < l}) => i = l
<1> DEFINE Before(i) == {j \in S : j < i}
           c == Cardinality(S)
<1>1. IsFiniteSet(S) /\ c \in Nat
  BY CountPlaces
<1>2. \A i \in S : IsFiniteSet(Before(i)) /\ Cardinality(Before(i)) \in Nat /\ i \notin Before(i)
  <2> SUFFICES ASSUME NEW i \in S PROVE IsFiniteSet(Before(i)) /\ Cardinality(Before(i)) \in Nat /\ i \notin Before(i)
    OBVIOUS
  <2>1. Before(i) \subseteq 1 .. n /\ i \notin Before(i)
    <3>1. i \in Nat /\ ~(i < i)
      OBVIOUS
    <3> QED BY <3>1
  <2> HIDE DEF Before
  <2> QED BY <2>1, CountPlaces
<1>3. ASSUME NEW i \in S PROVE Cardinality(Before(i)) \in 0 .. c - 1
  <2>1. Before(i) \subseteq S \ {i}
    OBVIOUS
  <2> HIDE DEF Before
  <2>2. IsFiniteSet(S \ {i}) /\ Cardinality(S \ {i}) = c - 1
    BY <1>1, FS_RemoveElement
  <2>3. Cardinality(Before(i)) <= c - 1
    BY <2>1, <2>2, FS_Subset
  <2> HIDE DEF c
  <2> QED BY <1>1, <1>2, <2>3
<1>4. ASSUME NEW i \in S, NEW l \in S, i < l PROVE Cardinality(Before(i)) < Cardinality(Before(l))
  <2>1. Before(i) \cup {i} \subseteq Before(l)
    <3>1. \A j \in S : j \in Nat
      OBVIOUS
    <3>2. \A j \in S : j < i => j < l
      BY <1>4, <3>1
    <3> QED BY <1>4, <3>2
  <2> HIDE DEF Before
  <2>2. IsFiniteSet(Before(i)) /\ Cardinality(Before(i)) \in Nat /\ i \notin Before(i) /\ IsFiniteSet(Before(l)) /\ Cardinality(Before(l)) \in Nat
    BY <1>2
  <2>3. Cardinality(Before(i) \cup {i}) = Cardinality(Before(i)) + 1
    BY <2>2, FS_AddElement
  <2>4. Cardinality(Before(i) \cup {i}) <= Cardinality(Before(l))
    BY <2>1, <2>2, FS_Subset
  <2> QED BY <2>2, <2>3, <2>4
<1> HIDE DEF Before
<1>5. \A i, l \in S : Cardinality(Before(i)) = Cardinality(Before(l)) => i = l
  <2> SUFFICES ASSUME NEW i \in S, NEW l \in S, i # l PROVE Cardinality(Before(i)) # Cardinality(Before(l))
    OBVIOUS
  <2>1. i < l \/ l < i
    OBVIOUS
  <2>2. Cardinality(Before(i)) \in Nat /\ Cardinality(Before(l)) \in Nat
    BY <1>2
  <2> QED BY <1>4, <2>1, <2>2
<1> QED BY <1>1, <1>3, <1>5 DEF Before

\* A part of a document as a record, and back.
Sent(d) == [kind |-> d.schema, el |-> d.el, val |-> d.val, items |-> <<>>]

LEMMA PartIs ==
    ASSUME NEW x \in Parts \cup {Field(None)}
    PROVE  /\ x.kind = "FIELD" => x = Field(x.val)
           /\ x.kind # "FIELD" => x \in Parts /\ Sent(Plain(x)) = x
           /\ x.val \in Vals \cup {None}
  BY DEF Parts, Field, Object, Sent, Plain

LEMMA NewInner ==
    ASSUME NEW x \in Parts
    PROVE  IsInner(Record(Plain(x))) /\ Record(Plain(x)).life = "finite" /\ Record(Plain(x)).data = Plain(x)
  BY DEF IsInner, Record

\* Data that a document may have.
DataOK(d) == /\ d \in Data
             /\ d.schema = "FIELD" => d.rows = <<>>
             /\ IsGroup(d) \/ d.rows # <<>> => d.el = None

\* Rows that are new in t, and rows of their own.
NewRows(s, t, d) ==
    /\ \A x \in DOMAIN t.rec \ DOMAIN s.rec : IsInner(t.rec[x]) /\ t.rec[x].life = "finite"
    /\ KeysOf(d) \ {0} \subseteq DOMAIN t.rec \ DOMAIN s.rec
    /\ Distinct(d)
    /\ IsGroup(d) => 0 \notin KeysOf(d)

LEMMA SlayPutIs ==
    ASSUME NEW s, NEW in, Good(s), KeysFit(s), IsDoc(in)
    PROVE  LET t == SlayPut(s, in).s
               d == SlayPut(s, in).data
           IN  /\ t.top = s.top /\ SameAliases(s, t) /\ SameIndexes(s, t) /\ t.err = s.err
               /\ s.next <= t.next
               /\ DOMAIN s.rec \subseteq DOMAIN t.rec /\ DOMAIN t.rec \subseteq DOMAIN s.rec \cup s.next .. t.next - 1
               /\ \A x \in DOMAIN s.rec : t.rec[x] = s.rec[x]
               /\ NewRows(s, t, d) /\ DataOK(d)
               /\ Expand(t, d) = in
               /\ IsGroup(d) => d.schema = IF in.kind = "ARRAY" THEN "TABLE" ELSE "SET"
<1> DEFINE put == SlayPut(s, in)
           d == put.data
           n == Len(in.items)
           Nested(i) == in.items[i].data.kind # "FIELD"
           nested == {i \in 1 .. n : Nested(i)}
           KeyFor(i) == s.next + Cardinality({j \in nested : j < i})
           RowFor(i) == IF Nested(i) THEN Row(in.items[i].name, KeyFor(i), None)
                        ELSE Row(in.items[i].name, 0, in.items[i].data.val)
           schema == IF n > 1 /\ nested = 1 .. n
                     THEN IF in.kind = "ARRAY" THEN "TABLE" ELSE "SET"
                     ELSE in.kind
           keys == {KeyFor(i) : i \in nested}
           New(k) == Record(Plain(in.items[CHOOSE i \in nested : KeyFor(i) = k].data))
           t == [s EXCEPT !.rec = [k \in keys \cup DOMAIN s.rec |-> IF k \in keys THEN New(k) ELSE s.rec[k]],
                          !.next = @ + Cardinality(nested)]
           c == Cardinality(nested)
<1>1. /\ n \in Nat /\ DOMAIN in.items = 1 .. n
      /\ \A i \in 1 .. n : /\ in.items[i] = [name |-> in.items[i].name, data |-> in.items[i].data]
                           /\ in.items[i].name \in Labels /\ in.items[i].data \in Parts \cup {Field(None)}
  <2>1. in.items \in Seq(Slots)
    BY DEF IsDoc
  <2>2. n \in Nat /\ DOMAIN in.items = 1 .. n /\ \A i \in 1 .. n : in.items[i] \in Slots
    <3> HIDE DEF Slots
    <3> QED BY <2>1
  <2> QED BY <2>2 DEF Slots
<1>2. /\ put.s = t
      /\ d = [schema |-> schema, el |-> in.el, val |-> in.val, rows |-> [i \in 1 .. n |-> RowFor(i)]]
  BY DEF SlayPut
<1>3. nested \subseteq 1 .. n /\ \A i \in 1 .. n : i \in nested <=> Nested(i)
  OBVIOUS
<1>4. s.next \in Nat \ {0} /\ DOMAIN s.rec \subseteq 1 .. s.next - 1
  BY DEF Good, RecordsOK, KeysFit
<1>5. /\ c \in Nat
      /\ \A i \in nested : KeyFor(i) \in s.next .. s.next + c - 1
      /\ \A i, l \in nested : KeyFor(i) = KeyFor(l) => i = l
  <2> DEFINE Place(i) == Cardinality({j \in nested : j < i})
  <2>1. /\ c \in Nat /\ \A i \in nested : Place(i) \in 0 .. c - 1
        /\ \A i, l \in nested : Place(i) = Place(l) => i = l
    <3> HIDE DEF nested, n
    <3> QED BY <1>1, <1>3, Numbered
  <2>2. \A i : KeyFor(i) = s.next + Place(i)
    OBVIOUS
  <2> HIDE DEF Place, KeyFor, c, nested
  <2> QED BY <1>4, <2>1, <2>2
<1>6. ASSUME NEW i \in 1 .. n
      PROVE  /\ RowFor(i) = [name |-> RowFor(i).name, key |-> RowFor(i).key, val |-> RowFor(i).val]
             /\ RowFor(i).name = in.items[i].name
             /\ Nested(i) => RowFor(i).key = KeyFor(i) /\ RowFor(i).val = None
             /\ ~Nested(i) => RowFor(i).key = 0 /\ RowFor(i).val = in.items[i].data.val
  <2> HIDE DEF Nested, KeyFor
  <2> QED BY DEF Row
<1>7. ASSUME NEW i \in nested PROVE New(KeyFor(i)) = Record(Plain(in.items[i].data))
  <2> DEFINE l == CHOOSE j \in nested : KeyFor(j) = KeyFor(i)
  <2> HIDE DEF nested, KeyFor
  <2>1. l \in nested /\ KeyFor(l) = KeyFor(i)
    OBVIOUS
  <2>2. l = i
    BY <1>5, <1>7, <2>1
  <2> QED BY <2>2
<1>8. ASSUME NEW i \in nested
      PROVE  /\ in.items[i].data \in Parts /\ Sent(Plain(in.items[i].data)) = in.items[i].data
             /\ IsInner(New(KeyFor(i))) /\ New(KeyFor(i)).life = "finite" /\ New(KeyFor(i)).data = Plain(in.items[i].data)
  <2>1. in.items[i].data \in Parts \cup {Field(None)} /\ in.items[i].data.kind # "FIELD"
    BY <1>1, <1>3
  <2>2. in.items[i].data \in Parts /\ Sent(Plain(in.items[i].data)) = in.items[i].data
    BY <2>1, PartIs
  <2> HIDE DEF New, KeyFor, nested
  <2> QED BY <1>7, <2>2, NewInner
<1> HIDE DEF New, KeyFor
<1>9. /\ t.top = s.top /\ SameAliases(s, t) /\ SameIndexes(s, t) /\ t.err = s.err /\ t.next = s.next + c
      /\ t.rec = [k \in keys \cup DOMAIN s.rec |-> IF k \in keys THEN New(k) ELSE s.rec[k]]
  <2> HIDE DEF keys, c, nested
  <2> QED BY GoodIsBase DEF IsBase, SameAliases, SameIndexes, c
<1> HIDE DEF t, put, Nested, RowFor, schema
<1>10. \A x \in keys : x \in s.next .. t.next - 1 /\ x \notin DOMAIN s.rec /\ x # 0
  <2> SUFFICES ASSUME NEW i \in nested
               PROVE  KeyFor(i) \in s.next .. t.next - 1 /\ KeyFor(i) \notin DOMAIN s.rec /\ KeyFor(i) # 0
    OBVIOUS
  <2>1. KeyFor(i) \in s.next .. s.next + c - 1
    BY <1>5
  <2> HIDE DEF nested, c
  <2>2. KeyFor(i) \notin 1 .. s.next - 1 /\ KeyFor(i) # 0
    BY <1>4, <1>5, <2>1
  <2>3. t.next = s.next + c
    BY <1>9
  <2>4. KeyFor(i) \in s.next .. t.next - 1
    <3>1. s.next \in Nat /\ c \in Nat
      BY <1>4, <1>5
    <3> QED BY <2>1, <2>3, <3>1
  <2> QED BY <1>4, <2>2, <2>4
<1> HIDE DEF nested, n, c
<1>11. \A x \in keys : IsInner(New(x)) /\ New(x).life = "finite"
  BY <1>8
<1>12. /\ DOMAIN s.rec \subseteq DOMAIN t.rec /\ DOMAIN t.rec \subseteq DOMAIN s.rec \cup s.next .. t.next - 1
       /\ \A x \in DOMAIN s.rec : t.rec[x] = s.rec[x]
       /\ DOMAIN t.rec \ DOMAIN s.rec = keys /\ \A x \in keys : t.rec[x] = New(x)
  <2> HIDE DEF keys
  <2> QED BY <1>9, <1>10
<1>13. /\ d.rows = [i \in 1 .. n |-> RowFor(i)] /\ d.el = in.el /\ d.val = in.val /\ d.schema = schema
       /\ DOMAIN d.rows = 1 .. n /\ \A i \in 1 .. n : d.rows[i] = RowFor(i)
  BY <1>2
<1> HIDE DEF d
<1>14. KeysOf(d) \ {0} \subseteq keys
  BY <1>3, <1>6, <1>13 DEF KeysOf
<1>15. Distinct(d)
  <2> SUFFICES ASSUME NEW i \in 1 .. n, NEW j \in 1 .. n, RowFor(i).key = RowFor(j).key, RowFor(i).key # 0 PROVE i = j
    BY <1>13 DEF Distinct
  <2>1. Nested(i) /\ Nested(j)
    BY <1>6
  <2>2. i \in nested /\ j \in nested /\ KeyFor(i) = KeyFor(j)
    BY <1>3, <1>6, <2>1
  <2> QED BY <1>5, <2>2
<1>16. IsGroup(d) => /\ n > 1 /\ nested = 1 .. n /\ in.kind # "FIELD"
                     /\ d.schema = IF in.kind = "ARRAY" THEN "TABLE" ELSE "SET"
  <2> SUFFICES ASSUME IsGroup(d)
               PROVE  /\ n > 1 /\ nested = 1 .. n /\ in.kind # "FIELD"
                      /\ d.schema = IF in.kind = "ARRAY" THEN "TABLE" ELSE "SET"
    OBVIOUS
  <2>1. schema \in {"TABLE", "SET"}
    BY <1>13 DEF IsGroup
  <2>2. n > 1 /\ nested = 1 .. n /\ schema = IF in.kind = "ARRAY" THEN "TABLE" ELSE "SET"
    BY <2>1 DEF schema, IsDoc
  <2>3. in.kind # "FIELD"
    BY <2>2 DEF IsDoc, n
  <2> QED BY <1>13, <2>2, <2>3
<1>17. IsGroup(d) => 0 \notin KeysOf(d)
  <2> SUFFICES ASSUME IsGroup(d), NEW i \in 1 .. n PROVE RowFor(i).key # 0
    BY <1>13 DEF KeysOf
  <2>1. i \in nested
    BY <1>16
  <2>2. RowFor(i).key = KeyFor(i)
    BY <1>3, <1>6, <2>1
  <2> QED BY <1>10, <2>1, <2>2
<1>18. NewRows(s, t, d)
  <2> HIDE DEF keys
  <2> QED BY <1>11, <1>12, <1>14, <1>15, <1>17 DEF NewRows
<1>19. DataOK(d)
  <2>1. d.rows \in Seq([name : Labels, key : Nat, val : Vals \cup {None}])
    <3>1. ASSUME NEW i \in 1 .. n PROVE RowFor(i) \in [name : Labels, key : Nat, val : Vals \cup {None}]
      <4>1. RowFor(i).name \in Labels
        BY <1>1, <1>6
      <4>2. RowFor(i).val \in Vals \cup {None}
        BY <1>1, <1>6, PartIs
      <4>3. RowFor(i).key \in Nat
        <5>1. i \in nested => KeyFor(i) \in Nat
          BY <1>4, <1>5
        <5> QED BY <1>3, <1>6, <5>1
      <4> QED BY <1>6, <4>1, <4>2, <4>3
    <3> QED BY <1>1, <1>13, <3>1
  <2>2. d.schema \in {"FIELD", "OBJECT", "ARRAY", "TABLE", "SET"}
    BY <1>13 DEF IsDoc, schema
  <2>3. d = [schema |-> d.schema, el |-> d.el, val |-> d.val, rows |-> d.rows]
    BY <1>2, <1>13
  <2>4. d \in Data
    BY <1>13, <2>1, <2>2, <2>3 DEF Data, IsDoc
  <2>5. n = 0 <=> d.rows = <<>>
    BY <1>1, <1>13
  <2>6. in.items = <<>> <=> n = 0
    BY <1>1 DEF n, IsDoc
  <2>7. d.schema = "FIELD" => d.rows = <<>>
    BY <1>13, <2>5, <2>6 DEF schema, IsDoc
  <2>8. IsGroup(d) \/ d.rows # <<>> => d.el = None
    <3>1. IsGroup(d) => n # 0
      BY <1>16, <1>1
    <3> QED BY <1>13, <2>5, <2>6, <3>1 DEF IsDoc
  <2> QED BY <2>4, <2>7, <2>8 DEF DataOK
<1>20. Expand(t, d) = in
  <2> DEFINE ItemFor(r) == Item(r.name, IF r.key = 0 THEN Field(r.val)
                                        ELSE IF Live(t, r.key) THEN Sent(t.rec[r.key].data)
                                        ELSE Field(None))
  <2>1. Expand(t, d) = [kind  |-> CASE d.schema = "TABLE" -> "ARRAY" [] d.schema = "SET" -> "OBJECT"
                                    [] OTHER -> d.schema,
                        el    |-> d.el, val |-> d.val,
                        items |-> [i \in DOMAIN d.rows |-> ItemFor(d.rows[i])]]
    BY DEF Expand, Sent
  <2>2. (CASE d.schema = "TABLE" -> "ARRAY" [] d.schema = "SET" -> "OBJECT" [] OTHER -> d.schema) = in.kind
    <3>1. CASE IsGroup(d)
      BY <1>16, <3>1 DEF IsDoc
    <3>2. CASE ~IsGroup(d)
      <4>1. d # None
        BY <1>19, DatabaseAssumption DEF DataOK
      <4>2. d.schema \notin {"TABLE", "SET"}
        BY <3>2, <4>1 DEF IsGroup
      <4>3. schema = in.kind
        BY <1>13, <4>2 DEF schema
      <4> QED BY <1>13, <4>2, <4>3
    <3> QED BY <3>1, <3>2
  <2>3. ASSUME NEW i \in 1 .. n PROVE ItemFor(RowFor(i)) = in.items[i]
    <3>1. CASE Nested(i)
      <4>1. i \in nested /\ RowFor(i).key = KeyFor(i)
        BY <1>3, <1>6, <3>1
      <4>2. KeyFor(i) \in keys /\ KeyFor(i) # 0
        BY <1>10, <4>1
      <4>3. t.rec[KeyFor(i)] = New(KeyFor(i)) /\ KeyFor(i) \in DOMAIN t.rec
        <5> HIDE DEF keys
        <5> QED BY <1>12, <4>2
      <4>4. Live(t, KeyFor(i)) /\ Sent(t.rec[KeyFor(i)].data) = in.items[i].data
        BY <1>8, <4>1, <4>3 DEF Live
      <4>5. ItemFor(RowFor(i)) = Item(in.items[i].name, in.items[i].data)
        BY <1>6, <4>1, <4>2, <4>4
      <4> QED BY <1>1, <4>5 DEF Item
    <3>2. CASE ~Nested(i)
      <4>1. RowFor(i).key = 0 /\ RowFor(i).val = in.items[i].data.val
        BY <1>6, <3>2
      <4>2. in.items[i].data = Field(in.items[i].data.val)
        BY <1>1, <3>2, PartIs DEF Nested
      <4>3. ItemFor(RowFor(i)) = Item(in.items[i].name, in.items[i].data)
        BY <1>6, <4>1, <4>2
      <4> QED BY <1>1, <4>3 DEF Item
    <3> QED BY <3>1, <3>2
  <2> HIDE DEF ItemFor
  <2>4. [i \in DOMAIN d.rows |-> ItemFor(d.rows[i])] = in.items
    <3>1. in.items = [i \in 1 .. n |-> in.items[i]]
      BY <1>1 DEF IsDoc
    <3> QED BY <1>13, <2>3, <3>1
  <2>5. in = [kind |-> in.kind, el |-> in.el, val |-> in.val, items |-> in.items]
    BY DEF IsDoc
  <2> QED BY <1>13, <2>1, <2>2, <2>4, <2>5
<1>21. s.next <= t.next
  BY <1>4, <1>5, <1>9
<1> QED BY <1>2, <1>9, <1>12, <1>16, <1>18, <1>19, <1>20, <1>21 DEF d, put

LEMMA RowTyped ==
    ASSUME NEW d \in Data, NEW i \in DOMAIN d.rows
    PROVE  /\ d.rows[i].name \in Labels /\ d.rows[i].key \in Nat /\ d.rows[i].val \in Vals \cup {None}
           /\ d.rows[i] = [name |-> d.rows[i].name, key |-> d.rows[i].key, val |-> d.rows[i].val]
<1> DEFINE R == [name : Labels, key : Nat, val : Vals \cup {None}]
<1>1. d.rows \in Seq(R)
  BY DEF Data
<1> HIDE DEF R
<1>2. d.rows[i] \in R
  BY <1>1
<1> QED BY <1>2 DEF R

\* What slay_get() gives of a live document is a document.
LEMMA DocTyped ==
    ASSUME NEW s, NEW k, Good(s), RecordsIn(s), k \in s.top, Live(s, k)
    PROVE  IsDoc(Expand(s, s.rec[k].data))
<1> DEFINE d == s.rec[k].data
           in == Expand(s, d)
           ItemFor(r) == Item(r.name, IF r.key = 0 THEN Field(r.val)
                                      ELSE IF Live(s, r.key) THEN Sent(s.rec[r.key].data)
                                      ELSE Field(None))
<1>1. k \in DOMAIN s.rec /\ IsTop(s.rec[k]) /\ RowsOK(s, k)
  BY DEF Live, RecordsIn, RoleOK
<1>2. d \in Data /\ d # None /\ IsSeq(d.rows)
  <2>1. d \in Data /\ d # None
    BY <1>1, DatabaseAssumption DEF IsTop
  <2>2. RecordOK(s.rec[k])
    BY <1>1, RecordFacts
  <2> QED BY <2>1, <2>2 DEF RecordOK, Whole
<1>3. in = [kind  |-> CASE d.schema = "TABLE" -> "ARRAY" [] d.schema = "SET" -> "OBJECT" [] OTHER -> d.schema,
            el    |-> d.el, val |-> d.val,
            items |-> [i \in DOMAIN d.rows |-> ItemFor(d.rows[i])]]
  BY SMTT(30) DEF Expand, Sent
<1>4. ASSUME NEW i \in DOMAIN d.rows PROVE ItemFor(d.rows[i]) \in Slots
  <2> DEFINE r == d.rows[i]
  <2>1. r.name \in Labels /\ r.key \in Nat /\ r.val \in Vals \cup {None}
    BY <1>2, RowTyped
  <2>2. CASE r.key = 0
    <3>1. Field(r.val) \in Parts \cup {Field(None)}
      BY <2>1, SMTT(30) DEF Parts
    <3> QED BY <2>1, <2>2, <3>1 DEF Item, Slots
  <2>3. CASE r.key # 0
    <3>1. r.key \in Rows(s, k)
      BY <1>2, <2>3, SMTT(30) DEF Rows, RowKeys, KeysOf
    <3>2. Live(s, r.key) /\ IsInner(s.rec[r.key])
      BY <1>1, <3>1, SMTT(30) DEF RowsOK, Live
    <3>3. PICK x \in Parts : s.rec[r.key].data = Plain(x)
      BY <3>2, ZenonT(60) DEF IsInner
    <3>4. Sent(Plain(x)) = x
      BY SMTT(30) DEF Parts, Field, Object, Sent, Plain
    <3>5. ItemFor(r) = Item(r.name, x)
      BY <2>3, <3>2, <3>3, <3>4, ZenonT(60)
    <3> QED BY <2>1, <3>5, ZenonT(60) DEF Item, Slots
  <2> QED BY <2>2, <2>3
<1> HIDE DEF ItemFor, Slots
<1>5. in.items \in Seq(Slots) /\ (d.rows = <<>> <=> in.items = <<>>)
  <2>1. Len(d.rows) \in Nat /\ DOMAIN d.rows = 1 .. Len(d.rows)
    BY <1>2, SeqPlaces
  <2>2. in.items = [i \in 1 .. Len(d.rows) |-> ItemFor(d.rows[i])]
    BY <1>3, <2>1
  <2> HIDE DEF in
  <2>3. in.items \in Seq(Slots)
    BY <1>4, <2>1, <2>2
  <2>4. d.rows = <<>> <=> Len(d.rows) = 0
    BY <1>2 DEF IsSeq
  <2>5. in.items = <<>> <=> Len(d.rows) = 0
    BY <2>1, <2>2, <2>3, SMTT(30)
  <2> QED BY <2>3, <2>4, <2>5
<1>6. d.schema \in {"FIELD", "OBJECT", "ARRAY", "TABLE", "SET"} /\ d.el \in Elements \cup {None} /\ d.val \in Vals \cup {None}
  BY <1>2 DEF Data
<1>7. in.el = d.el /\ in.val = d.val /\ in = [kind |-> in.kind, el |-> in.el, val |-> in.val, items |-> in.items]
  BY <1>3
<1>8. in.kind = CASE d.schema = "TABLE" -> "ARRAY" [] d.schema = "SET" -> "OBJECT" [] OTHER -> d.schema
  BY <1>3
<1>9. in.kind \in {"FIELD", "OBJECT", "ARRAY"} /\ (in.kind = "FIELD" => d.schema = "FIELD")
  <2> HIDE DEF in, d
  <2> QED BY <1>6, <1>8
<1> HIDE DEF in
<1> SUFFICES IsDoc(in)
  BY DEF in
<1> QED BY <1>1, <1>5, <1>6, <1>7, <1>9 DEF IsDoc, IsTop

-----------------------------------------------------------------------------
(* The theorems *)

LEMMA InitInv == Init => Inv
<1> SUFFICES ASSUME Init PROVE Inv
  OBVIOUS
<1> DEFINE r == [Record(None) EXCEPT !.type = "RAW", !.lock = TRUE]
<1>1. /\ IsBase(db) /\ db.next = 2 /\ db.alias = <<>> /\ db.alias_size = 0 /\ db.ilist = <<>>
      /\ db.index_list_size = 0 /\ ~db.err /\ db.rec = <<r>>
  BY DEF Init, IsBase
<1>2. RecordOK(r) /\ RowKeys(r) = {}
  BY DEF RecordOK, Record, IsRecord, RowKeys
<1> HIDE DEF r
<1>3. RecordsOK(db)
  <2>1. DOMAIN db.rec = {1} /\ db.rec[1] = r
    BY <1>1
  <2> QED BY <1>1, <1>2, <2>1 DEF RecordsOK
<1>4. IsSeq(<<>>) /\ DOMAIN <<>> = {}
  BY DEF IsSeq
<1>5. AliasesOK(db)
  <2>1. AliasAll(db) = {}
    BY <1>1, <1>4 DEF AliasAll
  <2> QED BY <1>1, <1>4, <2>1, FS_EmptySet DEF AliasesOK
<1>6. IndexesOK(db)
  <2>1. Listed(db) = {}
    BY <1>1, <1>4 DEF Listed
  <2> QED BY <1>1, <1>4, <2>1, FS_EmptySet DEF IndexesOK
<1> QED BY <1>1, <1>3, <1>5, <1>6 DEF Inv, Good, Init

\* The answer to a request clears the error and keeps the rest.
LEMMA ReplyInv ==
    ASSUME NEW op, NEW s, Good(s), load \in Workloads, Reply(op, s)
    PROVE  Inv'
<1>1. Good(Clear(s)) /\ ~Clear(s).err
  BY ClearGood
<1>2. db' = Clear(s) /\ load' = load
  BY DEF Reply
<1>3. Good(db') /\ ~db'.err /\ load' \in Workloads
  BY <1>1, <1>2
<1> QED BY <1>3 DEF Inv

\* The records that requests name are in the base, and groups have data.
LEMMA Named ==
    ASSUME Inv
    PROVE  /\ \A k \in Records : k \in DOMAIN db.rec
           /\ \A k \in Groups : k \in DOMAIN db.rec /\ Whole(db.rec[k].data) /\ db.rec[k].data # None
  BY DEF Records, Groups, IsGroup, Inv, Good, RecordsOK, RecordOK

LEMMA NextInv == Inv /\ [Next]_vars => Inv'
<1> SUFFICES ASSUME Inv, [Next]_vars PROVE Inv'
  OBVIOUS
<1>1. Good(db) /\ ~db.err /\ load \in Workloads
  BY DEF Inv
<1>2. \A in \in load.inputs : Len(in.items) \in Nat
  BY <1>1, DatabaseAssumption DEF IsDocument, Parts, Field, Object
<1>3. CASE Put
  <2>1. PICK in \in load.inputs : Reply("put", DbPut(db, in))
    BY <1>3 DEF Put
  <2> QED BY <1>1, <1>2, <2>1, DbPutGood, ReplyInv
<1>4. CASE Update
  <2>1. PICK k \in Records, in \in load.inputs, descent \in BOOLEAN :
            Reply("update", DbUpdate(db, k, in, descent))
    BY <1>4 DEF Update
  <2>2. Good(DbUpdate(db, k, in, descent))
    BY <1>1, <1>2, Named, DbUpdateGood
  <2> QED BY <1>1, <2>1, <2>2, ReplyInv
<1>5. CASE Duplicate
  <2>1. PICK k \in Records, copy_meta \in BOOLEAN : Reply("dup", DbDuplicate(db, k, copy_meta))
    BY <1>5 DEF Duplicate
  <2> QED BY <1>1, <2>1, DbDuplicateGood, ReplyInv
<1>6. CASE \E k \in DOMAIN db.rec, descent \in BOOLEAN : Delete(k, descent)
  <2>1. PICK k \in DOMAIN db.rec, descent \in BOOLEAN : Reply("delete", DbDelete(db, k, descent))
    BY <1>6 DEF Delete
  <2> QED BY <1>1, <2>1, DbDeleteGood, ReplyInv
<1>7. CASE \E k \in DOMAIN db.rec, descent \in BOOLEAN : Purge(k, descent)
  <2>1. PICK k \in DOMAIN db.rec, descent \in BOOLEAN : Reply("purge", DbPurge(db, k, descent))
    BY <1>7 DEF Purge
  <2> QED BY <1>1, <2>1, DbDeleteGood, ReplyInv
<1>8. CASE ItemAdd
  <2>1. PICK k \in Groups, in \in load.items : Reply("item", DbItemAdd(db, k, in))
    BY <1>8 DEF ItemAdd
  <2>2. Good(DbItemAdd(db, k, in))
    BY <1>1, Named, DbItemAddGood
  <2> QED BY <1>1, <2>1, <2>2, ReplyInv
<1>9. CASE ItemRemove
  <2>1. PICK k \in Groups, in \in load.items : Reply("item", DbItemRemove(db, k, in))
    BY <1>9 DEF ItemRemove
  <2>2. Good(DbItemRemove(db, k, in))
    BY <1>1, Named, DbItemRemoveGood
  <2> QED BY <1>1, <2>1, <2>2, ReplyInv
<1>10. CASE SetMetadata
  <2>1. PICK k \in Records, lock \in BOOLEAN : Reply("setmeta", DbSetMeta(db, k, lock))
    BY <1>10 DEF SetMetadata
  <2> QED BY <1>1, <2>1, DbSetMetaGood, ReplyInv
<1>11. CASE Alias
  <2>1. PICK k \in DOMAIN db.rec, name \in Names : Reply("alias", DbAliasUpdate(db, k, name))
    BY <1>11 DEF Alias
  <2> QED BY <1>1, <2>1, DbAliasUpdateGood, ReplyInv
<1>12. CASE IndexCreate
  <2>1. PICK k \in Groups, e \in Elements : Reply("index", DbIndexCreate(db, k, e))
    BY <1>12 DEF IndexCreate
  <2>2. e # None
    BY DatabaseAssumption
  <2> QED BY <1>1, <2>1, <2>2, DbIndexCreateGood, ReplyInv
<1>13. CASE IndexRebuild
  <2>1. PICK k \in Records : Reply("rebuild", DbIndexRebuild(db, k))
    BY <1>13 DEF IndexRebuild
  <2> QED BY <1>1, <2>1, DbIndexRebuildGood, ReplyInv
<1>14. CASE Vacuum
  BY <1>1, <1>14, VacuumedGood, ReplyInv DEF Vacuum
<1>15. CASE UNCHANGED vars
  BY <1>15 DEF Inv, vars
<1> QED BY <1>3, <1>4, <1>5, <1>6, <1>7, <1>8, <1>9, <1>10, <1>11, <1>12, <1>13, <1>14, <1>15 DEF Next

LEMMA SpecInv == Spec => []Inv
  BY InitInv, NextInv, PTL DEF Spec

(***************************************************************************)
(* Whatever the requests, and over a vacuum, alias_size and                *)
(* index_list_size are the number of entries in use, so that alias_all()   *)
(* and index_list_all() store no child beyond the array they allocate by   *)
(* them (alias.c, index_list.c).                                           *)
(***************************************************************************)
THEOREM CountersFit == Spec => []ListsFit
<1>1. Inv => ListsFit
  BY DEF Inv, Good, AliasesOK, IndexesOK, ListsFit
<1> QED BY <1>1, SpecInv, PTL

LEMMA NamesFound == ASSUME Inv PROVE NamesResolve
<1> SUFFICES ASSUME NEW p \in DOMAIN db.alias, db.alias[p].len
             PROVE  AliasGetKey(db, db.alias[p].name) = db.alias[p].quid
  BY DEF NamesResolve
<1> DEFINE found == AliasNamed(db, db.alias[p].name)
           r == FirstSeen(found)
<1>1. found \subseteq 1 .. Len(db.alias) /\ Len(db.alias) \in Nat /\ p \in found
  BY SeqPlaces DEF Inv, Good, AliasesOK, AliasNamed
<1> HIDE DEF found
<1>2. r \in found /\ r # 0
  BY <1>1, SeenIsFound
<1> HIDE DEF r
<1>3. p \in AliasAll(db) /\ r \in AliasAll(db) /\ db.alias[r].name = db.alias[p].name
  BY <1>2 DEF found, AliasNamed, AliasAll
<1>4. db.alias[r].quid = db.alias[p].quid
  BY <1>3 DEF Inv, Good, AliasesOK
<1> QED BY <1>2, <1>4 DEF AliasGetKey, r, found

(***************************************************************************)
(* Whatever the requests, the name of an alias leads to the record that    *)
(* has it (alias_get_key()): db_alias_update() takes a name only if it is  *)
(* free, and a group or an index that is named after its key meets no      *)
(* other alias of that name, as long as clients give no keys for names.    *)
(***************************************************************************)
THEOREM NamesLead == Spec => []NamesResolve
  BY NamesFound, SpecInv, PTL

(***************************************************************************)
(* Whatever the requests, a row belongs to one record: slay_put() and      *)
(* db_item_add() give rows keys of their own, also for a copy and for      *)
(* what replaces the rows of a group (slay_marshall.c, core.c).            *)
(***************************************************************************)
THEOREM RowsOwned == Spec => []RowsApart
<1>1. Inv => RowsApart
  BY DEF Inv, Good, RecordsOK, RowsApart
<1> QED BY <1>1, SpecInv, PTL
=============================================================================
