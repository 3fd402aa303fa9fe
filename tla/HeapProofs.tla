----------------------------- MODULE HeapProofs -----------------------------
(***************************************************************************)
(* The data heap keeps records, freed blocks and saved versions apart, for *)
(* every page size, cache size and density and every set of keys and       *)
(* lengths, as long as the base has one page.  (With two pages it does     *)
(* not: run heap_two_pages.)                                               *)
(***************************************************************************)
EXTENDS Heap, FiniteSetTheorems, WellFoundedInduction, TLAPS

(***************************************************************************)
(* Extremal elements: what Top, Bottom, FirstSeen and LastSeen choose.     *)
(***************************************************************************)

\* A set of numbers that is not empty has a least element ...
LEMMA LeastExists ==
    ASSUME NEW S, S \subseteq Nat, S # {}
    PROVE  \E x \in S : \A y \in S : x <= y
<1>1. \E x \in S : \A y \in S : ~(<<y, x>> \in OpToRel(<, Nat))
  BY NatLessThanWellFounded, WFMin, Zenon
<1>2. PICK x \in S : \A y \in S : ~(<<y, x>> \in OpToRel(<, Nat))
  BY <1>1, Zenon
<1>3. \A y \in S : x \in Nat /\ y \in Nat /\ ~(y < x)
  BY <1>2, Zenon DEF OpToRel
<1>4. \A y \in S : x <= y
  BY <1>3
<1> QED BY <1>4, Zenon

\* ... and, if it is bounded, a greatest.
LEMMA GreatestExists ==
    ASSUME NEW n \in Nat, NEW S, S \subseteq 0 .. n, S # {}
    PROVE  \E x \in S : \A y \in S : y <= x
<1> DEFINE R == {n - y : y \in S}
<1>1. R \subseteq Nat /\ R # {}
  <2>1. PICK s : s \in S
    OBVIOUS
  <2>2. \A y \in S : n - y \in Nat
    OBVIOUS
  <2>3. n - s \in R
    BY <2>1
  <2> QED BY <2>2, <2>3
<1>2. PICK r \in R : \A y \in R : r <= y
  BY <1>1, LeastExists
<1>3. PICK x \in S : r = n - x
  BY <1>2
<1>4. \A y \in S : y <= x
  BY <1>2, <1>3
<1> QED BY <1>4

\* alloc_dbchunk() and free_dbchunk() pick a slot of the set they search.
LEMMA SlotPicked ==
    ASSUME NEW S, S \subseteq Slot, S # {}
    PROVE  Top(S) \in S /\ Bottom(S) \in S
<1>1. \E i \in S : \A j \in S : i <= j
  <2>1. S \subseteq Nat
    BY DEF Slot
  <2> QED BY <2>1, LeastExists
<1>2. \E i \in S : \A j \in S : j <= i
  <2>1. Slots - 1 \in Nat
    BY HeapAssumption
  <2>2. S \subseteq 0 .. (Slots - 1)
    BY DEF Slot
  <2> QED BY <2>1, <2>2, GreatestExists
<1> QED BY <1>1, <1>2 DEF Top, Bottom

\* The walk over the history ends at an entry of the key it looks for.
LEMMA LastSeenPicked ==
    ASSUME NEW n \in Nat, NEW S, S \subseteq 1 .. n, S # {}
    PROVE  LastSeen(S) \in S
<1> DEFINE L == {ListOf(p) : p \in S}
<1>0. \A p \in S : ListOf(p) \in Nat
  BY HistListAssumption DEF ListOf
<1>1. PICK l \in L : \A y \in L : l <= y
  <2>1. L \subseteq Nat /\ L # {}
    BY <1>0
  <2> QED BY <2>1, LeastExists
<1> DEFINE P == {p \in S : ListOf(p) = l}
<1>2. P # {} /\ P \subseteq 0 .. n
  BY <1>1
<1>3. PICK p \in P : \A q \in P : q <= p
  BY <1>2, GreatestExists
<1>4. \A q \in S : p = q \/ Earlier(q, p)
  <2> TAKE q \in S
  <2>1. ListOf(q) \in Nat /\ ListOf(p) \in Nat /\ ListOf(p) <= ListOf(q)
    BY <1>0, <1>1
  <2>2. CASE ListOf(q) = ListOf(p)
    BY <1>3, <2>2 DEF Earlier
  <2>3. CASE ListOf(q) # ListOf(p)
    BY <2>1, <2>3 DEF Earlier
  <2> QED BY <2>2, <2>3
<1> QED BY <1>3, <1>4 DEF LastSeen

\* Versions are numbers.
LEMMA NextVersionType ==
    ASSUME NEW h \in Seq(Entry), NEW key \in Keys
    PROVE  NextVersion(h, key) \in Nat
<1>1. CASE EntriesOf(h, key) = {}
  BY <1>1 DEF NextVersion
<1>2. CASE EntriesOf(h, key) # {}
  <2>1. Len(h) \in Nat /\ EntriesOf(h, key) \subseteq 1 .. Len(h)
    BY DEF EntriesOf
  <2>2. LastSeen(EntriesOf(h, key)) \in 1 .. Len(h)
    BY <1>2, <2>1, LastSeenPicked
  <2>3. h[LastSeen(EntriesOf(h, key))].version \in Nat
    <3>1. h[LastSeen(EntriesOf(h, key))] \in Entry
      BY <2>2
    <3> QED BY <3>1 DEF Entry
  <2> QED BY <1>2, <2>3 DEF NextVersion
<1> QED BY <1>1, <1>2

-----------------------------------------------------------------------------

(***************************************************************************)
(* The inductive invariant.  Its parts take the cache, the history, the    *)
(* blocks and the allocation point as parameters, because an update goes   *)
(* through a state of its own between freeing the old block and storing    *)
(* the new one.                                                            *)
(***************************************************************************)

\* Everything is in the first page.
PointOK(pt) == /\ pt \in [offset : Nat, count : Nat]
               /\ pt.count = 1
               /\ HDR <= pt.offset
               /\ pt.offset < PageSize

\* Blocks do not overlap, and end below the allocation point.
BlobsOK(b, top) ==
    /\ \A o \in DOMAIN b : /\ o \in Nat
                           /\ HDR <= o
                           /\ b[o] \in Block
                           /\ b[o].len > 0
                           /\ o + BlobInfo + b[o].len <= top
    /\ \A o, p \in DOMAIN b : o # p => \/ o + BlobInfo + b[o].len <= p
                                       \/ p + BlobInfo + b[p].len <= o

CacheOK(c, b) ==
    /\ c \in [Slot -> [len : Nat, offset : Nat]]
    /\ \A i \in Slot : c[i].len > 0 => /\ c[i].offset \in DOMAIN b
                                       /\ b[c[i].offset].free
                                       /\ b[c[i].offset].len = c[i].len
    /\ \A i, j \in Slot : (i # j /\ c[i].len > 0 /\ c[j].len > 0)
                            => c[i].offset # c[j].offset

\* A listed block holds the version; a free block is listed at most once; the
\* block of a record, for a key in S, is listed only if the record is locked.
HistOK(S, h, b) ==
    /\ h \in Seq(Entry)
    /\ \A p \in DOMAIN h : h[p].offset # 0 => /\ h[p].offset \in DOMAIN b
                                              /\ b[h[p].offset].val = h[p].val
    /\ \A p, q \in DOMAIN h : (p # q /\ h[p].offset # 0 /\ h[p].offset = h[q].offset)
                                => ~b[h[p].offset].free
    /\ \A p \in DOMAIN h, k \in S : (h[p].offset # 0 /\ h[p].offset = rec[k])
                                      => k \in locked

\* The records of the keys in S have blocks of their own with their contents.
RecsOK(S, b) ==
    /\ \A k \in S : rec[k] # 0 => /\ rec[k] \in DOMAIN b
                                  /\ b[rec[k]].val = truth[k]
                                  /\ ~b[rec[k]].free
    /\ \A k, l \in S : (k # l /\ rec[k] # 0) => rec[k] # rec[l]

FreeSet(b) == {o \in DOMAIN b : b[o].free}

FreeOK(n, b) == IsFiniteSet(DOMAIN b) /\ n = Cardinality(FreeSet(b))

VarsOK == /\ rec \in [Keys -> Nat]
          /\ locked \subseteq Keys
          /\ truth \in [Keys -> Vals \cup {NoKey}]
          /\ failed \in BOOLEAN

Inv == /\ PointOK(point)
       /\ BlobsOK(blob, point.offset)
       /\ CacheOK(dbcache, blob)
       /\ HistOK(Keys, hist, blob)
       /\ RecsOK(Keys, blob)
       /\ FreeOK(freed, blob)
       /\ VarsOK

-----------------------------------------------------------------------------

(***************************************************************************)
(* Writing a block, past the allocation point or over a block that is long *)
(* enough, changes no other block.                                         *)
(***************************************************************************)

Written(b, w, o, len, v) ==
    /\ DOMAIN w = DOMAIN b \cup {o}
    /\ w[o] = [len |-> len, val |-> v, free |-> FALSE]
    /\ \A p \in DOMAIN b : p # o => w[p] = b[p]

\* A block written at the allocation point: the others stay as they are.
LEMMA WriteBlockFresh ==
    ASSUME NEW b, NEW o \in Nat, BlobsOK(b, o), HDR <= o,
           NEW len \in Nat \ {0}, NEW v \in Vals
    PROVE  /\ o \notin DOMAIN b
           /\ Written(b, WriteBlock(b, o, len, v), o, len, v)
           /\ BlobsOK(WriteBlock(b, o, len, v), o + BlobInfo + len)
<1> DEFINE w == WriteBlock(b, o, len, v)
<1>0. BlobInfo \in Nat
  BY HeapAssumption
<1>1. \A p \in DOMAIN b : /\ p \in Nat /\ b[p].len \in Nat /\ b[p].len > 0
                          /\ p + BlobInfo + b[p].len <= o
  BY DEF BlobsOK, Block
<1>2. o \notin DOMAIN b
  BY <1>0, <1>1
<1>3. \A p \in DOMAIN b : Extent(p, b[p].len) \cap Extent(o, len) = {}
  BY <1>0, <1>1 DEF Extent
<1>4. Written(b, w, o, len, v)
  BY <1>3 DEF WriteBlock, Written
<1> HIDE DEF w
<1>5. BlobsOK(w, o + BlobInfo + len)
  <2>1. w[o] \in Block /\ w[o].len = len
    BY <1>4 DEF Written, Block
  <2>2. \A p \in DOMAIN w : p # o => p \in DOMAIN b /\ w[p] = b[p]
    BY <1>4 DEF Written
  <2>3. ASSUME NEW p \in DOMAIN w
        PROVE  /\ p \in Nat /\ HDR <= p /\ w[p] \in Block /\ w[p].len > 0
               /\ p + BlobInfo + w[p].len <= o + BlobInfo + len
    <3>1. CASE p = o
      BY <1>0, <2>1, <3>1
    <3>2. CASE p # o
      BY <1>0, <1>1, <2>2, <3>2 DEF BlobsOK
    <3> QED BY <3>1, <3>2
  <2>4. ASSUME NEW p \in DOMAIN w, NEW q \in DOMAIN w, p # q
        PROVE  \/ p + BlobInfo + w[p].len <= q
               \/ q + BlobInfo + w[q].len <= p
    <3>1. CASE p = o
      BY <1>1, <2>2, <2>4, <3>1
    <3>2. CASE q = o
      BY <1>1, <2>2, <2>4, <3>2
    <3>3. CASE p # o /\ q # o
      BY <2>2, <2>4, <3>3 DEF BlobsOK
    <3> QED BY <3>1, <3>2, <3>3
  <2> QED BY <2>3, <2>4 DEF BlobsOK
<1> QED BY <1>2, <1>4, <1>5 DEF w

\* A block written over one that is at least as long.
LEMMA WriteBlockReuse ==
    ASSUME NEW b, NEW top \in Nat, BlobsOK(b, top), NEW o \in DOMAIN b,
           NEW len \in Nat \ {0}, len <= b[o].len, NEW v \in Vals
    PROVE  /\ Written(b, WriteBlock(b, o, len, v), o, len, v)
           /\ BlobsOK(WriteBlock(b, o, len, v), top)
<1> DEFINE w == WriteBlock(b, o, len, v)
<1>0. BlobInfo \in Nat
  BY HeapAssumption
<1>1. \A p \in DOMAIN b : p \in Nat /\ b[p].len \in Nat
  BY DEF BlobsOK, Block
<1>2. \A p \in DOMAIN b : p # o => \/ o + BlobInfo + b[o].len <= p
                                   \/ p + BlobInfo + b[p].len <= o
  BY DEF BlobsOK
<1>3. \A p \in DOMAIN b : p # o => Extent(p, b[p].len) \cap Extent(o, len) = {}
  BY <1>0, <1>1, <1>2 DEF Extent
<1>4. Written(b, w, o, len, v)
  BY <1>3 DEF WriteBlock, Written
<1> HIDE DEF w
<1>5. BlobsOK(w, top)
  <2>1. w[o] \in Block /\ w[o].len = len
    BY <1>4 DEF Written, Block
  <2>2. \A p \in DOMAIN w : p # o => p \in DOMAIN b /\ w[p] = b[p]
    BY <1>4 DEF Written
  <2>3. ASSUME NEW p \in DOMAIN w
        PROVE  /\ p \in Nat /\ HDR <= p /\ w[p] \in Block /\ w[p].len > 0
               /\ p + BlobInfo + w[p].len <= top
    <3>1. CASE p = o
      BY <1>0, <1>1, <2>1, <3>1 DEF BlobsOK
    <3>2. CASE p # o
      BY <2>2, <3>2 DEF BlobsOK
    <3> QED BY <3>1, <3>2
  <2>4. ASSUME NEW p \in DOMAIN w, NEW q \in DOMAIN w, p # q
        PROVE  \/ p + BlobInfo + w[p].len <= q
               \/ q + BlobInfo + w[q].len <= p
    <3>1. CASE p = o
      BY <1>0, <1>1, <1>2, <2>1, <2>2, <2>4, <3>1
    <3>2. CASE q = o
      BY <1>0, <1>1, <1>2, <2>1, <2>2, <2>4, <3>2
    <3>3. CASE p # o /\ q # o
      BY <2>2, <2>4, <3>3 DEF BlobsOK
    <3> QED BY <3>1, <3>2, <3>3
  <2> QED BY <2>3, <2>4 DEF BlobsOK
<1> QED BY <1>4, <1>5 DEF w

\* free_dbchunk() keeps the cache sound: the slots that move keep their blocks.
LEMMA KeepSound ==
    ASSUME NEW b, NEW c, CacheOK(c, b), NEW o \in DOMAIN b, o \in Nat,
           b[o].free, b[o].len \in Nat,
           \A i \in Slot : c[i].len > 0 => c[i].offset # o
    PROVE  CacheOK(Keep(c, o, b[o].len), b)
<1> DEFINE len == b[o].len
           i == Top(Shorter(c, len))
           e == [len |-> len, offset |-> o]
<1>1. CASE Shorter(c, len) = {}
  BY <1>1 DEF Keep
<1>2. CASE Shorter(c, len) # {}
  <2>1. i \in Slot
    BY <1>2, SlotPicked DEF Shorter
  <2>2. CASE c[i].len = 0
    BY <1>2, <2>1, <2>2 DEF Keep, CacheOK
  <2>3. CASE c[i].len # 0
    <3> DEFINE from(j) == IF j < i THEN j + 1 ELSE j
               d == [j \in Slot |-> IF j = i THEN e ELSE c[from(j)]]
    <3>1. Keep(c, o, len) = [j \in Slot |-> IF j < i THEN c[j + 1]
                                            ELSE IF j = i THEN e ELSE c[j]]
      BY <1>2, <2>3 DEF Keep
    <3>2. Slot \subseteq Int /\ i \in Int
      BY <2>1, HeapAssumption DEF Slot
    <3>3. Keep(c, o, len) = d
      BY <3>1, <3>2
    <3>4. \A j \in Slot : j # i => from(j) \in Slot
      BY <2>1, HeapAssumption DEF Slot
    <3>5. \A j, k \in Slot : (j # k /\ j # i /\ k # i) => from(j) # from(k)
      BY <3>2
    <3> HIDE DEF from
    <3>6. d \in [Slot -> [len : Nat, offset : Nat]]
      BY <3>4 DEF CacheOK
    <3>7. CacheOK(d, b)
      BY <3>4, <3>5, <3>6 DEF CacheOK
    <3> QED BY <3>3, <3>7
  <2> QED BY <2>2, <2>3
<1> QED BY <1>1, <1>2

\* A request that stays in the first page is served at the allocation point.
LEMMA AdvanceInPage ==
    ASSUME NEW pt \in [offset : Nat, count : Nat], pt.count > 0,
           pt.count = 1 => PointOK(pt),
           NEW len \in Nat, Advance(pt, len).count <= 1
    PROVE  /\ pt.count = 1
           /\ Address(pt, len) = pt.offset
           /\ Advance(pt, len).offset = pt.offset + len
           /\ PointOK(Advance(pt, len))
<1>1. Advance(pt, len).count = CountAfter(pt.offset, pt.count, len)
  BY DEF Advance
<1>2. pt.count = 1 /\ ~NeedsPage(pt.offset, len)
  BY <1>1 DEF CountAfter
<1>3. pt.offset \in Nat /\ HDR <= pt.offset /\ pt.offset < PageSize
  BY <1>2 DEF PointOK
<1>4. Local(pt.offset) = pt.offset
  BY <1>3, SizeAssumption DEF Local
<1>5. pt.offset + len < PageSize
  BY <1>2, <1>3, <1>4, SizeAssumption DEF NeedsPage
<1>6. Address(pt, len) = pt.offset
  BY <1>2 DEF Address, AddrOf
<1>7. Advance(pt, len) = [offset |-> pt.offset + len, count |-> 1]
  BY <1>2, <1>6 DEF Advance, CountAfter
<1>8. PointOK(Advance(pt, len))
  BY <1>3, <1>5, <1>7, SizeAssumption DEF PointOK
<1> QED BY <1>2, <1>6, <1>7, <1>8

(***************************************************************************)
(* Erasing the history entry of a free block leaves no entry for it.       *)
(***************************************************************************)
LEMMA HistoryDeleted ==
    ASSUME NEW S, NEW h, NEW b, HistOK(S, h, b), NEW o \in DOMAIN b,
           o \in Nat \ {0}, b[o].free
    PROVE  /\ HistOK(S, HistoryDelete(h, o), b)
           /\ \A p \in DOMAIN HistoryDelete(h, o) : HistoryDelete(h, o)[p].offset # o
<1> DEFINE H == HoldersOf(h, o)
           g == HistoryDelete(h, o)
<1>1. CASE H = {}
  BY <1>1 DEF HistoryDelete, HistoryDeleteFails, HoldersOf
<1>2. CASE H # {}
  <2>1. PICK x : x \in H
    BY <1>2
  <2>2. \A p, q \in H : p = q
    BY DEF HoldersOf, HistOK
  <2>3. FirstSeen(H) = x
    <3>1. \E p \in H : \A q \in H : p = q \/ Earlier(p, q)
      BY <2>1, <2>2
    <3>2. FirstSeen(H) \in H
      BY <3>1 DEF FirstSeen
    <3> QED BY <2>1, <2>2, <3>2
  <2>4. g = [h EXCEPT ![x] = Erased]
    BY <1>2, <2>3 DEF HistoryDelete, HistoryDeleteFails
  <2>5. h \in Seq(Entry) /\ x \in DOMAIN h
    BY <2>1 DEF HistOK, HoldersOf
  <2>6. Erased \in Entry /\ Erased.offset = 0
    BY DEF Erased, Entry
  <2>7. g \in Seq(Entry) /\ DOMAIN g = DOMAIN h
    BY <2>4, <2>5, <2>6
  <2>8. g[x] = Erased /\ \A p \in DOMAIN h : p # x => g[p] = h[p]
    BY <2>4, <2>5
  <2>9. \A p \in DOMAIN g : g[p].offset # o
    BY <2>1, <2>2, <2>6, <2>7, <2>8 DEF HoldersOf
  <2>10. HistOK(S, g, b)
    BY <2>6, <2>7, <2>8 DEF HistOK
  <2> QED BY <2>9, <2>10
<1> QED BY <1>1, <1>2

\* Saving a version lists its block once more.
Listed(h, g, o, val) ==
    /\ g \in Seq(Entry)
    /\ DOMAIN g = DOMAIN h \cup {Len(h) + 1}
    /\ Len(h) + 1 \notin DOMAIN h
    /\ g[Len(h) + 1].offset = o
    /\ g[Len(h) + 1].val = val
    /\ \A p \in DOMAIN h : g[p] = h[p]

LEMMA HistoryAdded ==
    ASSUME NEW h \in Seq(Entry), NEW key \in Keys, NEW o \in Nat,
           NEW val \in Vals \cup {NoKey}
    PROVE  Listed(h, HistoryAdd(h, key, o, val), o, val)
<1> DEFINE e == [quid |-> key, version |-> NextVersion(h, key),
                 offset |-> o, val |-> val]
<1>1. NextVersion(h, key) \in Nat
  BY NextVersionType
<1>2. e \in Entry
  BY <1>1 DEF Entry
<1>3. e.offset = o /\ e.val = val
  OBVIOUS
<1> HIDE DEF e
<1>4. HistoryAdd(h, key, o, val) = Append(h, e)
  BY DEF HistoryAdd, e
<1> QED BY <1>2, <1>3, <1>4 DEF Listed

-----------------------------------------------------------------------------

(***************************************************************************)
(* The state an insertion starts from: sound except for key, which has no  *)
(* block, and with an allocation point that may have left the first page.  *)
(***************************************************************************)
Ready(key, c, h, pt, b, n) ==
    /\ pt \in [offset : Nat, count : Nat]
    /\ pt.count > 0
    /\ pt.count = 1 => PointOK(pt) /\ BlobsOK(b, pt.offset)
    /\ CacheOK(c, b)
    /\ HistOK(Keys \ {key}, h, b)
    /\ RecsOK(Keys \ {key}, b)
    /\ FreeOK(n, b)
    /\ VarsOK

\* heap_free_size follows the reuse of a block ...
LEMMA FreeCountReuse ==
    ASSUME NEW b, NEW w, NEW n, NEW o \in DOMAIN b, NEW len, NEW v,
           FreeOK(n, b), Written(b, w, o, len, v), b[o].free
    PROVE  FreeOK(n - 1, w)
<1>1. DOMAIN w = DOMAIN b
  BY DEF Written
<1>2. ~w[o].free
  BY DEF Written
<1>3. \A p \in DOMAIN b : p # o => w[p] = b[p]
  BY DEF Written
<1>4. FreeSet(w) = FreeSet(b) \ {o} /\ o \in FreeSet(b)
  BY <1>1, <1>2, <1>3 DEF FreeSet
<1>5. FreeSet(b) \in SUBSET DOMAIN b /\ IsFiniteSet(DOMAIN b)
  BY DEF FreeSet, FreeOK
<1>6. IsFiniteSet(FreeSet(b))
  BY <1>5, FS_Subset
<1>7. Cardinality(FreeSet(b) \ {o}) = Cardinality(FreeSet(b)) - 1
  BY <1>4, <1>6, FS_RemoveElement
<1> QED BY <1>1, <1>4, <1>5, <1>7 DEF FreeOK

\* ... and the freeing of one.
LEMMA FreeCountFreed ==
    ASSUME NEW n, NEW o \in DOMAIN blob, FreeOK(n, blob), ~blob[o].free
    PROVE  FreeOK(n + 1, FreedBlob(o))
<1>1. DOMAIN FreedBlob(o) = DOMAIN blob
  BY DEF FreedBlob
<1>2. FreeSet(FreedBlob(o)) = FreeSet(blob) \cup {o} /\ o \notin FreeSet(blob)
  BY DEF FreedBlob, FreeSet
<1>3. FreeSet(blob) \in SUBSET DOMAIN blob /\ IsFiniteSet(DOMAIN blob)
  BY DEF FreeSet, FreeOK
<1>4. IsFiniteSet(FreeSet(blob))
  BY <1>3, FS_Subset
<1>5. Cardinality(FreeSet(blob) \cup {o}) = Cardinality(FreeSet(blob)) + 1
  BY <1>2, <1>4, FS_AddElement
<1> QED BY <1>1, <1>2, <1>3, <1>5 DEF FreeOK

\* insert_data() of a record that has no block ends in a sound state.
LEMMA InsertSafe ==
    ASSUME MaxPages = 1,
           NEW key \in Keys, NEW len \in Lens, NEW v \in Vals,
           NEW c, NEW h, NEW pt, NEW b, NEW n, NEW check \in BOOLEAN,
           Ready(key, c, h, pt, b, n),
           InsertData(key, len, v, c, h, pt, b, n, check),
           locked' = locked
    PROVE  Inv'
<1> DEFINE S == Suitable(c, len)
           i == Bottom(S)
           w == blob'
           a == rec'[key]
<1>1. len \in Nat \ {0} /\ BlobInfo \in Nat /\ BlobInfo + len \in Nat
  BY HeapAssumption
<1>2. point'.count <= 1
  BY DEF InsertData
<1>3. VarsOK'
  <2>1. rec \in [Keys -> Nat] /\ truth \in [Keys -> Vals \cup {NoKey}] /\ locked \subseteq Keys
    BY DEF Ready, VarsOK
  <2>2. failed' \in BOOLEAN
    BY DEF InsertData, HistoryDeleteFails
  <2>3. truth' \in [Keys -> Vals \cup {NoKey}]
    BY <2>1 DEF InsertData
  <2>4. rec' \in [Keys -> Nat]
    <3>1. CASE S # {}
      <4>1. i \in Slot
        BY <3>1, SlotPicked DEF Suitable
      <4>2. c[i].offset \in Nat
        BY <4>1 DEF Ready, CacheOK
      <4> QED BY <2>1, <3>1, <4>2 DEF InsertData
    <3>2. CASE S = {}
      <4>1. point' = Advance(pt, BlobInfo + len)
        BY <3>2 DEF InsertData
      <4>2. Address(pt, BlobInfo + len) = pt.offset
        BY <1>1, <1>2, <4>1, AdvanceInPage DEF Ready
      <4>3. pt.offset \in Nat
        BY DEF Ready
      <4> QED BY <2>1, <3>2, <4>2, <4>3 DEF InsertData
    <3> QED BY <3>1, <3>2
  <2> QED BY <2>1, <2>2, <2>3, <2>4 DEF VarsOK
<1>4. /\ \A k \in Keys \ {key} : rec'[k] = rec[k] /\ truth'[k] = truth[k]
      /\ truth'[key] = v
      /\ rec' = [rec EXCEPT ![key] = a]
  BY DEF InsertData, Ready, VarsOK
<1>5. /\ PointOK(point') /\ BlobsOK(w, point'.offset)
      /\ CacheOK(dbcache', w)
      /\ FreeOK(freed', w)
      /\ a # 0 /\ Written(b, w, a, len, v)
      /\ a \in DOMAIN b => b[a].free
      /\ HistOK(Keys \ {key}, hist', b)
      /\ \A p \in DOMAIN hist' : hist'[p].offset # a
  <2>1. CASE S = {}
    <3>1. /\ point' = Advance(pt, BlobInfo + len)
          /\ dbcache' = c /\ hist' = h /\ freed' = n
          /\ a = Address(pt, BlobInfo + len)
          /\ blob' = WriteBlock(b, a, len, v)
      <4>1. a = Address(pt, BlobInfo + len)
        BY <2>1 DEF InsertData, Ready, VarsOK
      <4> QED BY <2>1, <4>1 DEF InsertData, FreedAfter
    <3>2. /\ pt.count = 1 /\ a = pt.offset
          /\ point'.offset = pt.offset + (BlobInfo + len)
          /\ PointOK(point')
      BY <1>1, <1>2, <3>1, AdvanceInPage DEF Ready
    <3>3. a \in Nat /\ HDR <= a /\ BlobsOK(b, a)
      BY <3>2 DEF Ready, PointOK
    <3>4. /\ a \notin DOMAIN b
          /\ Written(b, w, a, len, v)
          /\ BlobsOK(w, a + BlobInfo + len)
      BY <1>1, <3>1, <3>3, WriteBlockFresh
    <3>5. a # 0 /\ point'.offset = a + BlobInfo + len
      BY <1>1, <3>2, <3>3, SizeAssumption
    <3>6. CacheOK(dbcache', w)
      <4>1. \A o \in DOMAIN b : o \in DOMAIN w /\ w[o] = b[o]
        BY <3>4 DEF Written
      <4> QED BY <3>1, <4>1 DEF Ready, CacheOK
    <3>7. FreeOK(freed', w)
      <4>1. FreeSet(w) = FreeSet(b)
        BY <3>4 DEF FreeSet, Written
      <4>2. IsFiniteSet(DOMAIN w)
        BY <3>4, FS_AddElement DEF Ready, FreeOK, Written
      <4> QED BY <3>1, <4>1, <4>2 DEF Ready, FreeOK
    <3>8. \A p \in DOMAIN hist' : hist'[p].offset # a
      BY <3>1, <3>4, <3>5 DEF Ready, HistOK
    <3> QED BY <3>1, <3>2, <3>4, <3>5, <3>6, <3>7, <3>8 DEF Ready
  <2>2. CASE S # {}
    <3>1. i \in Slot /\ len <= c[i].len
      BY <2>2, SlotPicked DEF Suitable
    <3>2. /\ c[i].len \in Nat /\ c[i].len > 0
          /\ c[i].offset \in DOMAIN b /\ b[c[i].offset].free
          /\ b[c[i].offset].len = c[i].len
          /\ c[i].offset \in Nat
      <4>1. c[i].len \in Nat /\ c[i].offset \in Nat
        BY <3>1 DEF Ready, CacheOK
      <4>2. c[i].len > 0
        BY <1>1, <3>1, <4>1
      <4> QED BY <3>1, <4>1, <4>2 DEF Ready, CacheOK
    <3>3. /\ point' = pt
          /\ dbcache' = Take(c, i) /\ freed' = n - 1
          /\ a = c[i].offset
          /\ hist' = HistoryDelete(h, a)
          /\ blob' = WriteBlock(b, a, len, v)
      <4>1. a = c[i].offset
        BY <2>2 DEF InsertData, Ready, VarsOK
      <4> QED BY <2>2, <4>1 DEF InsertData, FreedAfter
    <3>4. PointOK(point') /\ BlobsOK(b, pt.offset) /\ pt.offset \in Nat
      BY <1>2, <3>3 DEF Ready
    <3>5. Written(b, w, a, len, v) /\ BlobsOK(w, pt.offset)
      BY <1>1, <3>1, <3>2, <3>3, <3>4, WriteBlockReuse
    <3>6. a # 0
      BY <3>2, <3>3, <3>4, SizeAssumption DEF BlobsOK
    <3>7. CacheOK(dbcache', w)
      <4>1. /\ dbcache' \in [Slot -> [len : Nat, offset : Nat]]
            /\ dbcache'[i].len = 0
            /\ \A j \in Slot : j # i => dbcache'[j] = c[j]
        BY <3>1, <3>3 DEF Take, Ready, CacheOK
      <4>2. \A o \in DOMAIN b : o # a => o \in DOMAIN w /\ w[o] = b[o]
        BY <3>5 DEF Written
      <4>3. \A j \in Slot : (j # i /\ c[j].len > 0) => c[j].offset # a
        BY <3>1, <3>2, <3>3 DEF Ready, CacheOK
      <4> QED BY <4>1, <4>2, <4>3 DEF Ready, CacheOK
    <3>8. FreeOK(freed', w)
      BY <3>2, <3>3, <3>5, FreeCountReuse DEF Ready
    <3>9. /\ HistOK(Keys \ {key}, hist', b)
          /\ \A p \in DOMAIN hist' : hist'[p].offset # a
      BY <3>2, <3>3, <3>6, HistoryDeleted DEF Ready
    <3> QED BY <3>2, <3>3, <3>4, <3>5, <3>6, <3>7, <3>8, <3>9
  <2> QED BY <2>1, <2>2
<1>6. \A o \in DOMAIN b : o # a => o \in DOMAIN w /\ w[o] = b[o]
  BY <1>5 DEF Written
<1>7. RecsOK(Keys, blob)'
  <2>1. \A k \in Keys \ {key} : rec[k] # 0 => rec[k] \in DOMAIN b /\ rec[k] # a
    BY <1>5 DEF Ready, RecsOK
  <2>2. ASSUME NEW k \in Keys, rec'[k] # 0
        PROVE  /\ rec'[k] \in DOMAIN w
               /\ w[rec'[k]].val = truth'[k]
               /\ ~w[rec'[k]].free
    <3>1. CASE k = key
      BY <1>4, <1>5, <3>1 DEF Written
    <3>2. CASE k # key
      BY <1>4, <1>6, <2>1, <2>2, <3>2 DEF Ready, RecsOK
    <3> QED BY <3>1, <3>2
  <2>3. ASSUME NEW k \in Keys, NEW l \in Keys, k # l, rec'[k] # 0
        PROVE  rec'[k] # rec'[l]
    <3>1. CASE k = key
      BY <1>4, <1>5, <2>1, <2>3, <3>1
    <3>2. CASE l = key
      BY <1>4, <1>5, <2>1, <2>3, <3>2
    <3>3. CASE k # key /\ l # key
      BY <1>4, <2>3, <3>3 DEF Ready, RecsOK
    <3> QED BY <3>1, <3>2, <3>3
  <2> QED BY <2>2, <2>3 DEF RecsOK
<1>8. HistOK(Keys, hist, blob)'
  <2>1. hist' \in Seq(Entry)
    BY <1>5 DEF HistOK
  <2>2. ASSUME NEW p \in DOMAIN hist', hist'[p].offset # 0
        PROVE  /\ hist'[p].offset \in DOMAIN w
               /\ w[hist'[p].offset] = b[hist'[p].offset]
               /\ w[hist'[p].offset].val = hist'[p].val
    BY <1>5, <1>6, <2>2 DEF HistOK
  <2>3. ASSUME NEW p \in DOMAIN hist', NEW q \in DOMAIN hist', p # q,
               hist'[p].offset # 0, hist'[p].offset = hist'[q].offset
        PROVE  ~w[hist'[p].offset].free
    BY <1>5, <2>2, <2>3 DEF HistOK
  <2>4. ASSUME NEW p \in DOMAIN hist', NEW k \in Keys,
               hist'[p].offset # 0, hist'[p].offset = rec'[k]
        PROVE  k \in locked'
    BY <1>4, <1>5, <2>4 DEF HistOK
  <2> QED BY <2>1, <2>2, <2>3, <2>4 DEF HistOK
<1> QED BY <1>3, <1>5, <1>7, <1>8 DEF Inv

(***************************************************************************)
(* Freeing the block of a record that is not locked leaves everything but  *)
(* the record itself sound.                                                *)
(***************************************************************************)
LEMMA FreeSafe ==
    ASSUME Inv, NEW key \in Keys, Stored(key), key \notin locked
    PROVE  LET o == rec[key]
           IN  /\ o \in Nat \ {0}
               /\ \A p \in DOMAIN hist : hist[p].offset # o
               /\ BlobsOK(FreedBlob(o), point.offset)
               /\ CacheOK(FreedCache(dbcache, o), FreedBlob(o))
               /\ HistOK(Keys, hist, FreedBlob(o))
               /\ RecsOK(Keys \ {key}, FreedBlob(o))
               /\ FreeOK(freed + 1, FreedBlob(o))
<1> DEFINE o == rec[key]
           f == FreedBlob(o)
<1>1. o \in DOMAIN blob
  BY DEF Stored
<1>2. o \in Nat \ {0} /\ HDR <= o /\ o + BlobInfo + blob[o].len <= point.offset
  BY <1>1, SizeAssumption DEF Inv, BlobsOK
<1>3. blob[o] \in Block /\ ~blob[o].free /\ blob[o].len \in Nat
  BY <1>1, <1>2 DEF Inv, BlobsOK, RecsOK, Block
<1>4. /\ DOMAIN f = DOMAIN blob
      /\ f[o].free /\ f[o].len = blob[o].len /\ f[o].val = blob[o].val
      /\ f[o] \in Block
      /\ \A p \in DOMAIN blob : p # o => f[p] = blob[p]
  BY <1>1, <1>3 DEF FreedBlob, Block
<1> HIDE DEF f
<1>5. \A p \in DOMAIN hist : hist[p].offset # o
  BY <1>2 DEF Inv, HistOK
<1>6. BlobsOK(f, point.offset)
  <2>1. \A p \in DOMAIN f : f[p] \in Block /\ f[p].len = blob[p].len
    BY <1>4 DEF Inv, BlobsOK
  <2> QED BY <1>4, <2>1 DEF Inv, BlobsOK
<1>7. CacheOK(FreedCache(dbcache, o), f)
  <2>1. \A i \in Slot : dbcache[i].len > 0 => dbcache[i].offset # o
    BY <1>3 DEF Inv, CacheOK
  <2>2. CacheOK(dbcache, f)
    BY <1>4, <2>1 DEF Inv, CacheOK
  <2>3. Local(o) = o
    <3>1. point.offset \in Nat /\ point.offset < PageSize
      BY DEF Inv, PointOK
    <3>2. o < PageSize
      BY <1>2, <1>3, <3>1, SizeAssumption, HeapAssumption
    <3> QED BY <1>2, <3>2, SizeAssumption DEF Local
  <2>4. CacheOK(Keep(dbcache, o, f[o].len), f)
    BY <1>1, <1>2, <1>3, <1>4, <2>1, <2>2, KeepSound
  <2> QED BY <1>4, <2>3, <2>4 DEF FreedCache
<1>8. HistOK(Keys, hist, f)
  BY <1>4, <1>5 DEF Inv, HistOK
<1>9. RecsOK(Keys \ {key}, f)
  <2>1. \A k \in Keys \ {key} : rec[k] # 0 => rec[k] # o
    BY <1>2 DEF Inv, RecsOK
  <2> QED BY <1>4, <2>1 DEF Inv, RecsOK
<1>10. FreeOK(freed + 1, f)
  BY <1>1, <1>3, FreeCountFreed DEF Inv, f
<1> QED BY <1>2, <1>5, <1>6, <1>7, <1>8, <1>9, <1>10 DEF f

\* A new base satisfies the invariant.
LEMMA InitInv == ASSUME MaxPages = 1, Init PROVE Inv
<1>1. DOMAIN blob = {}
  BY DEF Init
<1>2. PointOK(point)
  BY SizeAssumption DEF Init, PointOK
<1>3. BlobsOK(blob, point.offset)
  BY <1>1 DEF BlobsOK
<1>4. CacheOK(dbcache, blob)
  BY DEF Init, EmptyCache, CacheOK
<1>5. HistOK(Keys, hist, blob)
  BY DEF Init, HistOK
<1>6. RecsOK(Keys, blob)
  BY DEF Init, RecsOK
<1>7. FreeOK(freed, blob)
  <2>1. FreeSet(blob) = {}
    BY <1>1 DEF FreeSet
  <2> QED BY <1>1, <2>1, FS_EmptySet DEF Init, FreeOK
<1>8. VarsOK
  BY DEF Init, VarsOK
<1> QED BY <1>2, <1>3, <1>4, <1>5, <1>6, <1>7, <1>8 DEF Inv

-----------------------------------------------------------------------------

(***************************************************************************)
(* Preservation, one lemma per operation that stores something.            *)
(***************************************************************************)

\* engine_insert_data() keeps the invariant.
LEMMA PutSafe ==
    ASSUME MaxPages = 1, Inv, NEW key \in Keys, NEW len \in Lens, NEW v \in Vals,
           Put(key, len, v)
    PROVE  Inv'
<1>1. Ready(key, dbcache, hist, point, blob, freed)
  BY DEF Inv, Ready, PointOK, HistOK, RecsOK
<1> QED BY <1>1, InsertSafe DEF Put

\* engine_update_data() without history keeps the invariant.
LEMMA MergeSafe ==
    ASSUME MaxPages = 1, Inv, NEW key \in Keys, NEW len \in Lens, NEW v \in Vals,
           Merge(key, len, v)
    PROVE  Inv'
<1>1. CASE key \in locked
  BY <1>1 DEF Merge, Inv, PointOK, BlobsOK, CacheOK, HistOK, RecsOK, FreeOK, FreeSet, VarsOK
<1>2. CASE key \notin locked
  <2>1. Stored(key)
    BY DEF Merge
  <2>2. Ready(key, FreedCache(dbcache, rec[key]), hist, point, FreedBlob(rec[key]), freed + 1)
    <3>1. HistOK(Keys \ {key}, hist, FreedBlob(rec[key]))
      BY <1>2, <2>1, FreeSafe DEF HistOK
    <3>2. point \in [offset : Nat, count : Nat] /\ point.count > 0 /\ PointOK(point) /\ VarsOK
      BY DEF Inv, PointOK
    <3>3. /\ BlobsOK(FreedBlob(rec[key]), point.offset)
          /\ CacheOK(FreedCache(dbcache, rec[key]), FreedBlob(rec[key]))
          /\ RecsOK(Keys \ {key}, FreedBlob(rec[key]))
          /\ FreeOK(freed + 1, FreedBlob(rec[key]))
      BY <1>2, <2>1, FreeSafe
    <3> QED BY <3>1, <3>2, <3>3 DEF Ready
  <2> QED BY <1>2, <2>2, InsertSafe DEF Merge
<1> QED BY <1>1, <1>2

\* db_update() keeps the invariant: the block it lists and frees is the one block
\* whose entry the insertion that follows may erase.
LEMMA UpdateSafe ==
    ASSUME MaxPages = 1, Inv, NEW key \in Keys, NEW len \in Lens, NEW v \in Vals,
           Update(key, len, v)
    PROVE  Inv'
<1> DEFINE o == rec[key]
           h == HistoryAdd(hist, key, o, truth[key])
           pt == IF TakesList(hist) THEN Advance(point, HistBytes) ELSE point
           e == Len(hist) + 1
<1>0. Stored(key)
  BY DEF Update
<1>1. o \in DOMAIN blob /\ o \in Nat \ {0} /\ blob[o].val = truth[key] /\ ~blob[o].free
  BY <1>0, SizeAssumption DEF Stored, Inv, BlobsOK, RecsOK
<1>2. /\ h \in Seq(Entry)
      /\ DOMAIN h = DOMAIN hist \cup {e} /\ e \notin DOMAIN hist
      /\ h[e].offset = o /\ h[e].val = truth[key]
      /\ \A p \in DOMAIN hist : h[p] = hist[p]
  <2>1. hist \in Seq(Entry) /\ truth[key] \in Vals \cup {NoKey}
    BY DEF Inv, HistOK, VarsOK
  <2>2. o \in Nat
    BY <1>1
  <2>3. Listed(hist, h, o, truth[key])
    BY <2>1, <2>2, HistoryAdded, Zenon
  <2> HIDE DEF h, o
  <2> QED BY <2>3 DEF Listed
<1> HIDE DEF h
<1>3. /\ pt \in [offset : Nat, count : Nat] /\ pt.count > 0
      /\ pt.count = 1 => PointOK(pt) /\ point.offset <= pt.offset
  <2>1. point \in [offset : Nat, count : Nat] /\ point.count = 1 /\ PointOK(point)
    BY DEF Inv, PointOK
  <2>2. HistBytes \in Nat
    BY HeapAssumption
  <2>3. CASE ~TakesList(hist)
    BY <2>1, <2>3
  <2>4. CASE TakesList(hist)
    <3>1. pt = Advance(point, HistBytes)
      BY <2>4
    <3>2. pt \in [offset : Nat, count : Nat] /\ pt.count > 0
      <4>1. Address(point, HistBytes) \in Nat
        BY <2>1, SizeAssumption DEF Address, AddrOf
      <4>2. CountAfter(point.offset, point.count, HistBytes) \in Nat \ {0}
        BY <2>1 DEF CountAfter
      <4> QED BY <2>2, <3>1, <4>1, <4>2 DEF Advance
    <3>3. ASSUME pt.count = 1
          PROVE  PointOK(pt) /\ point.offset <= pt.offset
      BY <2>1, <2>2, <3>1, <3>3, AdvanceInPage
    <3> QED BY <3>2, <3>3
  <2> QED BY <2>3, <2>4
<1>4. pt.count = 1 => BlobsOK(blob, pt.offset)
  <2>1. \A p \in DOMAIN blob : p + BlobInfo + blob[p].len <= point.offset
                               /\ p + BlobInfo + blob[p].len \in Nat
    BY HeapAssumption DEF Inv, BlobsOK, Block
  <2>2. point.offset \in Nat /\ pt.offset \in Nat
    BY <1>3 DEF Inv, PointOK
  <2> QED BY <1>3, <2>1, <2>2 DEF Inv, BlobsOK
<1> HIDE DEF pt
<1>5. CASE key \in locked
  <2>1. /\ hist' = h /\ point' = pt /\ pt.count <= 1
        /\ failed' = TRUE
        /\ UNCHANGED <<blob, dbcache, rec, freed, truth, locked>>
    BY <1>5 DEF Update, h, pt
  <2>2. pt.count = 1
    BY <1>3, <2>1
  <2>3. HistOK(Keys, h, blob)
    <3>1. \A p \in DOMAIN h : h[p].offset # 0 => /\ h[p].offset \in DOMAIN blob
                                                 /\ blob[h[p].offset].val = h[p].val
      BY <1>1, <1>2 DEF Inv, HistOK
    <3>2. \A p, q \in DOMAIN h : (p # q /\ h[p].offset # 0 /\ h[p].offset = h[q].offset)
                                   => ~blob[h[p].offset].free
      BY <1>1, <1>2 DEF Inv, HistOK
    <3>3. \A p \in DOMAIN h, k \in Keys : (h[p].offset # 0 /\ h[p].offset = rec[k])
                                            => k \in locked
      BY <1>1, <1>2, <1>5 DEF Inv, HistOK, RecsOK
    <3> QED BY <1>2, <3>1, <3>2, <3>3 DEF HistOK
  <2>4. HistOK(Keys, hist, blob)'
    BY <2>1, <2>3 DEF HistOK
  <2>5. PointOK(point') /\ BlobsOK(blob', point'.offset)
    BY <1>3, <1>4, <2>1, <2>2
  <2>6. CacheOK(dbcache, blob)' /\ RecsOK(Keys, blob)' /\ FreeOK(freed, blob)' /\ VarsOK'
    BY <2>1 DEF Inv, CacheOK, RecsOK, FreeOK, FreeSet, VarsOK
  <2> QED BY <2>4, <2>5, <2>6 DEF Inv
<1>6. CASE key \notin locked
  <2> DEFINE f == FreedBlob(o)
  <2>1. /\ DOMAIN f = DOMAIN blob
        /\ f[o].val = blob[o].val
        /\ \A p \in DOMAIN blob : p # o => f[p] = blob[p]
        /\ \A p \in DOMAIN blob : f[p].len = blob[p].len
    BY <1>1 DEF FreedBlob, Inv, BlobsOK, Block
  <2>2. /\ \A p \in DOMAIN hist : hist[p].offset # o
        /\ BlobsOK(f, point.offset)
        /\ CacheOK(FreedCache(dbcache, o), f)
        /\ HistOK(Keys, hist, f)
        /\ RecsOK(Keys \ {key}, f)
        /\ FreeOK(freed + 1, f)
    BY <1>0, <1>6, FreeSafe
  <2> HIDE DEF f
  <2>3. pt.count = 1 => BlobsOK(f, pt.offset)
    BY <1>4, <2>1, <2>2 DEF BlobsOK
  <2>4. HistOK(Keys \ {key}, h, f)
    <3>1. \A p \in DOMAIN h : h[p].offset # 0 => /\ h[p].offset \in DOMAIN f
                                                 /\ f[h[p].offset].val = h[p].val
      BY <1>1, <1>2, <2>1, <2>2 DEF HistOK
    <3>2. \A p, q \in DOMAIN h : (p # q /\ h[p].offset # 0 /\ h[p].offset = h[q].offset)
                                   => ~f[h[p].offset].free
      BY <1>2, <2>2 DEF HistOK
    <3>3. \A p \in DOMAIN h, k \in Keys \ {key} :
            (h[p].offset # 0 /\ h[p].offset = rec[k]) => k \in locked
      BY <1>1, <1>2 DEF Inv, HistOK, RecsOK
    <3> QED BY <1>2, <3>1, <3>2, <3>3 DEF HistOK
  <2>5. Ready(key, FreedCache(dbcache, o), h, pt, f, freed + 1)
    BY <1>3, <2>2, <2>3, <2>4 DEF Ready, Inv
  <2>6. InsertData(key, len, v, FreedCache(dbcache, o), h, pt, f, freed + 1, FALSE)
    BY <1>6 DEF Update, h, pt, f
  <2> QED BY <2>5, <2>6, InsertSafe DEF Update
<1> QED BY <1>5, <1>6

\* engine_purge() keeps the invariant.
LEMMA PurgeSafe ==
    ASSUME Inv, NEW key \in Keys, Purge(key)
    PROVE  Inv'
<1>1. CASE key \in locked
  BY <1>1 DEF Purge, Inv, PointOK, BlobsOK, CacheOK, HistOK, RecsOK, FreeOK, FreeSet, VarsOK
<1>2. CASE key \notin locked
  <2> DEFINE o == rec[key]
  <2>1. /\ Stored(key)
        /\ dbcache' = FreedCache(dbcache, o) /\ blob' = FreedBlob(o)
        /\ freed' = freed + 1
        /\ rec' = [rec EXCEPT ![key] = 0]
        /\ failed' = FALSE
        /\ UNCHANGED <<point, hist, locked, truth>>
    BY <1>2 DEF Purge
  <2>2. rec' \in [Keys -> Nat] /\ rec'[key] = 0 /\ \A k \in Keys \ {key} : rec'[k] = rec[k]
    BY <2>1 DEF Inv, VarsOK
  <2>3. /\ BlobsOK(blob', point.offset)
        /\ CacheOK(dbcache', blob')
        /\ HistOK(Keys, hist, blob')
        /\ RecsOK(Keys \ {key}, blob')
        /\ FreeOK(freed', blob')
    BY <1>2, <2>1, FreeSafe
  <2>4. PointOK(point') /\ BlobsOK(blob', point'.offset)
    BY <2>1, <2>3 DEF Inv
  <2>5. HistOK(Keys, hist, blob)'
    BY <2>1, <2>2, <2>3 DEF HistOK
  <2>6. RecsOK(Keys, blob)'
    BY <2>1, <2>2, <2>3 DEF RecsOK
  <2>7. VarsOK'
    BY <2>1, <2>2 DEF Inv, VarsOK
  <2> QED BY <2>3, <2>4, <2>5, <2>6, <2>7 DEF Inv
<1> QED BY <1>1, <1>2

\* The invariant implies what the runs check.
LEMMA InvImplies == Inv => TypeOK /\ RecordsIntact /\ CacheSound /\ HistoryIntact /\ FreeCount
<1> SUFFICES ASSUME Inv PROVE TypeOK /\ RecordsIntact /\ CacheSound /\ HistoryIntact /\ FreeCount
  OBVIOUS
<1>1. freed \in Nat
  <2>1. FreeSet(blob) \in SUBSET DOMAIN blob /\ IsFiniteSet(DOMAIN blob)
    BY DEF Inv, FreeOK, FreeSet
  <2>2. IsFiniteSet(FreeSet(blob))
    BY <2>1, FS_Subset
  <2> QED BY <2>2, FS_CardinalityType DEF Inv, FreeOK
<1>2. TypeOK
  BY <1>1 DEF Inv, TypeOK, PointOK, BlobsOK, CacheOK, HistOK, VarsOK
<1>3. RecordsIntact
  BY DEF Inv, RecsOK, RecordsIntact, Live
<1>4. CacheSound
  BY DEF Inv, CacheOK, CacheSound
<1>5. HistoryIntact
  BY DEF Inv, HistOK, HistoryIntact
<1>6. FreeCount
  BY DEF Inv, FreeOK, FreeSet, FreeCount
<1> QED BY <1>2, <1>3, <1>4, <1>5, <1>6

(***************************************************************************)
(* In a base of one page, whatever is put, updated, merged, purged and     *)
(* locked, in whatever order and with restarts in between (engine.c,       *)
(* history.c): records keep their contents, the cache of freed blocks      *)
(* offers only free blocks, saved versions stay readable for as long as    *)
(* they are listed, and heap_free_size counts the free blocks.             *)
(***************************************************************************)
THEOREM HeapSafe ==
    ASSUME MaxPages = 1
    PROVE  Spec => [](TypeOK /\ RecordsIntact /\ CacheSound /\ HistoryIntact /\ FreeCount)
<1>1. Init => Inv
  BY InitInv
<1>2. Inv /\ [Next]_vars => Inv'
  <2> SUFFICES ASSUME Inv, [Next]_vars PROVE Inv'
    OBVIOUS
  <2>1. CASE UNCHANGED vars
    BY <2>1 DEF vars, Inv, PointOK, BlobsOK, CacheOK, HistOK, RecsOK, FreeOK, FreeSet, VarsOK
  <2>2. ASSUME NEW k \in Keys, NEW len \in Lens, NEW v \in Vals, Put(k, len, v)
        PROVE  Inv'
    BY <2>2, PutSafe
  <2>3. ASSUME NEW k \in Keys, NEW len \in Lens, NEW v \in Vals, Update(k, len, v)
        PROVE  Inv'
    BY <2>3, UpdateSafe
  <2>4. ASSUME NEW k \in Keys, NEW len \in Lens, NEW v \in Vals, Merge(k, len, v)
        PROVE  Inv'
    BY <2>4, MergeSafe
  <2>5. ASSUME NEW k \in Keys, Purge(k)
        PROVE  Inv'
    BY <2>5, PurgeSafe
  <2>6. ASSUME NEW k \in Keys, Lock(k)
        PROVE  Inv'
    BY <2>6 DEF Lock, Inv, PointOK, BlobsOK, CacheOK, HistOK, RecsOK, FreeOK, FreeSet, VarsOK
  <2>7. CASE Restart
    <3>1. CacheOK(dbcache, blob)'
      <4>1. EmptyCache \in [Slot -> [len : Nat, offset : Nat]]
        BY DEF EmptyCache
      <4>2. \A i \in Slot : EmptyCache[i].len = 0
        BY DEF EmptyCache
      <4> QED BY <2>7, <4>1, <4>2 DEF Restart, CacheOK
    <3>2. PointOK(point') /\ BlobsOK(blob', point'.offset) /\ HistOK(Keys, hist, blob)'
      BY <2>7 DEF Restart, Inv, PointOK, BlobsOK, HistOK
    <3>3. RecsOK(Keys, blob)' /\ FreeOK(freed, blob)' /\ VarsOK'
      BY <2>7 DEF Restart, Inv, RecsOK, FreeOK, FreeSet, VarsOK
    <3> QED BY <3>1, <3>2, <3>3 DEF Inv
  <2> QED BY <2>1, <2>2, <2>3, <2>4, <2>5, <2>6, <2>7 DEF Next
<1> QED BY <1>1, <1>2, InvImplies, PTL DEF Spec


-----------------------------------------------------------------------------

(***************************************************************************)
(* Version numbers.  While the history is a single list, a version that is *)
(* added gets a number above every number of its key: the walk ends at the *)
(* entry that was added last.  (With two lists it ends in the older one,   *)
(* and numbers repeat.)                                                    *)
(***************************************************************************)
Numbered(h) ==
    /\ h \in Seq(Entry)
    /\ Len(h) <= HistListSize
    /\ \A p \in DOMAIN h : h[p].offset # 0 => h[p].quid # NoKey
    /\ \A p, q \in DOMAIN h : (p < q /\ h[p].quid = h[q].quid /\ h[p].quid # NoKey)
                                => h[p].version < h[q].version

\* All entries of a history that is not longer than a list are in one list.
LEMMA SingleList ==
    ASSUME NEW p \in 1 .. HistListSize
    PROVE  ListOf(p) = 0
BY HistListAssumption DEF ListOf

\* Erasing an entry keeps the numbers of the others.
LEMMA NumberedDelete ==
    ASSUME NEW h, Numbered(h), NEW o
    PROVE  Numbered(HistoryDelete(h, o)) /\ Len(HistoryDelete(h, o)) = Len(h)
<1> DEFINE x == FirstSeen(HoldersOf(h, o))
           g == [h EXCEPT ![x] = Erased]
<1>1. h \in Seq(Entry)
  BY DEF Numbered
<1>2. Erased \in Entry /\ Erased.offset = 0 /\ Erased.quid = NoKey
  BY DEF Erased, Entry
<1> HIDE DEF x
<1>3. /\ g \in Seq(Entry) /\ Len(g) = Len(h) /\ DOMAIN g = DOMAIN h
      /\ \A p \in DOMAIN h : g[p] = Erased \/ g[p] = h[p]
  <2>1. CASE x \in DOMAIN h
    BY <1>1, <1>2, <2>1
  <2>2. CASE x \notin DOMAIN h
    <3>1. g = h
      BY <1>1, <2>2
    <3> QED BY <1>1, <3>1
  <2> QED BY <2>1, <2>2
<1> HIDE DEF g
<1>5. Numbered(g)
  BY <1>2, <1>3 DEF Numbered
<1> QED BY <1>3, <1>5 DEF HistoryDelete, g, x

\* history_get_next_version() is above every version of the key.
LEMMA NextVersionAbove ==
    ASSUME NEW h, Numbered(h), NEW key \in Keys, NEW p \in EntriesOf(h, key)
    PROVE  h[p].version < NextVersion(h, key)
<1> DEFINE S == EntriesOf(h, key)
           l == LastSeen(S)
<1>1. h \in Seq(Entry) /\ Len(h) \in Nat /\ DOMAIN h = 1 .. Len(h)
  BY DEF Numbered
<1>2. S \subseteq 1 .. Len(h) /\ S # {} /\ p \in S
  BY <1>1 DEF EntriesOf
<1>3. \A q \in S : ListOf(q) = 0
  <2>1. S \subseteq 1 .. HistListSize
    BY <1>1, <1>2, HistListAssumption DEF Numbered
  <2> QED BY <2>1, SingleList
<1>4. PICK m \in S : \A q \in S : q <= m
  <2>1. S \subseteq 0 .. Len(h)
    BY <1>1, <1>2
  <2> QED BY <1>1, <1>2, <2>1, GreatestExists
<1>5. \A q \in S : m = q \/ Earlier(q, m)
  BY <1>1, <1>2, <1>3, <1>4 DEF Earlier
<1>6. l \in S /\ \A q \in S : l = q \/ Earlier(q, l)
  BY <1>5 DEF LastSeen
<1> HIDE DEF l
<1>7. p = l \/ p < l
  BY <1>2, <1>3, <1>6 DEF Earlier
<1>8. h[p].version \in Nat /\ h[l].version \in Nat
  <2>1. h[p] \in Entry /\ h[l] \in Entry
    BY <1>1, <1>2, <1>6
  <2> QED BY <2>1 DEF Entry
<1>9. h[p].quid = key /\ h[l].quid = key /\ key # NoKey /\ p \in DOMAIN h /\ l \in DOMAIN h
  BY <1>2, <1>6, HeapAssumption DEF EntriesOf
<1>10. h[p].version <= h[l].version
  BY <1>7, <1>8, <1>9 DEF Numbered
<1>11. NextVersion(h, key) = h[l].version + 1
  BY <1>2 DEF NextVersion, l
<1> QED BY <1>8, <1>10, <1>11

\* So an added version keeps the numbers of a key growing.
LEMMA NumberedAdd ==
    ASSUME NEW h, Numbered(h), Len(h) < HistListSize,
           NEW key \in Keys, NEW o \in Nat, NEW val \in Vals \cup {NoKey}
    PROVE  Numbered(HistoryAdd(h, key, o, val))
<1> DEFINE e == [quid |-> key, version |-> NextVersion(h, key),
                 offset |-> o, val |-> val]
           n == Len(h)
           g == HistoryAdd(h, key, o, val)
<1>1. h \in Seq(Entry) /\ n \in Nat /\ DOMAIN h = 1 .. n
  BY DEF Numbered
<1>2. NextVersion(h, key) \in Nat
  BY <1>1, NextVersionType
<1>3. e \in Entry /\ e.quid = key /\ e.version = NextVersion(h, key) /\ key # NoKey
  BY <1>2, HeapAssumption DEF Entry
<1>4. \A p \in DOMAIN h : h[p].quid = key => h[p].version < e.version
  BY <1>3, NextVersionAbove DEF EntriesOf
<1> HIDE DEF e
<1>5. g = Append(h, e)
  BY DEF HistoryAdd, e
<1> HIDE DEF g
<1>6. /\ g \in Seq(Entry) /\ Len(g) = n + 1 /\ DOMAIN g = 1 .. n + 1
      /\ g[n + 1] = e
      /\ \A p \in 1 .. n : g[p] = h[p]
  BY <1>1, <1>3, <1>5
<1>7. \A p \in DOMAIN g : g[p].offset # 0 => g[p].quid # NoKey
  BY <1>1, <1>3, <1>6 DEF Numbered
<1>8. ASSUME NEW p \in DOMAIN g, NEW q \in DOMAIN g, p < q,
             g[p].quid = g[q].quid, g[p].quid # NoKey
      PROVE  g[p].version < g[q].version
  <2>1. p \in 1 .. n /\ g[p] = h[p]
    BY <1>1, <1>6, <1>8
  <2>2. CASE q = n + 1
    BY <1>1, <1>3, <1>4, <1>6, <1>8, <2>1, <2>2
  <2>3. CASE q # n + 1
    <3>1. q \in 1 .. n /\ g[q] = h[q]
      BY <1>1, <1>6, <2>3
    <3> QED BY <1>1, <1>8, <2>1, <3>1 DEF Numbered
  <2> QED BY <2>2, <2>3
<1>9. Len(g) <= HistListSize
  BY <1>1, <1>6, HistListAssumption
<1>10. Numbered(g)
  BY <1>6, <1>7, <1>8, <1>9, Zenon DEF Numbered
<1> QED BY <1>10 DEF g

\* A listed version is the only one of its key with its number.
LEMMA NumberedFound ==
    ASSUME NEW h, Numbered(h), NEW p \in DOMAIN h, h[p].offset # 0
    PROVE  VersionOffset(h, h[p].quid, h[p].version) = h[p].offset
<1> DEFINE S == {q \in EntriesOf(h, h[p].quid) :
                   h[q].version = h[p].version /\ h[q].offset # 0}
<1>1. h \in Seq(Entry) /\ DOMAIN h = 1 .. Len(h) /\ h[p].quid # NoKey
  BY DEF Numbered
<1>2. p \in S
  BY DEF EntriesOf
<1>3. \A q \in S : q = p
  <2> SUFFICES ASSUME NEW q \in S, q # p PROVE FALSE
    OBVIOUS
  <2>1. q \in DOMAIN h /\ h[q].quid = h[p].quid /\ h[q].version = h[p].version
    BY DEF EntriesOf
  <2>2. p \in Nat /\ q \in Nat /\ h[p] \in Entry
    BY <1>1, <2>1
  <2>3. p < q \/ q < p
    BY <2>2
  <2>4. h[p].version \in Nat
    BY <2>2 DEF Entry
  <2> QED BY <1>1, <2>1, <2>3, <2>4 DEF Numbered
<1>4. FirstSeen(S) = p
  <2>1. \E x \in S : \A q \in S : x = q \/ Earlier(x, q)
    BY <1>2, <1>3
  <2>2. FirstSeen(S) \in S
    BY <2>1 DEF FirstSeen
  <2> QED BY <1>3, <2>2
<1> QED BY <1>2, <1>4 DEF VersionOffset


(***************************************************************************)
(* The numbers stay in order under every operation, in a base of any       *)
(* number of pages.                                                        *)
(***************************************************************************)
Versions == Numbered(hist) /\ Len(hist) <= MaxHistory

\* insert_data() erases one entry at most.
LEMMA InsertNumbered ==
    ASSUME NEW key, NEW len, NEW v, NEW c, NEW h, NEW pt, NEW b, NEW n, NEW check,
           InsertData(key, len, v, c, h, pt, b, n, check),
           Numbered(h), Len(h) <= MaxHistory
    PROVE  Versions'
<1>1. PICK o : hist' = h \/ hist' = HistoryDelete(h, o)
  BY DEF InsertData
<1> QED BY <1>1, NumberedDelete DEF Versions

LEMMA VersionsStep ==
    ASSUME MaxHistory <= HistListSize, TypeOK, Versions, [Next]_vars
    PROVE  Versions'
<1>1. CASE UNCHANGED hist
  BY <1>1 DEF Versions
<1>2. ASSUME NEW k \in Keys, NEW len \in Lens, NEW v \in Vals, Put(k, len, v)
      PROVE  Versions'
  BY <1>2, InsertNumbered DEF Put, Versions
<1>3. ASSUME NEW k \in Keys, NEW len \in Lens, NEW v \in Vals, Merge(k, len, v)
      PROVE  Versions'
  BY <1>1, <1>3, InsertNumbered DEF Merge, Versions
<1>4. ASSUME NEW k \in Keys, NEW len \in Lens, NEW v \in Vals, Update(k, len, v)
      PROVE  Versions'
  <2> DEFINE h == HistoryAdd(hist, k, rec[k], truth[k])
  <2>1. hist \in Seq(Entry) /\ Len(hist) \in Nat /\ Len(hist) < MaxHistory
    BY <1>4 DEF Update, TypeOK
  <2>2. rec[k] \in Nat /\ truth[k] \in Vals \cup {NoKey}
    BY DEF TypeOK
  <2>3. Len(hist) < HistListSize
    BY <2>1, HeapAssumption, HistListAssumption
  <2>4. Numbered(h)
    BY <2>2, <2>3, NumberedAdd DEF Versions
  <2>5. Len(h) <= MaxHistory
    BY <2>1, HeapAssumption DEF HistoryAdd
  <2>6. hist' = h \/ \E c, pt, b, n : InsertData(k, len, v, c, h, pt, b, n, FALSE)
    BY <1>4 DEF Update
  <2> HIDE DEF h
  <2> QED BY <2>4, <2>5, <2>6, InsertNumbered DEF Versions
<1> QED BY <1>1, <1>2, <1>3, <1>4 DEF Next, vars, Purge, Lock, Restart

(***************************************************************************)
(* While the history fits one list, db_get_version() returns every version *)
(* that db_get_history() lists, with the contents the record had when the  *)
(* version was saved (history.c): version numbers of a key do not repeat,  *)
(* also after reuse of a block has erased some of its versions.            *)
(***************************************************************************)
THEOREM VersionsFound ==
    ASSUME MaxPages = 1, MaxHistory <= HistListSize
    PROVE  Spec => []VersionsRetrievable
<1>1. Init => Versions
  BY HeapAssumption, HistListAssumption DEF Init, Versions, Numbered
<1>2. TypeOK /\ Versions /\ [Next]_vars => Versions'
  BY VersionsStep
<1>3. Versions /\ HistoryIntact => VersionsRetrievable
  <2> SUFFICES ASSUME Versions, HistoryIntact, NEW p \in DOMAIN hist, hist[p].offset # 0
               PROVE  /\ VersionOffset(hist, hist[p].quid, hist[p].version) = hist[p].offset
                      /\ DbGetVersion(hist[p].quid, hist[p].version) = hist[p].val
    BY DEF VersionsRetrievable
  <2>1. VersionOffset(hist, hist[p].quid, hist[p].version) = hist[p].offset
    BY NumberedFound DEF Versions
  <2> QED BY <2>1 DEF DbGetVersion, HistoryIntact
<1>4. Spec => [](TypeOK /\ HistoryIntact)
  BY HeapSafe, PTL
<1> QED BY <1>1, <1>2, <1>3, <1>4, PTL DEF Spec
=============================================================================
