-------------------------- MODULE TableCacheProofs --------------------------
(***************************************************************************)
(* The cache of tables is coherent for any number of slots, of tables and  *)
(* of callers, as long as all tables are in the first page.                *)
(***************************************************************************)
EXTENDS TableCache, TLAPS

\* The strengthening: a cached table is as on disk even while a caller holds it.
CachedFresh == \A a \in Tables : Cached(a) => cache[SlotOf(a)].table = disk[a]

\* A slot number is the index of a slot.
LEMMA SlotType == \A a \in Nat : SlotOf(a) \in 0 .. CacheSlots - 1
BY TableCacheAssumption DEF SlotOf

\* In the first page, pager_get_fd() leaves an address as it is.
LEMMA LocalFirstPage ==
    ASSUME NEW a \in Nat, a < PageSize
    PROVE  Local(a) = a
BY SizeAssumption DEF Local

\* put_table() of a table that is as on disk keeps the cache as on disk.
LEMMA PutFresh ==
    ASSUME TypeOK, NEW a \in Tables, NEW table \in Contents,
           NEW d \in [Tables -> Contents], d[a] = table,
           \A b \in Tables : b # a => d[b] = disk[b],
           CachedFresh, cache' = Put(a, table), disk' = d
    PROVE  CachedFresh' /\ cache' \in [0 .. CacheSlots - 1 -> [offset : Nat, table : Contents \cup {None}]]
           /\ \A i \in DOMAIN cache' : cache'[i].offset # 0 => SlotOf(cache'[i].offset) = i
<1>1. Tables \subseteq Nat /\ SlotOf(a) \in 0 .. CacheSlots - 1
  BY SlotType, TableCacheAssumption
<1>2. /\ cache'[SlotOf(a)] = [offset |-> a, table |-> table]
      /\ DOMAIN cache' = 0 .. CacheSlots - 1
      /\ \A i \in 0 .. CacheSlots - 1 : i # SlotOf(a) => cache'[i] = cache[i]
  BY <1>1 DEF Put, TypeOK
<1>3. cache' \in [0 .. CacheSlots - 1 -> [offset : Nat, table : Contents \cup {None}]]
  BY <1>1 DEF Put, TypeOK
<1>4. ASSUME NEW i \in DOMAIN cache', cache'[i].offset # 0
      PROVE  SlotOf(cache'[i].offset) = i
  <2>1. CASE i = SlotOf(a)
    <3>1. cache'[i].offset = a
      BY <1>2, <2>1
    <3> QED BY <2>1, <3>1
  <2>2. CASE i # SlotOf(a)
    <3>1. i \in 0 .. CacheSlots - 1 /\ cache'[i] = cache[i]
      BY <1>2, <1>4, <2>2
    <3> QED BY <1>4, <3>1 DEF TypeOK
  <2> QED BY <2>1, <2>2
<1>5. ASSUME NEW b \in Tables, Cached(b)'
      PROVE  cache'[SlotOf(b)].table = disk'[b]
  <2>1. SlotOf(b) \in 0 .. CacheSlots - 1
    BY <1>1, SlotType
  <2>2. CASE SlotOf(b) = SlotOf(a)
    BY <1>2, <1>5, <2>2 DEF Cached
  <2>3. CASE SlotOf(b) # SlotOf(a)
    BY <1>2, <1>5, <2>1, <2>3 DEF Cached, CachedFresh
  <2> QED BY <2>2, <2>3
<1> QED BY <1>3, <1>4, <1>5 DEF CachedFresh

(***************************************************************************)
(* get_table() returns the table as last flushed (engine.c), if no table   *)
(* lies beyond the first page.                                             *)
(***************************************************************************)
THEOREM TableCacheCoherent ==
    ASSUME \A a \in Tables : a < PageSize
    PROVE  Spec => [](TypeOK /\ CacheCoherent)
<1> DEFINE Inv == TypeOK /\ CacheCoherent /\ CachedFresh
<1>0. Tables \subseteq Nat /\ (\A a \in Tables : a # 0) /\ \A a \in Tables : SlotOf(a) \in 0 .. CacheSlots - 1
  <2>1. Tables \subseteq Nat
    BY TableCacheAssumption
  <2>2. \A a \in Tables : Local(a) = a
    BY <2>1, LocalFirstPage
  <2>3. \A a \in Tables : a # 0
    BY <2>1, <2>2, SizeAssumption, TableCacheAssumption
  <2> QED BY <2>1, <2>3, SlotType
<1>1. Init => Inv
  BY <1>0 DEF Init, TypeOK, CacheCoherent, CachedFresh, Fetch, Cached
<1>2. Inv /\ [Next]_vars => Inv'
  <2> SUFFICES ASSUME Inv, [Next]_vars PROVE Inv'
    OBVIOUS
  <2>1. CASE UNCHANGED vars
    BY <2>1 DEF vars, TypeOK, CacheCoherent, CachedFresh, Fetch, Cached, SlotOf
  <2>2. ASSUME NEW a \in Tables, GetTable(a) PROVE Inv'
    <3>1. Fetch(a) \in Contents /\ Fetch(a) = disk[a]
      BY <2>2 DEF GetTable, CacheCoherent, TypeOK
    <3>2. TypeOK'
      BY <1>0, <2>2, <3>1 DEF GetTable, TypeOK
    <3>3. \A b \in Tables : Cached(b)' => Cached(b) /\ cache'[SlotOf(b)] = cache[SlotOf(b)]
      BY <1>0, <2>2 DEF GetTable, Cached, TypeOK
    <3>4. CachedFresh'
      BY <2>2, <3>3 DEF GetTable, CachedFresh
    <3>5. CacheCoherent'
      BY <2>2, <3>1, <3>4, TableCacheAssumption DEF GetTable, CacheCoherent, CachedFresh, Fetch, TypeOK
    <3> QED BY <3>2, <3>4, <3>5
  <2>3. ASSUME NEW a \in Tables, PutTable(a) PROVE Inv'
    <3>1. held[a] \in Contents /\ held[a] = disk[a]
      BY <2>3 DEF PutTable, CacheCoherent, TypeOK
    <3>2. /\ CachedFresh'
          /\ cache' \in [0 .. CacheSlots - 1 -> [offset : Nat, table : Contents \cup {None}]]
          /\ \A i \in DOMAIN cache' : cache'[i].offset # 0 => SlotOf(cache'[i].offset) = i
      BY <2>3, <3>1, PutFresh DEF PutTable, TypeOK
    <3>3. TypeOK'
      BY <2>3, <3>2 DEF PutTable, TypeOK
    <3>4. CacheCoherent'
      BY <2>3, <3>2 DEF PutTable, CacheCoherent, CachedFresh, Fetch, TypeOK
    <3> QED BY <3>2, <3>3, <3>4
  <2>4. ASSUME NEW a \in Tables, FreeTable(a) PROVE Inv'
    <3>1. TypeOK' /\ CachedFresh'
      BY <2>4 DEF FreeTable, TypeOK, CachedFresh, Cached
    <3>2. CacheCoherent'
      BY <2>4, <3>1 DEF FreeTable, TypeOK, CacheCoherent, CachedFresh, Fetch
    <3> QED BY <3>1, <3>2
  <2>5. ASSUME NEW a \in Tables, NEW table \in Contents, FlushTable(a, table) PROVE Inv'
    <3>1. Local(a) = a
      BY <1>0, LocalFirstPage
    <3>2. disk' \in [Tables -> Contents] /\ disk'[a] = table /\ \A b \in Tables : b # a => disk'[b] = disk[b]
      BY <2>5 DEF FlushTable, TypeOK
    <3>3. /\ CachedFresh'
          /\ cache' \in [0 .. CacheSlots - 1 -> [offset : Nat, table : Contents \cup {None}]]
          /\ \A i \in DOMAIN cache' : cache'[i].offset # 0 => SlotOf(cache'[i].offset) = i
      BY <2>5, <3>1, <3>2, PutFresh DEF FlushTable
    <3>4. TypeOK'
      BY <2>5, <3>2, <3>3 DEF FlushTable, TypeOK
    <3>5. CacheCoherent'
      BY <2>5, <3>2, <3>3 DEF FlushTable, CacheCoherent, CachedFresh, Fetch, TypeOK
    <3> QED BY <3>3, <3>4, <3>5
  <2> QED BY <2>1, <2>2, <2>3, <2>4, <2>5 DEF Next
<1> QED BY <1>1, <1>2, PTL DEF Spec
=============================================================================
