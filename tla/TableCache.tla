----------------------------- MODULE TableCache -----------------------------
(***************************************************************************)
(* The cache of tables of the engine (get_table(), put_table() and         *)
(* flush_table() of engine.c).  A table is held by one caller at a time,   *)
(* but a caller that descends the tree holds several; what it holds is out *)
(* of the cache until it puts the table back or flushes it.                *)
(***************************************************************************)
EXTENDS PageArith

CONSTANTS
    Tables,         \* addresses of tables
    Contents,       \* contents of tables
    CacheSlots,     \* CACHE_SLOTS
    None            \* the contents of an empty slot

ASSUME TableCacheAssumption == /\ Tables \subseteq {a \in Nat : Local(a) >= HDR}
                               /\ CacheSlots \in Nat \ {0}
                               /\ None \notin Contents

VARIABLES
    disk,       \* the table at each address
    cache,      \* base->engine->cache
    held        \* the tables in the hands of a caller, None if in nobody's

vars == <<disk, cache, held>>

SlotOf(a) == a % CacheSlots

TypeOK ==
    /\ disk \in [Tables -> Contents]
    /\ cache \in [0 .. CacheSlots - 1 -> [offset : Nat, table : Contents \cup {None}]]
    /\ \A i \in DOMAIN cache : cache[i].offset # 0 => SlotOf(cache[i].offset) = i
    /\ held \in [Tables -> Contents \cup {None}]

Init ==
    /\ disk \in [Tables -> Contents]
    /\ cache = [i \in 0 .. CacheSlots - 1 |-> [offset |-> 0, table |-> None]]
    /\ held = [a \in Tables |-> None]

CachedAny(a) == cache[SlotOf(a)].offset # 0     \* mutant: any table will do

Cached(a) == cache[SlotOf(a)].offset = a

Fetch(a) == IF Cached(a) THEN cache[SlotOf(a)].table ELSE disk[a]

\* get_table(): takes the table out of the cache or reads it.
GetTable(a) ==
    /\ held[a] = None
    /\ held' = [held EXCEPT ![a] = Fetch(a)]
    /\ cache' = IF Cached(a) THEN [cache EXCEPT ![SlotOf(a)].offset = 0] ELSE cache
    /\ UNCHANGED disk

\* put_table(): whatever was in the slot is dropped.
Put(a, table) == [cache EXCEPT ![SlotOf(a)] = [offset |-> a, table |-> table]]

\* A caller that changed nothing puts the table back, or frees its copy.
PutTable(a) ==
    /\ held[a] # None
    /\ cache' = Put(a, held[a])
    /\ held' = [held EXCEPT ![a] = None]
    /\ UNCHANGED disk

FreeTable(a) ==
    /\ held[a] # None
    /\ held' = [held EXCEPT ![a] = None]
    /\ UNCHANGED <<disk, cache>>

\* flush_table(): writes what the caller made of the table.  The address that
\* goes to put_table() is the one pager_get_fd() has reduced to its page.
FlushTable(a, table) ==
    /\ held[a] # None
    /\ disk' = [disk EXCEPT ![a] = table]
    /\ cache' = Put(Local(a), table)
    /\ held' = [held EXCEPT ![a] = None]

Next == \E a \in Tables : \/ GetTable(a)
                          \/ PutTable(a)
                          \/ FreeTable(a)
                          \/ \E table \in Contents : FlushTable(a, table)

Spec == Init /\ [][Next]_vars

(***************************************************************************)
(* get_table() returns the table as it was last flushed, whether it comes  *)
(* from the cache or from disk, and whatever else was read and flushed in  *)
(* between.                                                                *)
(***************************************************************************)
CacheCoherent == \A a \in Tables : IF held[a] = None THEN Fetch(a) = disk[a]
                                                     ELSE held[a] = disk[a]
=============================================================================
