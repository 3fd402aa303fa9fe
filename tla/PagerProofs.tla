----------------------------- MODULE PagerProofs -----------------------------
(***************************************************************************)
(* The pager across starts, synchronisations, shutdowns and deaths of the  *)
(* process, for every page size, list size and set of lengths and any      *)
(* number of pages, starts and crashes.                                    *)
(***************************************************************************)
EXTENDS Pager, PageArithProofs, FiniteSetTheorems, SequenceTheorems

-----------------------------------------------------------------------------
(***************************************************************************)
(* The inductive invariant.  Types holds whatever happens; Sound is about  *)
(* histories in which the process did not die.                             *)
(***************************************************************************)

Contents == UNION {[s -> Vals] : s \in SUBSET Nat}

Image == [status : {"CHECKPOINT", "SUCCESS"}, data : Contents]

Item == [key : Keys, crc : Image \cup {NULL}]

CtlHeader == [offset : Nat, status : ExitStatus]

Chunk == [addr : Nat, len : Lens, val : Vals \cup {NULL}]

N == Len(items)

\* A page's key is its place in the lists, and every listed page has its file.
DiskTypes ==
    /\ ctl = NULL \/ ctl \in CtlHeader
    /\ items \in Seq(Item)
    /\ N <= MaxPages
    /\ \A i \in 1 .. N : items[i].key = i
    /\ file \in [1 .. N -> Image]

\* A page that has a checksum was flushed, and no later write takes that back.
SumsClean == \A i \in 1 .. N : items[i].crc # NULL =>
                /\ items[i].crc.status = "SUCCESS"
                /\ file[i].status = "SUCCESS"

ProcessTypes ==
    /\ pc \in {"down", "init", "run", "alloc", "sync", "close", "dead"}
    /\ pages \in Seq(Keys \cup {NULL})
    /\ \A i \in 1 .. Len(pages) : pages[i] # NULL => pages[i] <= N
    /\ offset \in Nat
    /\ todo \in Nat
    /\ pc \in {"down", "init"} => pages = <<>>
    /\ pc \in {"sync", "close"} => todo > 0
    /\ pc = "alloc" => todo \in Lens /\ pages # <<>>

Types == /\ DiskTypes
         /\ SumsClean
         /\ ProcessTypes
         /\ chunks \subseteq Chunk
         /\ crashes \in Nat

\* The allocation point p is in the last of n pages, past its header, and past
\* everything that was handed out.
PointIn(p, n) == n > 0 /\ PageOf(p) = n - 1 /\ HDR <= Local(p)

Below(p) == \A c \in chunks : c.addr + c.len <= p

\* On disk between two runs of the process: nothing yet, or a complete base.
Stopped ==
    /\ items = <<>> => chunks = {} /\ (ctl # NULL => ctl.status # "SUCCESS")
    /\ items # <<>> => /\ ctl # NULL
                       /\ PointIn(ctl.offset, N)
                       /\ Below(ctl.offset)
                       /\ \A i \in 1 .. N : Accepts(items[i])
                       /\ pc = "init" => offset = ctl.offset

\* While the process runs the array holds the pages in their order, and the
\* pages flushed so far would be taken by a start.
Running ==
    /\ ctl # NULL /\ ctl.status = "CHECKPOINT"
    /\ Len(pages) = N
    /\ pc # "dead" => \A i \in 1 .. N : pages[i] = i
    /\ PointIn(offset, IF pc = "alloc" THEN N - 1 ELSE N)
    /\ Below(offset)
    /\ pc = "alloc" => NeedsPage(offset, todo)
    /\ pc \in {"sync", "close"} => /\ todo <= N + 1
                                   /\ \A i \in 1 .. todo - 1 : Accepts(items[i])
    /\ pc = "dead" => ListSize < N

Apart == \A c, d \in chunks : c.addr = d.addr => c = d

\* What was written to a chunk is in the file of its page.
Held(c) == /\ PageOf(c.addr) < N
           /\ Local(c.addr) \in DOMAIN file[PageOf(c.addr) + 1].data
           /\ file[PageOf(c.addr) + 1].data[Local(c.addr)] = c.val

Kept == \A c \in chunks : c.val # NULL => Held(c)

Sound == /\ pc \in {"down", "init"} => Stopped
         /\ pc \notin {"down", "init"} => Running
         /\ Apart
         /\ Kept

Inv == Types /\ (crashes = 0 => Sound)


-----------------------------------------------------------------------------
(***************************************************************************)
(* What a start finds: the places of the pages that are taken.             *)
(***************************************************************************)

\* The places of the taken entries of a list are 1, 2, ... without a gap, and
\* no two entries share one.
LEMMA Places ==
    ASSUME NEW list, NEW n \in Nat, DOMAIN list = 1 .. n
    PROVE  /\ Cardinality(Taken(list)) \in Nat
           /\ \A i \in Taken(list) : Place(list, i) \in 1 .. Cardinality(Taken(list))
           /\ \A i, j \in Taken(list) : Place(list, i) = Place(list, j) => i = j
           /\ \A m \in 1 .. Cardinality(Taken(list)) : \E i \in Taken(list) : Place(list, i) = m
<1> DEFINE T == Taken(list)
           U(i) == {j \in T : j <= i}
           card == Cardinality(T)
<1>1. T \subseteq 1 .. n /\ IsFiniteSet(T) /\ card \in Nat
  <2>1. T \in SUBSET (1 .. n)
    BY DEF Taken
  <2>2. IsFiniteSet(1 .. n)
    BY FS_Interval
  <2> QED BY <2>1, <2>2, FS_Subset, FS_CardinalityType
<1>2. \A i : Place(list, i) = Cardinality(U(i))
  BY DEF Place
<1> HIDE DEF T
<1>3. \A i : U(i) \in SUBSET T /\ IsFiniteSet(U(i)) /\ Cardinality(U(i)) \in Nat /\ Cardinality(U(i)) <= card
  BY <1>1, FS_Subset, FS_CardinalityType
<1>4. \A i \in T : Cardinality(U(i)) # 0
  <2>1. T \subseteq Int
    BY <1>1
  <2>2. \A i \in T : i \in U(i)
    BY <2>1
  <2> HIDE DEF U
  <2> QED BY <1>3, <2>2, FS_EmptySet
<1>5. ASSUME NEW i \in T, NEW j \in T, i < j
      PROVE  Cardinality(U(i)) # Cardinality(U(j))
  <2>1. U(i) \in SUBSET U(j) /\ U(i) # U(j)
    <3>1. T \subseteq Int /\ i \in Int /\ j \in Int
      BY <1>1
    <3>2. j \in U(j) /\ j \notin U(i)
      BY <1>5, <3>1
    <3>3. \A x \in U(i) : x \in U(j)
      BY <1>5, <3>1
    <3> QED BY <3>2, <3>3
  <2> HIDE DEF U
  <2> QED BY <1>3, <2>1, FS_Subset
<1> HIDE DEF U
<1>6. \A i, j \in T : Cardinality(U(i)) = Cardinality(U(j)) => i = j
  BY <1>1, <1>5
<1>7. \A i \in T : Cardinality(U(i)) \in 1 .. card
  BY <1>1, <1>3, <1>4
<1>8. \A m \in 1 .. card : \E i \in T : Cardinality(U(i)) = m
  <2> DEFINE f == [i \in T |-> Cardinality(U(i))]
  <2>1. f \in Injection(T, 1 .. card)
    BY <1>6, <1>7 DEF Injection, IsInjective
  <2>2. IsFiniteSet(1 .. card) /\ Cardinality(1 .. card) = card
    BY <1>1, FS_Interval
  <2>3. f \in Surjection(T, 1 .. card)
    BY <2>1, <2>2, FS_Injection
  <2> QED BY <2>3 DEF Surjection
<1> QED BY <1>1, <1>2, <1>6, <1>7, <1>8 DEF T

\* A taken page is in the array, and only listed pages are.
LEMMA OpenedIs ==
    ASSUME NEW list, NEW n \in Nat, DOMAIN list = 1 .. n
    PROVE  /\ DOMAIN Opened(list) = 1 .. Cardinality(Taken(list))
           /\ \A i \in Taken(list) : Opened(list)[Place(list, i)] = list[i].key
           /\ \A m \in DOMAIN Opened(list) : \E i \in 1 .. n : Opened(list)[m] = list[i].key
<1>1. ASSUME NEW m \in 1 .. Cardinality(Taken(list))
      PROVE  \E i \in Taken(list) : Place(list, i) = m /\ Opened(list)[m] = list[i].key
  <2>1. \E i \in Taken(list) : Place(list, i) = m
    BY Places
  <2> QED BY <2>1 DEF Opened
<1>2. DOMAIN Opened(list) = 1 .. Cardinality(Taken(list))
  BY DEF Opened
<1>3. Taken(list) \subseteq 1 .. n
  BY DEF Taken
<1>4. ASSUME NEW i \in Taken(list)
      PROVE  Opened(list)[Place(list, i)] = list[i].key
  BY <1>1, <1>4, Places
<1> QED BY <1>1, <1>2, <1>3, <1>4

\* When every page is taken, each keeps the place it has in the list.
LEMMA OpenedAll ==
    ASSUME NEW list, NEW n \in Nat, DOMAIN list = 1 .. n,
           \A i \in 1 .. n : Accepts(list[i])
    PROVE  /\ DOMAIN Opened(list) = 1 .. n
           /\ \A i \in 1 .. n : Opened(list)[i] = list[i].key
<1>1. Taken(list) = 1 .. n
  BY DEF Taken
<1>2. \A i \in 1 .. n : Place(list, i) = i
  <2> SUFFICES ASSUME NEW i \in 1 .. n PROVE Place(list, i) = i
    OBVIOUS
  <2>1. {j \in Taken(list) : j <= i} = 1 .. i
    BY <1>1
  <2>2. Cardinality(1 .. i) = i
    BY FS_Interval
  <2> QED BY <2>1, <2>2 DEF Place
<1>3. Cardinality(Taken(list)) = n
  BY <1>1, FS_Interval
<1> QED BY <1>1, <1>2, <1>3, OpenedIs


\* Where the last list begins.
LEMMA LastList ==
    ASSUME NEW n \in Nat, n > 0
    PROVE  LET b == ((n - 1) \div ListSize) * ListSize
           IN  /\ b \in Nat /\ b < n
               /\ b = 0 \/ ListSize <= b
               /\ n <= ListSize => b = 0
<1> DEFINE q == (n - 1) \div ListSize
<1>0. ListSize \in Nat /\ ListSize > 0 /\ n - 1 \in Nat
  BY PagerAssumption
<1>1. q \in Nat /\ q * ListSize <= n - 1
  BY <1>0
<1>2. n - 1 < ListSize => q = 0
  BY <1>0
<1> HIDE DEF q
<1>3. q * ListSize \in Nat
  BY <1>0, <1>1
<1>4. q = 0 => q * ListSize = 0
  BY <1>0
<1>5. q # 0 => ListSize <= q * ListSize
  BY <1>0, <1>1
<1> QED BY <1>0, <1>1, <1>2, <1>3, <1>4, <1>5 DEF q

\* pager_init() puts listed pages into the array and nothing else; each page that
\* is in its place, and a first list that is lost, can be told from the result.
LEMMA OpenListsIs ==
    ASSUME DiskTypes, items # <<>>
    PROVE  /\ OpenLists \in Seq(Keys \cup {NULL})
           /\ \A i \in 1 .. Len(OpenLists) : OpenLists[i] # NULL => OpenLists[i] <= N
           /\ (\A i \in 1 .. N : Accepts(items[i])) =>
                /\ Len(OpenLists) = N
                /\ \/ \A i \in 1 .. N : OpenLists[i] = i
                   \/ OpenLists[1] = NULL /\ ListSize < N
           /\ N <= ListSize =>
                \A k \in 1 .. N : Accepts(items[k]) => \E i \in 1 .. Len(OpenLists) : OpenLists[i] = k
<1> DEFINE b == ((N - 1) \div ListSize) * ListSize
           first == SubSeq(items, 1, b)
           last == SubSeq(items, b + 1, N)
           none == [i \in 1 .. Len(Opened(first)) |-> NULL]
           S == Keys \cup {NULL}
<1>1. /\ items \in Seq(Item) /\ N \in Nat /\ N > 0 /\ N <= MaxPages
      /\ DOMAIN items = 1 .. N
      /\ \A i \in 1 .. N : items[i] \in Item /\ items[i].key = i /\ i \in Keys
  BY BoundAssumption DEF DiskTypes, N, Keys
<1>2. /\ b \in Nat /\ b < N
      /\ b = 0 \/ ListSize <= b
      /\ N <= ListSize => b = 0
  BY <1>1, LastList
<1>3. OpenLists = none \o Opened(last)
  BY DEF OpenLists, N
<1> HIDE DEF b
<1>4. /\ DOMAIN first = 1 .. b
      /\ \A i \in 1 .. b : first[i] = items[i]
  <2>1. \A i \in 1 .. b : items[i] \in Item
    BY <1>1, <1>2
  <2>2. /\ first \in Seq(Item)
        /\ Len(first) = b
        /\ \A i \in 1 .. b : first[i] = items[1 + i - 1]
    BY <1>2, <2>1, SubSeqProperties
  <2> QED BY <1>2, <2>2
<1>5. /\ DOMAIN last = 1 .. N - b
      /\ \A i \in 1 .. N - b : last[i] = items[b + i]
  <2>1. \A i \in b + 1 .. N : items[i] \in Item
    BY <1>1, <1>2
  <2>2. /\ last \in Seq(Item)
        /\ Len(last) = N - b
        /\ \A i \in 1 .. N - b : last[i] = items[b + 1 + i - 1]
    BY <1>1, <1>2, <2>1, SubSeqProperties
  <2> QED BY <1>1, <1>2, <2>2
<1> HIDE DEF first, last
<1>6. /\ Cardinality(Taken(first)) \in Nat
      /\ DOMAIN Opened(first) = 1 .. Cardinality(Taken(first))
  BY <1>2, <1>4, Places, OpenedIs
<1>7. /\ Opened(last) \in Seq(Keys)
      /\ \A i \in 1 .. Len(Opened(last)) : Opened(last)[i] <= N
      /\ Len(Opened(last)) = Cardinality(Taken(last))
  <2>1. N - b \in Nat
    BY <1>1, <1>2
  <2>2. Cardinality(Taken(last)) \in Nat /\ DOMAIN Opened(last) = 1 .. Cardinality(Taken(last))
    BY <1>5, <2>1, Places, OpenedIs
  <2>3. ASSUME NEW m \in DOMAIN Opened(last)
        PROVE  Opened(last)[m] \in Keys /\ Opened(last)[m] <= N
    <3>1. PICK i \in 1 .. N - b : Opened(last)[m] = last[i].key
      BY <1>5, <2>1, OpenedIs
    <3>2. b + i \in 1 .. N /\ last[i] = items[b + i]
      BY <1>1, <1>2, <1>5
    <3> QED BY <1>1, <3>1, <3>2
  <2>4. Opened(last) \in [1 .. Cardinality(Taken(last)) -> Keys]
    BY <2>2, <2>3 DEF Opened
  <2> QED BY <2>2, <2>3, <2>4
<1>8. /\ Len(Opened(first)) = Cardinality(Taken(first))
      /\ none \in Seq(S) /\ Len(none) = Cardinality(Taken(first))
      /\ \A i \in 1 .. Len(none) : none[i] = NULL
  <2>1. Len(Opened(first)) = Cardinality(Taken(first))
    BY <1>6
  <2>2. none \in [1 .. Cardinality(Taken(first)) -> S]
    BY <2>1
  <2> QED BY <1>6, <2>1, <2>2
<1> HIDE DEF none
<1>9. Opened(last) \in Seq(S)
  BY <1>7
<1>10. /\ OpenLists \in Seq(S)
       /\ Len(OpenLists) = Len(none) + Len(Opened(last))
       /\ \A i \in 1 .. Len(none) + Len(Opened(last)) :
            OpenLists[i] = IF i <= Len(none) THEN none[i] ELSE Opened(last)[i - Len(none)]
  BY <1>3, <1>8, <1>9, ConcatProperties
<1>11. Len(none) \in Nat /\ Len(Opened(last)) \in Nat
  BY <1>8, <1>9
<1>12. ASSUME NEW i \in 1 .. Len(OpenLists), OpenLists[i] # NULL
       PROVE  OpenLists[i] <= N
  <2>1. ~(i <= Len(none))
    BY <1>8, <1>10, <1>11, <1>12
  <2>2. i - Len(none) \in 1 .. Len(Opened(last))
    BY <1>10, <1>11, <2>1
  <2>3. OpenLists[i] = Opened(last)[i - Len(none)]
    BY <1>10, <1>11, <2>1
  <2> QED BY <1>7, <2>2, <2>3
<1>13. ASSUME \A i \in 1 .. N : Accepts(items[i])
       PROVE  /\ Len(OpenLists) = N
              /\ \/ \A i \in 1 .. N : OpenLists[i] = i
                 \/ OpenLists[1] = NULL /\ ListSize < N
  <2>1. DOMAIN Opened(first) = 1 .. b
    <3>1. \A i \in 1 .. b : Accepts(first[i])
      BY <1>1, <1>2, <1>4, <1>13
    <3> QED BY <1>2, <1>4, <3>1, OpenedAll
  <2>2. /\ DOMAIN Opened(last) = 1 .. N - b
        /\ \A i \in 1 .. N - b : Opened(last)[i] = b + i
    <3>1. N - b \in Nat /\ \A i \in 1 .. N - b : b + i \in 1 .. N
      BY <1>1, <1>2
    <3>2. \A i \in 1 .. N - b : Accepts(last[i]) /\ last[i].key = b + i
      BY <1>1, <1>5, <1>13, <3>1
    <3> QED BY <1>5, <3>1, <3>2, OpenedAll
  <2>3. Len(none) = b /\ Len(Opened(last)) = N - b
    BY <1>1, <1>2, <1>7, <1>8, <2>1, <2>2
  <2>4. Len(OpenLists) = N
    BY <1>1, <1>2, <1>10, <2>3
  <2>5. CASE b = 0
    BY <1>1, <1>10, <2>2, <2>3, <2>5
  <2>6. CASE b # 0
    <3>1. 1 <= b /\ 1 \in 1 .. b /\ ListSize < N
      BY <1>1, <1>2, <2>6, PagerAssumption
    <3> QED BY <1>1, <1>2, <1>8, <1>10, <2>3, <2>4, <3>1
  <2> QED BY <2>4, <2>5, <2>6
<1>14. ASSUME N <= ListSize, NEW k \in 1 .. N, Accepts(items[k])
       PROVE  \E i \in 1 .. Len(OpenLists) : OpenLists[i] = k
  <2>1. b = 0
    BY <1>2, <1>14
  <2>2. Taken(first) = {} /\ Cardinality(Taken(first)) = 0
    BY <1>4, <2>1, FS_EmptySet DEF Taken
  <2>3. k \in Taken(last) /\ last[k].key = k
    BY <1>1, <1>5, <1>14, <2>1 DEF Taken
  <2>4. N - b \in Nat
    BY <1>1, <1>2
  <2>5. /\ Place(last, k) \in 1 .. Cardinality(Taken(last))
        /\ Opened(last)[Place(last, k)] = k
    BY <1>5, <2>3, <2>4, Places, OpenedIs
  <2> QED BY <1>7, <1>8, <1>10, <1>11, <2>2, <2>5
<1> QED BY <1>10, <1>12, <1>13, <1>14


-----------------------------------------------------------------------------
(***************************************************************************)
(* What the steps do to the disk, whatever state they start in.            *)
(***************************************************************************)

\* create_page() adds a page at the end of the lists and of the array.
LEMMA CreatePageIs ==
    ASSUME DiskTypes, SumsClean, pages \in Seq(Keys \cup {NULL}), N < MaxPages, CreatePage
    PROVE  /\ items' \in Seq(Item) /\ N' = N + 1
           /\ \A i \in 1 .. N : items'[i] = items[i]
           /\ items'[N + 1] = [key |-> N + 1, crc |-> NULL]
           /\ file' \in [1 .. N + 1 -> Image]
           /\ \A i \in 1 .. N : file'[i] = file[i]
           /\ pages' \in Seq(Keys \cup {NULL}) /\ Len(pages') = Len(pages) + 1
           /\ \A i \in 1 .. Len(pages) : pages'[i] = pages[i]
           /\ pages'[Len(pages) + 1] = N + 1
           /\ \A i \in 1 .. N + 1 : items'[i].key = i
           /\ SumsClean'
<1> DEFINE e == [key |-> N + 1, crc |-> NULL]
           blank == [status |-> "CHECKPOINT", data |-> <<>>]
<1>1. N \in Nat /\ N + 1 \in Keys /\ items \in Seq(Item)
  BY BoundAssumption DEF DiskTypes, N, Keys
<1>2. e \in Item
  BY <1>1 DEF Item
<1>3. blank \in Image
  <2>1. <<>> \in [{} -> Vals]
    OBVIOUS
  <2>2. <<>> \in Contents
    BY <2>1 DEF Contents
  <2> QED BY <2>2 DEF Image
<1>4. /\ items' = Append(items, e)
      /\ pages' = Append(pages, N + 1)
      /\ file' = [k \in DOMAIN file \cup {N + 1} |-> IF k = N + 1 THEN blank ELSE file[k]]
  BY DEF CreatePage, NewKey, N
<1>5. /\ items' \in Seq(Item) /\ N' = N + 1 /\ items'[N + 1] = e
      /\ \A i \in 1 .. N : items'[i] = items[i]
  <2> HIDE DEF e
  <2> QED BY <1>1, <1>2, <1>4, AppendProperties DEF N
<1>6. file' \in [1 .. N + 1 -> Image] /\ \A i \in 1 .. N : file'[i] = file[i]
  <2> HIDE DEF blank
  <2>1. DOMAIN file = 1 .. N /\ \A i \in 1 .. N : file[i] \in Image
    BY DEF DiskTypes
  <2>2. 1 .. N + 1 = 1 .. N \cup {N + 1} /\ N + 1 \notin 1 .. N
    BY <1>1
  <2> QED BY <1>3, <1>4, <2>1, <2>2
<1>7. /\ pages' \in Seq(Keys \cup {NULL}) /\ Len(pages') = Len(pages) + 1
      /\ \A i \in 1 .. Len(pages) : pages'[i] = pages[i]
      /\ pages'[Len(pages) + 1] = N + 1
  BY <1>1, <1>4, AppendProperties
<1>8. \A i \in 1 .. N + 1 : items'[i].key = i /\ (items'[i].crc # NULL => i \in 1 .. N)
  BY <1>1, <1>5 DEF DiskTypes
<1>9. SumsClean'
  BY <1>1, <1>5, <1>6, <1>8 DEF SumsClean
<1> QED BY <1>5, <1>6, <1>7, <1>8, <1>9

\* pager_sync(), pager_close(): a page's file gets its mark, its entry the sum.
LEMMA FlushPageIs ==
    ASSUME DiskTypes, SumsClean, NEW k \in 1 .. N,
           file' = [file EXCEPT ![k].status = "SUCCESS"], SetCrcSum(k, file'[k])
    PROVE  /\ items' \in Seq(Item) /\ N' = N
           /\ file' \in [1 .. N -> Image]
           /\ \A i \in 1 .. N : /\ items'[i].key = i
                                /\ i # k => items'[i] = items[i] /\ file'[i] = file[i]
                                /\ file'[i].data = file[i].data
           /\ items'[k].crc = file'[k] /\ file'[k].status = "SUCCESS"
           /\ SumsClean'
<1>1. /\ N \in Nat /\ items \in Seq(Item) /\ DOMAIN items = 1 .. N
      /\ \A i \in 1 .. N : items[i].key = i /\ items[i] \in Item
      /\ file \in [1 .. N -> Image]
  BY DEF DiskTypes, N
<1>2. /\ file' = [file EXCEPT ![k] = [file[k] EXCEPT !.status = "SUCCESS"]]
      /\ file[k] \in Image
  BY <1>1
<1>3. [file[k] EXCEPT !.status = "SUCCESS"] \in Image
  BY <1>2 DEF Image
<1>4. [file[k] EXCEPT !.status = "SUCCESS"].status = "SUCCESS"
      /\ [file[k] EXCEPT !.status = "SUCCESS"].data = file[k].data
  BY <1>2 DEF Image
<1>5. /\ file' \in [1 .. N -> Image]
      /\ file'[k].status = "SUCCESS"
      /\ \A i \in 1 .. N : file'[i].data = file[i].data
      /\ \A i \in 1 .. N : i # k => file'[i] = file[i]
  BY <1>1, <1>2, <1>3, <1>4
<1>6. items' = [i \in 1 .. N |-> IF i = k THEN [items[i] EXCEPT !.crc = file'[k]] ELSE items[i]]
  BY <1>1 DEF SetCrcSum, N
<1>7. /\ [items[k] EXCEPT !.crc = file'[k]] \in Item
      /\ [items[k] EXCEPT !.crc = file'[k]].key = k
      /\ [items[k] EXCEPT !.crc = file'[k]].crc = file'[k]
  BY <1>1, <1>5 DEF Item
<1>8. /\ items' \in [1 .. N -> Item]
      /\ items'[k].crc = file'[k]
      /\ \A i \in 1 .. N : items'[i].key = i /\ (i # k => items'[i] = items[i])
  BY <1>1, <1>6, <1>7
<1>9. items' \in Seq(Item) /\ N' = N
  BY <1>1, <1>8 DEF N
<1>10. SumsClean'
  <2> SUFFICES ASSUME NEW i \in 1 .. N, items'[i].crc # NULL
               PROVE  items'[i].crc.status = "SUCCESS" /\ file'[i].status = "SUCCESS"
    BY <1>9 DEF SumsClean
  <2>1. CASE i = k
    BY <1>5, <1>8, <2>1
  <2>2. CASE i # k
    BY <1>5, <1>8, <2>2 DEF SumsClean
  <2> QED BY <2>1, <2>2
<1> QED BY <1>5, <1>8, <1>9, <1>10

\* A write changes position a of page k and nothing else.
Wrote(k, a, v) ==
    /\ \A i \in 1 .. N : i # k => file'[i] = file[i]
    /\ DOMAIN file'[k].data = DOMAIN file[k].data \cup {a}
    /\ file'[k].data[a] = v
    /\ \A l \in DOMAIN file[k].data : l # a => file'[k].data[l] = file[k].data[l]

LEMMA WriteIs ==
    ASSUME DiskTypes, SumsClean, NEW k \in 1 .. N, NEW a \in Nat, NEW v \in Vals,
           file' = [file EXCEPT ![k].data = [l \in DOMAIN @ \cup {a} |->
                                               IF l = a THEN v ELSE @[l]]],
           items' = items
    PROVE  /\ file' \in [1 .. N -> Image]
           /\ Wrote(k, a, v)
           /\ SumsClean'
<1> DEFINE d == [l \in DOMAIN file[k].data \cup {a} |-> IF l = a THEN v ELSE file[k].data[l]]
<1>1. file \in [1 .. N -> Image] /\ file[k] \in Image /\ file[k].data \in Contents
  BY DEF DiskTypes, Image
<1>2. d \in Contents
  <2>1. PICK s \in SUBSET Nat : file[k].data \in [s -> Vals]
    BY <1>1 DEF Contents
  <2>2. d \in [s \cup {a} -> Vals]
    BY <2>1
  <2>3. s \cup {a} \in SUBSET Nat
    BY <2>1
  <2> QED BY <2>2, <2>3 DEF Contents
<1>3. file' = [file EXCEPT ![k] = [file[k] EXCEPT !.data = d]]
  BY <1>1
<1>4. /\ DOMAIN d = DOMAIN file[k].data \cup {a}
      /\ d[a] = v
      /\ \A l \in DOMAIN file[k].data : l # a => d[l] = file[k].data[l]
  OBVIOUS
<1> HIDE DEF d
<1>5. /\ [file[k] EXCEPT !.data = d] \in Image
      /\ [file[k] EXCEPT !.data = d].data = d
      /\ [file[k] EXCEPT !.data = d].status = file[k].status
  BY <1>1, <1>2 DEF Image
<1>6. /\ file' \in [1 .. N -> Image]
      /\ file'[k].data = d
      /\ \A i \in 1 .. N : file'[i].status = file[i].status
      /\ \A i \in 1 .. N : i # k => file'[i] = file[i]
  BY <1>1, <1>3, <1>5
<1>7. SumsClean'
  BY <1>6 DEF SumsClean, N
<1> QED BY <1>4, <1>6, <1>7 DEF Wrote


-----------------------------------------------------------------------------
(***************************************************************************)
(* Types is inductive, one step per action.                                *)
(***************************************************************************)

\* The disk and the chunks keep their types in a step that leaves them alone.
LEMMA DiskUnchanged ==
    ASSUME Types, UNCHANGED <<items, file, chunks, crashes>>
    PROVE  /\ (ctl' = NULL \/ ctl' \in CtlHeader) => DiskTypes'
           /\ SumsClean' /\ N' = N /\ chunks' \subseteq Chunk /\ crashes' \in Nat
BY DEF Types, DiskTypes, SumsClean, N

LEMMA HeaderType == ASSUME NEW p \in Nat PROVE Header(p) \in CtlHeader
BY DEF Header, CtlHeader, ExitStatus

LEMMA TypesPagerInit == ASSUME Types, PagerInit PROVE Types'
<1>1. pages = <<>> /\ offset \in Nat /\ N \in Nat /\ HDR \in Nat /\ todo \in Nat
  BY SizeAssumption DEF Types, ProcessTypes, DiskTypes, N, PagerInit
<1>2. /\ ctl' = Header(offset')
      /\ pc' \in {"run", "dead"}
      /\ UNCHANGED <<todo, chunks, crashes>>
  BY DEF PagerInit
<1>3. CASE items = <<>>
  <2>1. CreatePage /\ offset' = HDR /\ N = 0 /\ N < MaxPages
    BY <1>3, BoundAssumption DEF PagerInit, N
  <2>2. /\ items' \in Seq(Item) /\ N' = N + 1
        /\ file' \in [1 .. N + 1 -> Image]
        /\ \A i \in 1 .. N + 1 : items'[i].key = i
        /\ SumsClean'
        /\ pages' \in Seq(Keys \cup {NULL}) /\ Len(pages') = 1 /\ pages'[1] = N + 1
    <3>1. pages \in Seq(Keys \cup {NULL}) /\ Len(pages) = 0
      BY <1>1
    <3> QED BY <2>1, <3>1, CreatePageIs DEF Types
  <2>3. DiskTypes'
    BY <1>1, <1>2, <2>1, <2>2, HeaderType, BoundAssumption DEF DiskTypes
  <2>4. ProcessTypes'
    BY <1>1, <1>2, <2>1, <2>2 DEF ProcessTypes
  <2> QED BY <1>2, <2>2, <2>3, <2>4 DEF Types
<1>4. CASE items # <<>>
  <2>1. pages' = OpenLists /\ UNCHANGED <<offset, items, file>>
    BY <1>4 DEF PagerInit
  <2>2. /\ DiskTypes' /\ SumsClean' /\ N' = N
        /\ chunks' \subseteq Chunk /\ crashes' \in Nat
    BY <1>1, <1>2, <2>1, DiskUnchanged, HeaderType
  <2>3. /\ pages' \in Seq(Keys \cup {NULL})
        /\ \A i \in 1 .. Len(pages') : pages'[i] # NULL => pages'[i] <= N'
    BY <1>4, <2>1, <2>2, OpenListsIs DEF Types
  <2>4. ProcessTypes'
    BY <1>1, <1>2, <2>1, <2>3 DEF ProcessTypes
  <2> QED BY <2>2, <2>4 DEF Types
<1> QED BY <1>3, <1>4

LEMMA TypesAllocPage ==
    ASSUME Types, NEW len \in Lens, AllocPage(len)
    PROVE  Types'
<1>1. /\ pages \in Seq(Keys \cup {NULL}) /\ Len(pages) \in Nat /\ N \in Nat /\ offset \in Nat
      /\ \A i \in 1 .. Len(pages) : pages[i] # NULL => pages[i] <= N
      /\ \A i \in 1 .. Len(pages) : pages[i] \in Keys \cup {NULL}
  BY DEF Types, ProcessTypes, DiskTypes, N
<1>2. /\ N < MaxPages /\ CreatePage
      /\ ctl' = Header(offset) \/ ctl' = ctl
      /\ todo' = len /\ pc' = "alloc"
      /\ UNCHANGED <<offset, chunks, opens, crashes>>
  BY DEF AllocPage, N
<1>3. /\ items' \in Seq(Item) /\ N' = N + 1
      /\ file' \in [1 .. N + 1 -> Image]
      /\ \A i \in 1 .. N + 1 : items'[i].key = i
      /\ SumsClean'
      /\ pages' \in Seq(Keys \cup {NULL}) /\ Len(pages') = Len(pages) + 1
      /\ \A i \in 1 .. Len(pages) : pages'[i] = pages[i]
      /\ pages'[Len(pages) + 1] = N + 1
  BY <1>1, <1>2, CreatePageIs DEF Types
<1>4. DiskTypes'
  BY <1>1, <1>2, <1>3, HeaderType, BoundAssumption DEF Types, DiskTypes
<1>5. \A i \in 1 .. Len(pages') : pages'[i] # NULL => pages'[i] <= N'
  <2> SUFFICES ASSUME NEW i \in 1 .. Len(pages'), pages'[i] # NULL PROVE pages'[i] <= N'
    OBVIOUS
  <2>1. CASE i = Len(pages) + 1
    BY <1>1, <1>3, <2>1
  <2>2. CASE i # Len(pages) + 1
    <3>1. i \in 1 .. Len(pages)
      BY <1>1, <1>3, <2>2
    <3>2. pages[i] \in Nat
      BY <1>1, <1>3, <3>1 DEF Keys
    <3> QED BY <1>1, <1>3, <3>1, <3>2
  <2> QED BY <2>1, <2>2
<1>6. ProcessTypes'
  <2>1. todo' \in Nat /\ todo' \in Lens
    BY <1>2, LensAssumption
  <2>2. pages' # <<>>
    BY <1>1, <1>3
  <2> QED BY <1>1, <1>2, <1>3, <1>5, <2>1, <2>2 DEF ProcessTypes
<1> QED BY <1>2, <1>3, <1>4, <1>6 DEF Types

LEMMA TypesWrite ==
    ASSUME Types, NEW c \in chunks, NEW v \in Vals, Write(c, v)
    PROVE  Types'
<1>1. /\ pc = "run"
      /\ UNCHANGED <<pages, offset, todo, ctl, items, opens, crashes>>
  BY DEF Write
<1>2. CASE ~Resolves(c.addr)
  <2>1. pc' = "dead" /\ UNCHANGED <<file, chunks>>
    BY <1>2 DEF Write
  <2> QED BY <1>1, <2>1 DEF Types, DiskTypes, SumsClean, ProcessTypes, N
<1>3. CASE Resolves(c.addr)
  <2> DEFINE k == GetFd(c.addr)
             a == Local(c.addr)
  <2>1. /\ file' = [file EXCEPT ![k].data = [l \in DOMAIN @ \cup {a} |->
                                               IF l = a THEN v ELSE @[l]]]
        /\ chunks' = (chunks \ {c}) \cup {[c EXCEPT !.val = v]}
        /\ pc' = pc
    BY <1>3 DEF Write
  <2>2. c \in Chunk /\ c.addr \in Nat /\ PageOf(c.addr) \in Nat /\ a \in Nat
    BY Decompose DEF Types, Chunk
  <2>3. k \in 1 .. N
    <3>1. PageOf(c.addr) + 1 \in 1 .. Len(pages) /\ k = pages[PageOf(c.addr) + 1] /\ k # NULL
      BY <1>3, <2>2 DEF Resolves, GetFd, Types, ProcessTypes
    <3>2. k \in Keys /\ k <= N
      BY <3>1 DEF Types, ProcessTypes
    <3>3. N \in Nat
      BY DEF Types, DiskTypes, N
    <3> QED BY <3>2, <3>3 DEF Keys
  <2> HIDE DEF k, a
  <2>4. file' \in [1 .. N -> Image] /\ SumsClean'
    BY <1>1, <2>1, <2>2, <2>3, WriteIs DEF Types
  <2>5. DiskTypes' /\ N' = N
    BY <1>1, <2>4 DEF Types, DiskTypes, N
  <2>6. chunks' \subseteq Chunk
    <3>1. [c EXCEPT !.val = v] \in Chunk
      BY <2>2 DEF Chunk
    <3> QED BY <2>1, <3>1 DEF Types
  <2> QED BY <1>1, <2>1, <2>4, <2>5, <2>6 DEF Types, ProcessTypes
<1> QED BY <1>2, <1>3

LEMMA TypesFlushPage == ASSUME Types, FlushPage PROVE Types'
<1>1. /\ pc \in {"sync", "close"} /\ todo <= Len(pages) /\ todo \in Nat /\ todo > 0
      /\ UNCHANGED <<pages, offset, ctl, chunks, opens, crashes>>
  BY DEF FlushPage, Types, ProcessTypes
<1>2. CASE pages[todo] = NULL
  <2>1. pc' = "dead" /\ UNCHANGED <<file, items, todo>>
    BY <1>2 DEF FlushPage
  <2> QED BY <1>1, <2>1 DEF Types, DiskTypes, SumsClean, ProcessTypes, N
<1>3. CASE pages[todo] # NULL
  <2> DEFINE k == pages[todo]
  <2>1. /\ file' = [file EXCEPT ![k].status = "SUCCESS"]
        /\ SetCrcSum(k, file'[k])
        /\ todo' = todo + 1 /\ pc' = pc
    BY <1>3 DEF FlushPage
  <2>2. k \in 1 .. N
    <3>1. pages \in Seq(Keys \cup {NULL}) /\ todo \in 1 .. Len(pages)
      BY <1>1 DEF Types, ProcessTypes
    <3>2. k \in Keys /\ k <= N
      BY <1>3, <3>1 DEF Types, ProcessTypes
    <3>3. N \in Nat
      BY DEF Types, DiskTypes, N
    <3> QED BY <3>2, <3>3 DEF Keys
  <2> HIDE DEF k
  <2>3. /\ items' \in Seq(Item) /\ N' = N
        /\ file' \in [1 .. N -> Image]
        /\ \A i \in 1 .. N : items'[i].key = i
        /\ SumsClean'
    BY <2>1, <2>2, FlushPageIs DEF Types
  <2>4. DiskTypes'
    BY <1>1, <2>3 DEF Types, DiskTypes
  <2>5. ProcessTypes'
    BY <1>1, <2>1, <2>3 DEF Types, ProcessTypes
  <2> QED BY <1>1, <2>3, <2>4, <2>5 DEF Types
<1> QED BY <1>2, <1>3


LEMMA TypesNext == ASSUME Types, [Next]_vars PROVE Types'
<1>1. CASE UNCHANGED vars
  BY <1>1 DEF vars, Types, DiskTypes, SumsClean, ProcessTypes, N
<1>2. CASE BaseInit
  <2>1. /\ pc = "down" /\ pc' = "init"
        /\ UNCHANGED <<pages, todo, items, file, chunks, crashes>>
    BY <1>2 DEF BaseInit
  <2>2. ctl' \in CtlHeader /\ offset' \in Nat
    BY <1>2 DEF BaseInit, Types, DiskTypes, CtlHeader, ExitStatus
  <2>3. /\ DiskTypes' /\ SumsClean' /\ N' = N
        /\ chunks' \subseteq Chunk /\ crashes' \in Nat
    BY <2>1, <2>2, DiskUnchanged
  <2> QED BY <2>1, <2>2, <2>3 DEF Types, ProcessTypes
<1>3. CASE PagerInit
  BY <1>3, TypesPagerInit
<1>4. ASSUME NEW len \in Lens, Alloc(len) PROVE Types'
  <2>1. /\ pc = "run" /\ offset' = offset + len
        /\ chunks' = chunks \cup {[addr |-> offset, len |-> len, val |-> NULL]}
        /\ UNCHANGED <<pc, pages, todo, ctl, items, file, crashes>>
    BY <1>4 DEF Alloc, HandOut, disk
  <2>2. offset \in Nat /\ len \in Nat
    BY LensAssumption DEF Types, ProcessTypes
  <2>3. chunks' \subseteq Chunk
    BY <2>1, <2>2 DEF Types, Chunk
  <2> QED BY <2>1, <2>2, <2>3 DEF Types, DiskTypes, SumsClean, ProcessTypes, N
<1>5. ASSUME NEW len \in Lens, AllocPage(len) PROVE Types'
  BY <1>5, TypesAllocPage
<1>6. CASE AllocSync
  <2> DEFINE a == (Len(pages) - 1) * PageSize + HDR
  <2>1. /\ pc = "alloc" /\ pc' = "run" /\ todo' = 0
        /\ offset' = a + todo
        /\ chunks' = chunks \cup {[addr |-> a, len |-> todo, val |-> NULL]}
        /\ ctl' = Header(offset')
        /\ UNCHANGED <<pages, items, file, crashes>>
    BY <1>6 DEF AllocSync, HandOut
  <2>2. a \in Nat /\ todo \in Nat /\ todo \in Lens
    <3>1. Len(pages) \in Nat /\ Len(pages) # 0
      BY <2>1 DEF Types, ProcessTypes
    <3>2. Len(pages) - 1 \in Nat /\ PageSize \in Nat /\ HDR \in Nat
      BY <3>1, SizeAssumption
    <3>3. (Len(pages) - 1) * PageSize \in Nat
      BY <3>2
    <3> QED BY <2>1, <3>2, <3>3 DEF Types, ProcessTypes
  <2> HIDE DEF a
  <2>3. offset' \in Nat /\ ctl' \in CtlHeader
    BY <2>1, <2>2, HeaderType
  <2>4. chunks' \subseteq Chunk
    BY <2>1, <2>2 DEF Types, Chunk
  <2> QED BY <2>1, <2>3, <2>4 DEF Types, DiskTypes, SumsClean, ProcessTypes, N
<1>7. ASSUME NEW c \in chunks, NEW v \in Vals, Write(c, v) PROVE Types'
  BY <1>7, TypesWrite
<1>8. ASSUME NEW how \in {"sync", "close"}, Flush(how) PROVE Types'
  BY <1>8 DEF Flush, disk, Types, DiskTypes, SumsClean, ProcessTypes, N
<1>9. CASE FlushPage
  BY <1>9, TypesFlushPage
<1>10. CASE SyncBase
  <2>1. ctl' \in CtlHeader
    BY <1>10, HeaderType DEF SyncBase, Types, ProcessTypes
  <2>2. /\ DiskTypes' /\ SumsClean' /\ N' = N
        /\ chunks' \subseteq Chunk /\ crashes' \in Nat
    BY <1>10, <2>1, DiskUnchanged DEF SyncBase
  <2> QED BY <1>10, <2>2 DEF SyncBase, Types, ProcessTypes
<1>11. CASE CloseBase
  <2>1. ctl' \in CtlHeader
    BY <1>11 DEF CloseBase, CtlHeader, ExitStatus, Types, ProcessTypes
  <2>2. /\ DiskTypes' /\ SumsClean' /\ N' = N
        /\ chunks' \subseteq Chunk /\ crashes' \in Nat
    BY <1>11, <2>1, DiskUnchanged DEF CloseBase
  <2> QED BY <1>11, <2>2 DEF CloseBase, Forget, Types, ProcessTypes
<1>12. CASE Crash
  BY <1>12 DEF Crash, Forget, disk, Types, DiskTypes, SumsClean, ProcessTypes, N
<1> QED BY <1>1, <1>2, <1>3, <1>4, <1>5, <1>6, <1>7, <1>8, <1>9, <1>10, <1>11, <1>12 DEF Next

LEMMA TypesInit == Init => Types
<1> SUFFICES ASSUME Init PROVE Types
  OBVIOUS
<1>1. Len(items) = 0 /\ items \in Seq(Item) /\ file \in [1 .. 0 -> Image]
  BY DEF Init
<1> QED BY <1>1, BoundAssumption
        DEF Init, Types, DiskTypes, SumsClean, ProcessTypes, N

-----------------------------------------------------------------------------

(***************************************************************************)
(* A start after any number of crashes takes every page that was           *)
(* synchronised and not written since (pager.c, pager_sync() and           *)
(* open_page()), as long as the pages fit one list of the control file: a  *)
(* checksum is only ever taken of a page that carries the mark.            *)
(***************************************************************************)
THEOREM SyncSurvives ==
    ASSUME MaxPages <= ListSize
    PROVE  Spec => SyncedPagesSurvive
<1>1. ASSUME Types, PagerInit, NEW k \in DOMAIN file, Untouched(k)
      PROVE  \E i \in DOMAIN pages' : pages'[i] = k
  <2>1. /\ k \in 1 .. N /\ N \in Nat /\ N <= ListSize
        /\ file \in [1 .. N -> Image] /\ items \in Seq(Item)
        /\ \A i \in 1 .. N : items[i].key = i
    BY <1>1, BoundAssumption, PagerAssumption DEF Types, DiskTypes, N
  <2>2. items[k].crc # NULL /\ items[k].crc.data = file[k].data
    BY <1>1, <2>1 DEF Untouched, N
  <2>3. items[k].crc \in Image /\ file[k] \in Image
    <3>1. items[k] \in Item
      BY <2>1 DEF N
    <3> QED BY <2>1, <2>2, <3>1 DEF Item
  <2>4. items[k].crc.status = "SUCCESS" /\ file[k].status = "SUCCESS"
    BY <1>1, <2>1, <2>2 DEF Types, SumsClean
  <2>5. items[k].crc = file[k]
    BY <2>2, <2>3, <2>4 DEF Image
  <2>6. Accepts(items[k])
    BY <2>1, <2>4, <2>5 DEF Accepts
  <2>7. items # <<>>
    BY <2>1 DEF N
  <2>8. pages' = OpenLists
    BY <1>1, <2>7 DEF PagerInit
  <2>9. \E i \in 1 .. Len(OpenLists) : OpenLists[i] = k
    BY <1>1, <2>1, <2>6, <2>7, OpenListsIs DEF Types
  <2>10. OpenLists \in Seq(Keys \cup {NULL})
    BY <1>1, <2>7, OpenListsIs DEF Types
  <2> QED BY <2>8, <2>9, <2>10
<1>2. Types /\ [Next]_vars =>
        [PagerInit => \A k \in DOMAIN file :
                        Untouched(k) => \E i \in DOMAIN pages' : pages'[i] = k]_vars
  BY <1>1
<1>3. Types /\ [Next]_vars => Types'
  BY TypesNext
<1> QED BY <1>2, <1>3, TypesInit, PTL DEF Spec, SyncedPagesSurvive


-----------------------------------------------------------------------------
(***************************************************************************)
(* Sound is inductive as long as the process does not die.                 *)
(***************************************************************************)

LEMMA HeaderIs ==
    ASSUME NEW p \in Nat
    PROVE  Header(p) # NULL /\ Header(p).status = "CHECKPOINT"
<1>1. Header(p) \in [offset : Nat, status : ExitStatus]
  BY DEF Header, ExitStatus
<1> QED BY <1>1, PagerAssumption DEF Header

\* While the process runs, the pages are open in their order.
LEMMA RunningFacts ==
    ASSUME Types, Sound, pc \notin {"down", "init"}
    PROVE  /\ N \in Nat /\ N > 0 /\ items # <<>> /\ offset \in Nat
           /\ pages \in Seq(Keys \cup {NULL}) /\ Len(pages) = N
           /\ \A c \in chunks : /\ c.addr \in Nat /\ c.len \in Nat /\ c.len > 0
                                /\ c.addr + c.len <= offset /\ c.addr < offset
                                /\ PageOf(c.addr) \in Nat /\ PageOf(c.addr) < N
                                /\ Local(c.addr) \in Nat
                                /\ c.addr = PageOf(c.addr) * PageSize + Local(c.addr)
           /\ NULL \notin 1 .. N
<1>1. /\ N \in Nat /\ offset \in Nat /\ N <= MaxPages
      /\ pages \in Seq(Keys \cup {NULL}) /\ Len(pages) = N
  BY DEF Types, DiskTypes, ProcessTypes, Sound, Running, N
<1>2. N > 0 /\ PageOf(offset) < N
  <2>1. PointIn(offset, IF pc = "alloc" THEN N - 1 ELSE N)
    BY DEF Sound, Running
  <2>2. PageOf(offset) \in Nat
    BY <1>1, Decompose
  <2>3. CASE pc = "alloc"
    BY <1>1, <2>1, <2>2, <2>3 DEF PointIn
  <2>4. CASE pc # "alloc"
    BY <1>1, <2>1, <2>2, <2>4 DEF PointIn
  <2> QED BY <2>3, <2>4
<1>3. items # <<>>
  BY <1>2 DEF N
<1>4. ASSUME NEW c \in chunks
      PROVE  /\ c.addr \in Nat /\ c.len \in Nat /\ c.len > 0
             /\ c.addr + c.len <= offset /\ c.addr < offset
             /\ PageOf(c.addr) \in Nat /\ PageOf(c.addr) < N
             /\ Local(c.addr) \in Nat
             /\ c.addr = PageOf(c.addr) * PageSize + Local(c.addr)
  <2>1. c.addr \in Nat /\ c.len \in Nat /\ c.len > 0
    <3>1. c.addr \in Nat /\ c.len \in Lens
      BY DEF Types, Chunk
    <3>2. c.len \in Nat \ {0}
      BY <3>1, LensAssumption
    <3> QED BY <3>1, <3>2
  <2>2. c.addr + c.len <= offset /\ c.addr < offset
    BY <1>1, <2>1 DEF Sound, Running, Below
  <2>3. /\ PageOf(c.addr) \in Nat /\ Local(c.addr) \in Nat
        /\ c.addr = PageOf(c.addr) * PageSize + Local(c.addr)
        /\ PageOf(offset) \in Nat
    BY <1>1, <2>1, Decompose
  <2>4. PageOf(c.addr) <= PageOf(offset)
    BY <1>1, <2>1, <2>2, PageMonotone
  <2>5. PageOf(c.addr) < N
    BY <1>1, <1>2, <2>3, <2>4
  <2> QED BY <2>1, <2>2, <2>3, <2>5
<1>5. NULL \notin 1 .. N
  <2>1. 1 .. N \subseteq Keys
    BY <1>1, BoundAssumption DEF Keys
  <2> QED BY <2>1, PagerAssumption
<1> QED BY <1>1, <1>2, <1>3, <1>4, <1>5

LEMMA SoundPagerInit ==
    ASSUME Types, Sound, PagerInit
    PROVE  Sound'
<1>1. /\ pc = "init" /\ Stopped /\ Apart /\ Kept
      /\ pages = <<>> /\ offset \in Nat /\ N \in Nat /\ HDR \in Nat
      /\ DiskTypes /\ SumsClean
  BY SizeAssumption DEF PagerInit, Sound, Types, ProcessTypes, DiskTypes, N
<1>2. /\ ctl' = Header(offset')
      /\ pc' = IF pages' # <<>> /\ pages'[1] # NULL THEN "run" ELSE "dead"
      /\ UNCHANGED <<todo, chunks, crashes>>
  BY DEF PagerInit
<1>3. CASE items = <<>>
  <2>1. CreatePage /\ offset' = HDR /\ N = 0 /\ N < MaxPages /\ chunks = {}
    BY <1>1, <1>3, BoundAssumption DEF PagerInit, Stopped, N
  <2>2. pages \in Seq(Keys \cup {NULL}) /\ Len(pages) = 0
    BY <1>1
  <2>3. N' = 1 /\ Len(pages') = 1 /\ pages'[1] = 1
    BY <1>1, <2>1, <2>2, CreatePageIs
  <2>4. 1 # NULL
    BY PagerAssumption, BoundAssumption DEF Keys
  <2>5. pc' = "run"
    BY <1>2, <2>3, <2>4
  <2>6. PageOf(HDR) = 0 /\ Local(HDR) = HDR
    BY SizeAssumption DEF PageOf, Local
  <2>7. ctl' # NULL /\ ctl'.status = "CHECKPOINT"
    BY <1>1, <1>2, <2>1, HeaderIs
  <2>8. Running'
    BY <1>1, <1>2, <2>1, <2>3, <2>5, <2>6, <2>7 DEF Running, PointIn, Below
  <2> QED BY <1>2, <2>1, <2>5, <2>8 DEF Sound, Apart, Kept
<1>4. CASE items # <<>>
  <2>1. pages' = OpenLists /\ UNCHANGED <<offset, items, file>>
    BY <1>4 DEF PagerInit
  <2>2. /\ offset = ctl.offset /\ PointIn(offset, N) /\ Below(offset)
        /\ \A i \in 1 .. N : Accepts(items[i])
    BY <1>1, <1>4 DEF Stopped
  <2>3. /\ Len(pages') = N
        /\ \/ \A i \in 1 .. N : pages'[i] = i
           \/ pages'[1] = NULL /\ ListSize < N
        /\ pages' \in Seq(Keys \cup {NULL})
    BY <1>1, <1>4, <2>1, <2>2, OpenListsIs
  <2>4. N > 0 /\ 1 \in 1 .. N /\ pages' # <<>>
    BY <1>1, <2>2, <2>3 DEF PointIn
  <2>5. 1 # NULL
    BY PagerAssumption, BoundAssumption DEF Keys
  <2>6. /\ pc' \in {"run", "dead"}
        /\ pc' = "run" => \A i \in 1 .. N : pages'[i] = i
        /\ pc' = "dead" => ListSize < N
    BY <1>2, <2>3, <2>4, <2>5
  <2>7. ctl' # NULL /\ ctl'.status = "CHECKPOINT"
    BY <1>1, <1>2, <2>1, HeaderIs
  <2>8. N' = N /\ PointIn(offset, N)' /\ Below(offset)'
    BY <1>2, <2>1, <2>2 DEF N, PointIn, Below
  <2>9. Running'
    BY <2>3, <2>6, <2>7, <2>8 DEF Running
  <2>10. Apart' /\ Kept'
    BY <1>1, <1>2, <2>1, <2>8 DEF Apart, Kept, Held
  <2> QED BY <2>6, <2>9, <2>10 DEF Sound
<1> QED BY <1>3, <1>4

\* Handing out a chunk at or behind the allocation point.
LEMMA HandOutSound ==
    ASSUME Types, Sound, pc \in {"run", "alloc"}, NEW a \in Nat, NEW len \in Lens,
           offset <= a, HandOut(a, len), UNCHANGED <<items, file>>
    PROVE  Below(offset)' /\ Apart' /\ Kept'
<1> DEFINE new == [addr |-> a, len |-> len, val |-> NULL]
<1>1. chunks' = chunks \cup {new} /\ offset' = a + len
  BY DEF HandOut
<1>2. len \in Nat /\ len > 0 /\ offset \in Nat
  BY LensAssumption, RunningFacts
<1>3. \A c \in chunks : c.addr \in Nat /\ c.len \in Nat /\ c.addr + c.len <= offset /\ c.addr < offset
  BY RunningFacts
<1>4. new.addr = a /\ new.len = len /\ new.val = NULL
  OBVIOUS
<1> HIDE DEF new
<1>5. Below(offset)'
  BY <1>1, <1>2, <1>3, <1>4 DEF Below
<1>6. \A c \in chunks : c.addr # a
  BY <1>2, <1>3
<1>7. Apart'
  BY <1>1, <1>4, <1>6 DEF Sound, Apart
<1>8. Kept'
  BY <1>1, <1>4 DEF Sound, Kept, Held, N
<1> QED BY <1>5, <1>7, <1>8

LEMMA SoundAlloc ==
    ASSUME Types, Sound, NEW len \in Lens, Alloc(len)
    PROVE  Sound'
<1>1. /\ pc = "run" /\ pc' = pc /\ ~NeedsPage(offset, len) /\ HandOut(offset, len)
      /\ UNCHANGED <<pages, todo, ctl, items, file, crashes>>
  BY DEF Alloc, disk
<1>2. offset \in Nat /\ len \in Nat /\ PointIn(offset, N) /\ Running
  BY <1>1, LensAssumption DEF Types, ProcessTypes, Sound, Running
<1>3. Below(offset)' /\ Apart' /\ Kept'
  BY <1>1, <1>2, HandOutSound
<1>4. PointIn(offset, N)'
  <2>1. offset' = offset + len /\ Local(offset) \in Nat /\ Local(offset) + len < PageSize
    BY <1>1, <1>2, Decompose, SizeAssumption DEF HandOut, NeedsPage
  <2>2. Local(offset + len) = Local(offset) + len /\ PageOf(offset + len) = PageOf(offset)
    BY <1>2, <2>1, StayInPage
  <2> QED BY <1>1, <1>2, <2>1, <2>2, SizeAssumption DEF PointIn, N
<1> QED BY <1>1, <1>2, <1>3, <1>4 DEF Sound, Running, N

LEMMA SoundAllocPage ==
    ASSUME Types, Sound, NEW len \in Lens, AllocPage(len)
    PROVE  Sound'
<1>1. /\ pc = "run" /\ pc' = "alloc" /\ NeedsPage(offset, len) /\ CreatePage
      /\ N < MaxPages /\ todo' = len
      /\ ctl' = Header(offset) \/ ctl' = ctl
      /\ UNCHANGED <<offset, chunks, crashes>>
  BY DEF AllocPage, N
<1>2. Running /\ DiskTypes /\ SumsClean
  BY <1>1 DEF Sound, Types
<1>3. /\ N \in Nat /\ N > 0 /\ offset \in Nat
      /\ pages \in Seq(Keys \cup {NULL}) /\ Len(pages) = N
      /\ \A c \in chunks : PageOf(c.addr) \in Nat /\ PageOf(c.addr) < N
  BY <1>1, RunningFacts
<1>4. /\ N' = N + 1
      /\ \A i \in 1 .. N : file'[i] = file[i]
      /\ Len(pages') = N + 1
      /\ \A i \in 1 .. N : pages'[i] = pages[i]
      /\ pages'[N + 1] = N + 1
  BY <1>1, <1>2, <1>3, CreatePageIs
<1>5. ctl' # NULL /\ ctl'.status = "CHECKPOINT"
  BY <1>1, <1>2, <1>3, HeaderIs DEF Running
<1>6. \A i \in 1 .. N' : pages'[i] = i
  BY <1>1, <1>2, <1>3, <1>4 DEF Running
<1>7. PointIn(offset', N' - 1) /\ Below(offset)' /\ NeedsPage(offset', todo')
  BY <1>1, <1>2, <1>3, <1>4 DEF Running, PointIn, Below
<1>8. Running'
  BY <1>1, <1>4, <1>5, <1>6, <1>7 DEF Running
<1>9. Apart'
  BY <1>1 DEF Sound, Apart
<1>10. Kept'
  <2> SUFFICES ASSUME NEW c \in chunks, c.val # NULL PROVE Held(c)'
    BY <1>1 DEF Kept
  <2>1. Held(c) /\ PageOf(c.addr) + 1 \in 1 .. N
    BY <1>3 DEF Sound, Kept
  <2> QED BY <1>3, <1>4, <2>1 DEF Held
<1> QED BY <1>1, <1>8, <1>9, <1>10 DEF Sound


LEMMA SoundAllocSync ==
    ASSUME Types, Sound, \A len \in Lens : Fits(len), AllocSync
    PROVE  Sound'
<1> DEFINE a == (N - 1) * PageSize + HDR
<1>1. Running /\ pc = "alloc" /\ pc' = "run"
  BY DEF AllocSync, Sound
<1>2. /\ N \in Nat /\ offset \in Nat /\ Len(pages) = N
      /\ todo \in Lens /\ todo \in Nat /\ HDR + todo < PageSize
      /\ HDR \in Nat /\ PageSize \in Nat
  BY <1>1, RunningFacts, LensAssumption, SizeAssumption DEF Types, ProcessTypes, Fits
<1>3. N - 1 \in Nat /\ N - 1 > 0 /\ PageOf(offset) = N - 2
  BY <1>1, <1>2 DEF Running, PointIn
<1>4. /\ HandOut(a, todo) /\ ctl' = Header(offset') /\ todo' = 0
      /\ UNCHANGED <<pages, items, file, crashes>>
  BY <1>2 DEF AllocSync
<1>5. Local(a) = HDR /\ PageOf(a) = N - 1 /\ a \in Nat
  <2>1. HDR < PageSize
    BY SizeAssumption
  <2>2. (N - 1) * PageSize \in Nat
    BY <1>2, <1>3
  <2>3. Local((N - 1) * PageSize + HDR) = HDR /\ PageOf((N - 1) * PageSize + HDR) = N - 1
    <3> DEFINE m == N - 1
    <3>1. m \in Nat
      BY <1>3
    <3> HIDE DEF m
    <3>2. Local(m * PageSize + HDR) = HDR /\ PageOf(m * PageSize + HDR) = m
      BY <1>2, <2>1, <3>1, Compose
    <3> QED BY <3>2 DEF m
  <2> QED BY <1>2, <2>2, <2>3
<1>6. offset <= a
  <2>1. PageOf(offset) < N - 1
    BY <1>2, <1>3
  <2>2. offset < (N - 1) * PageSize
    BY <1>2, <1>3, <2>1, EarlierPage
  <2>3. (N - 1) * PageSize \in Nat
    BY <1>2, <1>3
  <2> QED BY <1>2, <2>2, <2>3
<1> HIDE DEF a
<1>7. Below(offset)' /\ Apart' /\ Kept'
  BY <1>1, <1>2, <1>4, <1>5, <1>6, HandOutSound
<1>8. offset' = a + todo /\ offset' \in Nat
  BY <1>2, <1>4, <1>5 DEF HandOut
<1>9. PointIn(offset, N)'
  <2>1. Local(a + todo) = HDR + todo /\ PageOf(a + todo) = N - 1
    BY <1>2, <1>5, StayInPage
  <2> QED BY <1>2, <1>3, <1>4, <1>8, <2>1 DEF PointIn, N
<1>10. ctl' # NULL /\ ctl'.status = "CHECKPOINT"
  BY <1>4, <1>8, HeaderIs
<1>11. Len(pages') = N' /\ \A i \in 1 .. N' : pages'[i] = i
  BY <1>1, <1>4 DEF Running, N
<1>12. Running'
  BY <1>1, <1>7, <1>9, <1>10, <1>11 DEF Running
<1> QED BY <1>1, <1>7, <1>12 DEF Sound

LEMMA SoundWrite ==
    ASSUME Types, Sound, NEW c \in chunks, NEW v \in Vals, Write(c, v)
    PROVE  Sound'
<1> DEFINE k == PageOf(c.addr) + 1
           a == Local(c.addr)
           w == [c EXCEPT !.val = v]
<1>1. /\ pc = "run" /\ Running
      /\ UNCHANGED <<pages, offset, todo, ctl, items, opens, crashes>>
  BY DEF Write, Sound
<1>2. /\ N \in Nat /\ Len(pages) = N
      /\ \A d \in chunks : /\ d.addr \in Nat
                           /\ PageOf(d.addr) \in Nat /\ PageOf(d.addr) < N
                           /\ Local(d.addr) \in Nat
                           /\ d.addr = PageOf(d.addr) * PageSize + Local(d.addr)
      /\ NULL \notin 1 .. N
  BY <1>1, RunningFacts
<1>3. k \in 1 .. N /\ a \in Nat /\ pages[k] = k
  BY <1>1, <1>2 DEF Running
<1>4. Resolves(c.addr) /\ GetFd(c.addr) = k
  BY <1>2, <1>3 DEF Resolves, GetFd
<1>5. /\ file' = [file EXCEPT ![k].data = [l \in DOMAIN @ \cup {a} |->
                                             IF l = a THEN v ELSE @[l]]]
      /\ chunks' = (chunks \ {c}) \cup {w}
      /\ pc' = pc
  BY <1>4 DEF Write
<1>6. c \in Chunk
  BY DEF Types
<1>7. w.addr = c.addr /\ w.len = c.len /\ w.val = v
  BY <1>6 DEF Chunk
<1> HIDE DEF w
<1>8. Wrote(k, a, v)
  <2>1. DiskTypes /\ SumsClean /\ items' = items /\ k \in 1 .. N /\ a \in Nat
    BY <1>1, <1>3 DEF Types
  <2>2. file' = [file EXCEPT ![k].data = [l \in DOMAIN @ \cup {a} |->
                                            IF l = a THEN v ELSE @[l]]]
    BY <1>5
  <2> HIDE DEF k, a
  <2> QED BY <2>1, <2>2, WriteIs
<1>9. N' = N
  BY <1>1 DEF N
<1>10. Apart'
  BY <1>5, <1>7 DEF Sound, Apart
<1>11. Below(offset)'
  BY <1>1, <1>5, <1>7 DEF Running, Below
<1>12. Running'
  BY <1>1, <1>5, <1>9, <1>11 DEF Running
<1>13. Kept'
  <2> SUFFICES ASSUME NEW d \in chunks', d.val # NULL PROVE Held(d)'
    BY DEF Kept
  <2>1. CASE d = w
    BY <1>2, <1>7, <1>8, <1>9, <2>1 DEF Held, Wrote
  <2>2. CASE d # w
    <3>1. d \in chunks /\ d # c /\ Held(d)
      BY <1>5, <2>2 DEF Sound, Kept
    <3>2. ~(PageOf(d.addr) = PageOf(c.addr) /\ Local(d.addr) = Local(c.addr))
      <4>1. d.addr # c.addr
        BY <3>1 DEF Sound, Apart
      <4> QED BY <1>2, <3>1, <4>1
    <3>3. CASE PageOf(d.addr) # PageOf(c.addr)
      <4>1. PageOf(d.addr) + 1 \in 1 .. N /\ PageOf(d.addr) + 1 # k
        BY <1>2, <3>1, <3>3
      <4> HIDE DEF k
      <4> QED BY <1>8, <1>9, <3>1, <4>1 DEF Held, Wrote
    <3>4. CASE PageOf(d.addr) = PageOf(c.addr) /\ Local(d.addr) # Local(c.addr)
      BY <1>8, <1>9, <3>1, <3>4 DEF Held, Wrote
    <3> QED BY <3>2, <3>3, <3>4
  <2> QED BY <2>1, <2>2
<1> QED BY <1>1, <1>5, <1>10, <1>12, <1>13 DEF Sound

LEMMA SoundFlushPage ==
    ASSUME Types, Sound, FlushPage
    PROVE  Sound'
<1>1. /\ pc \in {"sync", "close"} /\ Running /\ todo <= Len(pages)
      /\ todo \in Nat /\ todo > 0
      /\ UNCHANGED <<pages, offset, ctl, chunks, crashes>>
  BY DEF FlushPage, Sound, Types, ProcessTypes
<1>2. /\ N \in Nat /\ Len(pages) = N /\ NULL \notin 1 .. N
      /\ \A c \in chunks : PageOf(c.addr) \in Nat /\ PageOf(c.addr) < N
  BY <1>1, RunningFacts
<1>3. todo \in 1 .. N /\ pages[todo] = todo
  BY <1>1, <1>2 DEF Running
<1>4. /\ file' = [file EXCEPT ![todo].status = "SUCCESS"]
      /\ SetCrcSum(todo, file'[todo])
      /\ todo' = todo + 1 /\ pc' = pc
  BY <1>2, <1>3 DEF FlushPage
<1>5. /\ N' = N
      /\ \A i \in 1 .. N : /\ items'[i].key = i
                           /\ i # todo => items'[i] = items[i] /\ file'[i] = file[i]
                           /\ file'[i].data = file[i].data
      /\ items'[todo].crc = file'[todo] /\ file'[todo].status = "SUCCESS"
  BY <1>3, <1>4, FlushPageIs DEF Types
<1>6. \A i \in 1 .. todo' - 1 : Accepts(items[i])'
  <2> SUFFICES ASSUME NEW i \in 1 .. todo PROVE Accepts(items[i])'
    BY <1>1, <1>4
  <2>1. i \in 1 .. N
    BY <1>1, <1>2, <1>3
  <2>2. CASE i = todo
    BY <1>5, <2>1, <2>2 DEF Accepts
  <2>3. CASE i # todo
    <3>1. i \in 1 .. todo - 1 /\ Accepts(items[i]) /\ items[i].key = i
      BY <1>1, <2>1, <2>3 DEF Running, Types, DiskTypes
    <3> QED BY <1>5, <2>1, <2>3, <3>1 DEF Accepts
  <2> QED BY <2>2, <2>3
<1>7. Running'
  <2>1. todo' <= N' + 1
    BY <1>1, <1>2, <1>4, <1>5
  <2>2. Below(offset)' /\ PointIn(offset, N)'
    BY <1>1, <1>5 DEF Running, Below, PointIn
  <2> QED BY <1>1, <1>4, <1>5, <1>6, <2>1, <2>2 DEF Running
<1>8. Kept'
  <2> SUFFICES ASSUME NEW c \in chunks, c.val # NULL PROVE Held(c)'
    BY <1>1 DEF Kept
  <2>1. Held(c) /\ PageOf(c.addr) + 1 \in 1 .. N
    BY <1>2 DEF Sound, Kept
  <2> QED BY <1>5, <2>1 DEF Held
<1>9. Apart'
  BY <1>1 DEF Sound, Apart
<1> QED BY <1>1, <1>4, <1>7, <1>8, <1>9 DEF Sound

LEMMA SoundCloseBase ==
    ASSUME Types, Sound, CloseBase
    PROVE  Sound'
<1>1. /\ pc = "close" /\ todo > Len(pages) /\ Running /\ pc' = "down"
      /\ ctl' = [offset |-> offset, status |-> "SUCCESS"]
      /\ UNCHANGED <<items, file, chunks, crashes>>
  BY DEF CloseBase, Forget, Sound
<1>2. N \in Nat /\ N > 0 /\ Len(pages) = N /\ offset \in Nat /\ items # <<>> /\ todo \in Nat
  BY <1>1, RunningFacts DEF Types, ProcessTypes
<1>3. \A i \in 1 .. N : Accepts(items[i])
  BY <1>1, <1>2 DEF Running
<1>4. ctl' # NULL
  <2>1. ctl' \in [offset : Nat, status : ExitStatus]
    BY <1>1, <1>2 DEF ExitStatus
  <2> QED BY <2>1, PagerAssumption
<1>5. PointIn(offset, N) /\ Below(offset) /\ ctl'.offset = offset
  BY <1>1 DEF Running
<1>6. Stopped'
  BY <1>1, <1>2, <1>3, <1>4, <1>5 DEF Stopped, PointIn, Below, Accepts, N
<1>7. Apart' /\ Kept'
  BY <1>1 DEF Sound, Apart, Kept, Held, N
<1> QED BY <1>1, <1>6, <1>7 DEF Sound

LEMMA SoundNext ==
    ASSUME Types, Sound, \A len \in Lens : Fits(len), [Next]_vars, crashes = 0, crashes' = 0
    PROVE  Sound'
<1>1. CASE UNCHANGED vars
  BY <1>1 DEF vars, Sound, Stopped, Running, PointIn, Below, Accepts, Apart, Kept, Held, N
<1>2. CASE BaseInit
  <2>1. /\ pc = "down" /\ pc' = "init" /\ Stopped
        /\ UNCHANGED <<items, file, chunks>>
    BY <1>2 DEF BaseInit, Sound
  <2>2. CASE items = <<>>
    <3>1. ctl'.status # "SUCCESS" \/ ctl' = NULL
      BY <1>2, <2>1, <2>2 DEF BaseInit, Stopped
    <3>2. Stopped'
      BY <2>1, <2>2, <3>1 DEF Stopped
    <3> QED BY <2>1, <3>2 DEF Sound, Apart, Kept, Held, N
  <2>3. CASE items # <<>>
    <3>1. ctl # NULL /\ ctl' = ctl /\ offset' = ctl.offset
      BY <1>2, <2>1, <2>3 DEF BaseInit, Stopped
    <3>2. Stopped'
      BY <2>1, <2>3, <3>1 DEF Stopped, PointIn, Below, Accepts, N
    <3> QED BY <2>1, <3>2 DEF Sound, Apart, Kept, Held, N
  <2> QED BY <2>2, <2>3
<1>3. CASE PagerInit
  BY <1>3, SoundPagerInit
<1>4. ASSUME NEW len \in Lens, Alloc(len) PROVE Sound'
  BY <1>4, SoundAlloc
<1>5. ASSUME NEW len \in Lens, AllocPage(len) PROVE Sound'
  BY <1>5, SoundAllocPage
<1>6. CASE AllocSync
  BY <1>6, SoundAllocSync
<1>7. ASSUME NEW c \in chunks, NEW v \in Vals, Write(c, v) PROVE Sound'
  BY <1>7, SoundWrite
<1>8. ASSUME NEW how \in {"sync", "close"}, Flush(how) PROVE Sound'
  <2>1. /\ pc = "run" /\ pc' = how /\ todo' = 1 /\ Running
        /\ UNCHANGED <<pages, offset, ctl, items, file, chunks>>
    BY <1>8 DEF Flush, disk, Sound
  <2>2. N \in Nat /\ N > 0
    BY <2>1, RunningFacts
  <2>3. Running'
    BY <2>1, <2>2 DEF Running, PointIn, Below, N
  <2> QED BY <2>1, <2>3 DEF Sound, Apart, Kept, Held, N
<1>9. CASE FlushPage
  BY <1>9, SoundFlushPage
<1>10. CASE SyncBase
  <2>1. /\ pc = "sync" /\ pc' = "run" /\ Running /\ ctl' = Header(offset)
        /\ UNCHANGED <<pages, offset, items, file, chunks>>
    BY <1>10 DEF SyncBase, Sound
  <2>2. ctl' # NULL /\ ctl'.status = "CHECKPOINT"
    BY <2>1, HeaderIs DEF Types, ProcessTypes
  <2>3. Running'
    BY <2>1, <2>2 DEF Running, PointIn, Below, N
  <2> QED BY <2>1, <2>3 DEF Sound, Apart, Kept, Held, N
<1>11. CASE CloseBase
  BY <1>11, SoundCloseBase
<1>12. CASE Crash
  BY <1>12 DEF Crash
<1> QED BY <1>1, <1>2, <1>3, <1>4, <1>5, <1>6, <1>7, <1>8, <1>9, <1>10, <1>11, <1>12 DEF Next

\* The number of deaths only grows.
LEMMA CrashesGrow == ASSUME Types, [Next]_vars PROVE crashes' = crashes \/ crashes' = crashes + 1
BY DEF Next, vars, BaseInit, PagerInit, Alloc, AllocPage, AllocSync, Write, Flush, FlushPage,
       SyncBase, CloseBase, Crash

LEMMA InvNext ==
    ASSUME Inv, \A len \in Lens : Fits(len), [Next]_vars
    PROVE  Inv'
<1>1. Types /\ crashes \in Nat
  BY DEF Inv, Types
<1>2. crashes' = 0 => crashes = 0
  BY <1>1, CrashesGrow
<1>3. Types'
  BY <1>1, TypesNext
<1>4. crashes' = 0 => Sound'
  BY <1>1, <1>2, SoundNext DEF Inv
<1> QED BY <1>3, <1>4 DEF Inv

LEMMA InvInit == Init => Inv
<1> SUFFICES ASSUME Init PROVE Inv
  OBVIOUS
<1>1. Sound
  BY DEF Init, Sound, Stopped, Apart, Kept
<1> QED BY <1>1, TypesInit DEF Inv


-----------------------------------------------------------------------------

(***************************************************************************)
(* Whatever was written is read back, restarts included (pager.c): every   *)
(* chunk's address leads to the page file that holds its contents, as long *)
(* as requests leave room for the page header, the pages fit one list of   *)
(* the control file and the process does not die.                          *)
(***************************************************************************)
THEOREM WrittenIsRead ==
    ASSUME \A len \in Lens : Fits(len), MaxPages <= ListSize
    PROVE  Spec => []ReadsBack
<1>1. Inv => ReadsBack
  <2> SUFFICES ASSUME Inv, crashes = 0, pc \in {"run", "dead"}, NEW c \in chunks, c.val # NULL
               PROVE  /\ Resolves(c.addr)
                      /\ Local(c.addr) \in DOMAIN file[GetFd(c.addr)].data
                      /\ file[GetFd(c.addr)].data[Local(c.addr)] = c.val
    BY DEF ReadsBack
  <2>1. Types /\ Sound /\ Running
    BY DEF Inv, Sound
  <2>2. /\ N \in Nat /\ N <= MaxPages /\ Len(pages) = N /\ NULL \notin 1 .. N
        /\ PageOf(c.addr) \in Nat /\ PageOf(c.addr) < N
    BY <2>1, RunningFacts DEF Types, DiskTypes
  <2>3. pc = "run"
    BY <2>1, <2>2, BoundAssumption, PagerAssumption DEF Running
  <2>4. pages[PageOf(c.addr) + 1] = PageOf(c.addr) + 1 /\ PageOf(c.addr) + 1 \in 1 .. N
    BY <2>1, <2>2, <2>3 DEF Running
  <2>5. Resolves(c.addr) /\ GetFd(c.addr) = PageOf(c.addr) + 1
    BY <2>2, <2>4 DEF Resolves, GetFd
  <2>6. Held(c)
    BY <2>1 DEF Sound, Kept
  <2> QED BY <2>5, <2>6 DEF Held
<1>2. Inv /\ [Next]_vars => Inv'
  BY InvNext
<1> QED BY <1>1, <1>2, InvInit, PTL DEF Spec

(***************************************************************************)
(* A control file marked EXSTAT_SUCCESS describes a complete database, in  *)
(* histories without a death of the process and for any number of lists    *)
(* (base.c, base_close(); pager.c, pager_close()): every page it lists     *)
(* would be taken, and its allocation point is past every chunk.           *)
(***************************************************************************)
THEOREM MarkIsClean ==
    ASSUME \A len \in Lens : Fits(len)
    PROVE  Spec => []CleanMark
<1>1. Inv => CleanMark
  <2> SUFFICES ASSUME Inv, crashes = 0, ctl # NULL, ctl.status = "SUCCESS"
               PROVE  /\ \A i \in 1 .. Len(items) : Accepts(items[i])
                      /\ \A c \in chunks : c.addr + c.len <= ctl.offset
    BY DEF CleanMark
  <2>1. Stopped
    BY DEF Inv, Sound, Running
  <2> QED BY <2>1 DEF Stopped, Below, N
<1>2. Inv /\ [Next]_vars => Inv'
  BY InvNext
<1> QED BY <1>1, <1>2, InvInit, PTL DEF Spec

-----------------------------------------------------------------------------
(***************************************************************************)
(* The refinement.  What the abstract allocator sees of the pager: between *)
(* two runs the allocation point is the one in the control file, and a     *)
(* page that pager_alloc() has made but not yet moved to does not count.   *)
(***************************************************************************)
SeenOffset == IF items = <<>> THEN HDR
              ELSE IF pc \in {"down", "init"} THEN ctl.offset ELSE offset

SeenCount == IF items = <<>> THEN 1
             ELSE IF pc \in {"down", "init"} THEN Len(items)
             ELSE Len(pages) - (IF pc = "alloc" THEN 1 ELSE 0)

SeenChunks == {[addr |-> c.addr, len |-> c.len] : c \in chunks}

SeenAlloc(len) ==
    /\ CountAfter(SeenOffset, SeenCount, len) <= MaxPages
    /\ SeenChunks' = SeenChunks \cup {[addr |-> AddrOf(SeenOffset, SeenCount, len), len |-> len]}
    /\ SeenOffset' = AddrOf(SeenOffset, SeenCount, len) + len
    /\ SeenCount' = CountAfter(SeenOffset, SeenCount, len)

LEMMA Mapping ==
    /\ A!Init <=> SeenOffset = HDR /\ SeenCount = 1 /\ SeenChunks = {}
    /\ A!Next <=> \E len \in Lens : SeenAlloc(len)
    /\ UNCHANGED (A!avars) <=> UNCHANGED <<SeenOffset, SeenCount, SeenChunks>>
<1>1. A!Init <=> SeenOffset = HDR /\ SeenCount = 1 /\ SeenChunks = {}
  BY Zenon DEF A!Init, SeenOffset, SeenCount, SeenChunks
<1>2. \A len : A!Alloc(len) <=> SeenAlloc(len)
  <2>1. \A a, n, len : /\ A!CountAfter(a, n, len) = CountAfter(a, n, len)
                       /\ A!AddrOf(a, n, len) = AddrOf(a, n, len)
    BY DEF A!CountAfter, A!AddrOf, A!NeedsPage, A!Local, CountAfter, AddrOf, NeedsPage, Local
  <2> QED BY <2>1, Zenon DEF A!Alloc, SeenOffset, SeenCount, SeenChunks, SeenAlloc
<1>3. UNCHANGED (A!avars) <=> UNCHANGED <<SeenOffset, SeenCount, SeenChunks>>
  BY Zenon DEF A!avars, SeenOffset, SeenCount, SeenChunks
<1> QED BY <1>1, <1>2, <1>3 DEF A!Next

\* While the process runs ...
LEMMA SeenRunning ==
    ASSUME Types, Sound, pc \notin {"down", "init"}
    PROVE  /\ SeenOffset = offset
           /\ SeenCount = IF pc = "alloc" THEN N - 1 ELSE N
<1>1. N \in Nat /\ items # <<>> /\ Len(pages) = N
  BY RunningFacts
<1> QED BY <1>1 DEF SeenOffset, SeenCount

\* ... and while it does not.
LEMMA SeenStopped ==
    ASSUME pc \in {"down", "init"}
    PROVE  /\ SeenOffset = IF items = <<>> THEN HDR ELSE ctl.offset
           /\ SeenCount = IF items = <<>> THEN 1 ELSE N
BY DEF SeenOffset, SeenCount, N


\* A chunk is seen as its range, whatever its owner wrote to it.
LEMMA SeenHandOut ==
    ASSUME NEW a, NEW len, HandOut(a, len)
    PROVE  SeenChunks' = SeenChunks \cup {[addr |-> a, len |-> len]}
<1> DEFINE new == [addr |-> a, len |-> len, val |-> NULL]
<1>1. chunks' = chunks \cup {new} /\ new.addr = a /\ new.len = len
  BY DEF HandOut
<1> HIDE DEF new
<1> QED BY <1>1 DEF SeenChunks

LEMMA SeenWrite ==
    ASSUME Types, NEW c \in chunks, NEW v, chunks' = (chunks \ {c}) \cup {[c EXCEPT !.val = v]}
    PROVE  SeenChunks' = SeenChunks
<1> DEFINE w == [c EXCEPT !.val = v]
<1>1. c \in Chunk
  BY DEF Types
<1>2. w.addr = c.addr /\ w.len = c.len /\ chunks' = (chunks \ {c}) \cup {w}
  BY <1>1 DEF Chunk
<1> HIDE DEF w
<1>3. \A x \in SeenChunks : x \in SeenChunks'
  BY <1>2 DEF SeenChunks
<1>4. \A x \in SeenChunks' : x \in SeenChunks
  BY <1>2 DEF SeenChunks
<1> QED BY <1>3, <1>4

\* Every step is an allocation or is not seen.
LEMMA StepRefines ==
    ASSUME Inv, Inv', [Next]_vars, crashes' = 0
    PROVE  \/ \E len \in Lens : SeenAlloc(len)
           \/ UNCHANGED <<SeenOffset, SeenCount, SeenChunks>>
<1>1. Types /\ Types' /\ Sound /\ Sound' /\ N \in Nat
  <2>1. crashes = 0
    BY CrashesGrow DEF Inv, Types
  <2> QED BY <2>1 DEF Inv, Types, DiskTypes, N
<1>2. ASSUME pc \notin {"down", "init"}, pc' \notin {"down", "init"}
      PROVE  /\ SeenOffset = offset /\ SeenOffset' = offset'
             /\ SeenCount = IF pc = "alloc" THEN N - 1 ELSE N
             /\ SeenCount' = IF pc' = "alloc" THEN N' - 1 ELSE N'
  <2>1. (Types /\ Sound /\ pc \notin {"down", "init"} =>
           /\ SeenOffset = offset
           /\ SeenCount = IF pc = "alloc" THEN N - 1 ELSE N)'
    BY SeenRunning, PTL
  <2> QED BY <1>1, <1>2, <2>1, SeenRunning
<1>3. CASE UNCHANGED vars
  BY <1>3 DEF vars, SeenOffset, SeenCount, SeenChunks
<1>4. CASE BaseInit
  <2>1. /\ pc = "down" /\ pc' = "init" /\ Stopped
        /\ UNCHANGED <<items, file, chunks, pages>>
        /\ items # <<>> => ctl' = ctl
    BY <1>1, <1>4 DEF BaseInit, Sound, Stopped
  <2> QED BY <2>1 DEF SeenOffset, SeenCount, SeenChunks
<1>5. CASE PagerInit
  <2>1. /\ pc = "init" /\ pc' \in {"run", "dead"} /\ Stopped /\ Running' /\ UNCHANGED chunks
    BY <1>1, <1>5 DEF PagerInit, Sound
  <2>2. /\ items' # <<>> /\ Len(pages') = N'
    <3>1. (Types /\ Sound /\ pc \notin {"down", "init"} => items # <<>> /\ Len(pages) = N)'
      BY RunningFacts, PTL
    <3> QED BY <1>1, <2>1, <3>1
  <2>3. SeenOffset' = offset' /\ SeenCount' = N' - 0 /\ SeenChunks' = SeenChunks
    BY <2>1, <2>2 DEF SeenOffset, SeenCount, SeenChunks
  <2>4. CASE items = <<>>
    <3>1. offset' = HDR /\ CreatePage /\ N = 0 /\ N < MaxPages
      BY <1>5, <2>4, BoundAssumption DEF PagerInit, N
    <3>2. N' = 1
      BY <1>1, <3>1, CreatePageIs DEF Types, ProcessTypes
    <3> QED BY <2>3, <2>4, <3>1, <3>2 DEF SeenOffset, SeenCount
  <2>5. CASE items # <<>>
    <3>1. UNCHANGED <<offset, items>> /\ offset = ctl.offset
      BY <1>5, <2>1, <2>5 DEF PagerInit, Stopped
    <3> QED BY <1>1, <2>1, <2>3, <2>5, <3>1 DEF SeenOffset, SeenCount, N
  <2> QED BY <2>4, <2>5
<1>6. ASSUME NEW len \in Lens, Alloc(len) PROVE SeenAlloc(len)
  <2>1. /\ pc = "run" /\ pc' = "run" /\ ~NeedsPage(offset, len) /\ HandOut(offset, len)
        /\ N' = N /\ N <= MaxPages /\ offset' = offset + len
    BY <1>1, <1>6 DEF Alloc, disk, N, Types, DiskTypes, HandOut
  <2>2. SeenChunks' = SeenChunks \cup {[addr |-> offset, len |-> len]}
    BY <2>1, SeenHandOut
  <2>3. SeenOffset = offset /\ SeenOffset' = offset' /\ SeenCount = N /\ SeenCount' = N
    BY <1>2, <2>1
  <2> QED BY <2>1, <2>2, <2>3 DEF SeenAlloc, CountAfter, AddrOf
<1>7. ASSUME NEW len \in Lens, AllocPage(len)
      PROVE  UNCHANGED <<SeenOffset, SeenCount, SeenChunks>>
  <2>1. /\ pc = "run" /\ pc' = "alloc" /\ CreatePage /\ N < MaxPages
        /\ UNCHANGED <<offset, chunks>>
    BY <1>7 DEF AllocPage, N
  <2>2. N' = N + 1
    BY <1>1, <2>1, CreatePageIs DEF Types, ProcessTypes
  <2> QED BY <1>1, <1>2, <2>1, <2>2 DEF SeenChunks
<1>8. CASE AllocSync
  <2>1. /\ pc = "alloc" /\ pc' = "run" /\ Running /\ N' = N /\ N <= MaxPages
        /\ todo \in Lens /\ NeedsPage(offset, todo)
    BY <1>1, <1>8 DEF AllocSync, Sound, Running, Types, DiskTypes, ProcessTypes, N
  <2>2. HandOut((N - 1) * PageSize + HDR, todo)
    BY <1>8, <2>1 DEF AllocSync, Running
  <2>3. SeenChunks' = SeenChunks \cup {[addr |-> (N - 1) * PageSize + HDR, len |-> todo]}
    BY <2>2, SeenHandOut
  <2>4. SeenOffset = offset /\ SeenOffset' = offset' /\ SeenCount = N - 1 /\ SeenCount' = N
    BY <1>2, <2>1
  <2>5. offset' = (N - 1) * PageSize + HDR + todo
    BY <2>2 DEF HandOut
  <2>6. CountAfter(offset, N - 1, todo) = N /\ AddrOf(offset, N - 1, todo) = (N - 1) * PageSize + HDR
    BY <1>1, <2>1 DEF CountAfter, AddrOf
  <2>7. SeenAlloc(todo)
    BY <2>1, <2>3, <2>4, <2>5, <2>6 DEF SeenAlloc
  <2> QED BY <2>1, <2>7
<1>9. ASSUME NEW c \in chunks, NEW v \in Vals, Write(c, v)
      PROVE  UNCHANGED <<SeenOffset, SeenCount, SeenChunks>>
  <2>1. /\ pc = "run" /\ pc' \in {"run", "dead"}
        /\ UNCHANGED <<offset, items, pages>>
        /\ chunks' = chunks \/ chunks' = (chunks \ {c}) \cup {[c EXCEPT !.val = v]}
    BY <1>9 DEF Write
  <2>2. SeenChunks' = SeenChunks
    <3>1. CASE chunks' = chunks
      BY <3>1 DEF SeenChunks
    <3>2. CASE chunks' = (chunks \ {c}) \cup {[c EXCEPT !.val = v]}
      BY <1>1, <3>2, SeenWrite
    <3> QED BY <2>1, <3>1, <3>2
  <2> QED BY <2>1, <2>2 DEF SeenOffset, SeenCount
<1>10. ASSUME NEW how \in {"sync", "close"}, Flush(how)
       PROVE  UNCHANGED <<SeenOffset, SeenCount, SeenChunks>>
  BY <1>10 DEF Flush, disk, SeenOffset, SeenCount, SeenChunks
<1>11. CASE FlushPage
  <2>1. /\ pc \in {"sync", "close"} /\ pc' \in {pc, "dead"} /\ UNCHANGED <<offset, pages, chunks>>
    BY <1>11 DEF FlushPage
  <2>2. items # <<>> /\ items' # <<>>
    <3>1. (Types /\ Sound /\ pc \notin {"down", "init"} => items # <<>>)'
      BY RunningFacts, PTL
    <3> QED BY <1>1, <2>1, <3>1, RunningFacts
  <2> QED BY <2>1, <2>2 DEF SeenOffset, SeenCount, SeenChunks
<1>12. CASE SyncBase
  BY <1>12 DEF SyncBase, SeenOffset, SeenCount, SeenChunks
<1>13. CASE CloseBase
  <2>1. /\ pc = "close" /\ pc' = "down" /\ ctl'.offset = offset
        /\ UNCHANGED <<items, chunks>>
    BY <1>13 DEF CloseBase, Forget
  <2>2. items # <<>> /\ Len(pages) = N
    BY <1>1, <2>1, RunningFacts
  <2> QED BY <1>1, <2>1, <2>2 DEF SeenOffset, SeenCount, SeenChunks, N
<1>14. CASE Crash
  BY <1>1, <1>14 DEF Crash, Types
<1> QED BY <1>3, <1>4, <1>5, <1>6, <1>7, <1>8, <1>9, <1>10, <1>11, <1>12, <1>13, <1>14 DEF Next

(***************************************************************************)
(* The pager (pager.c, base.c) implements the abstract allocator across    *)
(* starts and shutdowns, for any number of pages and lists, as long as the *)
(* process does not die: together with AllocatorSafe, no byte of its       *)
(* address space is handed out twice.                                      *)
(***************************************************************************)
THEOREM PagerAllocates ==
    ASSUME \A len \in Lens : Fits(len)
    PROVE  Spec => Allocates
<1>1. Init => A!Init
  BY Mapping DEF Init, SeenOffset, SeenCount, SeenChunks
<1>2. Inv /\ [Next]_vars => Inv'
  BY InvNext
<1>3. Inv /\ Inv' /\ [Next]_vars => [A!Next \/ crashes' > 0]_(A!avars)
  <2> SUFFICES ASSUME Inv, Inv', [Next]_vars
               PROVE  (A!Next \/ crashes' > 0) \/ UNCHANGED (A!avars)
    OBVIOUS
  <2>1. crashes' \in Nat
    BY DEF Inv, Types
  <2>2. CASE crashes' > 0
    BY <2>2
  <2>3. CASE crashes' = 0
    BY <2>3, StepRefines, Mapping
  <2> QED BY <2>1, <2>2, <2>3
<1> QED BY <1>1, <1>2, <1>3, InvInit, PTL DEF Spec, Allocates
=============================================================================
