--------------------------- MODULE AllocatorProofs ---------------------------
(***************************************************************************)
(* The allocator's safety properties, for every page size, every header    *)
(* size, every set of lengths that fit a page and any number of pages.     *)
(***************************************************************************)
EXTENDS Allocator, PageArithProofs

(***************************************************************************)
(* The strengthening: the allocation point is in the last page, past its   *)
(* header, and everything handed out ends at or before it.                 *)
(***************************************************************************)
PointInLastPage == /\ count > 0
                   /\ PageOf(offset) = count - 1
                   /\ HDR <= Local(offset)

ChunksBelowPoint ==
    \A c \in chunks : /\ c.len > 0
                      /\ c.addr + c.len <= offset
                      /\ HDR <= Local(c.addr)
                      /\ Local(c.addr) + c.len < PageSize

IInv == TypeOK /\ PointInLastPage /\ ChunksBelowPoint /\ ChunksDisjoint

LEMMA InitIInv == Init => IInv
<1>1. HDR = 0 * PageSize + HDR
  BY SizeAssumption
<1>2. Local(HDR) = HDR /\ PageOf(HDR) = 0
  BY <1>1, Compose, SizeAssumption
<1>3. QED
  BY <1>2, SizeAssumption
  DEF Init, IInv, TypeOK, PointInLastPage, ChunksBelowPoint, ChunksDisjoint

\* What one request does to the allocation point.
LEMMA AllocPoint ==
    ASSUME TypeOK, PointInLastPage, NEW len \in Lens, Fits(len)
    PROVE  LET addr == AddrOf(offset, count, len)
               n    == CountAfter(offset, count, len)
           IN  /\ addr \in Nat /\ n \in Nat /\ n > 0
               /\ offset <= addr
               /\ HDR <= Local(addr)
               /\ Local(addr) + len < PageSize
               /\ PageOf(addr + len) = n - 1
               /\ HDR <= Local(addr + len)
<1> DEFINE addr == AddrOf(offset, count, len)
           n    == CountAfter(offset, count, len)
<1>0. /\ len \in Nat /\ len > 0 /\ offset \in Nat /\ count \in Nat /\ count > 0
      /\ HDR \in Nat /\ PageSize \in Nat /\ HDR + len < PageSize
  BY LensAssumption, SizeAssumption DEF TypeOK, PointInLastPage, Fits
<1>1. CASE NeedsPage(offset, len)
  <2>1. addr = count * PageSize + HDR /\ n = count + 1
    BY <1>1 DEF AddrOf, CountAfter
  <2>2. Local(addr) = HDR /\ PageOf(addr) = count /\ addr \in Nat
    BY <1>0, <2>1, Compose
  <2>3. offset < count * PageSize
    <3>1. PageOf(offset) < count
      BY <1>0 DEF PointInLastPage
    <3>2. QED
      BY <1>0, <3>1, EarlierPage
  <2>4. Local(addr + len) = HDR + len /\ PageOf(addr + len) = count
    BY <1>0, <2>2, StayInPage
  <2>5. offset <= addr
    BY <1>0, <2>1, <2>2, <2>3
  <2>6. QED
    BY <1>0, <2>1, <2>2, <2>4, <2>5
<1>2. CASE ~NeedsPage(offset, len)
  <2>1. addr = offset /\ n = count
    BY <1>2 DEF AddrOf, CountAfter
  <2>2. Local(offset) \in Nat /\ Local(offset) + len < PageSize
    BY <1>0, <1>2, Decompose DEF NeedsPage
  <2>3. /\ Local(offset + len) = Local(offset) + len
        /\ PageOf(offset + len) = count - 1
    BY <1>0, <2>2, StayInPage DEF PointInLastPage
  <2>4. QED
    BY <1>0, <2>1, <2>2, <2>3 DEF PointInLastPage
<1>3. QED
  BY <1>1, <1>2

LEMMA AllocIInv ==
    ASSUME IInv, NEW len \in Lens, Fits(len), Alloc(len)
    PROVE  IInv'
<1> DEFINE addr == AddrOf(offset, count, len)
           c0   == [addr |-> addr, len |-> len]
<1>1. /\ addr \in Nat /\ offset <= addr
      /\ HDR <= Local(addr)
      /\ Local(addr) + len < PageSize
      /\ count' \in Nat /\ count' > 0
      /\ PageOf(addr + len) = count' - 1
      /\ HDR <= Local(addr + len)
  BY AllocPoint DEF Alloc, IInv
<1>2. len \in Nat /\ len > 0 /\ offset \in Nat
  BY LensAssumption DEF IInv, TypeOK
<1>3. chunks' = chunks \cup {c0} /\ offset' = addr + len
  BY DEF Alloc
<1>4. TypeOK'
  BY <1>1, <1>2, <1>3 DEF IInv, TypeOK, Chunk
<1>5. PointInLastPage'
  BY <1>1, <1>3 DEF PointInLastPage
<1>6. ASSUME NEW c \in chunks
      PROVE  /\ c.len > 0 /\ c.addr + c.len <= offset'
             /\ HDR <= Local(c.addr) /\ Local(c.addr) + c.len < PageSize
             /\ c.addr \in Nat /\ c.len \in Nat /\ c.addr + c.len <= offset
  BY <1>1, <1>2, <1>3 DEF IInv, ChunksBelowPoint, TypeOK, Chunk
<1>7. ChunksBelowPoint'
  BY <1>1, <1>2, <1>3, <1>6 DEF ChunksBelowPoint
<1>8. ASSUME NEW c \in chunks
      PROVE  Bytes(c) \cap Bytes(c0) = {}
  BY <1>1, <1>2, <1>6 DEF Bytes
<1>9. ChunksDisjoint'
  <2> SUFFICES ASSUME NEW c \in chunks', NEW d \in chunks', c # d
               PROVE  Bytes(c) \cap Bytes(d) = {}
    BY DEF ChunksDisjoint
  <2>1. CASE c \in chunks /\ d \in chunks
    BY <2>1 DEF IInv, ChunksDisjoint
  <2>2. CASE c = c0 /\ d \in chunks
    BY <2>2, <1>8
  <2>3. CASE c \in chunks /\ d = c0
    BY <2>3, <1>8
  <2>4. QED
    BY <1>3, <2>1, <2>2, <2>3
<1>10. QED
  BY <1>4, <1>5, <1>7, <1>9 DEF IInv

LEMMA NextIInv ==
    ASSUME IInv, \A len \in Lens : Fits(len), [Next]_avars
    PROVE  IInv'
<1>1. CASE Next
  BY <1>1, AllocIInv DEF Next
<1>2. CASE UNCHANGED avars
  BY <1>2 DEF avars, IInv, TypeOK, PointInLastPage, ChunksBelowPoint, ChunksDisjoint
<1>3. QED
  BY <1>1, <1>2

LEMMA IInvInPage == IInv => ChunksInPage
<1> SUFFICES ASSUME IInv, NEW c \in chunks
             PROVE  /\ PageOf(c.addr) < count
                    /\ HDR <= Local(c.addr)
                    /\ Local(c.addr) + c.len <= PageSize
  BY DEF ChunksInPage
<1>1. c.addr \in Nat /\ c.len \in Nat /\ offset \in Nat /\ count \in Nat
  BY DEF IInv, TypeOK, Chunk
<1>2. c.addr <= offset /\ HDR <= Local(c.addr) /\ Local(c.addr) + c.len < PageSize
  BY <1>1 DEF IInv, ChunksBelowPoint
<1>3. PageOf(c.addr) <= PageOf(offset)
  BY <1>1, <1>2, PageMonotone
<1>4. PageOf(c.addr) \in Nat /\ Local(c.addr) \in Nat
  BY <1>1, Decompose
<1>5. PageOf(c.addr) < count
  BY <1>1, <1>3, <1>4 DEF IInv, PointInLastPage
<1>6. QED
  BY <1>1, <1>2, <1>4, <1>5, SizeAssumption

(***************************************************************************)
(* pager_alloc() never hands out one byte twice, and every chunk lies in   *)
(* one open page past its header, provided every request leaves room for   *)
(* the page header.                                                        *)
(***************************************************************************)
THEOREM AllocatorSafe ==
    ASSUME \A len \in Lens : Fits(len)
    PROVE  Spec => [](TypeOK /\ ChunksDisjoint /\ ChunksInPage)
<1>1. Init => IInv
  BY InitIInv
<1>2. IInv /\ [Next]_avars => IInv'
  BY NextIInv
<1>3. IInv => TypeOK /\ ChunksDisjoint /\ ChunksInPage
  BY IInvInPage DEF IInv
<1>4. QED
  BY <1>1, <1>2, <1>3, PTL DEF Spec
=============================================================================
