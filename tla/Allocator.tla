------------------------------ MODULE Allocator ------------------------------
(***************************************************************************)
(* What the pager promises its callers: pager_alloc() (pager.c) hands out  *)
(* byte ranges of a growing address space.  This is the abstract allocator *)
(* that module Pager implements across restarts.                           *)
(***************************************************************************)
EXTENDS PageRequests

-----------------------------------------------------------------------------

VARIABLES
    offset,     \* base->pager.offset, the allocation point
    count,      \* base->core->count, the pages open
    chunks      \* the ranges handed out so far, [addr |-> , len |-> ]

avars == <<offset, count, chunks>>

Chunk == [addr : Nat, len : Nat]

TypeOK == /\ offset \in Nat
          /\ count \in Nat
          /\ chunks \subseteq Chunk

(***************************************************************************)
(* A fresh database: pager_init() creates one page and puts the allocation *)
(* point after its header.                                                 *)
(***************************************************************************)
Init == /\ offset = HDR
        /\ count = 1
        /\ chunks = {}

Alloc(len) ==
    /\ CountAfter(offset, count, len) <= MaxPages
    /\ LET addr == AddrOf(offset, count, len) IN
         /\ chunks' = chunks \cup {[addr |-> addr, len |-> len]}
         /\ offset' = addr + len
    /\ count' = CountAfter(offset, count, len)

Next == \E len \in Lens : Alloc(len)

Spec == Init /\ [][Next]_avars

-----------------------------------------------------------------------------

Bytes(c) == c.addr .. c.addr + c.len - 1

(***************************************************************************)
(* pager_alloc() never hands out one byte twice.                           *)
(***************************************************************************)
ChunksDisjoint ==
    \A c, d \in chunks : c # d => Bytes(c) \cap Bytes(d) = {}

(***************************************************************************)
(* Every chunk lies inside one page that is open and past that page's      *)
(* header: pager_get_fd() resolves its address (its assertion on the page  *)
(* number holds), and reading or writing the chunk stays in that file.     *)
(***************************************************************************)
ChunksInPage ==
    \A c \in chunks : /\ PageOf(c.addr) < count
                      /\ HDR <= Local(c.addr)
                      /\ Local(c.addr) + c.len <= PageSize

=============================================================================
