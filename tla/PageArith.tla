------------------------------ MODULE PageArith ------------------------------
(***************************************************************************)
(* The address arithmetic of pager.c.  The pager's address space is cut    *)
(* into pages; every page begins with a header (struct _page), and an      *)
(* address is a page number times the page size plus a position inside     *)
(* that page.                                                              *)
(***************************************************************************)
EXTENDS Integers

CONSTANTS
    PageSize,   \* BASE_PAGE_SIZE << base->pager.size
    HDR         \* sizeof(struct _page)

ASSUME SizeAssumption == /\ PageSize \in Nat
                         /\ HDR \in Nat \ {0}
                         /\ HDR < PageSize

(***************************************************************************)
(* pager_get_fd(): the page an address lies in, the position inside it.    *)
(***************************************************************************)
PageOf(addr) == addr \div PageSize

Local(addr) == addr % PageSize

(***************************************************************************)
(* pager_alloc(): with the allocation point at addr and n pages open, does *)
(* a request of len bytes need a page of its own, how many pages are open  *)
(* after it, and which address does it return.                             *)
(***************************************************************************)
NeedsPage(addr, len) == Local(addr) + len >= PageSize

CountAfter(addr, n, len) == IF NeedsPage(addr, len) THEN n + 1 ELSE n

AddrOf(addr, n, len) == IF NeedsPage(addr, len) THEN n * PageSize + HDR ELSE addr

(***************************************************************************)
(* A request that leaves room for the header in a page.  pager_alloc()     *)
(* does not look at this; the properties of module Allocator need it of    *)
(* every length, and a longer request breaks them.                         *)
(***************************************************************************)
Fits(len) == HDR + len < PageSize

=============================================================================
