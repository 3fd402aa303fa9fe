--------------------------- MODULE PageArithProofs ---------------------------
(***************************************************************************)
(* Facts about the pager's address arithmetic, for every page size.        *)
(***************************************************************************)
EXTENDS PageArith, TLAPS

\* Position r of page n is at address n * PageSize + r.
LEMMA Compose ==
    ASSUME NEW n \in Nat, NEW r \in Nat, r < PageSize
    PROVE  /\ Local(n * PageSize + r) = r
           /\ PageOf(n * PageSize + r) = n
BY SizeAssumption DEF Local, PageOf

\* Every address is a position of a page.
LEMMA Decompose ==
    ASSUME NEW a \in Nat
    PROVE  /\ Local(a) \in Nat
           /\ Local(a) < PageSize
           /\ PageOf(a) \in Nat
           /\ a = PageOf(a) * PageSize + Local(a)
BY SizeAssumption DEF Local, PageOf

\* Moving forward inside a page stays in the page.
LEMMA StayInPage ==
    ASSUME NEW a \in Nat, NEW len \in Nat, Local(a) + len < PageSize
    PROVE  /\ Local(a + len) = Local(a) + len
           /\ PageOf(a + len) = PageOf(a)
BY SizeAssumption DEF Local, PageOf

\* An address of an earlier page is smaller than every address of page n.
LEMMA EarlierPage ==
    ASSUME NEW a \in Nat, NEW n \in Nat, PageOf(a) < n
    PROVE  a < n * PageSize
BY SizeAssumption DEF PageOf

\* The page number does not decrease with the address.
LEMMA PageMonotone ==
    ASSUME NEW a \in Nat, NEW b \in Nat, a <= b
    PROVE  PageOf(a) <= PageOf(b)
BY SizeAssumption DEF PageOf
=============================================================================
