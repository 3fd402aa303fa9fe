------------------------------- MODULE MCPager -------------------------------
(***************************************************************************)
(* Small instances of Pager: a page has room for two small chunks or one   *)
(* large one.                                                              *)
(***************************************************************************)
EXTENDS Pager

MCLens == {2, 4}

ASSUME \A len \in MCLens : Fits(len)
=============================================================================
