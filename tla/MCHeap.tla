------------------------------- MODULE MCHeap -------------------------------
(***************************************************************************)
(* Small instances of Heap: of the lengths 3, 4 and 5, a block of 4 is     *)
(* reused for 3 and one of 5 is not.                                       *)
(***************************************************************************)
EXTENDS Heap, TLC

KeySymmetry == Permutations(Keys) \cup Permutations(Vals)
=============================================================================
