---------------------------- MODULE PageRequests ----------------------------
(***************************************************************************)
(* What the callers of the pager ask of it, for the abstract allocator and *)
(* for the pager that implements it.                                       *)
(***************************************************************************)
EXTENDS PageArith

CONSTANTS
    Lens,       \* the lengths that callers ask for
    MaxPages    \* bound: pages created

ASSUME LensAssumption == Lens \subseteq Nat \ {0}

ASSUME BoundAssumption == MaxPages \in Nat \ {0}

=============================================================================
