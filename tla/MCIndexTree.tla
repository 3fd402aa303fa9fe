----------------------------- MODULE MCIndexTree -----------------------------
(***************************************************************************)
(* Small instances of IndexTree, with the node size of the program: any    *)
(* order of additions and removals, removals from a tree of three levels,  *)
(* and rows that share their values.                                       *)
(***************************************************************************)
EXTENDS IndexTree

Load(rows, made, touch) ==
    [keys |-> {e[1] : e \in rows}, rows |-> rows, made |-> made, touch |-> touch]

Row(i) == <<i, 10 + i>>

Rising(n) == [i \in 1 .. n |-> Row(i)]

Doubled == Load((1 .. 2) \X (11 .. 13), <<>>, {1, 2})

Deep(touch) == Load(ToSet(Rising(17)), Rising(17), touch)

Indexes == {Load(ToSet(Rising(8)), <<>>, 1 .. 8),
            Deep({2, 6, 9, 17}), Deep({1, 6, 12, 16}), Doubled}

SharedValues == {Doubled}
=============================================================================
