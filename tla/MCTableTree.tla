----------------------------- MODULE MCTableTree -----------------------------
(***************************************************************************)
(* Small instances of TableTree: tables of at most three items, so that    *)
(* the fourth splits, and bases that already hold enough records for two   *)
(* or three levels.                                                        *)
(***************************************************************************)
EXTENDS TableTree

Load(n, preload, metas, ops) ==
    [keys |-> 1 .. n, preload |-> preload, metas |-> metas, ops |-> ops]

Falling(n) == [i \in 1 .. n |-> n + 1 - i]

Plain == {{}}

Locking == {{}, {"freeze"}}

\* The same keys as even numbers, so that others come before, between and after.
Spread(preload) == [i \in DOMAIN preload |-> 2 * preload[i]]

Rising(n) == [i \in 1 .. n |-> i]

\* Any order of insertions and purges; purges of a tree of three levels; records
\* that are recycled and locked; a vacuum between updates and purges of a tree of
\* two levels.
Whole == {Load(5, <<>>, Plain, {"insert", "purge"}),
          Load(9, Falling(9), Plain, {"purge"}),
          Load(4, <<>>, Plain, {"insert", "purge", "recycle"}),
          Load(4, <<>>, Locking, {"insert", "purge", "setmeta"}),
          Load(5, Falling(5), Locking, {"purge", "setmeta", "recycle"}),
          Load(6, Falling(6), Plain, {"purge", "vacuum", "update"})}

\* Calls that are cut short: after any others of four keys, and in trees of up to
\* three levels, some of which an insertion splits from a leaf to the top.
Interrupted ==
    {Load(4, <<>>, Plain, {"insert", "purge", "update", "interrupt"})}
      \cup {Load(2 * n + 1, Spread(Rising(n)), Plain, {"interrupt"}) : n \in 4 .. 17}
      \cup {Load(2 * n + 1, Spread(Falling(n)), Plain, {"interrupt"}) : n \in 4 .. 17}
      \cup {Load(11, Spread(Falling(5)), Plain, {"purge", "interrupt"})}

Sound == Whole \cup Interrupted

\* A key that is not there is purged.
Missing == {Load(6, Falling(6), Plain, {"purge", "missing"})}

\* Records with different metadata.
Marked == {Load(5, <<>>, Locking, {"insert", "purge", "setmeta"})}
=============================================================================
