----------------------------- MODULE MCDatabase -----------------------------
(***************************************************************************)
(* Small instances of Database.  Clean workloads keep to the requests      *)
(* after which the lists and the records agree; the others take every      *)
(* request.                                                                *)
(***************************************************************************)
EXTENDS Database

Load(clean, keys, aliases, inputs, items, ops) ==
    [clean |-> clean, keys |-> keys, aliases |-> aliases, inputs |-> inputs, items |-> items, ops |-> ops]

v == CHOOSE x \in Vals : TRUE
w == CHOOSE x \in Vals : x # v
a == CHOOSE x \in Elements : TRUE
b == CHOOSE x \in Elements : x # a

Table == Items("ARRAY", <<Item(None, Object(a, v)), Item(None, Object(a, w))>>)
Set == Items("OBJECT", <<Item(a, Object(a, v)), Item(b, Object(b, w))>>)

Rows == {Object(a, v), Object(b, w), Field(v)}

\* Records and groups; tables with indexes, and copies of them; sets.
Sound ==
    {Load(TRUE, 5, 4, {Table, Field(v)}, {}, {"put", "update", "dup", "alias", "delete", "purge"}),
     Load(TRUE, 7, 4, {Table}, {Object(a, v), Object(a, w)},
          {"put", "item", "index", "rebuild", "delete", "vacuum"}),
     Load(TRUE, 8, 4, {Table}, {Object(a, w)}, {"put", "update", "item", "index", "rebuild", "purge"}),
     Load(TRUE, 8, 5, {Table}, {Object(a, w)}, {"put", "index", "dup", "item", "delete"}),
     Load(TRUE, 10, 4, {Set}, Rows, {"put", "item", "dup", "delete"})}

\* Requests that a clean workload leaves out as well.
Wild ==
    {Load(FALSE, 4, 3, {Table, Field(v)}, {}, {"put", "update", "alias", "setmeta", "delete", "purge"}),
     Load(FALSE, 6, 4, {Table}, Rows, {"put", "item", "index", "rebuild", "dup", "delete", "vacuum"})}

All == Sound \cup Wild

\* A group that is updated to be none.
Ungroup == {Load(FALSE, 4, 1, {Table, Field(v)}, {}, {"put", "update", "delete"})}

NameSymmetry == Permutations(Names)
=============================================================================
