------------------------------ MODULE Marshall ------------------------------
(***************************************************************************)
(* The operations of marshall.c on documents, and db_select() of core.c    *)
(* that combines them.  A node is a struct marshall; its number of         *)
(* children is a field of its own, and the operations do not always keep   *)
(* it in step with the children.                                           *)
(*                                                                         *)
(* A behaviour is one call, with a stored document and what a client sent. *)
(***************************************************************************)
EXTENDS Integers, Sequences, FiniteSets, SequencesExt

CONSTANTS
    Docs,       \* stored documents
    Args,       \* items that are attached or detached, and conditions
    Selectors,  \* sequences of names to select
    Elements,   \* names that an index may be on
    None        \* null pointer

VARIABLES doc, arg, call, out

vars == <<doc, arg, call, out>>

-----------------------------------------------------------------------------
(* Nodes *)

Scalar(type, name, data) == [type |-> type, name |-> name, data |-> data, size |-> 1, child |-> <<>>]

Node(type, name, child) == [type |-> type, name |-> name, data |-> None, size |-> Len(child), child |-> child]

HasDescent(x) == x.type \in {"ARRAY", "OBJECT"}

Kids(x) == SubSeq(x.child, 1, x.size)

SameScalar(x, y) == x.type = y.type /\ x.name = y.name /\ x.data = y.data

\* marshall_equal(): the names of nested items are not compared.
RECURSIVE Equal(_, _)
Equal(x, y) ==
    IF HasDescent(y)
    THEN x.type = y.type /\ x.size = y.size /\ \A i \in 1 .. x.size : Equal(x.child[i], y.child[i])
    ELSE ~HasDescent(x) /\ x.size = y.size /\ SameScalar(x, y)

\* marshall_match_any(): one pair in common is enough for objects.
RECURSIVE MatchAny(_, _)
MatchAny(x, y) ==
    CASE y.type = "OBJECT" -> x.type = "OBJECT" /\ \E i \in 1 .. x.size, j \in 1 .. y.size : MatchAny(x.child[i], y.child[j])
      [] y.type = "ARRAY"  -> x.type = "ARRAY" /\ x.size = y.size /\ \A i \in 1 .. x.size : MatchAny(x.child[i], y.child[i])
      [] OTHER -> ~HasDescent(x) /\ SameScalar(x, y)

RECURSIVE Copy(_)
Copy(x) == [x EXCEPT !.child = IF HasDescent(x) THEN [i \in 1 .. x.size |-> Copy(x.child[i])] ELSE <<>>]

-----------------------------------------------------------------------------
(* marshall_merge() *)

Push(x, y) == [x EXCEPT !.child = Append(Kids(x), y), !.size = @ + 1]

\* A scalar that is copied has no size.
Fresh(y) == IF HasDescent(y) THEN y ELSE [y EXCEPT !.size = 0]

AddedUnwrapped(x, new, y) ==         \* mutant: a pair joins an array as it is
    IF new.type = "OBJECT" THEN Fresh(y)
    ELSE IF HasDescent(y) /\ x.type = "ARRAY" THEN [y EXCEPT !.name = None]
    ELSE IF ~HasDescent(y) /\ x.type = "ARRAY" THEN Fresh(y)
    ELSE None

\* What becomes of one child of an object or an array that is merged into x.
\* None is an error.
Added(x, new, y) ==
    IF new.type = "OBJECT"
    THEN IF x.type = "ARRAY" THEN Node("OBJECT", None, <<Fresh(y)>>) ELSE Fresh(y)
    ELSE IF HasDescent(y) /\ ~(x.type = "OBJECT" /\ y.name = None) THEN [y EXCEPT !.name = None]
    ELSE IF ~HasDescent(y) /\ x.type = "ARRAY" THEN Fresh(y)
    ELSE None

\* What becomes of one child that joins a scalar: only its data is copied.
Bare(y) == [y EXCEPT !.name = None, !.size = 0, !.child = <<>>]

Merge(new, x) ==
    IF HasDescent(x)
    THEN IF HasDescent(new)
         THEN FoldLeft(LAMBDA z, y : IF z = None \/ Added(x, new, y) = None THEN None ELSE Push(z, Added(x, new, y)),
                       x, Kids(new))
         ELSE IF x.type = "OBJECT" THEN None
         ELSE Push(x, Fresh(new))
    ELSE IF new.type = "OBJECT" THEN None
    ELSE LET added == IF new.type = "ARRAY" THEN Kids(new) ELSE <<new>>
         IN  [x EXCEPT !.type = "ARRAY", !.size = 1 + Len(added),
                       !.child = <<Bare(x)>> \o [i \in DOMAIN added |-> Bare(added[i])]]

-----------------------------------------------------------------------------
(* marshall_separate() *)

ShiftLeftShort(kids, i, n) ==        \* mutant: the last child does not move
    [k \in DOMAIN kids |-> IF k \in i .. n - 2 THEN [kids[k + 1] EXCEPT !.size = kids[k].size] ELSE kids[k]]

\* shift_left(): the children after the i-th move down, but their sizes stay.
ShiftLeft(kids, i, n) ==
    [k \in DOMAIN kids |-> IF k \in i .. n - 1 THEN [kids[k + 1] EXCEPT !.size = kids[k].size] ELSE kids[k]]

TakeOut(x, i) ==
    LET kids == [x.child EXCEPT ![i].type = "NULL", ![i].data = None,
                                ![i].size = IF x.type = "OBJECT" THEN 0 ELSE @]
    IN  [x EXCEPT !.child = ShiftLeft(kids, i, x.size), !.size = @ - 1]

Filters(f) == IF f.type = "ARRAY" THEN Kids(f) ELSE <<f>>

Hit(f, y) == \E j \in DOMAIN Filters(f) : Equal(y, Filters(f)[j])

\* The loop over the children.  After a removal it goes on with the next place,
\* but with several items to remove it looks at the same place again, even if
\* that is now behind the last child; there a null item matches for ever.
RECURSIVE Walk(_, _, _, _)
Walk(f, x, i, again) ==
    IF i > x.size /\ ~again THEN x
    ELSE IF ~Hit(f, x.child[i]) THEN Walk(f, x, i + 1, FALSE)
    ELSE IF i > x.size THEN None
    ELSE IF f.type = "ARRAY" THEN Walk(f, TakeOut(x, i), i, TRUE)
    ELSE Walk(f, TakeOut(x, i), i + 1, FALSE)

Separate(f, x) ==
    IF HasDescent(x) THEN Walk(f, x, 1, FALSE)
    ELSE IF Hit(f, x) THEN [x EXCEPT !.type = "NULL", !.data = None, !.size = 0]
    ELSE x

-----------------------------------------------------------------------------
(* db_select() *)

ConditionFirst(f, x) ==              \* mutant: only the first condition counts
    LET Matches(y) == MatchAny(y, Filters(f)[1])
    IN  IF x.type = "ARRAY" THEN Node("ARRAY", None, SelectSeq(Kids(x), Matches))
        ELSE IF Matches(x) THEN Copy(x)
        ELSE None

\* marshall_condition(): of an array the children that match, one copy for each
\* condition they match; of anything else all or nothing.
Condition(f, x) ==
    LET Copies(y) == LET hits == SelectSeq(Filters(f), LAMBDA g : MatchAny(y, g))
                     IN  [j \in DOMAIN hits |-> Copy(y)]
    IN  IF x.type = "ARRAY" THEN Node("ARRAY", None, FlattenSeq([i \in 1 .. x.size |-> Copies(x.child[i])]))
        ELSE IF \E j \in DOMAIN Filters(f) : MatchAny(x, Filters(f)[j]) THEN Copy(x)
        ELSE None

\* marshall_filter()
RECURSIVE Filter(_, _)
Filter(names, x) ==
    LET Found(y) == SelectSeq(names, LAMBDA n : y.name # None /\ y.name = n)
        Chosen(y) == IF HasDescent(y)
                     THEN IF Filter(names, y).size > 0 THEN <<Filter(names, y)>> ELSE <<>>
                     ELSE [j \in DOMAIN Found(y) |-> [y EXCEPT !.size = 0]]
        chosen == FlattenSeq([i \in 1 .. x.size |-> Chosen(x.child[i])])
    IN  IF Found(x) # <<>> /\ x.size > 0 THEN x
        ELSE IF HasDescent(x) THEN Node(x.type, x.name, chosen)
        ELSE [Scalar("NULL", None, None) EXCEPT !.size = 0]

\* index_get() in an index on element e of a table (see module IndexTree): the
\* rows with the value, in some order, or a null pointer if there is none.
IndexGet(x, e, data) ==
    LET rows == SelectSeq(Kids(x), LAMBDA y : \E i \in 1 .. y.size : y.child[i].name = e /\ y.child[i].data = data)
    IN  IF rows = <<>> THEN None ELSE Node("ARRAY", None, rows)

WhereFirst(x, e, f) ==               \* mutant: the first of several conditions decides
    LET first(g) == g.child[1]
        parts == [j \in 1 .. f.size |-> IndexGet(x, e, first(f.child[j]).data)]
    IN  IF e # None /\ f.type = "ARRAY" /\ first(f.child[1]).name = e
        THEN FoldLeft(LAMBDA z, p : IF p = None THEN z ELSE Merge(p, z), Node("ARRAY", None, <<>>), parts)
        ELSE Condition(f, x)

\* The condition, with an index on element e, or e = None and no index.
Where(x, e, f) ==
    LET first(g) == g.child[1]
        parts == [j \in 1 .. f.size |-> IndexGet(x, e, first(f.child[j]).data)]
    IN  IF e # None /\ f.type = "OBJECT" /\ first(f).name = e THEN IndexGet(x, e, first(f).data)
        ELSE IF e # None /\ f.type = "ARRAY" /\ \A j \in 1 .. f.size : first(f.child[j]).name = e
        THEN FoldLeft(LAMBDA z, p : IF p = None THEN z ELSE Merge(p, z), Node("ARRAY", None, <<>>), parts)
        ELSE Condition(f, x)

\* A condition that leaves nothing is forgotten if there is a selector.
DbSelect(x, e, f, names) ==
    LET w == Where(x, e, f)
    IN  IF names = <<>> THEN w ELSE Filter(names, IF w = None THEN x ELSE w)

-----------------------------------------------------------------------------
(* Calls *)

IsTable(x) == x.type = "ARRAY" /\ \A i \in 1 .. x.size : x.child[i].type = "OBJECT"

Init == /\ doc \in Docs
        /\ arg \in Args
        /\ call = "none"
        /\ out = None

Return(name, value) == /\ call = "none"
                       /\ call' = name
                       /\ out' = value
                       /\ UNCHANGED <<doc, arg>>

CallMerge == Return("merge", Merge(arg, doc))

CallSeparate == Return("separate", Separate(arg, doc))

\* Tables may have an index.  The conditions on them are objects.
CallSelect ==
    \E e \in Elements, names \in Selectors :
        /\ IsTable(doc)
        /\ arg.type = "OBJECT" \/ IsTable(arg)
        /\ Return("select", [e |-> e, names |-> names,
                             index |-> DbSelect(doc, e, arg, names),
                             scan  |-> DbSelect(doc, None, arg, names)])

\* Anything else has none.
CallScan ==
    /\ ~IsTable(doc)
    /\ Return("scan", Condition(arg, doc))

Next == CallMerge \/ CallSeparate \/ CallSelect \/ CallScan

Spec == Init /\ [][Next]_vars

-----------------------------------------------------------------------------
(* Properties *)

TypeOK ==
    /\ doc \in Docs /\ arg \in Args
    /\ call \in {"none", "merge", "separate", "select", "scan"}
    /\ (call \in {"merge", "separate"} /\ out # None) =>
           /\ out.type \in {"NULL", "INT", "ARRAY", "OBJECT"}
           /\ HasDescent(out) => out.size \in 0 .. Len(out.child)
           /\ ~HasDescent(out) => out.child = <<>> /\ (out.type = "NULL" <=> out.data = None)

\* What slay_put() stores of a node.
RECURSIVE Written(_)
Written(x) ==
    IF HasDescent(x) THEN [type |-> x.type, name |-> x.name, items |-> [i \in 1 .. x.size |-> Written(x.child[i])]]
    ELSE [type |-> x.type, name |-> x.name, items |-> <<x.data>>]

WrittenKids(x) == [i \in 1 .. x.size |-> Written(x.child[i])]

Flat(x) == \A i \in 1 .. x.size : HasDescent(x) => ~HasDescent(x.child[i])

(***************************************************************************)
(* db_item_add() stores what marshall_merge() returns: all items that were *)
(* there, in their order, and then the new ones; pairs that join an array  *)
(* become objects.  It refuses exactly the pairs without a name and the    *)
(* objects that would join a scalar.  (Nested items that join a scalar     *)
(* lose their contents and are left out.)                                  *)
(***************************************************************************)
MergeAppends ==
    LET Part(x) == IF HasDescent(x) THEN WrittenKids(x) ELSE <<Written(x)>>
        Wrapped(s) == [i \in DOMAIN s |-> [type |-> "OBJECT", name |-> None, items |-> <<s[i]>>]]
        fits == IF doc.type = "OBJECT" THEN arg.type = "OBJECT" ELSE HasDescent(doc) \/ arg.type # "OBJECT"
    IN  (call = "merge" /\ (HasDescent(doc) \/ Flat(arg))) =>
            /\ (out # None) <=> fits
            /\ fits => WrittenKids(out) = Part(doc) \o
                   IF doc.type = "ARRAY" /\ arg.type = "OBJECT" THEN Wrapped(Part(arg)) ELSE Part(arg)

(***************************************************************************)
(* db_item_remove() stores what marshall_separate() returns: of items that *)
(* are not nested, those that were not asked to be removed, in their       *)
(* order.  (Left out: a single item to remove from a record that has it    *)
(* twice in succession, of which one stays, and a null in a list of items  *)
(* to remove, with which the loop does not end.)                           *)
(***************************************************************************)
SeparateExact ==
    LET kids == WrittenKids(doc)
        gone == {Written(Filters(arg)[j]) : j \in DOMAIN Filters(arg)}
        twice == \E i \in 1 .. doc.size - 1 : kids[i] = kids[i + 1]
        null == \E x \in gone : x.type = "NULL"
    IN  (call = "separate" /\ HasDescent(doc) /\ Flat(doc) /\ ~IF arg.type = "ARRAY" THEN null ELSE twice) =>
            WrittenKids(out) = SelectSeq(kids, LAMBDA y : y \notin gone)

Pairs(x) == {Written(x.child[i]) : i \in 1 .. x.size}

\* The rows of a result and how often each is in it.
Rows(x) == LET rows == WrittenKids(x)
           IN  [y \in ToSet(rows) |-> Cardinality({i \in DOMAIN rows : rows[i] = y})]

(***************************************************************************)
(* A condition selects from a table the rows that have a pair in common    *)
(* with it; with several conditions, a row once for each that it meets.    *)
(***************************************************************************)
ConditionRows ==
    (call = "select" /\ out.names = <<>>) =>
        LET met(y) == Cardinality({j \in DOMAIN Filters(arg) : Pairs(y) \cap Pairs(Filters(arg)[j]) # {}})
            Times(n, y) == [j \in 1 .. n |-> Written(y)]
        IN  WrittenKids(out.scan) = FlattenSeq([i \in 1 .. doc.size |-> Times(met(doc.child[i]), doc.child[i])])

(***************************************************************************)
(* "Can indexes be used" (db_select): an index changes how rows are found  *)
(* and not which, for conditions on one element that some row meets,       *)
(* whatever is selected from them.                                         *)
(***************************************************************************)
IndexAgrees ==
    ( /\ call = "select"
      /\ \A j \in DOMAIN Filters(arg) : Filters(arg)[j].size = 1
      /\ Where(doc, None, arg).size > 0 ) => Rows(out.index) = Rows(out.scan)
=============================================================================
