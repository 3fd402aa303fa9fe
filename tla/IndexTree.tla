------------------------------ MODULE IndexTree ------------------------------
(***************************************************************************)
(* The B-tree of an index (btree.c) and the operations of index.c on it.   *)
(* An index maps the value that a row has in the indexed column to the     *)
(* block of the row; the value is the key here, and rows may share it:     *)
(* every index the program makes has unique_keys off.                      *)
(*                                                                         *)
(* A node is [items, ptr]: ptr[i] is the child left of items[i], 0 is no   *)
(* child (-1 in the code).  What an unused node holds besides its link to  *)
(* the next one is left out.  During an operation the root node is also    *)
(* kept in memory (rootnode); get_node() prefers that copy.                *)
(***************************************************************************)
EXTENDS Integers, Sequences, FiniteSets, SequencesExt

CONSTANTS
    MSize,      \* INDEX_MSIZE; a node holds up to INDEX_SIZE = 2 * MSize items
    Workloads   \* rows that are added and removed, one of these per behaviour:
                \*   keys  values of the indexed column, as strcmp() orders them,
                \*   rows  pairs of a value and the block of a row,
                \*   made  the rows the index is created with,
                \*   touch values of which rows are added and removed later

ASSUME IndexAssumption ==
    /\ MSize \in Nat \ {0}
    /\ \A load \in Workloads : /\ load.rows \subseteq load.keys \X Nat
                               /\ load.made \in Seq(load.rows)
                               /\ load.touch \subseteq load.keys

VARIABLES
    load,       \* the workload
    idx,        \* the index as stored: nodes, root, free list
    held        \* rows added and not removed again, per value

vars == <<load, idx, held>>

-----------------------------------------------------------------------------
(* Nodes *)

\* btree_open() and btree_close(): root, free list and the root node.
Open(s) == [node |-> s.node, root |-> s.root, free |-> s.free,
            rootnode |-> IF s.root = 0 THEN <<>> ELSE s.node[s.root]]

Close(s) == [node |-> IF s.root = 0 THEN s.node ELSE [s.node EXCEPT ![s.root] = s.rootnode],
             root |-> s.root, free |-> s.free]

GetNode(s, at) == IF at = s.root THEN s.rootnode ELSE s.node[at]

FlushNode(s, at, node) ==
    [s EXCEPT !.node[at] = node, !.rootnode = IF at = s.root THEN node ELSE @]

Link(to) == [items |-> <<>>, ptr |-> <<to>>]

AllocNode(s) ==
    IF s.free = 0
      THEN [at |-> Len(s.node) + 1, s |-> [s EXCEPT !.node = Append(@, Link(0))]]
      ELSE [at |-> s.free, s |-> [s EXCEPT !.free = GetNode(s, s.free).ptr[1]]]

FreeNodeLost(s, at) ==                  \* mutant: the rest of the list is dropped
    FlushNode([s EXCEPT !.free = at], at, Link(0))

FreeNode(s, at) == FlushNode([s EXCEPT !.free = at], at, Link(s.free))

\* get(): the position of the first item that is not less than the key.
RECURSIVE Bisect(_, _, _, _)
Bisect(key, items, left, right) ==
    LET i == (left + right) \div 2
    IN  IF right - left <= 1 THEN right
        ELSE IF key <= items[i].key THEN Bisect(key, items, left, i)
        ELSE Bisect(key, items, i, right)

Get(key, items) ==
    IF key <= items[1].key THEN 1
    ELSE IF key > items[Len(items)].key THEN Len(items) + 1
    ELSE Bisect(key, items, 1, Len(items))

IsItem(node, i, key) == i <= Len(node.items) /\ node.items[i].key = key

-----------------------------------------------------------------------------
(* Lookup *)

\* btree_get(): the rows with the key in every node on one path down.
RECURSIVE GetFrom(_, _, _)
GetFrom(s, at, key) ==
    LET node == GetNode(s, at)
        i    == Get(key, node.items)
    IN  IF at = 0 THEN {}
        ELSE {node.items[x].row : x \in {y \in i .. Len(node.items) : IsItem(node, y, key)}}
               \cup GetFrom(s, node.ptr[i], key)

IndexGet(s, key) == GetFrom(Open(s), s.root, key)

\* traverse_node(): all items, those of a node before those of its children.
RECURSIVE Traverse(_, _)
Traverse(s, at) ==
    IF at = 0 THEN <<>>
    ELSE FoldLeft(LAMBDA seq, kid : seq \o Traverse(s, kid),
                  GetNode(s, at).items, GetNode(s, at).ptr)

IndexAll(s) == Traverse(Open(s), s.root)

-----------------------------------------------------------------------------
(* Insertion *)

\* insert(): unless it is complete, the item and the node to its right remain
\* to be inserted one level up.
RECURSIVE Insert(_, _, _)
Insert(s, item, at) ==
    LET node  == GetNode(s, at)
        i     == Get(item.key, node.items)
        r     == Insert(s, item, node.ptr[i])
        \* room left: the position is looked up again
        j     == Get(r.item.key, node.items)
        \* no room left: the augmented sequence is split
        items == InsertAt(node.items, i, r.item)
        ptr   == InsertAt(node.ptr, i + 1, r.right)
        new   == AllocNode(r.s)
        left  == [items |-> SubSeq(items, 1, MSize), ptr |-> SubSeq(ptr, 1, MSize + 1)]
        right == [items |-> SubSeq(items, MSize + 2, 2 * MSize + 1),
                  ptr   |-> SubSeq(ptr, MSize + 2, 2 * MSize + 2)]
    IN  IF at = 0 THEN [s |-> s, complete |-> FALSE, item |-> item, right |-> 0]
        ELSE IF r.complete THEN r
        ELSE IF Len(node.items) < 2 * MSize
          THEN [r EXCEPT !.complete = TRUE,
                         !.s = FlushNode(r.s, at, [items |-> InsertAt(node.items, j, r.item),
                                                   ptr   |-> InsertAt(node.ptr, j + 1, r.right)])]
          ELSE [s        |-> FlushNode(FlushNode(new.s, at, left), new.at, right),
                complete |-> FALSE, item |-> items[MSize + 1], right |-> new.at]

\* btree_insert(): what remains becomes a new root.
BtreeInsert(s, key, row) ==
    LET r    == Insert(s, [key |-> key, row |-> row], s.root)
        new  == AllocNode(r.s)
        root == [items |-> <<r.item>>, ptr |-> <<s.root, r.right>>]
    IN  IF r.complete THEN r.s
        ELSE FlushNode([new.s EXCEPT !.root = new.at], new.at, root)

-----------------------------------------------------------------------------
(* Removal *)

\* The leaf that holds the largest item of a subtree.
RECURSIVE Rightmost(_, _)
Rightmost(s, at) == LET to == GetNode(s, at).ptr[Len(GetNode(s, at).items) + 1]
                    IN  IF to = 0 THEN at ELSE Rightmost(s, to)

FillLoose(s, at, node) ==               \* mutant: one item less is enough
    IF Len(node.items) >= (IF at = s.root THEN 1 ELSE MSize - 1) THEN "SUCCESS" ELSE "UNDERFLOW"

Fill(s, at, node) ==
    IF Len(node.items) >= (IF at = s.root THEN 1 ELSE MSize) THEN "SUCCESS" ELSE "UNDERFLOW"

\* A key found above the leaves changes places with the largest item left of it.
ExchangeOneWay(s, at, i, key) ==        \* mutant: the leaf keeps its key
    LET leaf == GetNode(s, Rightmost(s, GetNode(s, at).ptr[i]))
    IN  FlushNode(s, at, [GetNode(s, at) EXCEPT !.items[i] = Last(leaf.items)])

Exchange(s, at, i, key) ==
    LET q    == Rightmost(s, GetNode(s, at).ptr[i])
        leaf == GetNode(s, q)
    IN  FlushNode(FlushNode(s, at, [GetNode(s, at) EXCEPT !.items[i] = Last(leaf.items)]),
                  q, [leaf EXCEPT !.items[Len(leaf.items)].key = key])

\* The child that holds too few items, at ptr[i], takes an item from the sibling
\* on its left or on its right, through the item between them.
BorrowLeft(s, at, i) ==
    LET node == GetNode(s, at)
        l    == GetNode(s, node.ptr[i - 1])
        r    == GetNode(s, node.ptr[i])
        s1   == FlushNode(s, at, [node EXCEPT !.items[i - 1] = Last(l.items)])
        s2   == FlushNode(s1, node.ptr[i - 1], [items |-> Front(l.items), ptr |-> Front(l.ptr)])
    IN  FlushNode(s2, node.ptr[i], [items |-> <<node.items[i - 1]>> \o r.items,
                                    ptr   |-> <<Last(l.ptr)>> \o r.ptr])

BorrowRight(s, at, i) ==
    LET node == GetNode(s, at)
        l    == GetNode(s, node.ptr[i])
        r    == GetNode(s, node.ptr[i + 1])
        s1   == FlushNode(s, at, [node EXCEPT !.items[i] = Head(r.items)])
        s2   == FlushNode(s1, node.ptr[i], [items |-> Append(l.items, node.items[i]),
                                            ptr   |-> Append(l.ptr, Head(r.ptr))])
    IN  FlushNode(s2, node.ptr[i + 1], [items |-> Tail(r.items), ptr |-> Tail(r.ptr)])

\* The children left and right of items[i] and that item become one node.
MergeNodes(s, at, i) ==
    LET node == GetNode(s, at)
        l    == GetNode(s, node.ptr[i])
        r    == GetNode(s, node.ptr[i + 1])
        s1   == FreeNode(s, node.ptr[i + 1])
        s2   == FlushNode(s1, at, [items |-> RemoveAt(node.items, i), ptr |-> RemoveAt(node.ptr, i + 1)])
    IN  FlushNode(s2, node.ptr[i], [items |-> Append(l.items, node.items[i]) \o r.items,
                                    ptr   |-> l.ptr \o r.ptr])

\* The underflow of ptr[i]: borrow, and if neither sibling has an item to spare,
\* merge with the right one, or with the left one at the right end.
Repair(s, at, i) ==
    LET node    == GetNode(s, at)
        Spare(c) == Len(GetNode(s, node.ptr[c]).items) > MSize
        atEnd   == i = Len(node.items) + 1
    IN  IF ~atEnd /\ Spare(i + 1) THEN [s |-> BorrowRight(s, at, i), code |-> "SUCCESS"]
        ELSE IF i > 1 /\ Spare(i - 1) THEN [s |-> BorrowLeft(s, at, i), code |-> "SUCCESS"]
        ELSE LET merged == MergeNodes(s, at, IF atEnd THEN i - 1 ELSE i)
             IN  [s |-> merged, code |-> Fill(merged, at, GetNode(merged, at))]

\* delete()
RECURSIVE Delete(_, _, _)
Delete(s, key, at) ==
    LET node == GetNode(s, at)
        i    == Get(key, node.items)
        cut  == [items |-> RemoveAt(node.items, i), ptr |-> RemoveAt(node.ptr, i + 1)]
        r    == Delete(IF IsItem(node, i, key) THEN Exchange(s, at, i, key) ELSE s,
                       key, node.ptr[i])
    IN  IF at = 0 THEN [s |-> s, code |-> "NOTFOUND"]
        ELSE IF node.ptr[1] = 0
          THEN IF ~IsItem(node, i, key) THEN [s |-> s, code |-> "NOTFOUND"]
               ELSE [s |-> FlushNode(s, at, cut), code |-> Fill(s, at, cut)]
        ELSE IF r.code = "UNDERFLOW" THEN Repair(r.s, at, i)
        ELSE r

\* btree_delete(): a root without items gives way to its only child.
BtreeDelete(s, key) ==
    LET r    == Delete(s, key, s.root)
        to   == r.s.rootnode.ptr[1]
        gone == FreeNode(r.s, s.root)
    IN  IF r.code # "UNDERFLOW" THEN r
        ELSE [s    |-> [gone EXCEPT !.root = to,
                                    !.rootnode = IF to = 0 THEN @ ELSE GetNode(gone, to)],
              code |-> "SUCCESS"]

-----------------------------------------------------------------------------
(* Operations *)

\* btree_create() and index_btree_create_table(), index_btree_create_set()
Created(made) ==
    Close(FoldLeft(LAMBDA s, e : BtreeInsert(s, e[1], e[2]),
                   Open([node |-> <<>>, root |-> 0, free |-> 0]), made))

Init ==
    /\ load \in Workloads
    /\ idx = Created(load.made)
    /\ held = [key \in load.keys |-> Cardinality({i \in DOMAIN load.made : load.made[i][1] = key})]

Entries(s) == {<<e.key, e.row>> : e \in ToSet(IndexAll(s))}

\* index_add(): a row is in the index once.
IndexAdd(key, row) ==
    /\ <<key, row>> \notin Entries(idx)
    /\ Len(IndexAll(idx)) < Cardinality(load.rows)
    /\ idx' = Close(BtreeInsert(Open(idx), key, row))
    /\ held' = [held EXCEPT ![key] = @ + 1]
    /\ UNCHANGED load

\* index_delete(): one row with the value.
IndexDelete(key) ==
    /\ idx' = Close(BtreeDelete(Open(idx), key).s)
    /\ held' = [held EXCEPT ![key] = IF @ = 0 THEN 0 ELSE @ - 1]
    /\ UNCHANGED load

Next ==
    \/ \E e \in load.rows : e[1] \in load.touch /\ IndexAdd(e[1], e[2])
    \/ \E key \in load.touch : IndexDelete(key)

Spec == Init /\ [][Next]_vars

-----------------------------------------------------------------------------
(* Properties *)

TypeOK ==
    /\ load \in Workloads
    /\ DOMAIN idx = {"node", "root", "free"}
    /\ {idx.root, idx.free} \subseteq 0 .. Len(idx.node)
    /\ \A at \in DOMAIN idx.node :
         /\ \A e \in ToSet(idx.node[at].items) : e.key \in load.keys /\ e.row \in Nat
         /\ idx.node[at].ptr \in Seq(0 .. Len(idx.node))
    /\ held \in [load.keys -> Nat]

\* The nodes of the tree and of the free list, each as often as it is reached.
RECURSIVE Reached(_)
Reached(at) == IF at = 0 THEN <<>>
               ELSE FoldLeft(LAMBDA seq, kid : seq \o Reached(kid), <<at>>, idx.node[at].ptr)

RECURSIVE FreeList(_)
FreeList(at) == IF at = 0 THEN <<>> ELSE <<at>> \o FreeList(idx.node[at].ptr[1])

(***************************************************************************)
(* Every node is reached exactly once, from the root or from the free      *)
(* list: splits, merges and the replacement of the root share no node and  *)
(* lose none, and the copy of the root in memory never overwrites a node   *)
(* with an older one.                                                      *)
(***************************************************************************)
NodesOwned ==
    LET seq == Reached(idx.root) \o FreeList(idx.free)
    IN  Len(seq) = Len(idx.node) /\ ToSet(seq) = DOMAIN idx.node

RECURSIVE Depths(_)
Depths(at) == IF at = 0 THEN {0}
              ELSE {d + 1 : d \in UNION {Depths(kid) : kid \in ToSet(idx.node[at].ptr)}}

(***************************************************************************)
(* The tree is balanced, and every node but the root is at least half      *)
(* full: insert() and delete() index the arrays of a node relying on it.   *)
(***************************************************************************)
Balanced ==
    /\ \E d \in 0 .. Len(idx.node) : Depths(idx.root) = {d}
    /\ \A at \in ToSet(Reached(idx.root)) :
         /\ Len(idx.node[at].items) \in (IF at = idx.root THEN 1 ELSE MSize) .. 2 * MSize
         /\ Len(idx.node[at].ptr) = Len(idx.node[at].items) + 1

(***************************************************************************)
(* While no two rows share a value, index_get() finds the row with the     *)
(* value that is asked for, and no row after it was removed: no addition   *)
(* or removal of another row changes that.                                 *)
(***************************************************************************)
Shared == \E e, f \in load.rows : e # f /\ e[1] = f[1]

UniqueFound ==
    ~Shared => \A key \in load.keys :
        /\ Cardinality(IndexGet(idx, key)) = held[key]
        /\ \A row \in IndexGet(idx, key) : <<key, row>> \in load.rows

(***************************************************************************)
(* index_get() finds every row of the index with the value.                *)
(***************************************************************************)
AllFound == \A e \in Entries(idx) : e[2] \in IndexGet(idx, e[1])

(***************************************************************************)
(* The index holds every row that was added and not removed, and each once *)
(* ("Exchange k[i] with the rightmost item in that leaf" moves an item, it *)
(* copies none), even if rows share a value.                               *)
(***************************************************************************)
RowsKept ==
    \A key \in load.keys : Cardinality({e \in Entries(idx) : e[1] = key}) = held[key]
=============================================================================
