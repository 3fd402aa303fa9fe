------------------------------ MODULE DocStore ------------------------------
(***************************************************************************)
(* What a client may rely on when it keeps to the requests of a clean      *)
(* workload (module Database): a map from the keys it was given to         *)
(* documents.  A request creates, replaces, extends, shortens or drops the *)
(* one document it names, and no request disturbs another one, although    *)
(* groups are stored as several records, and names and indexes as lists    *)
(* that all records share.                                                 *)
(***************************************************************************)
EXTENDS Integers, Sequences

CONSTANTS
    Inputs,     \* documents that clients send
    Attached,   \* items that clients attach to groups and detach from them
    FieldOf(_)  \* a scalar as an item

VARIABLE docs   \* a function from keys to documents

Init == docs = <<>>

\* A new document gets a key that no document has.
Added(d) ==
    \E k \in DOMAIN docs' : /\ k \notin DOMAIN docs
                            /\ docs' = [j \in DOMAIN docs \cup {k} |-> IF j = k THEN d ELSE docs[j]]

Put == \E d \in Inputs : Added(d)

Duplicate == \E k \in DOMAIN docs : Added(docs[k])

Replaced(k, d) == docs' = [docs EXCEPT ![k] = d]

Update == \E k \in DOMAIN docs, d \in Inputs : Replaced(k, d)

\* An item of an object has its own name; a scalar gets one.
Attach ==
    \E k \in DOMAIN docs, x \in Attached :
        LET With(i) == Replaced(k, [docs[k] EXCEPT !.items = Append(@, i)])
        IN  IF docs[k].kind = "ARRAY" THEN With([name |-> docs[k].el, data |-> x])
            ELSE IF x.kind = "OBJECT" THEN With([name |-> x.el, data |-> FieldOf(x.val)])
            ELSE k \in DOMAIN docs' /\ Len(docs'[k].items) > 0 /\
                 With([name |-> docs'[k].items[Len(docs'[k].items)].name, data |-> x])

\* The first item that is equal goes; of an object, only the first item with the
\* name is considered.
Detach ==
    \E k \in DOMAIN docs, x \in Attached : \E i \in DOMAIN docs[k].items :
        LET items == docs[k].items
            y == IF docs[k].kind = "ARRAY" THEN x ELSE FieldOf(x.val)
            Before(j) == IF docs[k].kind = "ARRAY" THEN items[j].data = x ELSE items[j].name = x.el
        IN  /\ Before(i) /\ items[i].data = y
            /\ \A j \in 1 .. i - 1 : ~Before(j)
            /\ Replaced(k, [docs[k] EXCEPT !.items = SubSeq(@, 1, i - 1) \o SubSeq(@, i + 1, Len(@))])

Drop == \E k \in DOMAIN docs : docs' = [j \in DOMAIN docs \ {k} |-> docs[j]]

Next == Put \/ Duplicate \/ Update \/ Attach \/ Detach \/ Drop

Spec == Init /\ [][Next]_docs
=============================================================================
