----------------------------- MODULE MCMarshall -----------------------------
(* Small documents for Marshall. *)
EXTENDS Marshall

CONSTANTS Vals

Ints == {Scalar("INT", None, v) : v \in Vals}
Null == Scalar("NULL", None, None)
Fields == {Scalar("INT", e, v) : e \in Elements, v \in Vals}

Seqs(S, n) == UNION {[1 .. m -> S] : m \in 1 .. n}

\* Objects with one or two pairs.
Objects == {Node("OBJECT", None, s) : s \in {t \in Seqs(Fields, 2) : Len(t) = 2 => t[1].name # t[2].name}}

Arrays == {Node("ARRAY", None, s) : s \in Seqs(Ints \cup {Null}, 3)}

Tables == {Node("ARRAY", None, s) : s \in Seqs(Objects, 2)}

\* An item of every kind, under a name.
Nested == {Node("OBJECT", None, <<Scalar("INT", e, v), [x EXCEPT !.name = f]>>) :
              e \in Elements, f \in Elements, v \in Vals, x \in Objects}

MCDocs == Ints \cup {Null} \cup Objects \cup Arrays \cup Tables \cup Nested

Conditions == {Node("ARRAY", None, s) : s \in Seqs({o \in Objects : o.size = 1}, 2)}

MCArgs == Ints \cup {Null} \cup Objects \cup Conditions \cup {a \in Arrays : a.size < 3}

MCSelectors == {<<>>} \cup {<<e>> : e \in Elements}
=============================================================================
