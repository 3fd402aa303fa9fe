----------------------------- MODULE MCJsonText -----------------------------
(***************************************************************************)
(* Texts for JsonText: all short ones over a few characters each, and      *)
(* longer ones put together from values.                                   *)
(***************************************************************************)
EXTENDS JsonText

Typed(begin, more, bound) == [text |-> begin, more |-> more, bound |-> bound]

Given(s) == Typed(s, {}, 0)

\* Brackets, numbers, strings and blanks, each with what ends them.
Short == {Typed(<<>>, {"[", "]", "{", "}", ",", ":", "\"", "1"}, 6),
          Typed(<<>>, {"[", "]", "{", "}", ","}, 7),
          Typed(<<"[">>, {"-", "0", "1", ".", "e", "+", "]", ","}, 6),
          Typed(<<"[", "\"">>, {"\"", "\\", "n", "u", "a", "high", "nl", "]"}, 6),
          Typed(<<"[", "\"", "\\", "u", "a", "0">>, {"A", "g", "\"", "]"}, 10),
          Typed(<<"{", "\"">>, {"\"", ":", "1", "}", ",", "]"}, 8),
          Typed(<<"[">>, {"t", "r", "u", "e", "f", "a", "l", "s", "n", "]"}, 8),
          Typed(<<>>, {" ", "nl", "[", "]", ",", "1", "high"}, 5)}

One == <<"1">>
Esc == <<"\"", "\\", "\"", "\"">>
Leaves == {One, <<"-", "0", ".", "5">>, <<"2", "e", "+", "3">>, Null, True, False, Esc,
           <<"\"", "a", "\"">>, <<"\"", "\"">>, <<"[", "]">>, <<"{", " ", "}">>}

Array(x, y) == <<"[">> \o x \o <<",">> \o y \o <<"]">>
Object(x, y) == <<"{", "\"", "k", "\"", ":">> \o x \o <<",", "\"", "\"", " ", ":">> \o y \o <<"}">>

Nested == {f : f \in {Array(x, y) : x, y \in Leaves} \cup {Object(x, y) : x, y \in Leaves}}

Inner == {Array(One, Esc), Object(One, Esc), Object(One, <<"[", "]">>), Array(<<"{", "}">>, One), One}

Deep == {Array(x, y) : x, y \in Inner} \cup {Object(x, y) : x, y \in Inner}

Deeper == {Array(x, One) : x \in Deep} \cup {Object(x, One) : x \in Deep}

Scalars == {<<>>, <<"1", "2">>, <<"-">>, <<"1", ".", "5">>, <<".", "5">>, <<"1", ".">>, True, False, Null,
            <<"T", "R", "U", "E">>, <<"a", "b">>, <<"-", "1">>}

MCStarts == Short \cup {Given(s) : s \in Nested \cup Deep \cup Deeper \cup Scalars}
=============================================================================
