------------------------------ MODULE JsonText ------------------------------
(***************************************************************************)
(* Documents as text: json_valid() (json_check.c), dict_parse() (dict.c),  *)
(* marshall_dict_decode() and marshall_serialize() (dict_marshall.c), and  *)
(* marshall_convert() (marshall.c), which finds out what a text is.        *)
(*                                                                         *)
(* A text is a sequence of characters.  A character is the string of it,   *)
(* except that "tab", "nl", "cr", "bel", "bs", "vt" and "ff" are control   *)
(* characters, "ctl" is any other one, and "high" is a byte above 127.     *)
(*                                                                         *)
(* A behaviour: a client types a text and sends it, the document is kept,  *)
(* its text is the answer to a later request, and the client sends that    *)
(* text again.                                                             *)
(***************************************************************************)
EXTENDS Integers, Sequences, FiniteSetsExt, SequencesExt

CONSTANTS
    Starts,     \* how texts begin: [text, more: characters to add, bound: length]
    Depth       \* JSON_CHECK_DEPTH

ASSUME JsonAssumption == Depth \in Nat \ {0}

VARIABLES
    text,       \* the text that was typed or sent last
    doc,        \* the document, or Missing
    phase,      \* see TypeOK
    start       \* the element of Starts

vars == <<text, doc, phase, start>>

-----------------------------------------------------------------------------
(* Characters *)

White == {"tab", "nl", "cr"}
Blank == White \cup {" "}
Control == {"bel", "bs", "vt", "ff", "ctl"}
OneToNine == {"1", "2", "3", "4", "5", "6", "7", "8", "9"}
Digit == OneToNine \cup {"0"}
Hex == Digit \cup {"a", "b", "c", "d", "e", "f", "A", "B", "C", "D", "E", "F"}
Simple == {"\"", "\\", "/", "b", "f", "n", "r", "t"}       \* escaped by one letter

Null == <<"n", "u", "l", "l">>
True == <<"t", "r", "u", "e">>
False == <<"f", "a", "l", "s", "e">>

Count(s, c) == Len(SelectSeq(s, LAMBDA x : x = c))

-----------------------------------------------------------------------------
(* json_check.c *)

\* The rows of state_transition_table, by character: a state, or what is done
\* to the stack.  A character that is not in a row is rejected.
To(chars, state) == [c \in chars |-> state]

Ended == To(Blank, "OK") @@ ("}" :> "PopObject") @@ ("]" :> "PopArray") @@ ("," :> "Comma")

BegunTrailing ==        \* mutant: an array may end after a comma
    ("{" :> "PushKey") @@ ("[" :> "PushArray") @@ ("]" :> "PopArray") @@ ("\"" :> "ST")
      @@ ("-" :> "MI") @@ ("0" :> "ZE") @@ To(OneToNine, "INT")
      @@ ("t" :> "T1") @@ ("f" :> "F1") @@ ("n" :> "N1")

Begun == ("{" :> "PushKey") @@ ("[" :> "PushArray") @@ ("\"" :> "ST") @@ ("-" :> "MI")
           @@ ("0" :> "ZE") @@ To(OneToNine, "INT")
           @@ ("t" :> "T1") @@ ("f" :> "F1") @@ ("n" :> "N1")

Table ==
    [GO |-> To(Blank, "GO") @@ ("{" :> "PushKey") @@ ("[" :> "PushArray"),
     OK |-> Ended,
     OB |-> To(Blank, "OB") @@ ("}" :> "PopKey") @@ ("\"" :> "ST"),
     KE |-> To(Blank, "KE") @@ ("\"" :> "ST"),
     CO |-> To(Blank, "CO") @@ (":" :> "Colon"),
     VA |-> To(Blank, "VA") @@ Begun,
     AR |-> To(Blank, "AR") @@ Begun @@ ("]" :> "PopArray"),
     ST |-> ("\"" :> "Quote") @@ ("\\" :> "ES"),
     ES |-> To(Simple, "ST") @@ ("u" :> "U1"),
     U1 |-> To(Hex, "U2"), U2 |-> To(Hex, "U3"), U3 |-> To(Hex, "U4"), U4 |-> To(Hex, "ST"),
     MI |-> ("0" :> "ZE") @@ To(OneToNine, "INT"),
     ZE |-> Ended @@ ("." :> "FR"),
     INT |-> Ended @@ ("." :> "FR") @@ To(Digit, "INT") @@ To({"e", "E"}, "E1"),
     FR |-> Ended @@ To(Digit, "FR") @@ To({"e", "E"}, "E1"),
     E1 |-> To({"+", "-"}, "E2") @@ To(Digit, "E3"),
     E2 |-> To(Digit, "E3"),
     E3 |-> Ended @@ To(Digit, "E3"),
     T1 |-> "r" :> "T2", T2 |-> "u" :> "T3", T3 |-> "e" :> "OK",
     F1 |-> "a" :> "F2", F2 |-> "l" :> "F3", F3 |-> "s" :> "F4", F4 |-> "e" :> "OK",
     N1 |-> "u" :> "N2", N2 |-> "l" :> "N3", N3 |-> "l" :> "OK"]

\* Inside a string every other character that is not a control character stays.
Entry(state, c) ==
    IF c \in DOMAIN Table[state] THEN Table[state][c]
    ELSE IF state = "ST" /\ c \notin White \cup Control THEN "ST"
    ELSE "reject"

\* The state of a json_check_t: stack is its modes, the top one last.
Rejected == [state |-> "reject", stack |-> <<>>]

Push(jc, mode, state) ==
    IF Len(jc.stack) < Depth THEN [state |-> state, stack |-> Append(jc.stack, mode)] ELSE Rejected

Pop(jc, mode, state) ==
    IF jc.stack # <<>> /\ Last(jc.stack) = mode
      THEN [state |-> state, stack |-> Front(jc.stack)] ELSE Rejected

\* json_check_char()
CheckChar(jc, c) ==
    LET entry == Entry(jc.state, c)
        top   == Last(jc.stack)
    IN  IF jc = Rejected THEN Rejected
        ELSE CASE entry = "reject"    -> Rejected
               [] entry = "PopKey"    -> Pop(jc, "key", "OK")
               [] entry = "PopObject" -> Pop(jc, "object", "OK")
               [] entry = "PopArray"  -> Pop(jc, "array", "OK")
               [] entry = "PushKey"   -> Push(jc, "key", "OB")
               [] entry = "PushArray" -> Push(jc, "array", "AR")
               [] entry = "Quote"     -> CASE top = "key" -> [jc EXCEPT !.state = "CO"]
                                           [] top \in {"array", "object"} -> [jc EXCEPT !.state = "OK"]
                                           [] OTHER -> Rejected
               [] entry = "Comma"     -> CASE top = "object" -> Push(Pop(jc, "object", "KE"), "key", "KE")
                                           [] top = "array" -> [jc EXCEPT !.state = "VA"]
                                           [] OTHER -> Rejected
               [] entry = "Colon"     -> IF top = "key" THEN Push(Pop(jc, "key", "VA"), "object", "VA")
                                         ELSE Rejected
               [] OTHER -> [jc EXCEPT !.state = entry]

NewCheck == [state |-> "GO", stack |-> <<"done">>]

\* json_valid(): a byte above 127 is a negative char, and ends the text.
Seen(s) == LET n == SelectInSeq(s, LAMBDA c : c = "high")
           IN  IF n = 0 THEN s ELSE SubSeq(s, 1, n - 1)

Scan(s) == FoldLeft(CheckChar, NewCheck, Seen(s))

JsonValid(s) == LET jc == Scan(s) IN jc.state = "OK" /\ Last(jc.stack) = "done"

-----------------------------------------------------------------------------
(* dict.c *)

\* The token array is as long as the text, so dict_alloc_token() always finds
\* room.  An open token has end 0; the text of a token is start .. end - 1.
Token(type, first, end) == [type |-> type, start |-> first, end |-> end, size |-> 0]

IsOpen(token) == token.end = 0

LastOpen(tokens) == SelectLastInSeq(tokens, IsOpen)

\* dict_parse_string(): the place of the closing quote, 0 if there is none or an
\* escape is wrong.
RECURSIVE StringEnd(_, _)
StringEnd(s, i) ==
    LET hex == SubSeq(s, i + 2, IF i + 5 < Len(s) THEN i + 5 ELSE Len(s))
    IN  IF i > Len(s) THEN 0
        ELSE IF s[i] = "\"" THEN i
        ELSE IF s[i] # "\\" \/ i = Len(s) THEN StringEnd(s, i + 1)
        ELSE IF s[i + 1] \in Simple THEN StringEnd(s, i + 2)
        ELSE IF s[i + 1] = "u" /\ ToSet(hex) \subseteq Hex THEN StringEnd(s, i + 2 + Len(hex))
        ELSE 0

\* dict_parse_primitive(): the place of the character behind it, 0 if there is
\* none or a character is not allowed.
PrimitiveEnd(s, i) ==
    LET n == SelectInSubSeq(s, i, Len(s), LAMBDA c : c \in Blank \cup Control \cup {":", ",", "]", "}", "high"})
    IN  IF n = 0 \/ s[n] \in Control \cup {"high"} THEN 0 ELSE n

Failed == [pos |-> 0, tokens |-> <<>>, super |-> 0]

\* A new token, counted by the one it belongs to.
AddToken(p, token, pos) ==
    [p EXCEPT !.pos = pos,
              !.tokens = Append(IF p.super = 0 THEN @ ELSE [@ EXCEPT ![p.super].size = @ + 1], token)]

\* One turn of the loop of dict_parse(), built without DICT_PARENT_LINKS.
ParseChar(s, p) ==
    LET c      == s[p.pos]
        type   == IF c \in {"{", "}"} THEN "object" ELSE "array"
        open   == LastOpen(p.tokens)
        closed == [p.tokens EXCEPT ![open].end = p.pos + 1]
        super  == p.tokens[p.super]
        end    == IF c = "\"" THEN StringEnd(s, p.pos + 1) ELSE PrimitiveEnd(s, p.pos)
    IN  CASE c \in {"{", "["} ->
               [AddToken(p, Token(type, p.pos, 0), p.pos + 1) EXCEPT !.super = Len(p.tokens) + 1]
          [] c \in {"}", "]"} ->
               IF open = 0 \/ p.tokens[open].type # type THEN Failed
               ELSE [pos |-> p.pos + 1, tokens |-> closed, super |-> LastOpen(closed)]
          [] c = "\"" ->
               IF end = 0 THEN Failed ELSE AddToken(p, Token("string", p.pos + 1, end), end + 1)
          [] c \in Blank -> [p EXCEPT !.pos = @ + 1]
          [] c = ":" -> [p EXCEPT !.pos = @ + 1, !.super = Len(p.tokens)]
          [] c = "," -> [p EXCEPT !.pos = @ + 1,
                                  !.super = IF super.type \in {"array", "object"} THEN @ ELSE open]
          [] c \in Digit \cup {"-", "t", "f", "n"} ->
               IF super.type = "object" \/ (super.type = "string" /\ super.size # 0) \/ end = 0
                 THEN Failed ELSE AddToken(p, Token("primitive", p.pos, end), end)
          [] OTHER -> Failed

\* dict_parse(): the tokens, none after an error or if a container is left open.
RECURSIVE ParseFrom(_, _)
ParseFrom(s, p) ==
    IF p = Failed \/ p.pos > Len(s) THEN IF LastOpen(p.tokens) = 0 THEN p.tokens ELSE <<>>
    ELSE ParseFrom(s, ParseChar(s, p))

DictParse(s) == ParseFrom(s, [pos |-> 1, tokens |-> <<>>, super |-> 0])

\* dict_levelcount(): the tokens from one on that belong to it.
RECURSIVE LevelCountKeys(_, _)
LevelCountKeys(t, i) ==         \* mutant: counts the keys of an object, not the values
    LET After[n \in 0 .. t[i].size] ==
            IF n = 0 THEN i + 1 ELSE After[n - 1] + LevelCountKeys(t, After[n - 1])
    IN  IF t[i].type \in {"string", "primitive"} THEN 1 ELSE After[t[i].size] - i

RECURSIVE LevelCount(_, _)
LevelCount(t, i) ==
    LET n == IF t[i].type = "object" THEN 2 * t[i].size ELSE t[i].size
        After[k \in 0 .. n] == IF k = 0 THEN i + 1 ELSE After[k - 1] + LevelCount(t, After[k - 1])
    IN  IF t[i].type \in {"string", "primitive"} THEN 1 ELSE After[n] - i

-----------------------------------------------------------------------------
(* dict_marshall.c: decoding *)

\* A node.  A name is <<>> for none, or a sequence of one text.
Node(type, name, data, child) == [type |-> type, name |-> name, data |-> data, child |-> child]

Missing == Node("missing", <<>>, <<>>, <<>>)

Piece(s, token) == SubSeq(s, token.start, token.end - 1)

\* A number: it is a float if it has one point and no exponent.
NumberType(s) == IF ToSet(s) \subseteq Digit \cup {"-", "."} /\ Count(s, ".") = 1 THEN "float" ELSE "int"

Primitive(s, name) ==
    CASE s = Null  -> Node("null", name, <<>>, <<>>)
      [] s = True  -> Node("true", name, <<>>, <<>>)
      [] s = False -> Node("false", name, <<>>, <<>>)
      [] OTHER     -> Node(NumberType(s), name, s, <<>>)

\* marshall_dict_decode(): a container decodes the text of a nested one anew and
\* skips its tokens.  It does not take an empty name.  No text here is long
\* enough for strquid_format() to make a string a quid.
RECURSIVE DictDecode(_, _), Elements(_, _, _), Pairs(_, _, _)

Value(s, token, name) ==
    CASE token.type = "primitive" -> Primitive(Piece(s, token), name)
      [] token.type = "string"    -> Node("string", name, Piece(s, token), <<>>)
      [] OTHER -> DictDecode(Piece(s, token), IF name = <<<<>>>> THEN <<>> ELSE name)

Elements(s, t, i) ==
    IF i > Len(t) THEN <<>> ELSE <<Value(s, t[i], <<>>)>> \o Elements(s, t, i + LevelCount(t, i))

Pairs(s, t, i) ==
    IF i > Len(t) THEN <<>>
    ELSE <<Value(s, t[i + 1], <<Piece(s, t[i])>>)>> \o Pairs(s, t, i + 1 + LevelCount(t, i + 1))

DictDecode(s, name) ==
    LET t == DictParse(s)
    IN  IF t = <<>> THEN Missing
        ELSE Node(t[1].type, name, <<>>,
                  IF t[1].type = "array" THEN Elements(s, t, 2) ELSE Pairs(s, t, 2))

-----------------------------------------------------------------------------
(* marshall.c: what a text is *)

\* strisdigit()
IsDigits(s) == ToSet(IF s # <<>> /\ s[1] = "-" THEN Tail(s) ELSE s) \subseteq Digit

\* autoscalar()
Autoscalar(s) ==
    CASE s = <<>> -> "null"
      [] Len(s) = 1 -> CASE s[1] \in {"0", "f", "F"} -> "false"
                         [] s[1] \in {"1", "t", "T"} -> "true"
                         [] OTHER -> IF IsDigits(s) THEN "int" ELSE "string"
      [] s \in {True, <<"T", "R", "U", "E">>} -> "true"
      [] s \in {False, <<"F", "A", "L", "S", "E">>} -> "false"
      [] OTHER ->
           IF IsDigits(s) THEN "int"
           ELSE IF NumberType(s) = "float" /\ s[1] # "." /\ Last(s) # "." THEN "float"
           ELSE IF JsonValid(s) THEN "object"
           ELSE IF s \in {Null, <<"N", "U", "L", "L">>} THEN "null"
           ELSE "string"

\* marshall_convert(), marshall_convert_parent()
MarshallConvert(s) ==
    LET type == Autoscalar(s)
    IN  CASE type = "object" -> DictDecode(s, <<>>)
          [] type \in {"int", "float", "string"} -> Node(type, <<>>, s, <<>>)
          [] OTHER -> Node(type, <<>>, <<>>, <<>>)

-----------------------------------------------------------------------------
(* dict_marshall.c: the text of a document *)

Letter == ("\"" :> "\"") @@ ("\\" :> "\\") @@ ("tab" :> "t") @@ ("nl" :> "n") @@ ("cr" :> "r")
            @@ ("bel" :> "a") @@ ("bs" :> "b") @@ ("vt" :> "v") @@ ("ff" :> "f")

\* stresc()
StrescQuotes(s) ==          \* mutant: backslashes are left alone
    FlattenSeq([i \in DOMAIN s |-> IF s[i] = "\"" THEN <<"\\", "\"">> ELSE <<s[i]>>])

Stresc(s) == FlattenSeq([i \in DOMAIN s |-> IF s[i] \in DOMAIN Letter THEN <<"\\", Letter[s[i]]>>
                                                                     ELSE <<s[i]>>])

Quoted(s) == <<"\"">> \o s \o <<"\"">>

Listed(seqs) == FlattenSeq([i \in DOMAIN seqs |-> IF i = 1 THEN seqs[1] ELSE <<",">> \o seqs[i]])

\* marshall_serialize(): only a string without a name is escaped, and an empty
\* container is null.
SerializeString(d) == Quoted(IF d.name = <<>> THEN Stresc(d.data) ELSE d.data)

RECURSIVE Serialize(_)
Serialize(d) ==
    LET inner == Listed([i \in DOMAIN d.child |-> Serialize(d.child[i])])
        body  == CASE d.type = "true" -> True
                   [] d.type = "false" -> False
                   [] d.type \in {"int", "float"} -> d.data
                   [] d.type = "string" -> SerializeString(d)
                   [] d.type = "array" /\ d.child # <<>> -> <<"[">> \o inner \o <<"]">>
                   [] d.type = "object" /\ d.child # <<>> -> <<"{">> \o inner \o <<"}">>
                   [] OTHER -> Null
    IN  IF d.name = <<>> THEN body ELSE Quoted(d.name[1]) \o <<":">> \o body

-----------------------------------------------------------------------------
(* Behaviour *)

Init ==
    /\ start \in Starts
    /\ text = start.text
    /\ doc = Missing
    /\ phase = "typing"

\* Nothing is added to a text that is rejected already.
Type(c) ==
    /\ phase = "typing" /\ Len(text) < start.bound /\ Scan(text) # Rejected
    /\ text' = Append(text, c)
    /\ UNCHANGED <<doc, phase, start>>

Send ==
    /\ phase \in {"typing", "replied"}
    /\ doc' = MarshallConvert(text)
    /\ phase' = IF phase = "typing" THEN "stored" ELSE "again"
    /\ UNCHANGED <<text, start>>

Reply ==
    /\ phase = "stored" /\ doc # Missing
    /\ text' = Serialize(doc)
    /\ phase' = "replied"
    /\ UNCHANGED <<doc, start>>

Next == (\E c \in start.more : Type(c)) \/ Send \/ Reply

Spec == Init /\ [][Next]_vars

-----------------------------------------------------------------------------
(* Properties *)

TypeOK ==
    /\ start \in Starts
    /\ phase \in {"typing", "stored", "replied", "again"}
    /\ doc.type \in {"missing", "null", "true", "false", "int", "float", "string", "array", "object"}

\* The grammar of documents, as the set of what a text means: one node or none.
\* Two forms of numbers are not those of JSON: a point needs no digit after it,
\* and there is no exponent after a bare zero.
Trim(s) ==
    LET solid == {i \in DOMAIN s : s[i] \notin Blank}
    IN  IF solid = {} THEN <<>> ELSE SubSeq(s, Min(solid), Max(solid))

AllDigits(s) == s # <<>> /\ ToSet(s) \subseteq Digit

Integer(s) == AllDigits(s) /\ (Len(s) > 1 => s[1] # "0")

Exponent(s) == \/ AllDigits(s)
               \/ s # <<>> /\ s[1] \in {"+", "-"} /\ AllDigits(Tail(s))

Unsigned(s) ==
    LET point == SelectInSeq(s, LAMBDA c : c = ".")
        exp   == SelectInSeq(s, LAMBDA c : c \in {"e", "E"})
        main  == IF exp = 0 THEN s ELSE SubSeq(s, 1, exp - 1)
    IN  /\ IF point = 0 \/ point > Len(main) THEN Integer(main)
           ELSE Integer(SubSeq(main, 1, point - 1)) /\ ToSet(SubSeq(main, point + 1, Len(main))) \subseteq Digit
        /\ exp # 0 => Exponent(SubSeq(s, exp + 1, Len(s))) /\ main # <<"0">>

Number(s) == Unsigned(IF s # <<>> /\ s[1] = "-" THEN Tail(s) ELSE s)

RECURSIVE InString(_)
InString(s) ==
    \/ s = <<>>
    \/ s[1] \notin White \cup Control \cup {"\"", "\\"} /\ InString(Tail(s))
    \/ Len(s) > 1 /\ s[1] = "\\" /\ s[2] \in Simple /\ InString(SubSeq(s, 3, Len(s)))
    \/ Len(s) > 5 /\ s[1] = "\\" /\ s[2] = "u" /\ ToSet(SubSeq(s, 3, 6)) \subseteq Hex
         /\ InString(SubSeq(s, 7, Len(s)))

Wrapped(s, l, r) == Len(s) > 1 /\ s[1] = l /\ Last(s) = r

Inside(s) == SubSeq(s, 2, Len(s) - 1)

Before(s, i) == Trim(SubSeq(s, 1, i - 1))
Behind(s, i) == Trim(SubSeq(s, i + 1, Len(s)))

At(s, c) == {i \in DOMAIN s : s[i] = c}

RECURSIVE Meaning(_, _), MeaningPair(_), MeaningList(_, _)

MeaningPair(s) ==
    UNION {Meaning(Behind(s, i), <<Inside(Before(s, i))>>) :
             i \in {j \in At(s, ":") : Wrapped(Before(s, j), "\"", "\"") /\ InString(Inside(Before(s, j)))}}

MeaningList(s, pairs) ==
    LET One(x) == IF pairs THEN MeaningPair(x) ELSE Meaning(x, <<>>)
    IN  {<<d>> : d \in One(s)}
          \cup UNION {{<<d>> \o ds : d \in One(Before(s, i)), ds \in MeaningList(Behind(s, i), pairs)} :
                       i \in At(s, ",")}

Meaning(s, name) ==
    LET inner == Trim(Inside(s))
        Whole(type, lists) == {Node(type, IF name = <<<<>>>> THEN <<>> ELSE name, <<>>, l) : l \in lists}
    IN  CASE s = Null -> {Node("null", name, <<>>, <<>>)}
          [] s = True -> {Node("true", name, <<>>, <<>>)}
          [] s = False -> {Node("false", name, <<>>, <<>>)}
          [] Number(s) -> {Node(NumberType(s), name, s, <<>>)}
          [] Wrapped(s, "\"", "\"") -> IF InString(Inside(s)) THEN {Node("string", name, Inside(s), <<>>)} ELSE {}
          [] Wrapped(s, "[", "]") -> Whole("array", IF inner = <<>> THEN {<<>>} ELSE MeaningList(inner, FALSE))
          [] Wrapped(s, "{", "}") -> Whole("object", IF inner = <<>> THEN {<<>>} ELSE MeaningList(inner, TRUE))
          [] OTHER -> {}

Container(d) == d.type \in {"array", "object"}

RECURSIVE Height(_)
Height(d) == IF Container(d) THEN 1 + Max({0} \cup {Height(d.child[i]) : i \in DOMAIN d.child}) ELSE 0

(***************************************************************************)
(* json_valid() accepts exactly the texts that mean an array or an object  *)
(* that is not nested too deep for its stack.  Of a text with a byte above *)
(* 127 it looks at what comes before that byte.                            *)
(***************************************************************************)
ValidExact ==
    phase = "typing" =>
      (JsonValid(text) <=> \E d \in Meaning(Trim(Seen(text)), <<>>) : Container(d) /\ Height(d) < Depth)

(***************************************************************************)
(* A text that json_valid() accepts as a whole becomes the document that   *)
(* it means: every element in its place, every value under its key, and a  *)
(* nested container with exactly its own elements.                         *)
(***************************************************************************)
DecodeExact ==
    (phase = "stored" /\ JsonValid(text) /\ "high" \notin ToSet(text))
      => doc \in Meaning(Trim(text), <<>>)

\* Containers with the empty name have lost it, and are left out of a text as
\* members without a name.
RECURSIVE Nameless(_)
Nameless(d) ==
    \/ \E i \in DOMAIN d.child : d.type = "object" /\ d.child[i].name = <<>>
    \/ \E i \in DOMAIN d.child : Nameless(d.child[i])

RECURSIVE Unescaped(_)
Unescaped(s) ==
    IF s = <<>> THEN <<>>
    ELSE IF s[1] = "\\" THEN <<s[2]>> \o Unescaped(SubSeq(s, 3, Len(s)))
    ELSE <<s[1]>> \o Unescaped(Tail(s))

\* Document e is what is left of d: empty containers are null, and strings
\* without a name have been escaped once more.
RECURSIVE Kept(_, _)
Kept(d, e) ==
    IF Container(d) /\ d.child = <<>> THEN e = Node("null", d.name, <<>>, <<>>)
    ELSE /\ e.type = d.type /\ e.name = d.name
         /\ (IF d.type = "string" /\ d.name = <<>> THEN Unescaped(e.data) ELSE e.data) = d.data
         /\ Len(e.child) = Len(d.child)
         /\ \A i \in DOMAIN d.child : Kept(d.child[i], e.child[i])

(***************************************************************************)
(* What marshall_serialize() writes of a document is read back by          *)
(* marshall_convert() as that document, up to the differences that Kept    *)
(* names.  Not so for a string that is not part of a document, whose       *)
(* quotes become part of it, nor for a nested container with the empty     *)
(* name, whose text is not that of a document.                             *)
(***************************************************************************)
RoundTrip ==
    [][(phase = "replied" /\ phase' = "again" /\ doc.type # "string" /\ ~Nameless(doc))
         => Kept(doc, doc')]_vars
=============================================================================
