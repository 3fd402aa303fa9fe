------------------------ MODULE DatabaseCleanProofs ------------------------
(***************************************************************************)
(* Theorems about Database in clean workloads: the records, their rows,    *)
(* the aliases, the list of indexes and the indexes agree with each other  *)
(* after every request, and the requests implement DocStore.               *)
(***************************************************************************)
EXTENDS DatabaseProofs

-----------------------------------------------------------------------------
(* New documents *)

\* The records that are new in t, but for k, are rows and indexes.
NewOnes(s, t, k) ==
    \A x \in DOMAIN t.rec \ DOMAIN s.rec :
        x # k => x \notin t.top /\ t.rec[x].life = "finite" /\ (IsInner(t.rec[x]) \/ IsIndex(t.rec[x]))

\* Data whose rows are new in t.
Fresh(s, t, k, d) ==
    /\ DataOK(d) /\ Distinct(d) /\ (IsGroup(d) => 0 \notin KeysOf(d))
    /\ \A x \in KeysOf(d) \ {0} : x \in DOMAIN t.rec \ DOMAIN s.rec /\ x # k /\ IsInner(t.rec[x])

\* A document k with data d.
Placed(t, k, d) ==
    /\ k \in t.top /\ k \in DOMAIN t.rec
    /\ LET r == t.rec[k]
       IN  /\ r.type = (IF IsGroup(d) THEN "GROUP" ELSE "RECORD")
           /\ r.alias \in BOOLEAN /\ (IsGroup(d) => r.alias) /\ r.lock = FALSE /\ r.life = "finite" /\ r.data = d

LEMMA PlacedRecords ==
    ASSUME NEW s, NEW t, NEW k, NEW X, NEW d, Good(s), Good(t), RecordsIn(s), Step(s, t, k, X),
           NewOnes(s, t, k), Placed(t, k, d), Fresh(s, t, k, d)
    PROVE  RecordsIn(t)
<1>1. d \in Data /\ d # None
  BY DatabaseAssumption DEF Fresh, DataOK
<1>2. RoleOK(t, k)
  BY <1>1 DEF Placed, Fresh, DataOK, RoleOK, IsTop
<1>3. RowsOK(t, k)
  <2>1. Rows(t, k) = KeysOf(d) \ {0} /\ RowKeys(t.rec[k]) = KeysOf(d)
    BY <1>1 DEF Placed, Rows, RowKeys
  <2>2. \A x \in KeysOf(d) \ {0} : x \notin t.top /\ IsInner(t.rec[x]) /\ Live(t, x)
    BY DEF Fresh, NewOnes, Live
  <2>3. t.rec[k].type = "GROUP" <=> IsGroup(d)
    BY DEF Placed
  <2> QED BY <2>1, <2>2, <2>3 DEF RowsOK, Placed, Fresh
<1>4. ASSUME NEW j \in DOMAIN t.rec, j \notin DOMAIN s.rec, j # k
      PROVE  RoleOK(t, j) /\ RowsOK(t, j)
  <2>1. j \notin t.top /\ t.rec[j].life = "finite" /\ (IsInner(t.rec[j]) \/ IsIndex(t.rec[j]))
    BY <1>4 DEF NewOnes
  <2>2. IsRecord(t.rec[j])
    BY RecordFacts
  <2>3. RowKeys(t.rec[j]) = {} /\ t.rec[j].type # "GROUP" /\ (t.rec[j].data = None \/ Distinct(t.rec[j].data))
    <3>1. CASE IsInner(t.rec[j])
      BY <2>2, <3>1, InnerFacts
    <3>2. CASE IsIndex(t.rec[j])
      BY <3>2 DEF IsIndex, RowKeys
    <3> QED BY <2>1, <3>1, <3>2
  <2> QED BY <2>1, <2>3 DEF RoleOK, RowsOK, Rows
<1> QED BY <1>2, <1>3, <1>4, StepRecords

\* engine_insert_data() of a document under the next key.
NewDoc(s, t, n, d) ==
    /\ Good(t) /\ n = s.next /\ n \in Nat \ {0} /\ n < t.next /\ t.top = s.top \cup {n}
    /\ SameAliases(s, t) /\ SameIndexes(s, t) /\ t.err = s.err
    /\ DOMAIN s.rec \subseteq DOMAIN t.rec /\ DOMAIN t.rec \subseteq DOMAIN s.rec \cup n .. t.next - 1
    /\ \A x \in DOMAIN s.rec : t.rec[x] = s.rec[x]
    /\ n \in DOMAIN t.rec /\ n \notin DOMAIN s.rec /\ t.rec[n] = Record(d)
    /\ \A x \in DOMAIN t.rec \ DOMAIN s.rec : x # n => IsInner(t.rec[x]) /\ t.rec[x].life = "finite"
    /\ Fresh(s, t, n, d)

LEMMA NewRecordIs ==
    ASSUME NEW s, NEW in, Good(s), RecordsIn(s), IsDoc(in)
    PROVE  LET t == NewRecord(s, in)
               d == SlayPut([s EXCEPT !.next = @ + 1], in).data
           IN  /\ NewDoc(s, t, s.next, d)
               /\ Expand(t, d) = in
               /\ IsGroup(d) => d.schema = IF in.kind = "ARRAY" THEN "TABLE" ELSE "SET"
<1> DEFINE s1 == [s EXCEPT !.next = @ + 1]
           put == SlayPut(s1, in)
           n == s.next
           p == put.s
           d == put.data
           p1 == [p EXCEPT !.top = @ \cup {n}]
           t == Insert(p1, n, Record(d))
<1>1. /\ s1.rec = s.rec /\ s1.next = s.next + 1 /\ s1.top = s.top /\ s1.err = s.err /\ n \in Nat \ {0}
      /\ SameAliases(s, s1) /\ SameIndexes(s, s1)
  BY GoodIsBase DEF IsBase, SameAliases, SameIndexes, Good, RecordsOK
<1>2. Good(s1)
  BY NextGood
<1>3. t = NewRecord(s, in)
  BY DEF NewRecord
<1> HIDE DEF s1
<1>4. s.top \subseteq 1 .. n - 1 /\ DOMAIN s.rec \subseteq 1 .. n - 1 /\ KeysFit(s1)
  BY <1>1 DEF RecordsIn, KeysFit
<1>5. /\ p.top = s1.top /\ SameAliases(s1, p) /\ SameIndexes(s1, p) /\ p.err = s1.err /\ s1.next <= p.next
      /\ DOMAIN s1.rec \subseteq DOMAIN p.rec /\ DOMAIN p.rec \subseteq DOMAIN s1.rec \cup s1.next .. p.next - 1
      /\ \A x \in DOMAIN s1.rec : p.rec[x] = s1.rec[x]
      /\ NewRows(s1, p, d) /\ DataOK(d)
      /\ Expand(p, d) = in
      /\ IsGroup(d) => d.schema = IF in.kind = "ARRAY" THEN "TABLE" ELSE "SET"
  BY <1>2, <1>4, SlayPutIs
<1>6. Len(in.items) \in Nat
  BY DEF IsDoc
<1>7. Good(p) /\ Good(t)
  BY <1>2, <1>3, <1>6, SlayPutGood, NewRecordGood
<1> HIDE DEF put, p, d
<1>8. /\ p1.rec = p.rec /\ p1.next = p.next /\ p1.err = p.err /\ p1.top = p.top \cup {n}
      /\ SameAliases(p, p1) /\ SameIndexes(p, p1) /\ Good(p1)
  <2>1. SameRest(p, p1)
    BY <1>7, OtherFields
  <2> QED BY <1>7, <2>1, GoodIsBase, RestKept DEF IsBase, SameAliases, SameIndexes
<1> HIDE DEF p1
<1>9. /\ DOMAIN t.rec = DOMAIN p1.rec \cup {n} /\ t.rec[n] = Record(d)
      /\ \A x \in DOMAIN p1.rec \ {n} : t.rec[x] = p1.rec[x]
      /\ t.next = p1.next /\ t.top = p1.top
      /\ SameAliases(p1, t) /\ SameIndexes(p1, t) /\ t.err = p1.err
  BY <1>8, InsertIs
<1> HIDE DEF t
<1>10. n \notin DOMAIN s.rec /\ n \notin DOMAIN p.rec /\ p.next \in Nat
  <2>1. p.next \in Nat
    BY <1>7 DEF Good, RecordsOK
  <2> QED BY <1>1, <1>4, <1>5, <2>1
<1>11. n < t.next /\ t.next \in Nat /\ DOMAIN t.rec \subseteq DOMAIN s.rec \cup n .. t.next - 1
  <2>1. t.next = p.next /\ n + 1 <= p.next
    BY <1>1, <1>5, <1>8, <1>9
  <2>2. ASSUME NEW x \in DOMAIN t.rec PROVE x \in DOMAIN s.rec \cup n .. t.next - 1
    <3>1. x = n \/ x \in DOMAIN s.rec \/ x \in n + 1 .. p.next - 1
      BY <1>1, <1>5, <1>8, <1>9
    <3> QED BY <1>1, <1>10, <2>1, <3>1
  <2> QED BY <1>1, <1>10, <2>1, <2>2
<1>12. DOMAIN s.rec \subseteq DOMAIN t.rec /\ \A x \in DOMAIN s.rec : t.rec[x] = s.rec[x]
  BY <1>1, <1>5, <1>8, <1>9, <1>10
<1>13. \A x \in DOMAIN t.rec \ DOMAIN s.rec : x # n => x \in DOMAIN p.rec \ DOMAIN s1.rec /\ t.rec[x] = p.rec[x]
  BY <1>1, <1>8, <1>9
<1>14. \A x \in DOMAIN t.rec \ DOMAIN s.rec : x # n => IsInner(t.rec[x]) /\ t.rec[x].life = "finite"
  BY <1>5, <1>13 DEF NewRows
<1>15. \A x \in KeysOf(d) \ {0} : /\ x \in DOMAIN t.rec \ DOMAIN s.rec /\ x # n
                                  /\ x \in DOMAIN p.rec /\ t.rec[x] = p.rec[x]
  BY <1>1, <1>5, <1>8, <1>9, <1>10 DEF NewRows
<1>16. Fresh(s, t, n, d)
  BY <1>5, <1>14, <1>15 DEF Fresh, NewRows
<1>17. NewDoc(s, t, n, d)
  <2>1. SameAliases(s, t) /\ SameIndexes(s, t) /\ t.err = s.err /\ t.top = s.top \cup {n}
    BY <1>1, <1>5, <1>8, <1>9 DEF SameAliases, SameIndexes
  <2>2. n \in DOMAIN t.rec
    BY <1>9
  <2> QED BY <1>1, <1>7, <1>9, <1>10, <1>11, <1>12, <1>14, <1>16, <2>1, <2>2 DEF NewDoc
<1>18. Expand(t, d) = Expand(p, d)
  <2>1. 0 \notin DOMAIN p.rec /\ 0 \notin DOMAIN t.rec
    BY <1>1, <1>4, <1>5, <1>8, <1>9, <1>10
  <2>2. \A x \in KeysOf(d) \ {0} : Live(p, x) /\ Live(t, x) /\ t.rec[x] = p.rec[x]
    BY <1>14, <1>15 DEF Live
  <2> QED BY <2>1, <2>2, RowsRead
<1> QED BY <1>3, <1>5, <1>17, <1>18 DEF d, put, s1

\* A new document with its rows, and indexes that are not in the list yet.
LEMMA PlacedSound ==
    ASSUME NEW s, NEW t, NEW u, NEW n, NEW d, Good(s), RecordsIn(s), AliasMatch(s), NewDoc(s, t, n, d), Good(u),
           Placed(u, n, d), u.top = t.top, t.next <= u.next,
           DOMAIN t.rec \subseteq DOMAIN u.rec, DOMAIN u.rec \subseteq DOMAIN t.rec \cup t.next .. u.next - 1,
           \A x \in DOMAIN t.rec \ {n} : u.rec[x] = t.rec[x],
           \A x \in DOMAIN u.rec \ DOMAIN t.rec : IsIndex(u.rec[x]) /\ u.rec[x].life = "finite",
           AliasOnce(u),
           AliasKeys(u) = AliasKeys(s) \cup (DOMAIN u.rec \ DOMAIN t.rec) \cup (IF u.rec[n].alias THEN {n} ELSE {})
    PROVE  /\ Step(s, u, n, {}) /\ RecordsIn(u) /\ AliasMatch(u)
           /\ DocsWith(s, u, n, Expand(t, d)) /\ n \notin DOMAIN Docs(s)
<1>1. n \in Nat \ {0} /\ n = s.next /\ t.next \in Nat /\ u.next \in Nat /\ n < t.next
  BY DEF NewDoc, Good, RecordsOK
<1>2. s.top \subseteq 1 .. n - 1 /\ DOMAIN s.rec \subseteq 1 .. n - 1
  BY <1>1 DEF RecordsIn, KeysFit
<1>3. DOMAIN u.rec \subseteq DOMAIN s.rec \cup n .. u.next - 1
  <2>1. DOMAIN t.rec \subseteq DOMAIN s.rec \cup n .. t.next - 1
    BY DEF NewDoc
  <2> QED BY <1>1, <2>1
<1>4. n \notin DOMAIN s.rec /\ n \in DOMAIN t.rec /\ n \notin s.top
  BY <1>1, <1>2 DEF NewDoc
<1>5. \A x \in DOMAIN s.rec : x \in DOMAIN u.rec /\ u.rec[x] = s.rec[x]
  BY <1>4 DEF NewDoc
<1>6. u.top = s.top \cup {n}
  BY DEF NewDoc
<1>7. Step(s, u, n, {})
  <2>1. u.top \ s.top \subseteq s.next .. u.next - 1
    BY <1>1, <1>6
  <2>2. s.next <= u.next
    BY <1>1
  <2> QED BY <1>1, <1>3, <1>4, <1>5, <1>6, <2>1, <2>2 DEF Step
<1>8. \A x \in DOMAIN u.rec : x \in Nat /\ x < u.next
  <2>1. DOMAIN s.rec \subseteq 1 .. n - 1
    BY <1>2
  <2> QED BY <1>1, <1>3, <2>1
<1>9. NewOnes(s, u, n)
  <2> SUFFICES ASSUME NEW x \in DOMAIN u.rec \ DOMAIN s.rec, x # n
               PROVE  x \notin u.top /\ u.rec[x].life = "finite" /\ (IsInner(u.rec[x]) \/ IsIndex(u.rec[x]))
    BY DEF NewOnes
  <2>1. x \notin u.top
    <3>1. x \notin 1 .. n - 1
      BY <1>1, <1>3
    <3> QED BY <1>2, <1>6, <3>1
  <2>2. CASE x \in DOMAIN t.rec
    BY <2>1, <2>2 DEF NewDoc
  <2>3. CASE x \notin DOMAIN t.rec
    BY <2>1, <2>3
  <2> QED BY <2>2, <2>3
<1>10. Fresh(s, u, n, d)
  BY DEF NewDoc, Fresh
<1>11. RecordsIn(u)
  BY <1>7, <1>9, <1>10, PlacedRecords
<1>12. \A j \in AliasKeys(s) : j \in DOMAIN s.rec
  BY DEF AliasMatch, Live
<1>13. AliasMatch(u)
  <2>1. \A j \in AliasKeys(u) : j = n \/ j \notin DOMAIN s.rec => Live(u, j) /\ u.rec[j].alias
    <3> SUFFICES ASSUME NEW j \in AliasKeys(u), j \notin DOMAIN s.rec PROVE Live(u, j) /\ u.rec[j].alias
      BY <1>4
    <3>1. CASE j = n
      BY <1>4, <1>12, <3>1 DEF Placed, Live
    <3>2. CASE j # n
      BY <1>12, <3>2 DEF IsIndex, Live
    <3> QED BY <3>1, <3>2
  <2>2. \A j \in AliasKeys(u) : j = n \/ j \notin DOMAIN s.rec \/ j \in AliasKeys(s)
    BY DEF NewDoc
  <2>3. \A j \in s.top \ {n} : j \in AliasKeys(s) => j \in AliasKeys(u)
    OBVIOUS
  <2>4. \A j \in u.top : j = n \/ j \notin DOMAIN s.rec => (Live(u, j) /\ u.rec[j].alias => j \in AliasKeys(u))
    <3> SUFFICES ASSUME NEW j \in u.top, j \notin DOMAIN s.rec, Live(u, j), u.rec[j].alias PROVE j \in AliasKeys(u)
      BY <1>4
    <3>1. j = n
      <4>1. j \in DOMAIN u.rec
        BY DEF Live
      <4> QED BY <1>9, <4>1 DEF NewOnes
    <3> QED BY <3>1
  <2> QED BY <1>7, <2>1, <2>2, <2>3, <2>4, StepAliases
<1>14. KeysFit(u)
  BY <1>11 DEF RecordsIn
<1>15. Expand(u, d) = Expand(t, d)
  <2>1. 0 \notin DOMAIN u.rec /\ 0 \notin DOMAIN t.rec
    BY <1>1, <1>14 DEF KeysFit
  <2>2. \A x \in KeysOf(d) \ {0} : Live(t, x) /\ Live(u, x) /\ u.rec[x] = t.rec[x]
    BY DEF NewDoc, Fresh, Live
  <2> QED BY <2>1, <2>2, RowsRead
<1>16. n \in u.top /\ Live(u, n) /\ u.rec[n].data = d
  BY DEF Placed, Live
<1>17. DocsWith(s, u, n, Expand(u, u.rec[n].data))
  BY <1>6, <1>7, <1>14, <1>16, StepWith
<1>18. n \notin DOMAIN Docs(s)
  BY <1>4 DEF Docs
<1> QED BY <1>7, <1>11, <1>13, <1>15, <1>16, <1>17, <1>18

\* A step that leaves the list of indexes and the rows of k alone.
LEMMA SameIndexesKept ==
    ASSUME NEW s, NEW t, NEW k, NEW X, Good(s), Good(t), RecordsIn(s), KeysFit(t), Step(s, t, k, X),
           IndexesIn(s, GroupsOf(s)), TreesIn(s), SameIndexes(s, t), k \notin GroupsOf(s)
    PROVE  IndexesIn(t, GroupsOf(t)) /\ TreesIn(t)
<1>1. Shrunk(s, t) /\ IsSeq(t.tree) /\ Len(t.tree) = Len(s.tree) /\ s.stale \subseteq t.stale /\ Listed(t) = Listed(s)
  BY DEF SameIndexes, Shrunk, Listed, IndexesIn
<1>2. \A p \in Listed(t) : s.ilist[p].group \in GroupsOf(s) \cup {0}
  BY <1>1 DEF IndexesIn, EntryOK
<1>3. \A p \in Listed(t) : /\ t.ilist[p].group # k => t.tree[t.ilist[p].offset] = s.tree[t.ilist[p].offset]
                           /\ t.ilist[p].group = k /\ k # 0 => k \in GroupsOf(t) /\ TreeOK(t, t.ilist[p])
  BY <1>2 DEF SameIndexes
<1> QED BY <1>1, <1>3, StepIndexes

\* db_put() stores the document under a new key.
LEMMA DbPutIs ==
    ASSUME NEW s, NEW in, Good(s), Sound(s), IsDoc(in)
    PROVE  LET u == DbPut(s, in)
           IN  Sound(u) /\ DocsWith(s, u, s.next, in) /\ s.next \notin DOMAIN Docs(s)
<1> DEFINE t == NewRecord(s, in)
           n == s.next
           d == SlayPut([s EXCEPT !.next = @ + 1], in).data
           u == DbPut(s, in)
<1>1. u = IF IsGroup(d) THEN MakeGroup(t, n, t.rec[n]) ELSE t
  BY DEF DbPut, NewRecord
<1>2. NewDoc(s, t, n, d) /\ Expand(t, d) = in
  BY NewRecordIs DEF Sound
<1>3. Good(u)
  <2>1. Len(in.items) \in Nat
    BY DEF IsDoc
  <2> QED BY <2>1, DbPutGood
<1> HIDE DEF t, n, d, u
<1>4. Good(t) /\ n \in DOMAIN t.rec /\ t.rec[n] = Record(d) /\ n \in t.top /\ t.next \in Nat
  BY <1>2 DEF NewDoc, Good, RecordsOK
<1>5. AliasOnce(t) /\ AliasKeys(t) = AliasKeys(s) /\ n \notin AliasKeys(s) /\ n \notin DOMAIN s.rec /\ SameIndexes(s, t)
  BY <1>2 DEF NewDoc, SameAliases, AliasOnce, AliasKeys, AliasAll, AliasMatch, Live, Sound
<1>6. /\ t.rec[n].type = "RECORD" /\ t.rec[n].alias = FALSE /\ t.rec[n].lock = FALSE
      /\ t.rec[n].life = "finite" /\ t.rec[n].data = d /\ IsRecord(t.rec[n])
  BY <1>4 DEF Record, IsRecord
<1>7. DataOK(d)
  BY <1>2 DEF NewDoc, Fresh
<1>8. Whole(d)
  <2>1. IsGroup(d) \/ ~IsGroup(d)
    OBVIOUS
  <2>2. RecordOK(t.rec[n]) /\ d # None
    BY <1>4, <1>7, RecordFacts, DatabaseAssumption DEF DataOK
  <2> QED BY <1>6, <2>2 DEF RecordOK
<1>9. /\ Placed(u, n, d) /\ u.top = t.top /\ u.next = t.next /\ DOMAIN u.rec = DOMAIN t.rec
      /\ \A x \in DOMAIN t.rec \ {n} : u.rec[x] = t.rec[x]
      /\ AliasOnce(u) /\ AliasKeys(u) = AliasKeys(s) \cup (IF u.rec[n].alias THEN {n} ELSE {})
      /\ SameIndexes(s, u)
  <2>1. CASE IsGroup(d)
    <3>1. u = MakeGroup(t, n, t.rec[n])
      BY <1>1, <2>1
    <3>2. Grouped(t, u, n, t.rec[n])
      <4>1. ~t.rec[n].lock /\ Whole(t.rec[n].data) /\ n \notin AliasKeys(t)
        BY <1>5, <1>6, <1>8
      <4> QED BY <1>4, <1>5, <1>6, <3>1, <4>1, MakeGroupIs
    <3>3. SameIndexes(s, u)
      BY <1>5, <3>2 DEF SameIndexes, Grouped
    <3>4. Placed(u, n, d)
      BY <1>4, <1>6, <2>1, <3>2 DEF Placed, Grouped
    <3> QED BY <1>5, <3>2, <3>3, <3>4 DEF Grouped
  <2>2. CASE ~IsGroup(d)
    <3>1. u = t
      BY <1>1, <2>2
    <3> QED BY <1>4, <1>5, <1>6, <2>2, <3>1 DEF Placed
  <2> QED BY <2>1, <2>2
<1>10. DOMAIN u.rec \ DOMAIN t.rec = {} /\ t.next <= u.next
  BY <1>4, <1>9
<1>11. /\ Step(s, u, n, {}) /\ RecordsIn(u) /\ AliasMatch(u)
       /\ DocsWith(s, u, n, Expand(t, d)) /\ n \notin DOMAIN Docs(s)
  BY <1>2, <1>3, <1>9, <1>10, PlacedSound DEF Sound
<1>12. IndexesIn(u, GroupsOf(u)) /\ TreesIn(u)
  <2>1. n \notin GroupsOf(s)
    BY <1>5 DEF GroupsOf, Live
  <2>2. KeysFit(u)
    BY <1>11 DEF RecordsIn
  <2> QED BY <1>3, <1>9, <1>11, <2>1, <2>2, SameIndexesKept DEF Sound
<1> QED BY <1>2, <1>11, <1>12 DEF Sound, n, u

-----------------------------------------------------------------------------
(* Requests on documents *)

\* What a request leaves alone.
LEMMA RestSame ==
    ASSUME NEW s, NEW t, SameRecords(s, t), SameIndexes(s, t)
    PROVE  /\ Docs(t) = Docs(s) /\ \A k : Live(t, k) <=> Live(s, k)
           /\ RecordsIn(s) => RecordsIn(t)
           /\ IndexesIn(s, GroupsOf(s)) => IndexesIn(t, GroupsOf(t))
           /\ TreesIn(s) => TreesIn(t)
<1>1. /\ t.rec = s.rec /\ t.next = s.next /\ t.top = s.top
      /\ t.ilist = s.ilist /\ t.tree = s.tree /\ t.stale = s.stale
  BY DEF SameRecords, SameIndexes
<1>2. \A k : Live(t, k) <=> Live(s, k)
  BY <1>1 DEF Live
<1>3. \A d : Expand(t, d) = Expand(s, d)
  <2> SUFFICES ASSUME NEW d PROVE Expand(t, d) = Expand(s, d)
    OBVIOUS
  <2> DEFINE ItemFor(u, r) == Item(r.name, IF r.key = 0 THEN Field(r.val)
                                           ELSE IF Live(u, r.key) THEN Sent(u.rec[r.key].data)
                                           ELSE Field(None))
  <2>1. \A r : ItemFor(t, r) = ItemFor(s, r)
    BY <1>1, <1>2
  <2>2. \A u : Expand(u, d) = [kind  |-> CASE d.schema = "TABLE" -> "ARRAY" [] d.schema = "SET" -> "OBJECT"
                                           [] OTHER -> d.schema,
                               el    |-> d.el, val |-> d.val,
                               items |-> [i \in DOMAIN d.rows |-> ItemFor(u, d.rows[i])]]
    BY DEF Expand, Sent
  <2> HIDE DEF ItemFor
  <2> QED BY <2>1, <2>2
<1>4. \A d, e : Contents(t, d, e) = Contents(s, d, e)
  <2> SUFFICES ASSUME NEW d, NEW e PROVE Contents(t, d, e) = Contents(s, d, e)
    OBVIOUS
  <2> QED BY <1>1, <1>2, RowsAlike
<1>5. Docs(t) = Docs(s)
  BY <1>1, <1>2, <1>3 DEF Docs
<1>6. RecordsIn(s) => RecordsIn(t)
  BY <1>1, <1>2 DEF RecordsIn, KeysFit, RoleOK, RowsOK, Rows
<1>8. GroupsOf(t) = GroupsOf(s) /\ Listed(t) = Listed(s)
  BY <1>1, <1>2 DEF GroupsOf, Listed
<1>9. IndexesIn(s, GroupsOf(s)) => IndexesIn(t, GroupsOf(t))
  BY <1>1, <1>8 DEF IndexesIn, Apart, EntryOK
<1>10. TreesIn(s) => TreesIn(t)
  BY <1>1, <1>4, <1>8 DEF TreesIn, TreeOK
<1> QED BY <1>2, <1>5, <1>6, <1>9, <1>10

LEMMA SoundSame ==
    ASSUME NEW s, NEW t, SameRecords(s, t), SameIndexes(s, t), AliasOnce(s) => AliasOnce(t), AliasKeys(t) = AliasKeys(s)
    PROVE  (Sound(s) => Sound(t)) /\ Docs(t) = Docs(s)
  BY RestSame DEF Sound, AliasMatch, SameRecords

LEMMA SoundThrow ==
    ASSUME NEW s, Good(s), Sound(s)
    PROVE  Sound(Throw(s)) /\ Docs(Throw(s)) = Docs(s) /\ Sound(Clear(s)) /\ Docs(Clear(s)) = Docs(s)
<1> DEFINE Same(t) == SameRecords(s, t) /\ SameAliases(s, t) /\ SameIndexes(s, t)
<1>1. ASSUME NEW t, Same(t) PROVE Sound(t) /\ Docs(t) = Docs(s)
  <2>1. AliasAll(t) = AliasAll(s) /\ t.alias = s.alias
    BY <1>1 DEF SameAliases, AliasAll
  <2>2. AliasKeys(t) = AliasKeys(s) /\ (AliasOnce(s) => AliasOnce(t))
    BY <2>1 DEF AliasKeys, AliasOnce
  <2> QED BY <1>1, <2>2, SoundSame
<1>2. Same(Throw(s)) /\ Same(Clear(s))
  BY ThrowIs
<1> QED BY <1>1, <1>2

\* Whether data becomes a group does not depend on the base.
LEMMA SchemaSame ==
    ASSUME NEW s, NEW t, NEW in
    PROVE  SlayPut(t, in).data.schema = SlayPut(s, in).data.schema
  BY DEF SlayPut

LEMMA GroupSame ==
    ASSUME NEW s, NEW t, NEW in, Good(s), KeysFit(s), Good(t), KeysFit(t), IsDoc(in)
    PROVE  IsGroup(SlayPut(t, in).data) <=> IsGroup(SlayPut(s, in).data)
<1> DEFINE c == SlayPut(s, in).data
           d == SlayPut(t, in).data
<1>1. c.schema = d.schema
  BY SchemaSame
<1>2. DataOK(c) /\ DataOK(d)
  BY SlayPutIs
<1> HIDE DEF c, d
<1>3. c # None /\ d # None
  BY <1>2, DatabaseAssumption DEF DataOK
<1>4. IsGroup(d) <=> IsGroup(c)
  BY <1>1, <1>3 DEF IsGroup
<1> QED BY <1>4 DEF c, d

\* The rows of a document are records of their own.
LEMMA TopFacts ==
    ASSUME NEW s, NEW k, Good(s), RecordsIn(s), k \in s.top, k \in DOMAIN s.rec
    PROVE  /\ IsTop(s.rec[k]) /\ IsRecord(s.rec[k]) /\ s.rec[k].lock = FALSE /\ s.rec[k].alias \in BOOLEAN
           /\ s.rec[k].data # None /\ s.rec[k].data \in Data /\ Whole(s.rec[k].data)
           /\ s.rec[k].type \in {"RECORD", "GROUP"} /\ (s.rec[k].type = "GROUP" <=> IsGroup(s.rec[k].data))
           /\ (s.rec[k].type = "GROUP" => s.rec[k].alias)
           /\ k \notin Rows(s, k) /\ k # 0 /\ k \in Nat /\ k < s.next
<1>1. IsTop(s.rec[k]) /\ k \notin Rows(s, k)
  BY DEF RecordsIn, RoleOK, RowsOK
<1>2. s.rec[k].data # None /\ s.rec[k].data \in Data
  BY <1>1, DatabaseAssumption DEF IsTop
<1>3. IsRecord(s.rec[k]) /\ RecordOK(s.rec[k])
  BY RecordFacts
<1>4. k # 0 /\ k \in Nat /\ k < s.next
  <2>1. k \in 1 .. s.next - 1 /\ s.next \in Nat
    BY DEF RecordsIn, KeysFit, Good, RecordsOK
  <2> QED BY <2>1
<1> QED BY <1>1, <1>2, <1>3, <1>4 DEF IsTop, RecordOK

\* A document that is replaced, its rows being dropped or not.
LEMMA ReplacedSound ==
    ASSUME NEW s, NEW v, NEW k, NEW X, NEW d, Good(s), Good(v), Sound(s), k \in s.top, Live(s, k),
           Step(s, v, k, X), NewOnes(s, v, k), Placed(v, k, d), Fresh(s, v, k, d), v.top = s.top,
           AliasOnce(v), AliasKeys(v) = AliasKeys(s) \cup (IF v.rec[k].alias THEN {k} ELSE {}),
           s.rec[k].alias => v.rec[k].alias, s.rec[k].type = "GROUP" => IsGroup(d),
           v.ilist = s.ilist, v.tree = s.tree, v.stale = s.stale \cup TreesOf(s, k)
    PROVE  Sound(v) /\ DocsWith(s, v, k, Expand(v, d))
<1>1. RecordsIn(s) /\ AliasMatch(s) /\ IndexesIn(s, GroupsOf(s)) /\ TreesIn(s)
  BY DEF Sound
<1>2. RecordsIn(v)
  BY <1>1, PlacedRecords
<1>3. KeysFit(v)
  BY <1>2 DEF RecordsIn
<1>4. \A j \in AliasKeys(s) : j \in DOMAIN s.rec /\ Live(s, j) /\ s.rec[j].alias
  BY <1>1 DEF AliasMatch, Live
<1>5. k \in DOMAIN s.rec
  BY DEF Live
<1>6. AliasMatch(v)
  <2>1. \A j \in AliasKeys(v) : j = k \/ j \notin DOMAIN s.rec => Live(v, j) /\ v.rec[j].alias
    BY <1>4, <1>5 DEF Placed, Live
  <2>2. \A j \in AliasKeys(v) : j = k \/ j \notin DOMAIN s.rec \/ j \in AliasKeys(s)
    OBVIOUS
  <2>3. \A j \in s.top \ {k} : j \in AliasKeys(s) => j \in AliasKeys(v)
    OBVIOUS
  <2>4. \A j \in v.top : j = k \/ j \notin DOMAIN s.rec => (Live(v, j) /\ v.rec[j].alias => j \in AliasKeys(v))
    BY DEF NewOnes, Live
  <2> QED BY <1>1, <2>1, <2>2, <2>3, <2>4, StepAliases
<1>7. IndexesIn(v, GroupsOf(v)) /\ TreesIn(v)
  <2>1. Shrunk(s, v) /\ IsSeq(v.tree) /\ Len(v.tree) = Len(s.tree) /\ s.stale \subseteq v.stale /\ Listed(v) = Listed(s)
    BY <1>1 DEF Shrunk, Listed, IndexesIn
  <2>2. ASSUME NEW p \in Listed(v), v.ilist[p].group = k, k # 0
        PROVE  k \in GroupsOf(v) /\ TreeOK(v, v.ilist[p])
    <3>1. s.ilist[p].group \in GroupsOf(s) \cup {0}
      BY <1>1, <2>1 DEF IndexesIn, EntryOK
    <3>2. s.rec[k].type = "GROUP"
      BY <2>2, <3>1 DEF GroupsOf
    <3>3. k \in GroupsOf(v)
      BY <3>2 DEF Placed, GroupsOf, Live
    <3>4. v.ilist[p].offset \in v.stale
      BY <2>1, <2>2 DEF TreesOf
    <3> QED BY <3>3, <3>4 DEF TreeOK
  <2>3. \A p \in Listed(v) : v.ilist[p].group # k => v.tree[v.ilist[p].offset] = s.tree[v.ilist[p].offset]
    OBVIOUS
  <2> QED BY <1>1, <1>3, <2>1, <2>2, <2>3, StepIndexes
<1>8. Live(v, k) /\ v.rec[k].data = d /\ k \in v.top
  BY DEF Placed, Live
<1>9. DocsWith(s, v, k, Expand(v, v.rec[k].data))
  BY <1>1, <1>3, <1>8, StepWith
<1> QED BY <1>1, <1>2, <1>6, <1>7, <1>8, <1>9 DEF Sound

\* db_update() replaces the document; of an index it is an error.
LEMMA DbUpdateIs ==
    ASSUME NEW s, NEW k, NEW in, NEW descent \in BOOLEAN, Good(s), ~s.err, Sound(s), IsDoc(in), Live(s, k), k \in s.top,
           \/ IsGroup(SlayPut(s, in).data) <=> s.rec[k].type = "GROUP"
           \/ ~s.rec[k].alias
    PROVE  LET v == DbUpdate(s, k, in, descent) IN Sound(v) /\ DocsWith(s, v, k, in)
<1> DEFINE r == s.rec[k]
           X == IF r.type = "GROUP" /\ descent THEN Rows(s, k) ELSE {}
           t == IF r.type = "GROUP" /\ descent THEN DropRows(s, r.data, "update") ELSE s
           put == SlayPut(t, in)
           p == put.s
           d == put.data
           u == UpdateData(p, k, d)
           w == [u EXCEPT !.stale = @ \cup TreesOf(s, k)]
           v == DbUpdate(s, k, in, descent)
           q == [r EXCEPT !.data = d]
<1>1. RecordsIn(s) /\ AliasMatch(s) /\ k \in DOMAIN s.rec
  BY DEF Sound, Live
<1>2. /\ IsRecord(r) /\ r.lock = FALSE /\ r.alias \in BOOLEAN /\ r.type \in {"RECORD", "GROUP"}
      /\ (r.type = "GROUP" => r.alias) /\ k \notin Rows(s, k) /\ k # 0 /\ k \in Nat /\ k < s.next /\ r.life = "finite"
  BY <1>1, TopFacts DEF Live
<1>3. Took(s, t, X) /\ X \subseteq Rows(s, k)
  <2>1. CASE r.type = "GROUP" /\ descent
    <3>1. Rows(s, k) \subseteq DOMAIN s.rec
      BY <1>1, <1>2 DEF RecordsIn, RowsOK, Live
    <3> QED BY <1>1, <2>1, <3>1, DropRowsIs
  <2>2. CASE ~(r.type = "GROUP" /\ descent)
    BY <2>2, SMTT(30) DEF Took, SameAliases, SameIndexes
  <2> QED BY <2>1, <2>2
<1>4. v = IF u.err THEN u
          ELSE IF IsGroup(d) /\ r.type # "GROUP" THEN MakeGroup(w, k, r)
          ELSE IF ~IsGroup(d) /\ r.type = "GROUP" THEN AliasDelete(w, k)
          ELSE w
  <2>1. LET g == Get(s, k, FALSE) IN g.s = s /\ g.meta = r /\ g.data = r.data
    BY DEF Get
  <2> HIDE DEF r
  <2> QED BY <1>2, <2>1 DEF DbUpdate
<1>5. Good(v)
  <2>1. Len(in.items) \in Nat
    BY DEF IsDoc
  <2> QED BY <1>1, <2>1, DbUpdateGood
<1> HIDE DEF X, t, v
<1>6. Good(t) /\ KeysFit(t) /\ t.next = s.next /\ t.top = s.top /\ ~t.err
  BY <1>1, <1>3 DEF Took, RecordsIn, KeysFit
<1>7. /\ p.top = t.top /\ SameAliases(t, p) /\ SameIndexes(t, p) /\ p.err = t.err
      /\ t.next <= p.next
      /\ DOMAIN t.rec \subseteq DOMAIN p.rec /\ DOMAIN p.rec \subseteq DOMAIN t.rec \cup t.next .. p.next - 1
      /\ \A x \in DOMAIN t.rec : p.rec[x] = t.rec[x]
      /\ NewRows(t, p, d) /\ DataOK(d)
      /\ Expand(p, d) = in
  BY <1>6, SlayPutIs
<1>8. Good(p) /\ Own(p, k, Record(d)) /\ Whole(d)
  <2>1. Len(in.items) \in Nat
    BY DEF IsDoc
  <2> QED BY <1>6, <2>1, SlayPutGood, PutOwned
<1>9. IsGroup(d) <=> IsGroup(SlayPut(s, in).data)
  BY <1>1, <1>6, GroupSame DEF RecordsIn
<1> HIDE DEF put, p, d
<1>10. k \in DOMAIN t.rec /\ t.rec[k] = r /\ k \in DOMAIN p.rec /\ p.rec[k] = r
  BY <1>1, <1>2, <1>3, <1>7 DEF Took
<1>11. Good(u) /\ Changed(p, u, k, q)
  <2>1. ~p.rec[k].lock
    BY <1>2, <1>10
  <2> QED BY <1>8, <1>10, <2>1, UpdateDataGood, UpdateDataIs
<1>12. q.type = r.type /\ q.alias = r.alias /\ q.lock = r.lock /\ q.life = r.life /\ q.data = d /\ IsRecord(q)
  <2> HIDE DEF r
  <2>1. IsRecord(r)
    BY <1>2
  <2> QED BY ONLY <2>1 DEF IsRecord
<1> HIDE DEF u, q
<1>13. /\ w.rec = u.rec /\ w.next = u.next /\ w.top = u.top /\ w.err = u.err /\ w.alias = u.alias
       /\ w.ilist = u.ilist /\ w.tree = u.tree /\ w.stale = u.stale \cup TreesOf(s, k) /\ Good(w)
  <2>1. SameRest(u, w)
    BY <1>11, OtherFields
  <2>2. Good(w)
    BY <1>11, <2>1, RestKept
  <2> QED BY <1>11, <2>2, GoodIsBase DEF IsBase
<1> HIDE DEF w
<1>14. /\ DOMAIN w.rec = DOMAIN p.rec /\ w.rec[k] = q /\ \A x \in DOMAIN p.rec \ {k} : w.rec[x] = p.rec[x]
       /\ w.next = p.next /\ w.top = s.top /\ ~w.err /\ w.alias = s.alias /\ ~u.err
       /\ w.ilist = s.ilist /\ w.tree = s.tree /\ w.stale = s.stale \cup TreesOf(s, k)
  <2>1. DOMAIN w.rec = DOMAIN p.rec /\ w.rec[k] = q /\ \A x \in DOMAIN p.rec \ {k} : w.rec[x] = p.rec[x]
    <3>1. k \in DOMAIN p.rec /\ Changed(p, u, k, q)
      BY <1>10, <1>11
    <3>2. DOMAIN u.rec = DOMAIN p.rec /\ u.rec[k] = q /\ \A x \in DOMAIN p.rec \ {k} : u.rec[x] = p.rec[x]
      BY ONLY <3>1, ChangedIs, SMTT(30)
    <3> QED BY <1>13, <3>2
  <2>2. u.alias = s.alias /\ u.ilist = s.ilist /\ u.tree = s.tree /\ u.stale = s.stale
    BY <1>3, <1>7, <1>11 DEF Took, Changed, SameAliases, SameIndexes
  <2>3. u.next = p.next /\ u.top = s.top /\ ~u.err
    BY <1>6, <1>7, <1>11 DEF Changed
  <2> QED BY <1>13, <2>1, <2>2, <2>3
<1>15. AliasOnce(w) /\ AliasKeys(w) = AliasKeys(s) /\ (k \in AliasKeys(s) <=> r.alias)
  <2>1. AliasAll(w) = AliasAll(s)
    BY <1>14 DEF AliasAll
  <2> QED BY <1>1, <1>14, <2>1 DEF AliasOnce, AliasKeys, AliasMatch
<1>16. r.type = "GROUP" => IsGroup(d)
  BY <1>2, <1>9
<1>17. /\ DOMAIN v.rec = DOMAIN p.rec /\ \A x \in DOMAIN p.rec \ {k} : v.rec[x] = p.rec[x]
       /\ v.next = p.next /\ v.top = s.top
       /\ Placed(v, k, d) /\ (r.alias => v.rec[k].alias)
       /\ AliasOnce(v) /\ AliasKeys(v) = AliasKeys(s) \cup (IF v.rec[k].alias THEN {k} ELSE {})
       /\ v.ilist = s.ilist /\ v.tree = s.tree /\ v.stale = s.stale \cup TreesOf(s, k)
  <2>1. CASE IsGroup(d) /\ r.type # "GROUP"
    <3>1. v = MakeGroup(w, k, r) /\ r.alias = FALSE
      BY <1>2, <1>4, <1>9, <1>14, <2>1
    <3>2. Grouped(w, v, k, r)
      <4>1. ~w.rec[k].lock /\ Whole(w.rec[k].data) /\ k \notin AliasKeys(w) /\ k \in DOMAIN w.rec
        BY <1>2, <1>8, <1>10, <1>12, <1>14, <1>15, <3>1
      <4> QED BY <1>2, <1>13, <1>15, <3>1, <4>1, MakeGroupIs
    <3>3. v.rec[k].type = "GROUP" /\ v.rec[k].alias = TRUE /\ v.rec[k].lock = FALSE /\ v.rec[k].life = "finite" /\ v.rec[k].data = d
      BY <1>2, <1>12, <1>14, <3>2 DEF Grouped
    <3>4. Placed(v, k, d)
      BY <1>10, <1>14, <2>1, <3>2, <3>3 DEF Placed, Grouped
    <3> QED BY <1>14, <1>15, <3>2, <3>3, <3>4 DEF Grouped, SameIndexes
  <2>2. CASE ~(IsGroup(d) /\ r.type # "GROUP")
    <3>1. v = w
      BY <1>4, <1>14, <1>16, <2>2
    <3>2. Placed(v, k, d)
      BY <1>2, <1>10, <1>12, <1>14, <1>16, <2>2, <3>1 DEF Placed
    <3>3. AliasKeys(v) = AliasKeys(s) \cup (IF v.rec[k].alias THEN {k} ELSE {})
      BY <1>12, <1>14, <1>15, <3>1
    <3> QED BY <1>12, <1>14, <1>15, <3>1, <3>2, <3>3
  <2> QED BY <2>1, <2>2
<1>18. s.next \in Nat \ {0} /\ p.next \in Nat /\ DOMAIN s.rec \subseteq 1 .. s.next - 1 /\ s.top \subseteq 1 .. s.next - 1
  BY <1>1, <1>8 DEF Good, RecordsOK, RecordsIn, KeysFit
<1>19. \A x \in DOMAIN p.rec \ DOMAIN t.rec : x \notin DOMAIN s.rec /\ x \notin s.top /\ x # k
  <2> SUFFICES ASSUME NEW x \in DOMAIN p.rec \ DOMAIN t.rec PROVE x \notin DOMAIN s.rec /\ x \notin s.top /\ x # k
    OBVIOUS
  <2>1. x \in s.next .. p.next - 1
    BY <1>6, <1>7
  <2>2. x \notin 1 .. s.next - 1
    BY <1>18, <2>1
  <2> QED BY <1>10, <1>18, <2>2
<1>20. Step(s, v, k, X)
  <2>1. DOMAIN v.rec \subseteq DOMAIN s.rec \cup s.next .. v.next - 1
    BY <1>3, <1>6, <1>7, <1>17 DEF Took
  <2>2. ASSUME NEW x \in DOMAIN s.rec \ {k}
        PROVE  \/ x \in DOMAIN v.rec /\ v.rec[x] = s.rec[x] /\ x \notin X
               \/ x \in X /\ (x \in DOMAIN v.rec => v.rec[x] = [s.rec[x] EXCEPT !.life = "recycle"])
    <3>1. CASE x \in X
      <4>1. x \in DOMAIN t.rec => t.rec[x] = [s.rec[x] EXCEPT !.life = "recycle"]
        BY <1>3, <3>1 DEF Took
      <4>2. x \in DOMAIN v.rec => x \in DOMAIN t.rec /\ v.rec[x] = t.rec[x]
        BY <1>7, <1>17, <1>19
      <4> QED BY <3>1, <4>1, <4>2
    <3>2. CASE x \notin X
      <4>1. x \in DOMAIN t.rec /\ t.rec[x] = s.rec[x]
        BY <1>3, <3>2 DEF Took
      <4> QED BY <1>7, <1>17, <3>2, <4>1
    <3> QED BY <3>1, <3>2
  <2>3. s.next <= v.next
    BY <1>6, <1>7, <1>17
  <2> QED BY <1>1, <1>3, <1>17, <2>1, <2>2, <2>3 DEF Step
<1>21. \A x \in DOMAIN v.rec \ DOMAIN s.rec : x \in DOMAIN p.rec \ DOMAIN t.rec /\ x # k /\ v.rec[x] = p.rec[x]
  BY <1>1, <1>3, <1>17 DEF Took
<1>22. NewOnes(s, v, k)
  BY <1>7, <1>17, <1>19, <1>21 DEF NewOnes, NewRows
<1>23. \A x \in KeysOf(d) \ {0} : /\ x \in DOMAIN v.rec \ DOMAIN s.rec /\ x # k /\ v.rec[x] = p.rec[x] /\ x \in DOMAIN p.rec
                                  /\ IsInner(p.rec[x]) /\ p.rec[x].life = "finite"
  BY <1>7, <1>17, <1>19 DEF NewRows
<1>24. Fresh(s, v, k, d)
  BY <1>7, <1>23 DEF Fresh, NewRows
<1>25. Sound(v) /\ DocsWith(s, v, k, Expand(v, d))
  BY <1>5, <1>16, <1>17, <1>20, <1>22, <1>24, ReplacedSound
<1>26. Expand(v, d) = Expand(p, d)
  <2>1. 0 \notin DOMAIN p.rec /\ 0 \notin DOMAIN v.rec
    BY <1>17, <1>25 DEF Sound, RecordsIn, KeysFit
  <2>2. \A x \in KeysOf(d) \ {0} : Live(p, x) /\ Live(v, x) /\ v.rec[x] = p.rec[x]
    BY <1>17, <1>23 DEF Live
  <2> QED BY <2>1, <2>2, RowsRead
<1> QED BY <1>7, <1>25, <1>26 DEF v

-----------------------------------------------------------------------------
(* Documents and indexes that go *)

\* What db_delete() and db_purge() have done before the record k goes: its rows
\* in X, its indexes and its alias are gone.
Detached(s, t, k, X) ==
    /\ Good(t) /\ t.next = s.next /\ t.top = s.top /\ t.tree = s.tree /\ t.stale = s.stale
    /\ DOMAIN t.rec \subseteq DOMAIN s.rec
    /\ \A x \in DOMAIN s.rec :
         /\ x \notin X => x \in DOMAIN t.rec /\ t.rec[x] = s.rec[x]
         /\ x \in X /\ x \in DOMAIN t.rec => t.rec[x] = [s.rec[x] EXCEPT !.life = "recycle"]
    /\ Shrunk(s, t) /\ \A p \in Listed(t) : t.ilist[p].group # k
    /\ AliasOnce(t) /\ AliasKeys(t) \subseteq AliasKeys(s) \ {k}
    /\ (AliasKeys(s) \cap s.top) \ {k} \subseteq AliasKeys(t)

LEMMA DetachIs ==
    ASSUME NEW s, NEW k \in DOMAIN s.rec, NEW descent \in BOOLEAN, NEW how \in {"delete", "purge"},
           Good(s), ~s.err, Sound(s), k \in s.top \/ s.rec[k].type = "INDEX", how = "delete" => Live(s, k),
           descent /\ s.rec[k].type = "GROUP" => Rows(s, k) \subseteq DOMAIN s.rec
    PROVE  LET t == Detach(s, k, s.rec[k], descent, how)
               X == IF s.rec[k].type = "GROUP" /\ descent THEN Rows(s, k) ELSE {}
           IN  Detached(s, t, k, X) /\ (Live(s, k) /\ k \in s.top => ~t.err)
<1> DEFINE r == s.rec[k]
           X == IF r.type = "GROUP" /\ descent THEN Rows(s, k) ELSE {}
           t == CASE r.type = "GROUP" -> DropIndexes(IF descent THEN DropRows(s, r.data, how) ELSE s, k)
                  [] r.type = "INDEX" -> IndexListDelete(s, k)
                  [] OTHER -> s
           u == IF r.alias THEN AliasDelete(t, k) ELSE t
<1>1. u = Detach(s, k, r, descent, how)
  BY DEF Detach
<1>2. RecordsIn(s) /\ AliasMatch(s) /\ IndexesIn(s, GroupsOf(s))
  BY DEF Sound
<1>3. k # 0 /\ 0 \notin s.top /\ s.next \in Nat
  BY <1>2 DEF RecordsIn, KeysFit, Good, RecordsOK
<1>4. Good(u)
  BY <1>1, RecordFacts, DetachGood, SMTT(30)
<1>5. /\ Good(t) /\ t.next = s.next /\ t.top = s.top /\ t.tree = s.tree /\ t.stale = s.stale
      /\ DOMAIN t.rec \subseteq DOMAIN s.rec
      /\ \A x \in DOMAIN s.rec :
           /\ x \notin X => x \in DOMAIN t.rec /\ t.rec[x] = s.rec[x]
           /\ x \in X /\ x \in DOMAIN t.rec => t.rec[x] = [s.rec[x] EXCEPT !.life = "recycle"]
      /\ Shrunk(s, t) /\ \A p \in Listed(t) : t.ilist[p].group # k
      /\ AliasOnce(t) /\ AliasKeys(t) \subseteq AliasKeys(s)
      /\ AliasKeys(s) \cap s.top \subseteq AliasKeys(t)
      /\ k \in s.top => ~t.err
  <2>1. CASE r.type = "GROUP"
    <3> DEFINE w == IF descent THEN DropRows(s, r.data, how) ELSE s
    <3>1. t = DropIndexes(w, k)
      BY <2>1
    <3>2. Took(s, w, X)
      <4>1. CASE descent
        BY <1>2, <2>1, <4>1, DropRowsIs
      <4>2. CASE ~descent
        BY <4>2 DEF Took, SameAliases, SameIndexes
      <4> QED BY <4>1, <4>2
    <3> HIDE DEF w, t, X
    <3>3. Indexes(w)
      BY <1>2, <3>2 DEF Indexes, IndexesIn, Apart, EntryOK, Took, SameIndexes, Listed
    <3>4. AliasOnce(w) /\ AliasKeys(w) = AliasKeys(s)
      BY <1>2, <3>2 DEF Took, SameAliases, AliasOnce, AliasKeys, AliasAll, AliasMatch
    <3>5. Dropping(w, t) /\ ~t.err /\ \A p \in Listed(t) : t.ilist[p].group # k
      <4>1. Good(w) /\ 0 \notin w.top
        BY <1>3, <3>2 DEF Took
      <4> QED BY <1>3, <3>1, <3>3, <3>4, <4>1, DropIndexesIs
    <3>6. Shrunk(s, t)
      <4>1. w.ilist = s.ilist
        BY <3>2 DEF Took, SameIndexes
      <4> QED BY <3>5, <4>1 DEF Shrunk, Dropping, Listed
    <3>7. /\ t.next = s.next /\ t.top = s.top /\ t.tree = s.tree /\ t.stale = s.stale /\ t.rec = w.rec /\ Good(t)
      BY <3>2, <3>5 DEF Took, SameIndexes, Dropping, SameRecords
    <3>8. /\ DOMAIN t.rec \subseteq DOMAIN s.rec
          /\ \A x \in DOMAIN s.rec :
               /\ x \notin X => x \in DOMAIN t.rec /\ t.rec[x] = s.rec[x]
               /\ x \in X /\ x \in DOMAIN t.rec => t.rec[x] = [s.rec[x] EXCEPT !.life = "recycle"]
      BY <3>2, <3>7 DEF Took
    <3>9. w.top = s.top
      BY <3>2, SMTT(30) DEF Took
    <3> QED BY <3>4, <3>5, <3>6, <3>7, <3>8, <3>9 DEF Dropping
  <2>2. CASE r.type # "GROUP"
    <3>1. X = {}
      BY <2>2
    <3>2. \A p \in Listed(s) : s.ilist[p].group # k
      BY <1>2, <1>3, <2>2 DEF IndexesIn, EntryOK, GroupsOf
    <3>3. CASE r.type = "INDEX"
      <4>1. t = IndexListDelete(s, k) /\ k \notin s.top
        BY <1>2, <3>3, TopFacts
      <4> HIDE DEF t
      <4>2. SameRecords(s, t) /\ SameAliases(s, t) /\ t.tree = s.tree /\ t.stale = s.stale /\ Shrunk(s, t) /\ Good(t)
        BY <4>1, IndexListDeleteIs, IndexListDeleteGood
      <4>3. AliasOnce(t) /\ AliasKeys(t) = AliasKeys(s)
        BY <1>2, <4>2 DEF SameAliases, AliasOnce, AliasKeys, AliasAll, AliasMatch
      <4>4. \A p \in Listed(t) : t.ilist[p].group # k
        BY <1>3, <3>2, <4>2, SMTT(30) DEF Shrunk
      <4> QED BY <3>1, <4>1, <4>2, <4>3, <4>4 DEF SameRecords
    <3>4. CASE r.type # "INDEX"
      <4>1. t = s
        BY <2>2, <3>4
      <4> QED BY <1>2, <3>1, <3>2, <4>1 DEF Shrunk, AliasMatch
    <3> QED BY <3>3, <3>4
  <2> QED BY <2>1, <2>2
<1> HIDE DEF t, X
<1>6. r.alias \in BOOLEAN /\ (k \in AliasKeys(s) => r.alias) /\ (Live(s, k) /\ k \in s.top /\ r.alias => k \in AliasKeys(s))
  <2>1. k \in s.top => r.alias \in BOOLEAN
    BY <1>2, TopFacts
  <2>2. k \notin s.top => r.alias \in BOOLEAN
    BY <1>2 DEF RecordsIn, RoleOK, IsInner, IsIndex, IsRaw
  <2> QED BY <1>2, <2>1, <2>2 DEF AliasMatch
<1>7. Detached(s, u, k, X) /\ (Live(s, k) /\ k \in s.top => ~u.err)
  <2>1. CASE r.alias
    <3>1. u = AliasDelete(t, k)
      BY <2>1
    <3> HIDE DEF u
    <3>2. /\ AliasOnce(u) /\ AliasKeys(u) = AliasKeys(t) \ {k}
          /\ SameRecords(t, u) /\ SameIndexes(t, u)
          /\ u.err = IF k \in AliasKeys(t) THEN t.err ELSE TRUE
      BY <1>5, <3>1, AliasDeleteIs
    <3>3. Shrunk(s, u) /\ \A p \in Listed(u) : u.ilist[p].group # k
      BY <1>5, <3>2 DEF SameIndexes, Shrunk, Listed
    <3>4. Live(s, k) /\ k \in s.top => ~u.err
      BY <1>5, <1>6, <2>1, <3>2
    <3>5. u.rec = t.rec /\ u.next = t.next /\ u.top = t.top /\ u.tree = t.tree /\ u.stale = t.stale
      BY <3>2 DEF SameRecords, SameIndexes
    <3> QED BY <1>4, <1>5, <3>2, <3>3, <3>4, <3>5 DEF Detached
  <2>2. CASE ~r.alias
    <3>1. u = t /\ k \notin AliasKeys(s)
      BY <1>6, <2>2
    <3> QED BY <1>5, <3>1 DEF Detached
  <2> QED BY <2>1, <2>2
<1> QED BY <1>1, <1>7 DEF X

\* The record itself goes, or an error of a helper keeps an index.
LEMMA GoneSound ==
    ASSUME NEW s, NEW t, NEW v, NEW k \in DOMAIN s.rec, NEW X, Good(s), Sound(s), k \in s.top \/ s.rec[k].type = "INDEX",
           X \subseteq Rows(s, k), Detached(s, t, k, X), Good(v),
           v.next = t.next, v.top = t.top, SameAliases(t, v), SameIndexes(t, v),
           DOMAIN v.rec \subseteq DOMAIN t.rec, DOMAIN t.rec \ {k} \subseteq DOMAIN v.rec,
           \A x \in DOMAIN v.rec \ {k} : v.rec[x] = t.rec[x],
           k \in DOMAIN v.rec => \/ v.rec[k] = [s.rec[k] EXCEPT !.life = "recycle"]
                                 \/ v.rec[k] = s.rec[k] /\ k \notin s.top
    PROVE  Sound(v) /\ DocsWithout(s, v, k) /\ (k \in s.top => ~Live(v, k))
<1>1. RecordsIn(s) /\ AliasMatch(s) /\ IndexesIn(s, GroupsOf(s)) /\ TreesIn(s)
  BY DEF Sound
<1>2. s.next \in Nat /\ v.next = s.next /\ v.top = s.top /\ DOMAIN v.rec \subseteq DOMAIN s.rec
  BY DEF Detached, Good, RecordsOK
<1>3. k \in s.top \/ ~IsInner(s.rec[k])
  BY DEF IsInner
<1>4. ASSUME NEW x \in DOMAIN s.rec \ {k}
      PROVE  \/ x \in DOMAIN v.rec /\ v.rec[x] = s.rec[x] /\ x \notin X
             \/ x \in X /\ (x \in DOMAIN v.rec => v.rec[x] = [s.rec[x] EXCEPT !.life = "recycle"])
  BY DEF Detached
<1>5. Step(s, v, k, X)
  BY <1>2, <1>3, <1>4 DEF Step
<1>6. IsRecord(s.rec[k])
  BY RecordFacts
<1>7. k \in DOMAIN v.rec => /\ v.rec[k].type = s.rec[k].type /\ v.rec[k].alias = s.rec[k].alias /\ v.rec[k].lock = s.rec[k].lock
                            /\ v.rec[k].data = s.rec[k].data
                            /\ v.rec[k].life = "recycle" \/ (v.rec[k] = s.rec[k] /\ k \notin s.top)
  BY <1>6 DEF IsRecord
<1>8. k \in s.top => ~Live(v, k)
  BY <1>7 DEF Live
<1>9. RoleOK(s, k) /\ RowsOK(s, k)
  BY <1>1 DEF RecordsIn
<1>10. k \in DOMAIN v.rec => RoleOK(v, k) /\ RowsOK(v, k)
  <2> SUFFICES ASSUME k \in DOMAIN v.rec PROVE RoleOK(v, k) /\ RowsOK(v, k)
    OBVIOUS
  <2>1. RoleOK(v, k)
    <3>1. CASE k \in s.top
      <4>1. IsTop(s.rec[k])
        BY <1>9, <3>1 DEF RoleOK
      <4>2. IsTop(v.rec[k])
        BY <1>7, <4>1 DEF IsTop
      <4> QED BY <1>2, <1>7, <3>1, <4>2 DEF RoleOK
    <3>2. CASE k \notin s.top
      <4>1. IsIndex(s.rec[k])
        BY <1>9, <3>2 DEF RoleOK, IsInner, IsRaw
      <4>2. IsIndex(v.rec[k])
        BY <1>7, <4>1 DEF IsIndex
      <4>3. v.rec[k].life \in {"finite", "recycle"}
        BY <1>7, <1>9 DEF RoleOK
      <4> QED BY <1>2, <3>2, <4>2, <4>3 DEF RoleOK
    <3> QED BY <3>1, <3>2
  <2>2. Rows(v, k) = Rows(s, k) /\ RowKeys(v.rec[k]) = RowKeys(s.rec[k])
    BY <1>7 DEF Rows, RowKeys
  <2>3. ASSUME NEW x \in Rows(s, k)
        PROVE  /\ x \notin v.top
               /\ x \in DOMAIN v.rec => IsInner(v.rec[x])
               /\ v.rec[k].life = "finite" => Live(v, x)
    <3>1. k \in s.top /\ x \notin s.top /\ (x \in DOMAIN s.rec => IsInner(s.rec[x]))
      BY <1>1, <1>9, OnlyTop DEF RowsOK, Rows
    <3>2. x \in DOMAIN v.rec => IsInner(v.rec[x])
      <4> SUFFICES ASSUME x \in DOMAIN v.rec PROVE IsInner(v.rec[x])
        OBVIOUS
      <4>1. x \in DOMAIN s.rec /\ IsInner(s.rec[x]) /\ x # k
        BY <1>2, <3>1
      <4>2. v.rec[x] = s.rec[x] \/ v.rec[x] = [s.rec[x] EXCEPT !.life = "recycle"]
        BY <1>4, <4>1
      <4>3. IsRecord(s.rec[x])
        BY <4>1, RecordFacts
      <4> QED BY <4>1, <4>2, <4>3, InnerFacts
    <3> QED BY <1>2, <1>7, <3>1, <3>2
  <2> QED BY <1>7, <1>9, <2>1, <2>2, <2>3 DEF RowsOK
<1>11. RecordsIn(v)
  <2>1. \A j \in DOMAIN v.rec : j = k \/ j \notin DOMAIN s.rec => RoleOK(v, j) /\ RowsOK(v, j)
    BY <1>2, <1>10
  <2> QED BY <1>1, <1>5, <2>1, StepRecords
<1>12. KeysFit(v)
  BY <1>11 DEF RecordsIn
<1>13. AliasOnce(v) /\ AliasKeys(v) = AliasKeys(t)
  BY DEF Detached, SameAliases, AliasOnce, AliasKeys, AliasAll
<1>14. AliasMatch(v)
  <2>1. AliasKeys(v) \subseteq AliasKeys(s) \ {k} /\ (AliasKeys(s) \cap s.top) \ {k} \subseteq AliasKeys(v)
    BY <1>13 DEF Detached
  <2>2. \A j \in AliasKeys(s) : j \in DOMAIN s.rec
    BY <1>1 DEF AliasMatch, Live
  <2>3. \A j \in v.top : j = k \/ j \notin DOMAIN s.rec => (Live(v, j) /\ v.rec[j].alias => j \in AliasKeys(v))
    BY <1>2, <1>8 DEF Live
  <2> QED BY <1>1, <1>5, <1>13, <2>1, <2>2, <2>3, StepAliases
<1>15. IndexesIn(v, GroupsOf(v)) /\ TreesIn(v)
  <2>1. Shrunk(s, v) /\ v.tree = s.tree /\ v.stale = s.stale /\ \A p \in Listed(v) : v.ilist[p].group # k
    BY DEF Detached, SameIndexes, Shrunk, Listed
  <2>2. IsSeq(v.tree)
    BY <1>1, <2>1 DEF IndexesIn
  <2> QED BY <1>1, <1>5, <1>12, <2>1, <2>2, StepIndexes
<1>16. DocsWithout(s, v, k)
  BY <1>1, <1>2, <1>5, <1>8, <1>12, StepWithout
<1> QED BY <1>8, <1>11, <1>14, <1>15, <1>16 DEF Sound

\* db_delete() takes the document, and nothing else.
LEMMA DbDeleteIs ==
    ASSUME NEW s, NEW k, NEW descent \in BOOLEAN, Good(s), ~s.err, Sound(s), Live(s, k),
           k \in s.top \/ s.rec[k].type = "INDEX"
    PROVE  LET v == DbDelete(s, k, descent)
           IN  Sound(v) /\ DocsWithout(s, v, k) /\ (k \in s.top => ~Live(v, k))
<1> DEFINE r == s.rec[k]
           X == IF r.type = "GROUP" /\ descent THEN Rows(s, k) ELSE {}
           t == Detach(s, k, r, descent, "delete")
           v == DbDelete(s, k, descent)
           q == [r EXCEPT !.life = "recycle"]
<1>1. k \in DOMAIN s.rec /\ RecordsIn(s)
  BY DEF Live, Sound
<1>2. v = EngineDelete(t, k)
  <2>1. LET g == Get(s, k, FALSE) IN g.s = s /\ g.meta = r /\ g.data = r.data
    BY DEF Get
  <2> QED BY <2>1 DEF DbDelete
<1>3. descent /\ r.type = "GROUP" => Rows(s, k) \subseteq DOMAIN s.rec
  BY <1>1 DEF RecordsIn, RowsOK, Live
<1>4. Detached(s, t, k, X) /\ (Live(s, k) /\ k \in s.top => ~t.err)
  BY <1>1, <1>3, DetachIs
<1>5. Good(v)
  BY DbDeleteGood
<1> HIDE DEF t, v
<1>6. k \notin X /\ X \subseteq Rows(s, k)
  <2>1. k \in s.top => k \notin Rows(s, k)
    BY <1>1, TopFacts
  <2>2. k \notin s.top => Rows(s, k) = {}
    BY <1>1, OnlyTop DEF Rows
  <2> QED BY <2>1, <2>2
<1> HIDE DEF X
<1>7. Good(t) /\ k \in DOMAIN t.rec /\ t.rec[k] = r /\ Live(t, k)
  BY <1>1, <1>4, <1>6 DEF Detached, Live
<1>8. ~r.lock
  <2>1. k \in s.top => r.lock = FALSE
    BY <1>1, TopFacts
  <2>2. k \notin s.top => r.lock = FALSE
    BY <1>1 DEF RecordsIn, RoleOK, IsInner, IsIndex, IsRaw
  <2> QED BY <2>1, <2>2
<1>9. \/ Changed(t, v, k, q)
      \/ v = t /\ k \notin s.top
  <2>1. CASE t.err
    BY <1>2, <1>4, <1>7, <2>1 DEF EngineDelete
  <2>2. CASE ~t.err
    BY <1>2, <1>7, <1>8, <2>2, EngineDeleteIs
  <2> QED BY <2>1, <2>2
<1> HIDE DEF q, r
<1>10. /\ v.next = t.next /\ v.top = t.top /\ SameAliases(t, v) /\ SameIndexes(t, v)
       /\ DOMAIN v.rec = DOMAIN t.rec /\ \A x \in DOMAIN v.rec \ {k} : v.rec[x] = t.rec[x]
       /\ v.rec[k] = q \/ (v.rec[k] = r /\ k \notin s.top)
  <2>1. CASE Changed(t, v, k, q)
    <3>1. DOMAIN v.rec = DOMAIN t.rec /\ v.rec[k] = q /\ \A x \in DOMAIN t.rec \ {k} : v.rec[x] = t.rec[x]
      BY <1>7, <2>1, ChangedIs, SMTT(30)
    <3> QED BY <2>1, <3>1 DEF Changed
  <2>2. CASE v = t /\ k \notin s.top
    BY <1>7, <2>2 DEF SameAliases, SameIndexes
  <2> QED BY <1>9, <2>1, <2>2
<1>11. Sound(v) /\ DocsWithout(s, v, k) /\ (k \in s.top => ~Live(v, k))
  BY <1>1, <1>4, <1>5, <1>6, <1>10, GoneSound DEF q, r
<1> QED BY <1>11 DEF v

\* So does db_purge(), which takes deleted ones too.
LEMMA DbPurgeIs ==
    ASSUME NEW s, NEW k \in DOMAIN s.rec, NEW descent \in BOOLEAN, Good(s), ~s.err, Sound(s),
           k \in s.top \/ s.rec[k].type = "INDEX",
           descent /\ s.rec[k].type = "GROUP" => Rows(s, k) \subseteq DOMAIN s.rec
    PROVE  LET v == DbPurge(s, k, descent) IN Sound(v) /\ DocsWithout(s, v, k)
<1> DEFINE r == s.rec[k]
           X == IF r.type = "GROUP" /\ descent THEN Rows(s, k) ELSE {}
           t == Detach(s, k, r, descent, "purge")
           v == DbPurge(s, k, descent)
<1>1. RecordsIn(s)
  BY DEF Sound
<1>2. v = EnginePurge(t, k)
  <2>1. LET g == Get(s, k, TRUE) IN g.s = s /\ g.meta = r /\ g.data = r.data
    BY DEF Get
  <2> QED BY <2>1 DEF DbPurge
<1>3. Detached(s, t, k, X)
  BY DetachIs
<1>4. Good(v)
  BY DbDeleteGood
<1> HIDE DEF t, v
<1>5. k \notin X /\ X \subseteq Rows(s, k)
  <2>1. k \in s.top => k \notin Rows(s, k)
    BY <1>1, TopFacts
  <2>2. k \notin s.top => Rows(s, k) = {}
    BY <1>1, OnlyTop DEF Rows
  <2> QED BY <2>1, <2>2
<1> HIDE DEF X
<1>6. Good(t) /\ k \in DOMAIN t.rec /\ t.rec[k] = r
  BY <1>3, <1>5 DEF Detached
<1>7. ~r.lock
  <2>1. k \in s.top => r.lock = FALSE
    BY <1>1, TopFacts
  <2>2. k \notin s.top => r.lock = FALSE
    BY <1>1 DEF RecordsIn, RoleOK, IsInner, IsIndex, IsRaw
  <2> QED BY <2>1, <2>2
<1>8. /\ v.rec = [j \in DOMAIN t.rec \ {k} |-> t.rec[j]] /\ v.next = t.next /\ v.top = t.top
      /\ SameAliases(t, v) /\ SameIndexes(t, v)
  BY <1>2, <1>6, <1>7, EnginePurgeIs
<1>9. DOMAIN v.rec = DOMAIN t.rec \ {k} /\ \A x \in DOMAIN v.rec : v.rec[x] = t.rec[x]
  BY <1>8
<1>10. Sound(v) /\ DocsWithout(s, v, k)
  BY <1>3, <1>4, <1>5, <1>8, <1>9, GoneSound
<1> QED BY <1>10 DEF v

-----------------------------------------------------------------------------
(* Names *)

LEMMA DocsSame ==
    ASSUME NEW s, NEW t, NEW k, k \in DOMAIN Docs(s), DocsWith(s, t, k, Docs(s)[k])
    PROVE  Docs(t) = Docs(s)
<1>1. Docs(s) = [j \in DOMAIN Docs(s) |-> Docs(s)[j]]
  BY DEF Docs
<1>2. DOMAIN Docs(s) \cup {k} = DOMAIN Docs(s)
  OBVIOUS
<1> QED BY <1>1, <1>2 DEF DocsWith

\* db_alias_update() leaves the documents alone.
LEMMA DbAliasUpdateIs ==
    ASSUME NEW s, NEW k, NEW name \in Names, Good(s), ~s.err, Sound(s), Live(s, k), k \in s.top \/ s.rec[k].type = "INDEX"
    PROVE  LET v == DbAliasUpdate(s, k, name) IN Sound(v) /\ Docs(v) = Docs(s)
<1> DEFINE r == s.rec[k]
           u == AliasAdd(s, k, name)
           m == [r EXCEPT !.alias = TRUE]
           q == [m EXCEPT !.data = r.data]
           v == DbAliasUpdate(s, k, name)
<1>1. RecordsIn(s) /\ AliasMatch(s) /\ AliasOnce(s) /\ k \in DOMAIN s.rec /\ IndexesIn(s, GroupsOf(s)) /\ TreesIn(s)
  BY DEF Sound, AliasMatch, Live
<1>2. v = IF AliasGetKey(s, name) # None THEN s
          ELSE IF r.alias THEN AliasUpdate(s, k, name)
          ELSE SetMeta(u, k, m)
  <2>1. LET g == Get(s, k, FALSE) IN g.s = s /\ g.meta = r /\ g.data = r.data
    BY DEF Get
  <2> HIDE DEF r
  <2> QED BY <2>1 DEF DbAliasUpdate
<1>3. Good(v)
  BY <1>1, DbAliasUpdateGood
<1>4. CASE AliasGetKey(s, name) # None
  BY <1>2, <1>4
<1>5. CASE AliasGetKey(s, name) = None /\ r.alias
  <2>1. v = AliasUpdate(s, k, name)
    BY <1>2, <1>5
  <2> HIDE DEF v
  <2>2. AliasOnce(v) /\ AliasKeys(v) = AliasKeys(s) /\ SameRecords(s, v) /\ SameIndexes(s, v)
    BY <1>1, <2>1, AliasUpdateIs
  <2>3. Sound(v) /\ Docs(v) = Docs(s)
    BY <2>2, SoundSame
  <2> QED BY <2>3 DEF v
<1>6. CASE AliasGetKey(s, name) = None /\ ~r.alias
  <2>1. v = SetMeta(u, k, m)
    BY <1>2, <1>6
  <2>2. k \in s.top
    BY <1>1, <1>6 DEF RecordsIn, RoleOK, IsInner, IsIndex, IsRaw
  <2>3. /\ IsTop(r) /\ IsRecord(r) /\ r.lock = FALSE /\ r.type = "RECORD" /\ r.life = "finite" /\ k \in Nat
        /\ r.data # None /\ k # 0
    BY <1>1, <1>6, <2>2, TopFacts DEF Live
  <2>4. k \notin AliasKeys(s)
    BY <1>1, <1>6 DEF AliasMatch
  <2>5. AliasOnce(u) /\ AliasKeys(u) = AliasKeys(s) \cup {k} /\ SameRecords(s, u) /\ SameIndexes(s, u) /\ u.err = s.err
    BY <1>1, <2>4, AliasAddIs
  <2>6. Good(u)
    <3>1. CanName(s, k, name)
      BY <1>6, <2>3, AliasFree DEF CanName
    <3> QED BY <3>1, AliasAddGood
  <2>7. q.type = r.type /\ q.alias = TRUE /\ q.lock = r.lock /\ q.life = r.life /\ q.data = r.data
    BY <2>3 DEF IsRecord
  <2> HIDE DEF u, m, v
  <2>8. Changed(u, v, k, q)
    <3>1. k \in DOMAIN u.rec /\ u.rec[k] = r /\ ~u.rec[k].lock
      BY <1>1, <2>3, <2>5 DEF SameRecords
    <3> QED BY <2>1, <2>6, <3>1, SetMetaIs
  <2> HIDE DEF q
  <2>9. /\ DOMAIN v.rec = DOMAIN s.rec /\ v.rec[k] = q /\ \A x \in DOMAIN s.rec \ {k} : v.rec[x] = s.rec[x]
        /\ v.next = s.next /\ v.top = s.top /\ SameIndexes(s, v)
    <3>1. k \in DOMAIN u.rec
      BY <1>1, <2>5 DEF SameRecords
    <3>2. DOMAIN v.rec = DOMAIN u.rec /\ v.rec[k] = q /\ \A x \in DOMAIN u.rec \ {k} : v.rec[x] = u.rec[x]
      BY ONLY <2>8, <3>1 DEF Changed
    <3> QED BY <2>5, <2>8, <3>2 DEF Changed, SameRecords, SameIndexes
  <2>10. AliasOnce(v) /\ AliasKeys(v) = AliasKeys(s) \cup {k}
    BY <2>5, <2>8 DEF Changed, SameAliases, AliasOnce, AliasKeys, AliasAll
  <2>11. Step(s, v, k, {})
    <3>1. s.next \in Nat
      BY DEF Good, RecordsOK
    <3> QED BY <2>2, <2>9, <3>1 DEF Step
  <2>12. RecordsIn(v)
    <3>1. RoleOK(v, k)
      BY <2>2, <2>3, <2>7, <2>9 DEF RoleOK, IsTop
    <3>2. RowsOK(v, k)
      <4>1. RowsOK(s, k)
        BY <1>1 DEF RecordsIn
      <4>2. Rows(v, k) = Rows(s, k) /\ k \notin Rows(s, k)
        BY <1>1, <2>2, <2>7, <2>9, TopFacts DEF Rows, RowKeys
      <4>3. \A x \in Rows(s, k) : x \notin s.top /\ Live(s, x) /\ IsInner(s.rec[x])
        BY <2>3, <4>1 DEF RowsOK, Live
      <4>4. \A x \in Rows(s, k) : x \notin v.top /\ Live(v, x) /\ IsInner(v.rec[x])
        BY <2>9, <4>2, <4>3 DEF Live
      <4>5. v.rec[k].type # "GROUP" /\ (v.rec[k].data # None => Distinct(v.rec[k].data))
        BY <2>3, <2>7, <2>9, <4>1 DEF RowsOK
      <4> QED BY <4>2, <4>4, <4>5 DEF RowsOK
    <3> QED BY <1>1, <1>3, <2>9, <2>11, <3>1, <3>2, StepRecords DEF v
  <2>13. KeysFit(v) /\ Good(v)
    BY <1>3, <2>12 DEF RecordsIn, v
  <2>14. Live(v, k) /\ k \in v.top /\ v.rec[k].alias
    BY <1>1, <2>2, <2>3, <2>7, <2>9 DEF Live
  <2>15. AliasMatch(v)
    <3>1. \A j \in AliasKeys(s) : j \in DOMAIN s.rec
      BY <1>1 DEF AliasMatch, Live
    <3>2. \A j \in v.top : j = k \/ j \notin DOMAIN s.rec => (Live(v, j) /\ v.rec[j].alias => j \in AliasKeys(v))
      BY <2>9, <2>10 DEF Live
    <3>3. \A j \in AliasKeys(v) : j = k \/ j \notin DOMAIN s.rec => Live(v, j) /\ v.rec[j].alias
      BY <2>10, <2>14, <3>1
    <3> QED BY <1>1, <2>10, <2>11, <3>1, <3>2, <3>3, StepAliases
  <2>16. IndexesIn(v, GroupsOf(v)) /\ TreesIn(v)
    <3>1. k \notin GroupsOf(s)
      BY <2>3 DEF GroupsOf
    <3> QED BY <1>1, <2>9, <2>11, <2>13, <3>1, SameIndexesKept
  <2>17. DocsWith(s, v, k, Expand(v, v.rec[k].data))
    BY <1>1, <2>9, <2>11, <2>13, <2>14, StepWith
  <2>18. Expand(v, r.data) = Expand(s, r.data)
    BY <1>1, <2>3, <2>11, <2>13, StepReads
  <2>19. k \in DOMAIN Docs(s) /\ Docs(s)[k] = Expand(s, r.data)
    BY <2>2 DEF Docs
  <2>20. Docs(v) = Docs(s)
    BY <2>7, <2>9, <2>17, <2>18, <2>19, DocsSame
  <2>21. Sound(v)
    BY <2>12, <2>15, <2>16 DEF Sound
  <2> QED BY <2>20, <2>21 DEF v
<1> QED BY <1>4, <1>5, <1>6

-----------------------------------------------------------------------------
(* Items that come and go *)

LEMMA AliasFound ==
    ASSUME NEW s, NEW k, Good(s), k \in AliasKeys(s)
    PROVE  AliasGetVal(s, k) = s
<1>1. AliasesOf(s, k) # {}
  BY DEF AliasKeys, AliasAll, AliasesOf
<1>2. Len(s.alias) \in Nat /\ DOMAIN s.alias = 1 .. Len(s.alias)
  BY SeqPlaces DEF Good, AliasesOK
<1>3. AliasesOf(s, k) \subseteq 1 .. Len(s.alias)
  BY <1>2 DEF AliasesOf
<1>4. FirstSeen(AliasesOf(s, k)) # 0
  BY <1>1, <1>2, <1>3, SeenIsFound
<1> QED BY <1>4 DEF AliasGetVal

\* Counts of values that change by d, and not below zero.
Counted(c, v, d) == [c EXCEPT ![v] = IF @ + d < 0 THEN 0 ELSE @ + d]

\* The first index on a group, if it is on the element, and it has a tree.
Hit(s, g, e) == /\ OnGroup(s, g) # 0
                /\ s.ilist[OnGroup(s, g)].el = e
                /\ s.ilist[OnGroup(s, g)].offset # 0

LEMMA OnFirstIndexIs ==
    ASSUME NEW s, NEW g, NEW e, NEW v, NEW d, Good(s), g \in AliasKeys(s), IsSeq(s.tree)
    PROVE  LET t == OnFirstIndex(s, g, e, v, d)
               o == s.ilist[OnGroup(s, g)].offset
           IN  /\ SameRecords(s, t) /\ SameAliases(s, t) /\ t.ilist = s.ilist /\ t.stale = s.stale /\ t.err = s.err
               /\ IsSeq(t.tree) /\ Len(t.tree) = Len(s.tree) /\ DOMAIN t.tree = DOMAIN s.tree
               /\ \A x \in DOMAIN s.tree : t.tree[x] = IF Hit(s, g, e) /\ x = o THEN Counted(s.tree[x], v, d) ELSE s.tree[x]
<1> DEFINE t == OnFirstIndex(s, g, e, v, d)
           o == s.ilist[OnGroup(s, g)].offset
           a == AliasGetVal(s, g)
           c == Counted(s.tree[o], v, d)
<1>1. a = s
  BY AliasFound
<1>2. t = IF OnGroup(s, g) = 0 THEN s
          ELSE IF s.ilist[OnGroup(s, g)].el # e THEN s
          ELSE IF o = 0 THEN [s EXCEPT !.dead = TRUE]
          ELSE [s EXCEPT !.tree[o] = c]
  BY <1>1 DEF OnFirstIndex, Counted
<1> HIDE DEF t, a, c
<1>3. CASE Hit(s, g, e)
  <2>1. t = [s EXCEPT !.tree[o] = c]
    BY <1>2, <1>3 DEF Hit
  <2>2. /\ SameRecords(s, t) /\ SameAliases(s, t) /\ t.ilist = s.ilist /\ t.stale = s.stale /\ t.err = s.err
        /\ t.tree = [s.tree EXCEPT ![o] = c]
    BY <2>1, GoodIsBase DEF IsBase, SameRecords, SameAliases
  <2> HIDE DEF o
  <2>3. IsSeq(t.tree) /\ DOMAIN t.tree = DOMAIN s.tree /\ \A x \in DOMAIN s.tree : t.tree[x] = IF x = o THEN c ELSE s.tree[x]
    BY <2>2, SeqExcept
  <2>4. Len(t.tree) = Len(s.tree)
    BY <2>3, SeqPlaces
  <2> QED BY <1>3, <2>2, <2>3, <2>4 DEF t, c, o
<1>4. CASE ~Hit(s, g, e)
  <2>1. t = s \/ t = [s EXCEPT !.dead = TRUE]
    BY <1>2, <1>4 DEF Hit
  <2>2. /\ SameRecords(s, t) /\ SameAliases(s, t) /\ t.ilist = s.ilist /\ t.stale = s.stale /\ t.err = s.err
        /\ t.tree = s.tree
    BY <2>1, GoodIsBase DEF IsBase, SameRecords, SameAliases
  <2> QED BY <1>4, <2>2 DEF t
<1> QED BY <1>3, <1>4

\* A set has as many elements as its places elsewhere.
LEMMA MovedCount ==
    ASSUME NEW n \in Nat, NEW S, S \subseteq 1 .. n, NEW f, \A i, j \in S : f[i] = f[j] => i = j
    PROVE  Cardinality({f[i] : i \in S}) = Cardinality(S)
<1> DEFINE T == {f[i] : i \in S}
           h == [i \in S |-> f[i]]
<1>1. IsFiniteSet(S)
  BY CountPlaces
<1>2. h \in [S -> T] /\ \A i \in S : h[i] = f[i]
  OBVIOUS
<1>3. h \in Injection(S, T)
  BY <1>2 DEF Injection, IsInjective
<1>4. h \in Surjection(S, T)
  BY <1>2 DEF Surjection
<1>5. ExistsBijection(S, T)
  BY <1>3, <1>4 DEF ExistsBijection, Bijection
<1> HIDE DEF T
<1>6. Cardinality(T) = Cardinality(S)
  BY <1>1, <1>5, FS_Bijection, SMTT(30)
<1> QED BY <1>6 DEF T

\* One list of rows has the rows of another, and one more at place m: an index
\* on it has the values of that row besides.
Moved(s, d, t, c, f, m) ==
    /\ m \in DOMAIN c.rows /\ Whole(d) /\ Whole(c) /\ Live(t, c.rows[m].key)
    /\ \A i \in DOMAIN d.rows : f[i] \in DOMAIN c.rows /\ f[i] # m
    /\ \A i, j \in DOMAIN d.rows : f[i] = f[j] => i = j
    /\ \A l \in DOMAIN c.rows : l = m \/ \E i \in DOMAIN d.rows : f[i] = l
    /\ \A i \in DOMAIN d.rows :
         /\ Live(s, d.rows[i].key) <=> Live(t, c.rows[f[i]].key)
         /\ Live(s, d.rows[i].key) => t.rec[c.rows[f[i]].key] = s.rec[d.rows[i].key]

LEMMA OneMore ==
    ASSUME NEW s, NEW d, NEW t, NEW c, NEW f, NEW m, Moved(s, d, t, c, f, m), NEW e, NEW v \in Vals
    PROVE  LET x == t.rec[c.rows[m].key].data
           IN  /\ Contents(s, d, e)[v] \in Nat
               /\ Contents(t, c, e)[v] = Contents(s, d, e)[v] + IF x.el = e /\ x.val = v THEN 1 ELSE 0
<1> SUFFICES ASSUME m \in DOMAIN c.rows, Whole(d), Whole(c), Live(t, c.rows[m].key),
                    \A i \in DOMAIN d.rows : f[i] \in DOMAIN c.rows /\ f[i] # m,
                    \A i, j \in DOMAIN d.rows : f[i] = f[j] => i = j,
                    \A l \in DOMAIN c.rows : l = m \/ \E i \in DOMAIN d.rows : f[i] = l,
                    \A i \in DOMAIN d.rows :
                        /\ Live(s, d.rows[i].key) <=> Live(t, c.rows[f[i]].key)
                        /\ Live(s, d.rows[i].key) => t.rec[c.rows[f[i]].key] = s.rec[d.rows[i].key]
             PROVE  LET x == t.rec[c.rows[m].key].data
                    IN  /\ Contents(s, d, e)[v] \in Nat
                        /\ Contents(t, c, e)[v] = Contents(s, d, e)[v] + IF x.el = e /\ x.val = v THEN 1 ELSE 0
  BY DEF Moved
<1> DEFINE x == t.rec[c.rows[m].key].data
           S == {i \in Indexed(s, d, e) : s.rec[d.rows[i].key].data.val = v}
           T == {i \in Indexed(t, c, e) : t.rec[c.rows[i].key].data.val = v}
           U == {f[i] : i \in S}
<1>1. Contents(s, d, e)[v] = Cardinality(S) /\ Contents(t, c, e)[v] = Cardinality(T)
  BY DEF Contents
<1>2. /\ Len(d.rows) \in Nat /\ DOMAIN d.rows = 1 .. Len(d.rows)
      /\ Len(c.rows) \in Nat /\ DOMAIN c.rows = 1 .. Len(c.rows)
  BY SeqPlaces, SMTT(30) DEF Whole
<1>3. S \subseteq DOMAIN d.rows /\ T \subseteq DOMAIN c.rows
  BY SMTT(30) DEF Indexed
<1>4. \A i \in DOMAIN d.rows : i \in S <=> f[i] \in T
  BY DEF Indexed
<1>5. m \in T <=> x.el = e /\ x.val = v
  BY DEF Indexed
<1> HIDE DEF S, T, x
<1>6. U = T \ {m}
  <2>1. \A y \in U : y \in T /\ y # m
    BY <1>3, <1>4
  <2>2. \A y \in T \ {m} : y \in U
    BY <1>3, <1>4
  <2> QED BY <2>1, <2>2
<1>7. Cardinality(U) = Cardinality(S) /\ Cardinality(S) \in Nat
  <2>1. S \subseteq 1 .. Len(d.rows) /\ \A i, j \in S : f[i] = f[j] => i = j
    BY <1>2, <1>3
  <2>2. Cardinality(S) \in Nat
    BY <1>2, <2>1, CountPlaces
  <2>3. Cardinality({f[i] : i \in S}) = Cardinality(S)
    <3>1. Len(d.rows) \in Nat
      BY <1>2
    <3> HIDE DEF U
    <3> QED BY ONLY <2>1, <3>1, MovedCount, Zenon
  <2> QED BY <2>2, <2>3
<1> HIDE DEF U
<1>8. m \in T => Cardinality(T \ {m}) = Cardinality(T) - 1 /\ Cardinality(T) \in Nat
  BY <1>2, <1>3, CountPlaces
<1>9. m \notin T => T \ {m} = T
  OBVIOUS
<1>10. Cardinality(T) = Cardinality(S) + IF m \in T THEN 1 ELSE 0
  <2>1. CASE m \in T
    BY <1>6, <1>7, <1>8, <2>1
  <2>2. CASE m \notin T
    <3>1. Cardinality(T) = Cardinality(S)
      BY <1>6, <1>7, <1>9, <2>2
    <3> QED BY <1>7, <2>2, <3>1
  <2> QED BY <2>1, <2>2
<1>11. Contents(t, c, e)[v] = Contents(s, d, e)[v] + IF x.el = e /\ x.val = v THEN 1 ELSE 0
  BY <1>1, <1>5, <1>10
<1> QED BY <1>1, <1>7, <1>11, SMTT(30) DEF x

\* So do their contents, as functions.
LEMMA OneMoreCounted ==
    ASSUME NEW s, NEW d, NEW t, NEW c, NEW x, NEW e, x.val \in Vals,
           \A v \in Vals : /\ Contents(s, d, e)[v] \in Nat
                           /\ Contents(t, c, e)[v] = Contents(s, d, e)[v] + IF x.el = e /\ x.val = v THEN 1 ELSE 0
    PROVE  /\ x.el = e => /\ Contents(t, c, e) = Counted(Contents(s, d, e), x.val, 1)
                          /\ Contents(s, d, e) = Counted(Contents(t, c, e), x.val, -1)
           /\ x.el # e => Contents(t, c, e) = Contents(s, d, e)
<1> DEFINE S == Contents(s, d, e)
           T == Contents(t, c, e)
<1>1. S = [v \in Vals |-> S[v]] /\ T = [v \in Vals |-> T[v]]
  BY DEF Contents
<1> HIDE DEF S, T
<1>2. \A v \in Vals : S[v] \in Nat /\ T[v] = S[v] + IF x.el = e /\ x.val = v THEN 1 ELSE 0
  BY DEF S, T
<1>3. x.el # e => T = S
  BY <1>1, <1>2
<1>4. x.el = e => T = Counted(S, x.val, 1)
  BY <1>1, <1>2 DEF Counted
<1>5. x.el = e => S = Counted(T, x.val, -1)
  BY <1>1, <1>2 DEF Counted
<1> QED BY <1>3, <1>4, <1>5 DEF S, T

\* A group whose rows change, with its first index.
LEMMA GroupChanged ==
    ASSUME NEW s, NEW v, NEW k, NEW X, NEW d, Good(s), Good(v), Sound(s), k \in GroupsOf(s),
           Step(s, v, k, X), NewOnes(s, v, k), v.top = s.top, k \in DOMAIN v.rec,
           v.rec[k] = [s.rec[k] EXCEPT !.data = d], d \in Data,
           d.schema = s.rec[k].data.schema, d.el = s.rec[k].data.el, Distinct(d), 0 \notin KeysOf(d),
           \A x \in KeysOf(d) : Live(v, x) /\ IsInner(v.rec[x]) /\ x \notin v.top,
           SameAliases(s, v), v.ilist = s.ilist, v.stale = s.stale \cup OtherTrees(s, k),
           IsSeq(v.tree), Len(v.tree) = Len(s.tree),
           LET p == OnGroup(s, k)
               o == s.ilist[p].offset
           IN  /\ \A x \in DOMAIN s.tree : p = 0 \/ x # o => v.tree[x] = s.tree[x]
               /\ p # 0 /\ o \notin s.stale \cup {0} /\ s.rec[k].data.schema = "TABLE"
                      => v.tree[o] = Contents(v, d, s.ilist[p].el)
    PROVE  Sound(v) /\ DocsWith(s, v, k, Expand(v, d))
<1> DEFINE r == s.rec[k]
           p == OnGroup(s, k)
           o == s.ilist[p].offset
<1>1. RecordsIn(s) /\ AliasMatch(s) /\ IndexesIn(s, GroupsOf(s)) /\ TreesIn(s)
  BY DEF Sound
<1>2. k \in s.top /\ Live(s, k) /\ k \in DOMAIN s.rec /\ r.type = "GROUP"
  BY DEF GroupsOf, Live
<1>3. /\ IsTop(r) /\ IsRecord(r) /\ r.lock = FALSE /\ r.alias \in BOOLEAN /\ r.alias /\ r.life = "finite"
      /\ IsGroup(r.data) /\ k # 0
  BY <1>1, <1>2, TopFacts DEF Live
<1>4. /\ v.rec[k].type = "GROUP" /\ v.rec[k].alias = r.alias /\ v.rec[k].lock = FALSE /\ v.rec[k].life = "finite"
      /\ v.rec[k].data = d
  BY <1>2, <1>3 DEF IsRecord
<1>5. d # None /\ IsGroup(d)
  BY <1>3, DatabaseAssumption DEF IsGroup
<1>6. RecordsIn(v)
  <2>1. RoleOK(v, k)
    <3>1. d.el = None
      BY <1>3 DEF IsTop
    <3>2. d.schema # "FIELD"
      BY <1>5 DEF IsGroup
    <3>3. IsTop(v.rec[k])
      BY <1>3, <1>4, <1>5, <3>1, <3>2 DEF IsTop
    <3> QED BY <1>2, <1>4, <3>3 DEF RoleOK
  <2>2. RowsOK(v, k)
    <3>1. RowKeys(v.rec[k]) = KeysOf(d)
      BY <1>4, <1>5 DEF RowKeys
    <3> QED BY <1>4, <3>1 DEF RowsOK, Rows
  <2>3. ASSUME NEW j \in DOMAIN v.rec, j \notin DOMAIN s.rec, j # k
        PROVE  RoleOK(v, j) /\ RowsOK(v, j)
    <3>1. j \notin v.top /\ v.rec[j].life = "finite" /\ (IsInner(v.rec[j]) \/ IsIndex(v.rec[j]))
      BY <2>3 DEF NewOnes
    <3>2. IsRecord(v.rec[j])
      BY RecordFacts
    <3>3. RowKeys(v.rec[j]) = {} /\ v.rec[j].type # "GROUP" /\ (v.rec[j].data = None \/ Distinct(v.rec[j].data))
      <4>1. CASE IsInner(v.rec[j])
        BY <3>2, <4>1, InnerFacts
      <4>2. CASE IsIndex(v.rec[j])
        BY <4>2 DEF IsIndex, RowKeys
      <4> QED BY <3>1, <4>1, <4>2
    <3> QED BY <3>1, <3>3 DEF RoleOK, RowsOK, Rows
  <2> QED BY <1>1, <2>1, <2>2, <2>3, StepRecords
<1>7. KeysFit(v) /\ Live(v, k) /\ k \in GroupsOf(v)
  BY <1>2, <1>4, <1>6 DEF RecordsIn, Live, GroupsOf
<1>8. AliasMatch(v)
  <2>1. AliasOnce(v) /\ AliasKeys(v) = AliasKeys(s)
    BY <1>1 DEF SameAliases, AliasOnce, AliasKeys, AliasAll, AliasMatch
  <2>2. \A j \in AliasKeys(s) : j \in DOMAIN s.rec
    BY <1>1 DEF AliasMatch, Live
  <2>3. k \in AliasKeys(s)
    BY <1>1, <1>2, <1>3 DEF AliasMatch
  <2>4. \A j \in v.top : j = k \/ j \notin DOMAIN s.rec => (Live(v, j) /\ v.rec[j].alias => j \in AliasKeys(v))
    BY <2>1, <2>3 DEF NewOnes, Live
  <2>5. \A j \in AliasKeys(v) : j = k \/ j \notin DOMAIN s.rec => Live(v, j) /\ v.rec[j].alias
    BY <1>3, <1>4, <1>7, <2>1, <2>2
  <2> QED BY <1>1, <2>1, <2>2, <2>4, <2>5, StepAliases
<1>9. IndexesIn(v, GroupsOf(v)) /\ TreesIn(v)
  <2>1. Shrunk(s, v) /\ Listed(v) = Listed(s) /\ s.stale \subseteq v.stale
    BY DEF Shrunk, Listed
  <2>2. DOMAIN s.tree = 1 .. Len(s.tree) /\ Len(s.tree) \in Nat
    BY <1>1, SeqPlaces DEF IndexesIn
  <2>3. ASSUME NEW q \in Listed(v), v.ilist[q].group # k
        PROVE  v.ilist[q].offset = 0 \/ v.tree[v.ilist[q].offset] = s.tree[v.ilist[q].offset]
    <3>1. q \in Listed(s) /\ v.ilist[q] = s.ilist[q] /\ s.ilist[q].offset \in 0 .. Len(s.tree)
      BY <1>1, <2>1 DEF IndexesIn, EntryOK
    <3>2. CASE p = 0
      BY <2>2, <3>1, <3>2
    <3>3. CASE p # 0
      <4>1. p \in Listed(s) /\ s.ilist[p].group = k
        BY <3>3, OnGroupIs
      <4>2. p # q
        BY <2>3, <3>1, <4>1
      <4>3. s.ilist[q].offset = o => s.ilist[q].offset = 0
        BY <1>1, <3>1, <4>1, <4>2 DEF IndexesIn, Apart
      <4> QED BY <2>2, <3>1, <3>3, <4>3, SMTT(30)
    <3> QED BY <3>2, <3>3
  <2>4. ASSUME NEW q \in Listed(v), v.ilist[q].group = k
        PROVE  TreeOK(v, v.ilist[q])
    <3>1. q \in Listed(s) /\ v.ilist[q] = s.ilist[q] /\ s.ilist[q].group = k /\ TreeOK(s, s.ilist[q])
      BY <1>1, <2>1, <2>4 DEF TreesIn
    <3>2. p # 0 /\ p \in Listed(s) /\ s.ilist[p].group = k
      BY <3>1, OnGroupIs
    <3>3. CASE q # p
      <4>1. s.ilist[q].offset \in OtherTrees(s, k)
        BY <3>1, <3>3 DEF OtherTrees
      <4> QED BY <3>1, <4>1 DEF TreeOK
    <3>4. CASE q = p
      <4> SUFFICES ASSUME o \notin v.stale \cup {0}
                   PROVE  d.schema = "TABLE" /\ v.tree[o] = Contents(v, d, s.ilist[p].el)
        BY <1>4, <3>1, <3>4 DEF TreeOK
      <4>1. r.data.schema = "TABLE"
        BY <2>1, <3>1, <3>4 DEF TreeOK
      <4> QED BY <2>1, <3>2, <4>1
    <3> QED BY <3>3, <3>4
  <2> QED BY <1>1, <1>7, <2>1, <2>3, <2>4, StepIndexes
<1>10. DocsWith(s, v, k, Expand(v, v.rec[k].data))
  BY <1>1, <1>2, <1>7, StepWith
<1> QED BY <1>4, <1>6, <1>8, <1>9, <1>10 DEF Sound

\* slay_get() with descent, row by row.
ItemOf(s, r) == Item(r.name, IF r.key = 0 THEN Field(r.val)
                             ELSE IF Live(s, r.key) THEN Sent(s.rec[r.key].data)
                             ELSE Field(None))

KindOf(d) == CASE d.schema = "TABLE" -> "ARRAY" [] d.schema = "SET" -> "OBJECT" [] OTHER -> d.schema

LEMMA ExpandIs ==
    ASSUME NEW s, NEW d
    PROVE  Expand(s, d) = [kind |-> KindOf(d), el |-> d.el, val |-> d.val,
                           items |-> [i \in DOMAIN d.rows |-> ItemOf(s, d.rows[i])]]
  BY DEF Expand, KindOf, ItemOf, Sent

LEMMA PartSent ==
    ASSUME NEW x \in Parts
    PROVE  /\ Sent(Plain(x)) = x /\ Plain(x).el = x.el /\ Plain(x).val = x.val /\ x.val \in Vals /\ Plain(x).rows = <<>>
           /\ Plain(x).schema = x.kind
           /\ x.kind \in {"FIELD", "OBJECT"}
           /\ x.kind = "FIELD" => x = Field(x.val) /\ x.el = None
           /\ x.kind = "OBJECT" => x = Object(x.el, x.val) /\ x.el \in Elements
           /\ Field(x.val) \in Parts /\ Whole(Plain(x)) /\ KeysOf(Plain(x)) = {}
<1>1. CASE \E v \in Vals : x = Field(v)
  BY <1>1 DEF Parts, Field, Sent, Plain, Whole, IsData, IsSeq, KeysOf
<1>2. CASE \E e \in Elements, v \in Vals : x = Object(e, v)
  BY <1>2 DEF Parts, Field, Object, Sent, Plain, Whole, IsData, IsSeq, KeysOf
<1> QED BY <1>1, <1>2 DEF Parts

LEMMA SeqIs == ASSUME NEW q, IsSeq(q) PROVE q = [i \in DOMAIN q |-> q[i]]
  BY DEF IsSeq

\* Rows of data that change.
LEMMA DataWith ==
    ASSUME NEW d \in Data, NEW rows \in Seq([name : Labels, key : Nat, val : Vals \cup {None}])
    PROVE  LET c == [d EXCEPT !.rows = rows]
           IN  c \in Data /\ c.schema = d.schema /\ c.el = d.el /\ c.val = d.val /\ c.rows = rows /\ Whole(c)
<1> DEFINE R == Seq([name : Labels, key : Nat, val : Vals \cup {None}])
           c == [d EXCEPT !.rows = rows]
<1>1. IsSeq(rows)
  BY DEF IsSeq
<1> HIDE DEF R
<1>2. Data = [schema : {"FIELD", "OBJECT", "ARRAY", "TABLE", "SET"}, el : Elements \cup {None}, val : Vals \cup {None}, rows : R]
  BY DEF Data, R
<1>3. rows \in R
  BY DEF R
<1>4. c \in Data /\ c.schema = d.schema /\ c.el = d.el /\ c.val = d.val /\ c.rows = rows /\ IsData(c)
  BY <1>2, <1>3 DEF IsData
<1> QED BY <1>1, <1>4 DEF Whole

LEMMA DataRows ==
    ASSUME NEW d \in Data
    PROVE  /\ d.rows \in Seq([name : Labels, key : Nat, val : Vals \cup {None}])
           /\ Whole(d) /\ IsSeq(d.rows) /\ Len(d.rows) \in Nat /\ DOMAIN d.rows = 1 .. Len(d.rows)
<1>1. d.rows \in Seq([name : Labels, key : Nat, val : Vals \cup {None}]) /\ IsData(d)
  BY DEF Data, IsData
<1>2. IsSeq(d.rows)
  BY <1>1 DEF IsSeq
<1> QED BY <1>1, <1>2, SeqPlaces DEF Whole

\* db_item_add() adds an item at the end of the document.
LEMMA DbItemAddIs ==
    ASSUME NEW s, NEW k, NEW in \in Parts, Good(s), ~s.err, Sound(s), k \in GroupsOf(s)
    PROVE  LET v == DbItemAdd(s, k, in)
               table == s.rec[k].data.schema = "TABLE"
               row == IF table THEN in ELSE Field(in.val)
               name == IF table THEN None ELSE IF in.kind = "OBJECT" THEN in.el ELSE s.next
           IN  /\ Sound(v)
               /\ DocsWith(s, v, k, [Expand(s, s.rec[k].data) EXCEPT !.items = Append(@, Item(name, row))])
<1> DEFINE r == s.rec[k]
           data == r.data
           n == s.next
           table == data.schema = "TABLE"
           row == IF table THEN in ELSE Field(in.val)
           name == IF table THEN None ELSE IF in.kind = "OBJECT" THEN in.el ELSE n
           s1 == [s EXCEPT !.next = @ + 1]
           y == Record(Plain(row))
           t == Insert(s1, n, y)
           u == IF table /\ in.kind = "OBJECT" THEN OnFirstIndex(t, k, in.el, in.val, 1) ELSE t
           w == [u EXCEPT !.stale = @ \cup OtherTrees(s, k)]
           z == Row(name, n, None)
           d == [data EXCEPT !.rows = Append(@, z)]
           q == [r EXCEPT !.data = d]
           v == DbItemAdd(s, k, in)
           p == OnGroup(s, k)
           o == s.ilist[p].offset
           Z == table /\ in.kind = "OBJECT" /\ Hit(s, k, in.el)
<1>1. RecordsIn(s) /\ AliasMatch(s) /\ IndexesIn(s, GroupsOf(s)) /\ TreesIn(s) /\ IsSeq(s.tree)
  BY DEF Sound, IndexesIn
<1>2. k \in s.top /\ Live(s, k) /\ k \in DOMAIN s.rec /\ r.type = "GROUP" /\ r.life = "finite"
  BY DEF GroupsOf, Live
<1>3. /\ IsRecord(r) /\ r.lock = FALSE /\ data # None /\ data \in Data /\ IsGroup(data) /\ r.alias
      /\ k # 0 /\ k \in Nat /\ k < n
  <2>1. /\ IsRecord(s.rec[k]) /\ s.rec[k].lock = FALSE /\ s.rec[k].data # None /\ s.rec[k].data \in Data
        /\ (s.rec[k].type = "GROUP" <=> IsGroup(s.rec[k].data))
        /\ (s.rec[k].type = "GROUP" => s.rec[k].alias) /\ k # 0 /\ k \in Nat /\ k < s.next
    BY ONLY Good(s), <1>1, <1>2, TopFacts
  <2> QED BY <1>2, <2>1
<1>4. table <=> data.schema # "SET"
  BY <1>3 DEF IsGroup
<1>5. v = IF u.err THEN u ELSE UpdateData(w, k, d)
  <2>1. row = IF s.rec[k].data.schema = "SET" THEN Field(in.val) ELSE in
    BY <1>4
  <2>2. name = IF s.rec[k].data.schema = "TABLE" THEN None ELSE IF in.kind = "OBJECT" THEN in.el ELSE s.next
    OBVIOUS
  <2> HIDE DEF row, name
  <2> QED BY <2>1, <2>2 DEF DbItemAdd
<1>6. Good(v)
  BY <1>2, <1>3, DataRows, DbItemAddGood
<1>7. row \in Parts /\ name \in Labels
  <2>1. n \in Nat
    BY DEF Good, RecordsOK
  <2> QED BY <2>1, PartSent DEF Labels
<1> HIDE DEF row, name
<1>8. z \in [name : Labels, key : Nat, val : Vals \cup {None}] /\ z.key = n /\ z.name = name /\ n \in Nat \ {0}
  <2>1. n \in Nat \ {0}
    BY DEF Good, RecordsOK
  <2> QED BY <1>7, <2>1 DEF Row
<1> HIDE DEF z
<1>9. /\ s1.rec = s.rec /\ s1.next = n + 1 /\ s1.top = s.top /\ s1.err = s.err
      /\ SameAliases(s, s1) /\ SameIndexes(s, s1) /\ Good(s1)
  <2>1. /\ s1.rec = s.rec /\ s1.next = n + 1 /\ s1.top = s.top /\ s1.err = s.err
        /\ SameAliases(s, s1) /\ SameIndexes(s, s1)
    BY GoodIsBase DEF IsBase, SameAliases, SameIndexes
  <2> QED BY <2>1, NextGood
<1> HIDE DEF s1
<1>10. IsInner(y) /\ y.life = "finite" /\ y.data = Plain(row) /\ RecordOK(y) /\ RowKeys(y) = {}
  <2>1. IsInner(y) /\ y.life = "finite" /\ y.data = Plain(row)
    BY <1>7, NewInner
  <2>2. Whole(Plain(row)) /\ KeysOf(Plain(row)) = {}
    BY <1>7, PartSent
  <2>3. RecordOK(y) /\ RowKeys(y) \subseteq KeysOf(Plain(row))
    BY <2>2, PlainRecord
  <2> QED BY <2>1, <2>2, <2>3
<1> HIDE DEF y
<1>11. Good(t)
  <2>1. Own(s1, n, y)
    BY <1>10 DEF Own
  <2> QED BY <1>8, <1>9, <1>10, <2>1, InsertGood
<1>12. /\ DOMAIN t.rec = DOMAIN s.rec \cup {n} /\ t.rec[n] = y
       /\ \A x \in DOMAIN s.rec \ {n} : t.rec[x] = s.rec[x]
       /\ t.next = n + 1 /\ t.top = s.top
       /\ SameAliases(s, t) /\ SameIndexes(s, t) /\ t.err = s.err
  <2>1. /\ DOMAIN t.rec = DOMAIN s1.rec \cup {n} /\ t.rec[n] = y
        /\ \A x \in DOMAIN s1.rec \ {n} : t.rec[x] = s1.rec[x]
        /\ t.next = s1.next /\ t.top = s1.top
        /\ SameAliases(s1, t) /\ SameIndexes(s1, t) /\ t.err = s1.err
    BY <1>9, InsertIs
  <2> QED BY <1>9, <2>1 DEF SameAliases, SameIndexes
<1> HIDE DEF t
<1>13. OnGroup(t, k) = p /\ t.ilist = s.ilist /\ (\A e : Hit(t, k, e) <=> Hit(s, k, e)) /\ k \in AliasKeys(t) /\ IsSeq(t.tree)
       /\ t.tree = s.tree
  <2>1. t.ilist = s.ilist /\ t.tree = s.tree /\ t.alias = s.alias
    BY <1>12 DEF SameIndexes, SameAliases
  <2>2. OnGroup(t, k) = p
    BY <2>1 DEF OnGroup, Listed
  <2>3. k \in AliasKeys(s) /\ AliasKeys(t) = AliasKeys(s)
    BY <1>1, <1>2, <1>3, <2>1 DEF AliasMatch, AliasKeys, AliasAll
  <2> QED BY <1>1, <2>1, <2>2, <2>3 DEF Hit
<1>14. /\ SameRecords(t, u) /\ SameAliases(s, u) /\ u.ilist = s.ilist /\ u.stale = s.stale /\ ~u.err /\ Good(u)
       /\ IsSeq(u.tree) /\ Len(u.tree) = Len(s.tree) /\ DOMAIN u.tree = DOMAIN s.tree
       /\ \A x \in DOMAIN s.tree : u.tree[x] = IF Z /\ x = o THEN Counted(s.tree[x], in.val, 1) ELSE s.tree[x]
  <2>1. CASE table /\ in.kind = "OBJECT"
    <3> DEFINE uu == OnFirstIndex(t, k, in.el, in.val, 1)
               oo == t.ilist[OnGroup(t, k)].offset
    <3>1. u = uu
      BY <2>1
    <3>2. /\ SameRecords(t, uu) /\ SameAliases(t, uu) /\ uu.ilist = t.ilist /\ uu.stale = t.stale /\ uu.err = t.err
          /\ IsSeq(uu.tree) /\ Len(uu.tree) = Len(t.tree) /\ DOMAIN uu.tree = DOMAIN t.tree
          /\ \A x \in DOMAIN t.tree : uu.tree[x] = IF Hit(t, k, in.el) /\ x = oo THEN Counted(t.tree[x], in.val, 1) ELSE t.tree[x]
      BY <1>11, <1>13, OnFirstIndexIs
    <3>3. Good(uu)
      BY <1>11, OnFirstIndexGood
    <3> HIDE DEF u, uu, table
    <3>4. oo = o
      BY <1>13
    <3> HIDE DEF oo, o
    <3>5. Z <=> Hit(t, k, in.el)
      BY <1>13, <2>1
    <3> QED BY <1>12, <1>13, <3>1, <3>2, <3>3, <3>4, <3>5 DEF SameAliases, SameIndexes
  <2>2. CASE ~(table /\ in.kind = "OBJECT")
    <3>1. u = t /\ ~Z
      BY <2>2
    <3> HIDE DEF u, Z
    <3> QED BY <1>1, <1>11, <1>12, <1>13, <3>1 DEF SameRecords, SameIndexes
  <2> QED BY <2>1, <2>2
<1> HIDE DEF u, Z
<1>15. /\ w.rec = t.rec /\ w.next = n + 1 /\ w.top = s.top /\ w.alias = s.alias /\ w.ilist = s.ilist
       /\ w.tree = u.tree /\ w.stale = s.stale \cup OtherTrees(s, k) /\ Good(w)
  <2>1. SameRest(u, w)
    BY <1>14, OtherFields
  <2>2. Good(w)
    BY <1>14, <2>1, RestKept
  <2>3. /\ w.rec = u.rec /\ w.next = u.next /\ w.top = u.top /\ w.alias = u.alias /\ w.ilist = u.ilist
        /\ w.tree = u.tree /\ w.stale = u.stale \cup OtherTrees(s, k)
    BY <1>14, GoodIsBase DEF IsBase
  <2> QED BY <1>12, <1>14, <2>2, <2>3 DEF SameRecords, SameAliases
<1> HIDE DEF w
<1>16. /\ d \in Data /\ d.schema = data.schema /\ d.el = data.el /\ d.val = data.val /\ Whole(d)
       /\ d.rows = Append(data.rows, z)
  <2>1. Append(data.rows, z) \in Seq([name : Labels, key : Nat, val : Vals \cup {None}])
    <3> DEFINE R == [name : Labels, key : Nat, val : Vals \cup {None}]
               rows == data.rows
    <3>1. rows \in Seq(R)
      BY <1>3, DataRows
    <3>2. z \in R
      BY <1>8
    <3> HIDE DEF R, rows
    <3>3. Append(rows, z) \in Seq(R)
      BY <3>1, <3>2
    <3> QED BY <3>3 DEF R, rows
  <2>2. d = [data EXCEPT !.rows = Append(data.rows, z)]
    OBVIOUS
  <2> QED BY <1>3, <2>1, <2>2, DataWith
<1> HIDE DEF d
<1> DEFINE L == Len(data.rows)
<1>17. /\ L \in Nat /\ DOMAIN data.rows = 1 .. L /\ IsSeq(data.rows) /\ Whole(data)
       /\ DOMAIN d.rows = DOMAIN data.rows \cup {L + 1} /\ L + 1 \notin DOMAIN data.rows
       /\ \A i \in DOMAIN data.rows : d.rows[i] = data.rows[i]
       /\ d.rows[L + 1] = z
  <2>1. IsSeq(data.rows) /\ Whole(data) /\ L \in Nat /\ DOMAIN data.rows = 1 .. L
    BY <1>3, DataRows
  <2> DEFINE rows == data.rows
  <2>2. d.rows = Append(rows, z) /\ IsSeq(rows) /\ L = Len(rows) /\ L \in Nat /\ DOMAIN rows = 1 .. L
    BY <1>16, <2>1
  <2> HIDE DEF rows, L
  <2>3. /\ DOMAIN d.rows = DOMAIN rows \cup {L + 1} /\ L + 1 \notin DOMAIN rows
        /\ \A i \in DOMAIN rows : d.rows[i] = rows[i]
        /\ d.rows[L + 1] = z
    BY <2>2, SeqAppend
  <2> QED BY <2>1, <2>3 DEF rows
<1> HIDE DEF data, L
<1>18. n \notin DOMAIN s.rec /\ n \notin s.top /\ DOMAIN s.rec \subseteq 1 .. n - 1 /\ n # k
  BY <1>1, <1>3, <1>8 DEF RecordsIn, KeysFit
<1>19. Changed(w, v, k, q)
  <2>1. v = UpdateData(w, k, d)
    BY <1>5, <1>14
  <2>2. k \in DOMAIN w.rec /\ w.rec[k] = r /\ ~w.rec[k].lock
    BY <1>2, <1>3, <1>12, <1>15, <1>18
  <2> QED BY <1>15, <2>1, <2>2, UpdateDataIs
<1> HIDE DEF q, v
<1>20. /\ DOMAIN v.rec = DOMAIN s.rec \cup {n} /\ v.rec[k] = q /\ v.rec[n] = y
       /\ \A x \in DOMAIN s.rec \ {k} : v.rec[x] = s.rec[x]
       /\ v.next = n + 1 /\ v.top = s.top /\ SameAliases(s, v) /\ v.ilist = s.ilist /\ v.tree = u.tree
       /\ v.stale = s.stale \cup OtherTrees(s, k)
  <2>1. k \in DOMAIN w.rec
    BY <1>2, <1>12, <1>15
  <2>2. DOMAIN v.rec = DOMAIN w.rec /\ v.rec[k] = q /\ \A x \in DOMAIN w.rec \ {k} : v.rec[x] = w.rec[x]
    BY ONLY <1>19, <2>1 DEF Changed
  <2>3. /\ v.next = w.next /\ v.top = w.top /\ v.alias = w.alias /\ v.ilist = w.ilist /\ v.tree = w.tree /\ v.stale = w.stale
    BY <1>19 DEF Changed, SameAliases, SameIndexes
  <2> QED BY <1>12, <1>15, <1>18, <2>2, <2>3 DEF SameAliases
<1>21. Step(s, v, k, {})
  <2>1. s.next <= v.next /\ n \in s.next .. v.next - 1
    BY <1>8, <1>20
  <2> QED BY <1>2, <1>18, <1>20, <2>1 DEF Step
<1>22. NewOnes(s, v, k)
  BY <1>10, <1>18, <1>20 DEF NewOnes
<1>23. RowsOK(s, k) /\ 0 \notin KeysOf(data) /\ Rows(s, k) = KeysOf(data) /\ Distinct(data)
  <2>1. RowsOK(s, k)
    BY <1>1, <1>2 DEF RecordsIn
  <2>2. RowKeys(r) = KeysOf(data)
    BY <1>3 DEF RowKeys, data
  <2>3. 0 \notin RowKeys(r) /\ Distinct(data)
    BY <1>2, <1>3, <2>1 DEF RowsOK, data
  <2> QED BY <2>1, <2>2, <2>3 DEF Rows
<1>24. \A x \in KeysOf(data) : x \notin s.top /\ Live(s, x) /\ IsInner(s.rec[x]) /\ x # k /\ x # n
  BY <1>2, <1>18, <1>23 DEF RowsOK, Live
<1>25. \A x \in KeysOf(data) : Live(v, x) /\ v.rec[x] = s.rec[x]
  BY <1>20, <1>24 DEF Live
<1>26. Live(v, n)
  BY <1>10, <1>20 DEF Live
<1>27. KeysOf(d) = KeysOf(data) \cup {n}
  BY <1>8, <1>17 DEF KeysOf
<1>28. \A x \in KeysOf(d) : Live(v, x) /\ IsInner(v.rec[x]) /\ x \notin v.top
  BY <1>10, <1>18, <1>20, <1>24, <1>25, <1>26, <1>27
<1>29. Distinct(d)
  <2> SUFFICES ASSUME NEW i \in DOMAIN d.rows, NEW j \in DOMAIN d.rows, d.rows[i].key = d.rows[j].key
               PROVE  i = j \/ d.rows[i].key = 0
    BY DEF Distinct
  <2>1. \A l \in DOMAIN data.rows : data.rows[l].key \in KeysOf(data) /\ data.rows[l].key # n
    BY <1>24 DEF KeysOf
  <2> QED BY <1>8, <1>17, <1>23, <2>1 DEF Distinct
<1>30. ASSUME p # 0, o \notin s.stale \cup {0}, table
       PROVE  v.tree[o] = Contents(v, d, s.ilist[p].el)
  <2> DEFINE e == s.ilist[p].el
             x == v.rec[n].data
             f == [i \in DOMAIN data.rows |-> i]
  <2>1. p \in Listed(s) /\ s.ilist[p].group = k /\ e # None
    BY <1>30, OnGroupIs DEF Listed
  <2>2. s.tree[o] = Contents(s, data, e)
    BY <1>1, <1>30, <2>1 DEF TreesIn, TreeOK, data
  <2>3. o \in DOMAIN s.tree
    <3>1. o \in 0 .. Len(s.tree)
      BY <1>1, <2>1 DEF IndexesIn, EntryOK
    <3> QED BY <1>1, <1>30, <3>1, SeqPlaces
  <2>4. x = Plain(in)
    BY <1>10, <1>20, <1>30 DEF row, table, data
  <2>5. x.val = in.val /\ x.el = in.el /\ in.val \in Vals
    BY <2>4, PartSent
  <2>6. ASSUME NEW val \in Vals
        PROVE  /\ Contents(s, data, e)[val] \in Nat
               /\ Contents(v, d, e)[val] = Contents(s, data, e)[val] + IF x.el = e /\ x.val = val THEN 1 ELSE 0
    <3>1. \A i \in DOMAIN data.rows : f[i] \in DOMAIN d.rows /\ f[i] # L + 1
      BY <1>17
    <3>2. \A i, j \in DOMAIN data.rows : f[i] = f[j] => i = j
      OBVIOUS
    <3>3. \A l \in DOMAIN d.rows : l = L + 1 \/ \E i \in DOMAIN data.rows : f[i] = l
      BY <1>17
    <3>4. \A i \in DOMAIN data.rows :
            /\ Live(s, data.rows[i].key) <=> Live(v, d.rows[f[i]].key)
            /\ Live(s, data.rows[i].key) => v.rec[d.rows[f[i]].key] = s.rec[data.rows[i].key]
      BY <1>17, <1>24, <1>25 DEF KeysOf
    <3>5. d.rows[L + 1].key = n /\ L + 1 \in DOMAIN d.rows
      BY <1>8, <1>17
    <3> DEFINE m == L + 1
    <3> HIDE DEF f, e, x
    <3>6. LET xx == v.rec[d.rows[L + 1].key].data
          IN  /\ Contents(s, data, e)[val] \in Nat
              /\ Contents(v, d, e)[val] = Contents(s, data, e)[val] + IF xx.el = e /\ xx.val = val THEN 1 ELSE 0
      <4>1. Moved(s, data, v, d, f, m)
        BY <1>16, <1>17, <1>26, <3>1, <3>2, <3>3, <3>4, <3>5, SMTT(30) DEF Moved
      <4> HIDE DEF m
      <4>2. LET xx == v.rec[d.rows[m].key].data
            IN  /\ Contents(s, data, e)[val] \in Nat
                /\ Contents(v, d, e)[val] = Contents(s, data, e)[val] + IF xx.el = e /\ xx.val = val THEN 1 ELSE 0
        BY ONLY val \in Vals, <4>1, OneMore
      <4> QED BY <4>2 DEF m
    <3> QED BY <3>5, <3>6 DEF x
  <2> HIDE DEF x, e
  <2>7. /\ x.el = e => Contents(v, d, e) = Counted(Contents(s, data, e), x.val, 1)
        /\ x.el # e => Contents(v, d, e) = Contents(s, data, e)
    BY <2>5, <2>6, OneMoreCounted
  <2>8. v.tree[o] = IF Z THEN Counted(s.tree[o], in.val, 1) ELSE s.tree[o]
    <3> HIDE DEF o, p
    <3> QED BY <1>14, <1>20, <2>3
  <2>9. Z <=> x.el = e
    <3>1. CASE in.kind = "OBJECT"
      BY <1>30, <2>5, <3>1 DEF Z, Hit, e
    <3>2. CASE in.kind # "OBJECT"
      <4>1. in.el = None
        BY <3>2, PartSent
      <4> QED BY <2>1, <2>5, <3>2, <4>1 DEF Z, e
    <3> QED BY <3>1, <3>2
  <2> QED BY <2>2, <2>5, <2>7, <2>8, <2>9 DEF e
<1>31. \A x \in DOMAIN s.tree : p = 0 \/ x # o => v.tree[x] = s.tree[x]
  <2>1. Z => p # 0
    BY DEF Z, Hit
  <2> HIDE DEF o, p
  <2> QED BY <1>14, <1>20, <2>1
<1>32. Sound(v) /\ DocsWith(s, v, k, Expand(v, d))
  <2>1. k \in DOMAIN v.rec /\ v.rec[k] = [s.rec[k] EXCEPT !.data = d]
    BY <1>2, <1>20 DEF q
  <2>2. d.schema = s.rec[k].data.schema /\ d.el = s.rec[k].data.el /\ 0 \notin KeysOf(d)
    BY <1>8, <1>16, <1>23, <1>27 DEF data
  <2>3. IsSeq(v.tree) /\ Len(v.tree) = Len(s.tree)
    BY <1>14, <1>20
  <2>4. p # 0 /\ o \notin s.stale \cup {0} /\ s.rec[k].data.schema = "TABLE" => v.tree[o] = Contents(v, d, s.ilist[p].el)
    BY <1>30 DEF table, data
  <2>5. Good(v)
    BY <1>6 DEF v
  <2> QED BY <1>16, <1>20, <1>21, <1>22, <1>28, <1>29, <1>31, <2>1, <2>2, <2>3, <2>4, <2>5, GroupChanged
<1>33. Expand(v, d) = [Expand(s, data) EXCEPT !.items = Append(@, Item(name, row))]
  <2> DEFINE a == [i \in DOMAIN data.rows |-> ItemOf(s, data.rows[i])]
             b == [i \in DOMAIN d.rows |-> ItemOf(v, d.rows[i])]
             c == Append(a, Item(name, row))
  <2>1. Expand(s, data) = [kind |-> KindOf(data), el |-> data.el, val |-> data.val, items |-> a]
    BY ExpandIs
  <2>2. Expand(v, d) = [kind |-> KindOf(d), el |-> d.el, val |-> d.val, items |-> b]
    BY ExpandIs
  <2>3. KindOf(d) = KindOf(data) /\ d.el = data.el /\ d.val = data.val
    BY <1>16 DEF KindOf
  <2>4. IsSeq(a) /\ Len(a) = L
    <3>1. DOMAIN a = 1 .. L
      BY <1>17
    <3>2. IsSeq(a)
      BY <1>17, <3>1, SeqMade
    <3> HIDE DEF a
    <3> QED BY <1>17, <3>1, <3>2, SeqPlaces
  <2>5. \A i \in DOMAIN data.rows : ItemOf(v, d.rows[i]) = ItemOf(s, data.rows[i])
    BY <1>17, <1>24, <1>25 DEF ItemOf, KeysOf
  <2>6. ItemOf(v, d.rows[L + 1]) = Item(name, row)
    <3>1. Sent(v.rec[n].data) = row
      BY <1>7, <1>10, <1>20, PartSent
    <3> QED BY <1>8, <1>17, <1>26, <3>1 DEF ItemOf
  <2>7. DOMAIN a = DOMAIN data.rows /\ \A i \in DOMAIN data.rows : a[i] = ItemOf(s, data.rows[i])
    OBVIOUS
  <2>8. DOMAIN b = DOMAIN d.rows /\ (\A i \in DOMAIN d.rows : b[i] = ItemOf(v, d.rows[i])) /\ b = [i \in DOMAIN b |-> b[i]]
    OBVIOUS
  <2> HIDE DEF a, b
  <2>9. /\ IsSeq(c) /\ DOMAIN c = DOMAIN a \cup {L + 1}
        /\ \A i \in DOMAIN a : c[i] = a[i]
        /\ c[L + 1] = Item(name, row)
    BY <2>4, SeqAppend
  <2> HIDE DEF c
  <2>10. c = [i \in DOMAIN c |-> c[i]]
    BY <2>9, SeqIs
  <2>11. DOMAIN b = DOMAIN c /\ \A i \in DOMAIN c : b[i] = c[i]
    BY <1>17, <2>5, <2>6, <2>7, <2>8, <2>9
  <2>12. b = c
    BY <2>8, <2>10, <2>11
  <2> DEFINE E == Expand(s, data)
  <2>13. E.items = a /\ [E EXCEPT !.items = Append(@, Item(name, row))] = [E EXCEPT !.items = c]
    BY <2>1 DEF c
  <2>14. [E EXCEPT !.items = c] = [kind |-> KindOf(data), el |-> data.el, val |-> data.val, items |-> c]
    BY <2>1
  <2> HIDE DEF E
  <2>15. Expand(v, d) = [E EXCEPT !.items = Append(@, Item(name, row))]
    BY <2>2, <2>3, <2>12, <2>13, <2>14
  <2> QED BY <2>15 DEF E
<1> QED BY <1>32, <1>33 DEF v, data, row, name, table

\* RemoveAt() takes one place out, and the places after it move up.
LEMMA SeqRemoved ==
    ASSUME NEW q, NEW i \in DOMAIN q, IsSeq(q)
    PROVE  LET r == RemoveAt(q, i)
           IN  /\ IsSeq(r) /\ DOMAIN r = 1 .. Len(q) - 1
               /\ \A j \in DOMAIN r : r[j] = IF j < i THEN q[j] ELSE q[j + 1]
<1> DEFINE S == {q[l] : l \in DOMAIN q}
           a == SubSeq(q, 1, i - 1)
           b == SubSeq(q, i + 1, Len(q))
           r == RemoveAt(q, i)
           n == Len(q)
<1>1. q \in Seq(S) /\ n \in Nat /\ DOMAIN q = 1 .. n /\ i \in 1 .. n
  BY SeqPlaces DEF IsSeq
<1>2. r = a \o b
  BY DEF RemoveAt
<1> HIDE DEF S, r
<1>3. a \in Seq(S) /\ Len(a) = i - 1 /\ \A j \in 1 .. i - 1 : a[j] = q[j]
  BY <1>1
<1>4. b \in Seq(S) /\ Len(b) = n - i /\ \A j \in 1 .. n - i : b[j] = q[i + j]
  <2>1. i + 1 \in Int /\ n \in Int /\ \A j \in i + 1 .. n : q[j] \in S
    BY <1>1
  <2>6. b \in Seq(S)
    BY <1>1, <2>1
  <2>7. Len(b) = IF i + 1 <= n THEN n - (i + 1) + 1 ELSE 0
    BY <1>1, <2>1
  <2>2. b \in Seq(S) /\ Len(b) = IF i + 1 <= n THEN n - (i + 1) + 1 ELSE 0
    BY <2>6, <2>7
  <2>3. \A j \in 1 .. n - (i + 1) + 1 : b[j] = q[i + 1 + j - 1]
    BY <2>1, SMTT(30)
  <2> HIDE DEF b, n
  <2>4. Len(b) = n - i
    BY <1>1, <2>2
  <2>5. \A j \in 1 .. n - i : b[j] = q[i + j]
    <3> SUFFICES ASSUME NEW j \in 1 .. n - i PROVE b[j] = q[i + j]
      OBVIOUS
    <3>1. j \in 1 .. n - (i + 1) + 1 /\ i + 1 + j - 1 = i + j
      BY <1>1
    <3> QED BY <2>3, <3>1
  <2> QED BY <2>2, <2>4, <2>5
<1> HIDE DEF a, b, n
<1>5. r \in Seq(S) /\ Len(r) = n - 1 /\ DOMAIN r = 1 .. n - 1
  <2>1. r \in Seq(S) /\ Len(r) = Len(a) + Len(b) /\ DOMAIN r = 1 .. Len(r)
    <3>1. a \in Seq(S) /\ b \in Seq(S)
      BY <1>3, <1>4
    <3>2. a \o b \in Seq(S)
      BY <3>1
    <3>3. Len(a \o b) = Len(a) + Len(b)
      BY <3>1
    <3>4. DOMAIN (a \o b) = 1 .. Len(a \o b)
      BY <3>2
    <3> QED BY <1>2, <3>2, <3>3, <3>4
  <2> QED BY <1>1, <1>3, <1>4, <2>1
<1>6. \A j \in 1 .. n - 1 : r[j] = IF j < i THEN q[j] ELSE q[j + 1]
  <2> SUFFICES ASSUME NEW j \in 1 .. n - 1 PROVE r[j] = IF j < i THEN q[j] ELSE q[j + 1]
    OBVIOUS
  <2>1. r[j] = IF j <= i - 1 THEN a[j] ELSE b[j - (i - 1)]
    <3>1. j \in 1 .. Len(a) + Len(b)
      BY <1>1, <1>3, <1>4
    <3>2. (a \o b)[j] = IF j <= Len(a) THEN a[j] ELSE b[j - Len(a)]
      BY <1>3, <1>4, <3>1
    <3> QED BY <1>2, <1>3, <3>2
  <2>2. CASE j < i
    BY <1>1, <1>3, <2>1, <2>2
  <2>3. CASE ~(j < i)
    <3> DEFINE l == j - (i - 1)
    <3>1. l \in 1 .. n - i /\ i + l = j + 1 /\ ~(j <= i - 1)
      BY <1>1, <2>3
    <3>2. r[j] = b[l]
      BY <2>1, <3>1
    <3> HIDE DEF l
    <3> QED BY <1>4, <2>3, <3>1, <3>2
  <2> QED BY <2>2, <2>3
<1>7. IsSeq(r)
  <2>1. n - 1 \in Nat /\ r = [j \in DOMAIN r |-> r[j]]
    BY <1>1, <1>5
  <2> QED BY <1>5, <2>1, SeqMade
<1> QED BY <1>5, <1>6, <1>7 DEF r, n

\* The first of a set of places is its least.
LEMMA FirstIsLeast ==
    ASSUME NEW found, found \subseteq Nat \ {0}, First(found) # 0
    PROVE  First(found) \in found /\ \A q \in found : First(found) <= q
<1>1. found # {}
  BY DEF First
<1>2. \E p \in found : \A q \in found : p <= q
  BY <1>1, LeastExists
<1> QED BY <1>1, <1>2 DEF First

\* db_item_remove() takes the first row that is equal to the item, or of a set
\* the first with its name if that is equal.
LEMMA RemovedIs ==
    ASSUME NEW s, NEW d \in Data, NEW in \in Parts, IsGroup(d), \A x \in KeysOf(d) : Live(s, x) /\ IsInner(s.rec[x]),
           Removed(s, d, in) # 0
    PROVE  LET i == Removed(s, d, in)
               x == IF d.schema = "SET" THEN Field(in.val) ELSE in
           IN  /\ i \in DOMAIN d.rows /\ Sent(s.rec[d.rows[i].key].data) = x
               /\ d.schema = "TABLE" => \A j \in 1 .. i - 1 : Sent(s.rec[d.rows[j].key].data) # in
               /\ d.schema = "SET" => /\ in.kind = "OBJECT" /\ d.rows[i].name = in.el
                                      /\ \A j \in 1 .. i - 1 : d.rows[j].name # in.el
<1> DEFINE x == IF d.schema = "SET" THEN Field(in.val) ELSE in
           At(j) == s.rec[d.rows[j].key].data
           Same(j) == At(j).schema = x.kind /\ At(j).el = x.el /\ At(j).val = x.val
           seen == {j \in DOMAIN d.rows : \A l \in 1 .. j : Live(s, d.rows[l].key)}
           T == {j \in seen : Same(j)}
           N == {j \in seen : d.rows[j].name = in.el}
           i == Removed(s, d, in)
<1>1. i = IF d.schema = "TABLE" THEN First(T) ELSE IF in.kind = "OBJECT" /\ First(N) # 0 /\ Same(First(N)) THEN First(N) ELSE 0
  BY ZenonT(60) DEF Removed
<1>2. Len(d.rows) \in Nat /\ DOMAIN d.rows = 1 .. Len(d.rows)
  BY DataRows
<1>3. seen = DOMAIN d.rows
  BY <1>2 DEF KeysOf
<1>4. x \in Parts
  BY PartSent
<1> HIDE DEF x, i, seen
<1>5. \A j \in DOMAIN d.rows : Same(j) <=> Sent(At(j)) = x
  <2> SUFFICES ASSUME NEW j \in DOMAIN d.rows PROVE Same(j) <=> Sent(At(j)) = x
    OBVIOUS
  <2> HIDE DEF At
  <2>1. x = [kind |-> x.kind, el |-> x.el, val |-> x.val, items |-> <<>>]
    BY <1>4 DEF Parts, Field, Object
  <2> QED BY <2>1 DEF Sent
<1> HIDE DEF Same
<1>6. T = {j \in DOMAIN d.rows : Sent(At(j)) = x} /\ N = {j \in DOMAIN d.rows : d.rows[j].name = in.el}
  BY <1>3, <1>5
<1>7. T \subseteq Nat \ {0} /\ N \subseteq Nat \ {0}
  BY <1>2, <1>6
<1> HIDE DEF T, N
<1>8. CASE d.schema = "TABLE"
  <2>1. i = First(T) /\ x = in /\ First(T) # 0
    BY <1>1, <1>8 DEF x, i
  <2>2. i \in T /\ \A q \in T : i <= q
    BY <1>7, <2>1, FirstIsLeast
  <2>3. i \in DOMAIN d.rows /\ Sent(At(i)) = x /\ i \in Nat
    BY <1>2, <1>6, <2>2
  <2>4. \A j \in 1 .. i - 1 : Sent(At(j)) # in
    <3>1. \A j \in 1 .. i - 1 : j \in DOMAIN d.rows /\ ~(i <= j)
      BY <1>2, <2>3, SMTT(30)
    <3>2. \A j \in DOMAIN d.rows : Sent(At(j)) = in => j \in T
      BY <1>6, <2>1
    <3> HIDE DEF At
    <3> QED BY <2>2, <3>1, <3>2
  <2> HIDE DEF At
  <2> QED BY <1>8, <2>1, <2>3, <2>4 DEF At, x, i
<1>9. CASE d.schema # "TABLE"
  <2>1. i = First(N) /\ First(N) # 0 /\ in.kind = "OBJECT" /\ Same(i) /\ d.schema = "SET"
    BY <1>1, <1>9 DEF IsGroup, i
  <2>2. i \in N /\ \A q \in N : i <= q
    BY <1>7, <2>1, FirstIsLeast
  <2>3. i \in DOMAIN d.rows /\ Sent(At(i)) = x /\ i \in Nat /\ d.rows[i].name = in.el
    <3>1. i \in DOMAIN d.rows /\ d.rows[i].name = in.el
      BY <1>6, <2>2
    <3>2. Sent(At(i)) = x
      BY ONLY <1>5, <2>1, <3>1
    <3> QED BY <1>2, <3>1, <3>2
  <2>4. \A j \in 1 .. i - 1 : d.rows[j].name # in.el
    BY <1>2, <1>6, <2>2, <2>3
  <2> HIDE DEF At
  <2> QED BY <2>1, <2>3, <2>4 DEF At, x, i
<1> QED BY <1>8, <1>9

\* db_item_remove() takes one item out of the document.
LEMMA DbItemRemoveIs ==
    ASSUME NEW s, NEW k, NEW in \in Parts, Good(s), ~s.err, Sound(s), k \in GroupsOf(s), Len(s.rec[k].data.rows) > 1,
           Removed(s, s.rec[k].data, in) # 0
    PROVE  LET v == DbItemRemove(s, k, in)
               i == Removed(s, s.rec[k].data, in)
           IN  /\ Sound(v)
               /\ DocsWith(s, v, k, [Expand(s, s.rec[k].data) EXCEPT !.items = RemoveAt(@, i)])
<1> DEFINE r == s.rec[k]
           data == r.data
           i == Removed(s, data, in)
           z == data.rows[i].key
           table == data.schema = "TABLE"
           t == IF table /\ in.kind = "OBJECT" THEN OnFirstIndex(s, k, in.el, in.val, -1) ELSE s
           u == EngineDelete(t, z)
           w == [u EXCEPT !.stale = @ \cup OtherTrees(s, k)]
           d == [data EXCEPT !.rows = RemoveAt(@, i)]
           q == [r EXCEPT !.data = d]
           v == DbItemRemove(s, k, in)
           p == OnGroup(s, k)
           o == s.ilist[p].offset
           Z == table /\ in.kind = "OBJECT" /\ Hit(s, k, in.el)
           L == Len(data.rows)
           x == s.rec[z].data
<1>1. RecordsIn(s) /\ AliasMatch(s) /\ IndexesIn(s, GroupsOf(s)) /\ TreesIn(s) /\ IsSeq(s.tree)
  BY DEF Sound, IndexesIn
<1>2. k \in s.top /\ Live(s, k) /\ k \in DOMAIN s.rec /\ r.type = "GROUP" /\ r.life = "finite"
  BY DEF GroupsOf, Live
<1>3. /\ IsRecord(r) /\ r.lock = FALSE /\ data # None /\ data \in Data /\ IsGroup(data) /\ r.alias
      /\ k # 0 /\ k \in Nat /\ k < s.next
  <2>1. /\ IsRecord(s.rec[k]) /\ s.rec[k].lock = FALSE /\ s.rec[k].data # None /\ s.rec[k].data \in Data
        /\ (s.rec[k].type = "GROUP" <=> IsGroup(s.rec[k].data))
        /\ (s.rec[k].type = "GROUP" => s.rec[k].alias) /\ k # 0 /\ k \in Nat /\ k < s.next
    BY ONLY Good(s), <1>1, <1>2, TopFacts
  <2> QED BY <1>2, <2>1
<1>4. table <=> data.schema # "SET"
  BY <1>3 DEF IsGroup
<1>5. RowsOK(s, k) /\ 0 \notin KeysOf(data) /\ Rows(s, k) = KeysOf(data) /\ Distinct(data)
  <2>1. RowsOK(s, k)
    BY <1>1, <1>2 DEF RecordsIn
  <2>2. RowKeys(r) = KeysOf(data)
    BY <1>3 DEF RowKeys
  <2>3. 0 \notin RowKeys(r) /\ Distinct(data)
    BY <1>2, <1>3, <2>1 DEF RowsOK
  <2> QED BY <2>1, <2>2, <2>3 DEF Rows
<1>6. \A j \in KeysOf(data) : j \notin s.top /\ Live(s, j) /\ IsInner(s.rec[j]) /\ j # k /\ j # 0 /\ j \in DOMAIN s.rec
  BY <1>2, <1>5, SMTT(30) DEF RowsOK, Live
<1>7. /\ i \in DOMAIN data.rows /\ i # 0
      /\ Sent(x) = (IF data.schema = "SET" THEN Field(in.val) ELSE in)
  BY <1>3, <1>6, RemovedIs
<1> HIDE DEF i
<1>8. Good(v)
  <2>1. Whole(data)
    BY <1>3, DataRows
  <2> QED BY <1>2, <1>3, <2>1, DbItemRemoveGood
<1>9. L \in Nat /\ L > 1 /\ Len(data.rows) # 1 /\ DOMAIN data.rows = 1 .. L /\ IsSeq(data.rows) /\ Whole(data)
  <2>1. L > 1
    OBVIOUS
  <2>2. L \in Nat /\ DOMAIN data.rows = 1 .. L /\ IsSeq(data.rows) /\ Whole(data)
    BY <1>3, DataRows
  <2> HIDE DEF L
  <2>3. L # 1
    BY <2>1, <2>2, SMTT(30)
  <2> QED BY <2>1, <2>2, <2>3 DEF L
<1>10. z \in KeysOf(data)
  BY <1>7 DEF KeysOf
<1>11. /\ z \notin s.top /\ Live(s, z) /\ IsInner(s.rec[z]) /\ z # k /\ z # 0 /\ z \in DOMAIN s.rec
       /\ ~s.rec[z].alias /\ ~s.rec[z].lock
  <2> HIDE DEF z
  <2>1. z \notin s.top /\ Live(s, z) /\ IsInner(s.rec[z]) /\ z # k /\ z # 0 /\ z \in DOMAIN s.rec
    BY <1>6, <1>10
  <2> QED BY <2>1 DEF IsInner
<1>12. v = UpdateData(w, k, d)
  <2>1. i # 0 /\ ~s.rec[z].alias /\ ~(Len(data.rows) = 1)
    <3> HIDE DEF z, data
    <3>1. ~(Len(data.rows) = 1)
      BY <1>9
    <3> QED BY <1>7, <1>11, <3>1
  <2>2. v = IF i = 0 THEN s
            ELSE IF data.schema = "TABLE" /\ Len(data.rows) = 1
                 THEN [(IF s.rec[z].alias THEN AliasDelete(u, z) ELSE u) EXCEPT !.dead = TRUE]
            ELSE UpdateData([(IF s.rec[z].alias THEN AliasDelete(u, z) ELSE u) EXCEPT !.stale = @ \cup OtherTrees(s, k)], k, d)
    BY DEF DbItemRemove, i
  <2> HIDE DEF u, d
  <2>3. (IF s.rec[z].alias THEN AliasDelete(u, z) ELSE u) = u
    BY <2>1
  <2> HIDE DEF z, data
  <2> QED BY <2>1, <2>2, <2>3
<1> HIDE DEF v
<1>13. k \in AliasKeys(s)
  BY <1>1, <1>2, <1>3 DEF AliasMatch
<1>14. /\ SameRecords(s, t) /\ SameAliases(s, t) /\ t.ilist = s.ilist /\ t.stale = s.stale /\ ~t.err /\ Good(t)
       /\ IsSeq(t.tree) /\ Len(t.tree) = Len(s.tree) /\ DOMAIN t.tree = DOMAIN s.tree
       /\ \A y \in DOMAIN s.tree : t.tree[y] = IF Z /\ y = o THEN Counted(s.tree[y], in.val, -1) ELSE s.tree[y]
  <2>1. CASE table /\ in.kind = "OBJECT"
    <3> DEFINE tt == OnFirstIndex(s, k, in.el, in.val, -1)
    <3>1. t = tt /\ (Z <=> Hit(s, k, in.el))
      BY <2>1
    <3>2. /\ SameRecords(s, tt) /\ SameAliases(s, tt) /\ tt.ilist = s.ilist /\ tt.stale = s.stale /\ tt.err = s.err
          /\ IsSeq(tt.tree) /\ Len(tt.tree) = Len(s.tree) /\ DOMAIN tt.tree = DOMAIN s.tree
          /\ \A y \in DOMAIN s.tree : tt.tree[y] = IF Hit(s, k, in.el) /\ y = o THEN Counted(s.tree[y], in.val, -1) ELSE s.tree[y]
      BY <1>1, <1>13, OnFirstIndexIs
    <3>3. Good(tt)
      BY OnFirstIndexGood
    <3> HIDE DEF t, tt, o, Z
    <3> QED BY <3>1, <3>2, <3>3
  <2>2. CASE ~(table /\ in.kind = "OBJECT")
    <3>1. t = s /\ ~Z
      BY <2>2
    <3> HIDE DEF t, Z
    <3> QED BY <1>1, <3>1 DEF SameRecords, SameAliases
  <2> QED BY <2>1, <2>2
<1> HIDE DEF t, Z, z
<1>15. Changed(t, u, z, [s.rec[z] EXCEPT !.life = "recycle"]) /\ Good(u)
  <2>1. Live(t, z) /\ ~t.rec[z].lock /\ t.rec[z] = s.rec[z]
    BY <1>11, <1>14 DEF SameRecords, Live
  <2> QED BY <1>14, <2>1, EngineDeleteIs, EngineDeleteGood
<1> DEFINE gone == [s.rec[z] EXCEPT !.life = "recycle"]
<1> HIDE DEF u, gone
<1>16. /\ DOMAIN u.rec = DOMAIN s.rec /\ u.rec[z] = gone /\ (\A j \in DOMAIN s.rec \ {z} : u.rec[j] = s.rec[j])
       /\ u.next = s.next /\ u.top = s.top /\ SameAliases(s, u) /\ u.ilist = s.ilist /\ u.tree = t.tree
       /\ u.stale = s.stale /\ ~u.err
  <2>1. z \in DOMAIN t.rec /\ t.rec = s.rec
    BY <1>11, <1>14 DEF SameRecords
  <2>2. /\ DOMAIN u.rec = DOMAIN t.rec /\ u.rec[z] = gone
        /\ \A j \in DOMAIN t.rec \ {z} : u.rec[j] = t.rec[j]
    <3> HIDE DEF gone
    <3>1. Changed(t, u, z, gone)
      BY <1>15 DEF gone
    <3> QED BY ONLY <3>1, <2>1 DEF Changed
  <2>3. /\ u.next = t.next /\ u.top = t.top /\ SameAliases(t, u) /\ SameIndexes(t, u) /\ u.err = t.err
    BY <1>15 DEF Changed
  <2> QED BY <1>14, <2>1, <2>2, <2>3 DEF SameRecords, SameAliases, SameIndexes
<1>17. /\ w.rec = u.rec /\ w.next = s.next /\ w.top = s.top /\ w.alias = s.alias /\ w.ilist = s.ilist
       /\ w.tree = t.tree /\ w.stale = s.stale \cup OtherTrees(s, k) /\ Good(w)
  <2>1. SameRest(u, w)
    BY <1>15, OtherFields
  <2>2. Good(w)
    BY <1>15, <2>1, RestKept
  <2>3. /\ w.rec = u.rec /\ w.next = u.next /\ w.top = u.top /\ w.alias = u.alias /\ w.ilist = u.ilist
        /\ w.tree = u.tree /\ w.stale = u.stale \cup OtherTrees(s, k)
    BY <1>15, GoodIsBase DEF IsBase
  <2> QED BY <1>16, <2>2, <2>3 DEF SameAliases
<1> HIDE DEF w
<1> DEFINE S == [name : Labels, key : Nat, val : Vals \cup {None}]
           rows == data.rows
           cut == RemoveAt(rows, i)
<1>18. IsSeq(cut) /\ DOMAIN cut = 1 .. L - 1 /\ \A j \in DOMAIN cut : cut[j] = IF j < i THEN rows[j] ELSE rows[j + 1]
  <2>1. i \in DOMAIN rows /\ IsSeq(rows)
    BY <1>7, <1>9
  <2> HIDE DEF rows, i
  <2> QED BY <2>1, SeqRemoved DEF rows
<1>19. /\ d \in Data /\ d.schema = data.schema /\ d.el = data.el /\ d.val = data.val /\ Whole(d) /\ d.rows = cut
  <2>1. cut \in Seq(S)
    <3>1. rows \in Seq(S) /\ \A j \in DOMAIN rows : rows[j] \in S
      <4>1. rows \in Seq(S)
        BY <1>3, DataRows
      <4> HIDE DEF rows, S
      <4> QED BY <4>1
    <3>2. i \in 1 .. L /\ DOMAIN rows = 1 .. L
      BY <1>7, <1>9
    <3> HIDE DEF rows, S, i, L, cut
    <3>3. \A j \in DOMAIN cut : cut[j] \in S
      BY <1>9, <1>18, <3>1, <3>2
    <3>4. cut = [j \in 1 .. L - 1 |-> cut[j]] /\ L - 1 \in Nat
      BY <1>9, <1>18, SeqIs
    <3>5. cut \in [1 .. L - 1 -> S]
      BY <1>18, <3>3, <3>4
    <3> QED BY <3>4, <3>5
  <2>2. d = [data EXCEPT !.rows = cut]
    OBVIOUS
  <2> HIDE DEF cut, d
  <2> QED BY <1>3, <2>1, <2>2, DataWith
<1> HIDE DEF d, rows, cut
<1>20. /\ DOMAIN d.rows = 1 .. L - 1
       /\ \A j \in 1 .. L - 1 : d.rows[j] = IF j < i THEN data.rows[j] ELSE data.rows[j + 1]
  BY <1>18, <1>19 DEF rows
<1> HIDE DEF L
<1>21. i \in 1 .. L
  BY <1>7, <1>9
<1>22. Changed(w, v, k, q)
  <2>1. k \in DOMAIN w.rec /\ w.rec[k] = r /\ ~w.rec[k].lock
    BY <1>2, <1>3, <1>11, <1>16, <1>17
  <2> QED BY <1>12, <1>17, <2>1, UpdateDataIs
<1> HIDE DEF q
<1>23. /\ DOMAIN v.rec = DOMAIN s.rec /\ v.rec[k] = q /\ v.rec[z] = gone
       /\ \A j \in DOMAIN s.rec \ {k, z} : v.rec[j] = s.rec[j]
       /\ v.next = s.next /\ v.top = s.top /\ SameAliases(s, v) /\ v.ilist = s.ilist /\ v.tree = t.tree
       /\ v.stale = s.stale \cup OtherTrees(s, k)
  <2>1. k \in DOMAIN w.rec
    BY <1>2, <1>16, <1>17
  <2>2. DOMAIN v.rec = DOMAIN w.rec /\ v.rec[k] = q /\ \A j \in DOMAIN w.rec \ {k} : v.rec[j] = w.rec[j]
    BY ONLY <1>22, <2>1 DEF Changed
  <2>3. /\ v.next = w.next /\ v.top = w.top /\ v.alias = w.alias /\ v.ilist = w.ilist /\ v.tree = w.tree /\ v.stale = w.stale
    BY <1>22 DEF Changed, SameAliases, SameIndexes
  <2> QED BY <1>11, <1>16, <1>17, <2>2, <2>3 DEF SameAliases
<1>24. Step(s, v, k, {z})
  <2>1. s.next <= v.next
    BY <1>23 DEF Good, RecordsOK
  <2>2. {z} \subseteq Rows(s, k)
    BY <1>5, <1>10 DEF z
  <2> QED BY <1>2, <1>11, <1>23, <2>1, <2>2 DEF Step, gone
<1>25. NewOnes(s, v, k)
  BY <1>23 DEF NewOnes
<1>26. \A j \in 1 .. L - 1 : /\ d.rows[j].key \in KeysOf(data) /\ d.rows[j].key # z
                             /\ (IF j < i THEN j ELSE j + 1) \in 1 .. L
  <2> SUFFICES ASSUME NEW j \in 1 .. L - 1
               PROVE  /\ d.rows[j].key \in KeysOf(data) /\ d.rows[j].key # z
                      /\ (IF j < i THEN j ELSE j + 1) \in 1 .. L
    OBVIOUS
  <2> DEFINE l == IF j < i THEN j ELSE j + 1
  <2>1. l \in 1 .. L /\ l # i /\ d.rows[j] = data.rows[l]
    BY <1>9, <1>20, <1>21, SMTT(30)
  <2> HIDE DEF l
  <2>2. data.rows[l].key # data.rows[i].key /\ data.rows[l].key \in KeysOf(data)
    BY <1>5, <1>7, <1>9, <2>1, ZenonT(60) DEF Distinct, KeysOf
  <2> QED BY <2>1, <2>2 DEF l, z
<1>27. KeysOf(d) \subseteq KeysOf(data) \ {z}
  BY <1>20, <1>26 DEF KeysOf
<1>28. \A j \in KeysOf(data) \ {z} : Live(v, j) /\ v.rec[j] = s.rec[j]
  BY <1>6, <1>23 DEF Live
<1>29. \A j \in KeysOf(d) : Live(v, j) /\ IsInner(v.rec[j]) /\ j \notin v.top
  BY <1>6, <1>23, <1>27, <1>28
<1>30. Distinct(d) /\ 0 \notin KeysOf(d)
  <2>1. 0 \notin KeysOf(d)
    BY <1>5, <1>27
  <2> SUFFICES ASSUME NEW a \in DOMAIN d.rows, NEW b \in DOMAIN d.rows, d.rows[a].key = d.rows[b].key
               PROVE  a = b
    BY <2>1 DEF Distinct
  <2> DEFINE f(j) == IF j < i THEN j ELSE j + 1
  <2>2. a \in Nat /\ b \in Nat /\ f(a) \in 1 .. L /\ f(b) \in 1 .. L /\ d.rows[a] = data.rows[f(a)] /\ d.rows[b] = data.rows[f(b)]
    <3>1. a \in 1 .. L - 1 /\ b \in 1 .. L - 1
      BY <1>20
    <3>2. \A j \in 1 .. L - 1 : j \in Nat /\ f(j) \in 1 .. L /\ d.rows[j] = data.rows[f(j)]
      BY <1>20, <1>26, SMTT(30)
    <3> HIDE DEF f
    <3> QED BY <3>1, <3>2
  <2>3. f(a) = f(b)
    <3> HIDE DEF f
    <3>1. data.rows[f(a)].key # 0
      BY <1>5, <1>9, <2>2 DEF KeysOf
    <3> QED BY <1>5, <1>9, <2>2, <3>1 DEF Distinct
  <2> QED BY <1>21, <2>2, <2>3
<1> HIDE DEF data
<1>31. ASSUME p # 0, o \notin s.stale \cup {0}, table
       PROVE  v.tree[o] = Contents(v, d, s.ilist[p].el)
  <2> DEFINE e == s.ilist[p].el
             f == [j \in DOMAIN d.rows |-> IF j < i THEN j ELSE j + 1]
  <2>1. p \in Listed(s) /\ s.ilist[p].group = k /\ e # None
    BY <1>31, OnGroupIs DEF Listed
  <2>2. s.tree[o] = Contents(s, data, e)
    BY <1>1, <1>31, <2>1 DEF TreesIn, TreeOK, data
  <2>3. o \in DOMAIN s.tree
    <3>1. o \in 0 .. Len(s.tree)
      BY <1>1, <2>1 DEF IndexesIn, EntryOK
    <3> QED BY <1>1, <1>31, <3>1, SeqPlaces
  <2>4. x.el = in.el /\ x.val = in.val /\ in.val \in Vals
    <3>1. Sent(x) = in
      BY <1>4, <1>7, <1>31
    <3>2. in.val \in Vals
      BY PartSent
    <3> HIDE DEF x
    <3> QED BY <3>1, <3>2 DEF Sent
  <2>5. Moved(v, d, s, data, f, i)
    <3>1. \A j \in DOMAIN d.rows : f[j] \in DOMAIN data.rows /\ f[j] # i /\ d.rows[j] = data.rows[f[j]]
      <4> SUFFICES ASSUME NEW j \in 1 .. L - 1
                   PROVE  f[j] \in DOMAIN data.rows /\ f[j] # i /\ d.rows[j] = data.rows[f[j]]
        BY <1>20
      <4>1. f[j] = IF j < i THEN j ELSE j + 1
        BY <1>20
      <4> HIDE DEF f
      <4> QED BY <1>9, <1>20, <1>21, <1>26, <4>1
    <3>2. \A j, l \in DOMAIN d.rows : f[j] = f[l] => j = l
      BY <1>9, <1>20, <1>21
    <3>3. \A l \in DOMAIN data.rows : l = i \/ \E j \in DOMAIN d.rows : f[j] = l
      <4> SUFFICES ASSUME NEW l \in 1 .. L, l # i PROVE \E j \in 1 .. L - 1 : (IF j < i THEN j ELSE j + 1) = l
        BY <1>9, <1>20
      <4>1. CASE l < i
        <5>1. l \in 1 .. L - 1 /\ (IF l < i THEN l ELSE l + 1) = l
          BY <1>9, <1>21, <4>1
        <5> QED BY <5>1
      <4>2. CASE ~(l < i)
        <5>1. l - 1 \in 1 .. L - 1 /\ (IF l - 1 < i THEN l - 1 ELSE l - 1 + 1) = l
          BY <1>9, <1>21, <4>2
        <5> QED BY <5>1
      <4> QED BY <4>1, <4>2
    <3> HIDE DEF f
    <3>4. \A j \in DOMAIN d.rows :
            /\ Live(v, d.rows[j].key) <=> Live(s, data.rows[f[j]].key)
            /\ Live(v, d.rows[j].key) => s.rec[data.rows[f[j]].key] = v.rec[d.rows[j].key]
      <4> SUFFICES ASSUME NEW j \in DOMAIN d.rows
                   PROVE  /\ Live(v, d.rows[j].key) /\ Live(s, d.rows[j].key)
                          /\ s.rec[d.rows[j].key] = v.rec[d.rows[j].key]
        BY <3>1
      <4>1. d.rows[j].key \in KeysOf(data) \ {z}
        BY <1>27 DEF KeysOf
      <4> QED BY <1>6, <1>28, <4>1
    <3>5. Live(s, data.rows[i].key) /\ i \in DOMAIN data.rows
      BY <1>7, <1>11 DEF z
    <3> QED BY <1>9, <1>19, <3>1, <3>2, <3>3, <3>4, <3>5 DEF Moved
  <2> HIDE DEF f, e
  <2>6. \A val \in Vals : /\ Contents(v, d, e)[val] \in Nat
                          /\ Contents(s, data, e)[val] = Contents(v, d, e)[val] + IF x.el = e /\ x.val = val THEN 1 ELSE 0
    <3> SUFFICES ASSUME NEW val \in Vals
                 PROVE  /\ Contents(v, d, e)[val] \in Nat
                        /\ Contents(s, data, e)[val] = Contents(v, d, e)[val] + IF x.el = e /\ x.val = val THEN 1 ELSE 0
      BY SMTT(30)
    <3>1. LET xx == s.rec[data.rows[i].key].data
          IN  /\ Contents(v, d, e)[val] \in Nat
              /\ Contents(s, data, e)[val] = Contents(v, d, e)[val] + IF xx.el = e /\ xx.val = val THEN 1 ELSE 0
      <4> HIDE DEF i
      <4> QED BY ONLY val \in Vals, <2>5, OneMore
    <3> QED BY <3>1 DEF z
  <2> HIDE DEF x
  <2>7. /\ x.el = e => Contents(v, d, e) = Counted(Contents(s, data, e), x.val, -1)
        /\ x.el # e => Contents(v, d, e) = Contents(s, data, e)
    BY <2>4, <2>6, OneMoreCounted
  <2>8. v.tree[o] = IF Z THEN Counted(s.tree[o], in.val, -1) ELSE s.tree[o]
    <3> HIDE DEF o, p
    <3> QED BY <1>14, <1>23, <2>3
  <2>9. Z <=> x.el = e
    <3>1. CASE in.kind = "OBJECT"
      BY <1>31, <2>4, <3>1 DEF Z, Hit, e
    <3>2. CASE in.kind # "OBJECT"
      <4>1. in.el = None
        BY <3>2, PartSent
      <4> QED BY <2>1, <2>4, <3>2, <4>1 DEF Z, e
    <3> QED BY <3>1, <3>2
  <2> QED BY <2>2, <2>4, <2>7, <2>8, <2>9 DEF e
<1>32. \A y \in DOMAIN s.tree : p = 0 \/ y # o => v.tree[y] = s.tree[y]
  <2>1. Z => p # 0
    BY DEF Z, Hit
  <2> HIDE DEF o, p
  <2> QED BY <1>14, <1>23, <2>1
<1>33. Sound(v) /\ DocsWith(s, v, k, Expand(v, d))
  <2>1. k \in DOMAIN v.rec /\ v.rec[k] = [s.rec[k] EXCEPT !.data = d]
    BY <1>2, <1>23 DEF q
  <2>2. d.schema = s.rec[k].data.schema /\ d.el = s.rec[k].data.el /\ 0 \notin KeysOf(d)
    BY <1>19, <1>30 DEF data
  <2>3. IsSeq(v.tree) /\ Len(v.tree) = Len(s.tree)
    BY <1>14, <1>23
  <2>4. p # 0 /\ o \notin s.stale \cup {0} /\ s.rec[k].data.schema = "TABLE" => v.tree[o] = Contents(v, d, s.ilist[p].el)
    BY <1>31 DEF table, data
  <2> QED BY <1>8, <1>19, <1>23, <1>24, <1>25, <1>29, <1>30, <1>32, <2>1, <2>2, <2>3, <2>4, GroupChanged
<1>34. Expand(v, d) = [Expand(s, data) EXCEPT !.items = RemoveAt(@, i)]
  <2> DEFINE a == [j \in DOMAIN data.rows |-> ItemOf(s, data.rows[j])]
             b == [j \in DOMAIN d.rows |-> ItemOf(v, d.rows[j])]
             c == RemoveAt(a, i)
  <2>1. Expand(s, data) = [kind |-> KindOf(data), el |-> data.el, val |-> data.val, items |-> a]
    BY ExpandIs
  <2>2. Expand(v, d) = [kind |-> KindOf(d), el |-> d.el, val |-> d.val, items |-> b]
    BY ExpandIs
  <2>3. KindOf(d) = KindOf(data) /\ d.el = data.el /\ d.val = data.val
    BY <1>19 DEF KindOf
  <2>4. IsSeq(a) /\ Len(a) = L
    <3>1. DOMAIN a = 1 .. L
      BY <1>9
    <3>2. IsSeq(a)
      BY <1>9, <3>1, SeqMade
    <3> HIDE DEF a
    <3> QED BY <1>9, <3>1, <3>2, SeqPlaces
  <2>5. \A j \in 1 .. L - 1 : ItemOf(v, d.rows[j]) = ItemOf(s, d.rows[j])
    <3> SUFFICES ASSUME NEW j \in 1 .. L - 1 PROVE ItemOf(v, d.rows[j]) = ItemOf(s, d.rows[j])
      OBVIOUS
    <3> QED BY <1>6, <1>26, <1>28 DEF ItemOf
  <2>7. DOMAIN a = DOMAIN data.rows /\ \A j \in DOMAIN data.rows : a[j] = ItemOf(s, data.rows[j])
    OBVIOUS
  <2>8. DOMAIN b = DOMAIN d.rows /\ (\A j \in DOMAIN d.rows : b[j] = ItemOf(v, d.rows[j])) /\ b = [j \in DOMAIN b |-> b[j]]
    OBVIOUS
  <2> HIDE DEF a, b, i
  <2>9. IsSeq(c) /\ DOMAIN c = 1 .. L - 1 /\ \A j \in DOMAIN c : c[j] = IF j < i THEN a[j] ELSE a[j + 1]
    BY <1>7, <2>4, <2>7, SeqRemoved
  <2> HIDE DEF c
  <2>10. c = [j \in DOMAIN c |-> c[j]]
    BY <2>9, SeqIs
  <2>11. DOMAIN b = DOMAIN c /\ \A j \in DOMAIN c : b[j] = c[j]
    <3>1. DOMAIN b = DOMAIN c
      BY <1>20, <2>8, <2>9
    <3> SUFFICES ASSUME NEW j \in 1 .. L - 1 PROVE b[j] = c[j]
      BY <2>9, <3>1
    <3> DEFINE l == IF j < i THEN j ELSE j + 1
    <3>2. l \in DOMAIN data.rows /\ d.rows[j] = data.rows[l] /\ c[j] = a[l]
      BY <1>9, <1>20, <1>26, <2>9
    <3> HIDE DEF l
    <3> QED BY <1>20, <2>5, <2>7, <2>8, <3>2
  <2>12. b = c
    BY <2>8, <2>10, <2>11
  <2> DEFINE E == Expand(s, data)
  <2>13. E.items = a /\ [E EXCEPT !.items = RemoveAt(@, i)] = [E EXCEPT !.items = c]
    BY <2>1 DEF c
  <2>14. [E EXCEPT !.items = c] = [kind |-> KindOf(data), el |-> data.el, val |-> data.val, items |-> c]
    BY <2>1
  <2> HIDE DEF E
  <2>15. Expand(v, d) = [E EXCEPT !.items = RemoveAt(@, i)]
    BY <2>2, <2>3, <2>12, <2>13, <2>14
  <2> QED BY <2>15 DEF E
<1> QED BY <1>33, <1>34 DEF v, data, i

-----------------------------------------------------------------------------
(* Requests about indexes *)

LEMMA BuildIs ==
    ASSUME NEW s, NEW data, NEW e, Good(s)
    PROVE  LET t == Build(s, data, e)
           IN  /\ SameRecords(s, t) /\ SameAliases(s, t) /\ t.ilist = s.ilist /\ t.stale = s.stale
               /\ data.schema = "TABLE" => t.tree = Append(s.tree, Contents(s, data, e)) /\ t.err = s.err
               /\ data.schema # "TABLE" => t.tree = s.tree /\ t.err = TRUE
<1>1. CASE data.schema # "TABLE"
  BY <1>1, ThrowIs DEF Build, SameIndexes
<1>2. CASE data.schema = "TABLE"
  BY <1>2, GoodIsBase DEF Build, IsBase, SameRecords, SameAliases
<1> QED BY <1>1, <1>2

\* A new record of an index, with its alias, its entry and its tree.
HasIndex(s, t, g, data, e) ==
    /\ t.next = s.next + 1 /\ t.top = s.top /\ t.stale = s.stale
    /\ DOMAIN t.rec = DOMAIN s.rec \cup {s.next} /\ (\A x \in DOMAIN s.rec \ {s.next} : t.rec[x] = s.rec[x])
    /\ IsIndex(t.rec[s.next]) /\ t.rec[s.next].life = "finite"
    /\ AliasOnce(t) /\ AliasKeys(t) = AliasKeys(s) \cup {s.next}
    /\ t.ilist = Append(s.ilist, [index |-> s.next, group |-> g, el |-> e,
                                  offset |-> IF data.schema = "TABLE" THEN Len(s.tree) + 1 ELSE 0])
    /\ data.schema = "TABLE" => t.tree = Append(s.tree, Contents(s, data, e)) /\ t.err = s.err
    /\ data.schema # "TABLE" => t.tree = s.tree /\ t.err = TRUE

LEMMA AddIndexIs ==
    ASSUME NEW s, NEW g, NEW data, NEW e, Good(s), IsSeq(s.tree), AliasOnce(s), s.next \notin AliasKeys(s), e # None
    PROVE  HasIndex(s, AddIndex(s, g, data, e), g, data, e) /\ Good(AddIndex(s, g, data, e))
<1> DEFINE i == s.next
           s1 == [s EXCEPT !.next = @ + 1]
           t == Build(s1, data, e)
           r == [Record(None) EXCEPT !.type = "INDEX", !.alias = TRUE]
           u == Insert(t, i, r)
           w == AliasAdd(u, i, i)
           o == OffsetOf(t, data)
           z == IndexListAdd(w, i, g, e, o)
<1>1. AddIndex(s, g, data, e) = z /\ Good(z)
  <2>1. AddIndex(s, g, data, e) = z
    BY DEF AddIndex
  <2>2. Good(AddIndex(s, g, data, e))
    BY AddIndexGood
  <2> QED BY <2>1, <2>2
<1>2. i \in Nat \ {0}
  BY DEF Good, RecordsOK
<1>3. /\ s1.rec = s.rec /\ s1.next = i + 1 /\ s1.top = s.top /\ s1.err = s.err
      /\ SameAliases(s, s1) /\ SameIndexes(s, s1) /\ Good(s1)
  <2>1. /\ s1.rec = s.rec /\ s1.next = i + 1 /\ s1.top = s.top /\ s1.err = s.err
        /\ SameAliases(s, s1) /\ SameIndexes(s, s1)
    BY GoodIsBase DEF IsBase, SameAliases, SameIndexes
  <2> QED BY <2>1, NextGood
<1> HIDE DEF s1
<1>4. Contents(s1, data, e) = Contents(s, data, e)
  BY <1>3 DEF Contents, Indexed, Live
<1>5. /\ SameRecords(s1, t) /\ SameAliases(s1, t) /\ t.ilist = s1.ilist /\ t.stale = s1.stale /\ Good(t)
      /\ data.schema = "TABLE" => t.tree = Append(s1.tree, Contents(s1, data, e)) /\ t.err = s1.err
      /\ data.schema # "TABLE" => t.tree = s1.tree /\ t.err = TRUE
  BY <1>3, BuildIs, BuildGood, ZenonT(60)
<1> HIDE DEF t
<1>6. o = IF data.schema = "TABLE" THEN Len(s.tree) + 1 ELSE 0
  <2>1. Len(Append(s.tree, Contents(s, data, e))) = Len(s.tree) + 1
    BY DEF IsSeq
  <2> QED BY <1>3, <1>4, <1>5, <2>1 DEF OffsetOf, SameIndexes
<1> HIDE DEF o
<1>7. IsIndex(r) /\ r.life = "finite" /\ RecordOK(r) /\ RowKeys(r) = {}
  BY DEF RecordOK, Record, IsRecord, RowKeys, IsIndex
<1> HIDE DEF r
<1>8. /\ DOMAIN u.rec = DOMAIN s.rec \cup {i} /\ u.rec[i] = r
      /\ \A x \in DOMAIN s.rec \ {i} : u.rec[x] = s.rec[x]
      /\ u.next = i + 1 /\ u.top = s.top /\ SameAliases(s, u) /\ SameIndexes(t, u) /\ u.err = t.err /\ Good(u)
  <2>1. t.rec = s.rec /\ t.next = i + 1 /\ t.top = s.top /\ SameAliases(s, t)
    BY <1>3, <1>5 DEF SameRecords, SameAliases
  <2>2. Own(t, i, r)
    BY <1>7 DEF Own
  <2>3. Good(u)
    BY <1>2, <1>5, <1>7, <2>1, <2>2, InsertGood
  <2> QED BY <1>5, <2>1, <2>3, InsertIs DEF SameAliases
<1> HIDE DEF u
<1>9. /\ AliasOnce(w) /\ AliasKeys(w) = AliasKeys(s) \cup {i} /\ SameRecords(u, w) /\ SameIndexes(u, w) /\ w.err = u.err
  <2>1. AliasOnce(u) /\ AliasKeys(u) = AliasKeys(s)
    BY <1>8 DEF SameAliases, AliasOnce, AliasKeys, AliasAll
  <2> QED BY <1>8, <2>1, AliasAddIs
<1>10. IsBase(w)
  <2>1. CanName(u, i, i)
    BY <1>2, <1>8, OwnName
  <2> HIDE DEF i
  <2> QED BY <1>8, <2>1, AliasAddGood, GoodIsBase
<1> HIDE DEF w
<1>11. /\ z.rec = w.rec /\ z.next = w.next /\ z.top = w.top /\ z.alias = w.alias /\ z.tree = w.tree /\ z.stale = w.stale
       /\ z.err = w.err /\ z.ilist = Append(w.ilist, [index |-> i, group |-> g, el |-> e, offset |-> o])
  BY <1>10 DEF IndexListAdd, IsBase
<1> HIDE DEF z
<1>12. AliasOnce(z) /\ AliasKeys(z) = AliasKeys(s) \cup {i}
  BY <1>9, <1>11 DEF AliasOnce, AliasKeys, AliasAll
<1>13. z.ilist = Append(s.ilist, [index |-> i, group |-> g, el |-> e, offset |-> o]) /\ z.stale = s.stale
       /\ z.tree = t.tree /\ z.err = t.err
  BY <1>3, <1>5, <1>8, <1>9, <1>11 DEF SameIndexes
<1>14. z.next = i + 1 /\ z.top = s.top /\ z.rec = u.rec
  BY <1>8, <1>9, <1>11 DEF SameRecords
<1>15. /\ data.schema = "TABLE" => z.tree = Append(s.tree, Contents(s, data, e)) /\ z.err = s.err
       /\ data.schema # "TABLE" => z.tree = s.tree /\ z.err = TRUE
  BY <1>3, <1>4, <1>5, <1>13 DEF SameIndexes
<1>16. HasIndex(s, z, g, data, e)
  BY <1>6, <1>7, <1>8, <1>12, <1>13, <1>14, <1>15 DEF HasIndex
<1> QED BY <1>1, <1>16

\* The list with one more entry, and the tree of the entry.
Grown(s, t, x, c, G) ==
    /\ IsSeq(s.ilist) /\ IndexesIn(s, G)
    /\ s.next \in Nat \ {0} /\ t.next \in Nat /\ s.next <= t.next /\ t.top = s.top
    /\ t.ilist = Append(s.ilist, x) /\ x.el # None /\ x.group \in G \ {0}
    /\ x.index \in 1 .. t.next - 1 /\ x.index \notin t.top /\ \A p \in Listed(s) : s.ilist[p].index # x.index
    /\ \/ x.offset = 0 /\ t.tree = s.tree
       \/ x.offset = Len(s.tree) + 1 /\ t.tree = Append(s.tree, c)

LEMMA EntryAppended ==
    ASSUME NEW s, NEW t, NEW x, NEW c, NEW G, Grown(s, t, x, c, G)
    PROVE  LET n == Len(s.ilist) + 1
           IN  /\ IndexesIn(t, G) /\ n \notin Listed(s) /\ Listed(t) = Listed(s) \cup {n} /\ Len(s.tree) <= Len(t.tree)
               /\ \A p \in Listed(s) : /\ t.ilist[p] = s.ilist[p]
                                       /\ s.ilist[p].offset # 0 => t.tree[s.ilist[p].offset] = s.tree[s.ilist[p].offset]
               /\ t.ilist[n] = x
               /\ x.offset # 0 => t.tree[x.offset] = c
<1> USE DEF Grown
<1> DEFINE n == Len(s.ilist) + 1
           m == Len(s.tree)
<1>1. IsSeq(s.tree)
  BY DEF IndexesIn
<1>2. /\ DOMAIN t.ilist = DOMAIN s.ilist \cup {n} /\ n \notin DOMAIN s.ilist
      /\ (\A p \in DOMAIN s.ilist : t.ilist[p] = s.ilist[p]) /\ t.ilist[n] = x
  BY SeqAppend
<1>3. m \in Nat /\ DOMAIN s.tree = 1 .. m
  BY <1>1, SeqPlaces
<1>4. /\ IsSeq(t.tree) /\ (Len(t.tree) = IF x.offset = 0 THEN m ELSE m + 1) /\ (\A o \in 1 .. m : t.tree[o] = s.tree[o])
      /\ x.offset # 0 => x.offset = m + 1 /\ t.tree[m + 1] = c
  <2>1. CASE x.offset # 0
    <3>1. t.tree = Append(s.tree, c) /\ x.offset = m + 1
      BY <2>1
    <3>2. /\ IsSeq(t.tree) /\ DOMAIN t.tree = DOMAIN s.tree \cup {m + 1} /\ (\A o \in DOMAIN s.tree : t.tree[o] = s.tree[o])
          /\ t.tree[m + 1] = c
      BY <1>1, <3>1, SeqAppend, SMTT(30)
    <3>3. Len(t.tree) = m + 1
      BY <1>1, <3>1 DEF IsSeq
    <3> QED BY <1>3, <2>1, <3>1, <3>2, <3>3
  <2>2. CASE x.offset = 0
    <3>1. t.tree = s.tree
      BY <1>3, <2>2
    <3> QED BY <1>1, <2>2, <3>1
  <2> QED BY <2>1, <2>2
<1> HIDE DEF m, n
<1>5. n \notin Listed(s) /\ Listed(t) = Listed(s) \cup {n}
  BY <1>2 DEF Listed
<1>6. \A p \in Listed(s) : /\ t.ilist[p] = s.ilist[p]
                           /\ s.ilist[p].offset \in 0 .. m /\ s.ilist[p].index \in 0 .. s.next - 1
                           /\ EntryOK(s, s.ilist[p], G)
  BY <1>2 DEF Listed, IndexesIn, EntryOK, m
<1>7. Len(t.tree) \in Nat /\ m <= Len(t.tree)
  BY <1>3, <1>4
<1>8. \A p \in Listed(t) : EntryOK(t, t.ilist[p], G)
  <2>1. \A p \in Listed(s) : EntryOK(t, t.ilist[p], G)
    <3> SUFFICES ASSUME NEW p \in Listed(s) PROVE EntryOK(t, s.ilist[p], G)
      BY <1>6
    <3> DEFINE y == s.ilist[p]
               l == Len(t.tree)
    <3>0. Len(t.tree) = l
      OBVIOUS
    <3>1. y.offset \in 0 .. m /\ y.index \in 0 .. s.next - 1 /\ EntryOK(s, y, G)
      BY <1>6
    <3>2. s.next \in Nat /\ t.next \in Nat /\ s.next <= t.next /\ m \in Nat /\ l \in Nat /\ m <= l /\ t.top = s.top
      BY <1>3, <1>7
    <3> HIDE DEF y, l
    <3>3. y.offset \in 0 .. l /\ y.index \in 0 .. t.next - 1
      BY ONLY <3>1, <3>2
    <3>4. y.index \notin t.top
      BY ONLY <3>1, <3>2 DEF EntryOK
    <3>5. EntryOK(t, y, G)
      BY ONLY <3>0, <3>1, <3>3, <3>4 DEF EntryOK
    <3> QED BY <3>5 DEF y
  <2>2. EntryOK(t, x, G)
    <3>1. x.offset \in 0 .. Len(t.tree)
      BY <1>3, <1>4
    <3> QED BY <3>1 DEF EntryOK
  <2> QED BY <1>2, <1>5, <2>1, <2>2
<1>9. ASSUME NEW p \in Listed(s) PROVE t.ilist[p].index # x.index /\ (t.ilist[p].offset = x.offset => x.offset = 0)
  <2>1. t.ilist[p].offset \in 0 .. m /\ m \in Nat /\ t.ilist[p] = s.ilist[p] /\ s.ilist[p].index # x.index
    BY <1>3, <1>6
  <2>2. x.offset # 0 => x.offset = m + 1
    BY <1>4
  <2> QED BY ONLY <2>1, <2>2
<1>10. Apart(t)
  <2> SUFFICES ASSUME NEW p \in Listed(t), NEW q \in Listed(t), p # q
               PROVE  /\ t.ilist[p].index = t.ilist[q].index => t.ilist[p].index = 0
                      /\ t.ilist[p].offset = t.ilist[q].offset => t.ilist[p].offset = 0
    BY DEF Apart
  <2>0. Apart(s)
    BY DEF IndexesIn
  <2>1. CASE p \in Listed(s) /\ q \in Listed(s)
    <3>1. t.ilist[p] = s.ilist[p] /\ t.ilist[q] = s.ilist[q]
      BY <1>6, <2>1
    <3> QED BY ONLY <2>0, <2>1, <3>1, p # q DEF Apart
  <2>2. CASE p \in Listed(s) /\ q = n
    <3>1. t.ilist[q] = x
      BY <1>2, <2>2
    <3> QED BY ONLY <1>9, <2>2, <3>1
  <2>3. CASE p = n /\ q \in Listed(s)
    <3>1. t.ilist[p] = x
      BY <1>2, <2>3
    <3> QED BY ONLY <1>9, <2>3, <3>1
  <2> QED BY <1>5, <2>1, <2>2, <2>3
<1>11. IndexesIn(t, G)
  BY <1>4, <1>8, <1>10 DEF IndexesIn
<1>12. \A p \in Listed(s) : s.ilist[p].offset # 0 => t.tree[s.ilist[p].offset] = s.tree[s.ilist[p].offset]
  BY <1>3, <1>4, <1>6, SMTT(30)
<1> QED BY <1>2, <1>4, <1>5, <1>6, <1>7, <1>11, <1>12 DEF n, m

\* The list with the entry of a new index.
LEMMA HasIndexIs ==
    ASSUME NEW s, NEW t, NEW g, NEW data, NEW e, NEW G, Good(s), Good(t), KeysFit(s), HasIndex(s, t, g, data, e), e # None,
           IndexesIn(s, G), g \in G, g # 0
    PROVE  LET n == Len(s.ilist) + 1
           IN  /\ IndexesIn(t, G) /\ n \notin Listed(s) /\ Listed(t) = Listed(s) \cup {n} /\ Len(s.tree) <= Len(t.tree)
               /\ \A p \in Listed(s) : /\ t.ilist[p] = s.ilist[p]
                                       /\ s.ilist[p].offset # 0 => t.tree[s.ilist[p].offset] = s.tree[s.ilist[p].offset]
               /\ t.ilist[n].group = g /\ t.ilist[n].el = e
               /\ data.schema # "TABLE" => t.ilist[n].offset = 0
               /\ data.schema = "TABLE" => t.tree[t.ilist[n].offset] = Contents(s, data, e)
<1> DEFINE n == Len(s.ilist) + 1
           m == Len(s.tree)
           x == [index |-> s.next, group |-> g, el |-> e, offset |-> IF data.schema = "TABLE" THEN m + 1 ELSE 0]
           c == Contents(s, data, e)
<1>1. IsSeq(s.ilist) /\ s.next \in Nat \ {0} /\ t.next \in Nat /\ m \in Nat
  BY SeqPlaces DEF Good, IndexesOK, RecordsOK, IndexesIn
<1>2. t.next = s.next + 1 /\ t.top = s.top /\ t.ilist = Append(s.ilist, x)
  BY DEF HasIndex
<1>3. x.index \in 1 .. t.next - 1 /\ x.index \notin t.top /\ x.el = e /\ x.group = g
  BY <1>1, <1>2 DEF KeysFit
<1>4. ASSUME NEW p \in Listed(s) PROVE s.ilist[p].index # x.index
  <2>1. s.ilist[p].index \in 0 .. s.next - 1 /\ x.index = s.next
    BY DEF IndexesIn, EntryOK
  <2> QED BY ONLY <1>1, <2>1
<1>5. \/ data.schema # "TABLE" /\ x.offset = 0 /\ t.tree = s.tree
      \/ data.schema = "TABLE" /\ x.offset = m + 1 /\ x.offset # 0 /\ t.tree = Append(s.tree, c)
  BY <1>1 DEF HasIndex
<1> HIDE DEF x, c
<1>6. s.next <= t.next
  BY <1>1, <1>2
<1>7. /\ IndexesIn(t, G) /\ n \notin Listed(s) /\ Listed(t) = Listed(s) \cup {n} /\ Len(s.tree) <= Len(t.tree)
      /\ \A p \in Listed(s) : /\ t.ilist[p] = s.ilist[p]
                              /\ s.ilist[p].offset # 0 => t.tree[s.ilist[p].offset] = s.tree[s.ilist[p].offset]
      /\ t.ilist[n] = x
      /\ x.offset # 0 => t.tree[x.offset] = c
  <2>1. Grown(s, t, x, c, G)
    BY <1>1, <1>2, <1>3, <1>4, <1>5, <1>6 DEF Grown
  <2> QED BY <2>1, EntryAppended
<1> QED BY <1>3, <1>5, <1>7 DEF c

\* db_index_create() changes no document.
LEMMA IndexMade ==
    ASSUME NEW s, NEW t, NEW g, NEW e, Good(s), Good(t), Sound(s), g \in GroupsOf(s), e # None,
           HasIndex(s, t, g, s.rec[g].data, e), s.rec[g].data.schema = "TABLE"
    PROVE  Sound(t) /\ Docs(t) = Docs(s)
<1> DEFINE i == s.next
           data == s.rec[g].data
<1>1. RecordsIn(s) /\ AliasMatch(s) /\ IndexesIn(s, GroupsOf(s)) /\ TreesIn(s) /\ KeysFit(s)
  BY DEF Sound, RecordsIn
<1>2. i \in Nat \ {0} /\ 0 \notin s.top /\ 0 \notin DOMAIN s.rec /\ i \notin s.top /\ i \notin DOMAIN s.rec
  BY <1>1 DEF Good, RecordsOK, KeysFit
<1>3. /\ t.next = i + 1 /\ t.top = s.top /\ t.stale = s.stale
      /\ DOMAIN t.rec = DOMAIN s.rec \cup {i} /\ (\A x \in DOMAIN s.rec : t.rec[x] = s.rec[x])
      /\ IsIndex(t.rec[i]) /\ t.rec[i].life = "finite"
      /\ AliasOnce(t) /\ AliasKeys(t) = AliasKeys(s) \cup {i}
  BY <1>2 DEF HasIndex
<1>4. Step(s, t, 0, {})
  <2>1. i <= t.next /\ i \in i .. t.next - 1
    BY <1>2, <1>3
  <2> QED BY <1>2, <1>3, <2>1 DEF Step
<1>5. RecordsIn(t)
  <2>1. \A j \in DOMAIN t.rec : j = 0 \/ j \notin DOMAIN s.rec => j = i
    BY <1>2, <1>3
  <2>2. RoleOK(t, i)
    BY <1>2, <1>3 DEF RoleOK
  <2>3. RowKeys(t.rec[i]) = {} /\ t.rec[i].type # "GROUP" /\ t.rec[i].data = None
    BY <1>3 DEF IsIndex, RowKeys
  <2>4. RowsOK(t, i)
    BY <2>3 DEF RowsOK, Rows
  <2> QED BY <1>1, <1>4, <2>1, <2>2, <2>4, StepRecords
<1>6. KeysFit(t)
  BY <1>5 DEF RecordsIn
<1>7. AliasMatch(t)
  <2>1. \A j \in AliasKeys(s) : j \in DOMAIN s.rec
    BY <1>1 DEF AliasMatch, Live
  <2>2. \A j \in AliasKeys(t) : j = 0 \/ j \notin DOMAIN s.rec => Live(t, j) /\ t.rec[j].alias
    BY <1>2, <1>3, <2>1 DEF Live, IsIndex
  <2>3. \A j \in AliasKeys(t) : j = 0 \/ j \notin DOMAIN s.rec \/ j \in AliasKeys(s)
    BY <1>2, <1>3
  <2>4. \A j \in s.top \ {0} : j \in AliasKeys(s) => j \in AliasKeys(t)
    BY <1>3
  <2>5. \A j \in t.top : j = 0 \/ j \notin DOMAIN s.rec => (Live(t, j) /\ t.rec[j].alias => j \in AliasKeys(t))
    BY <1>2, <1>3 DEF Live
  <2> QED BY <1>1, <1>3, <1>4, <2>2, <2>3, <2>4, <2>5, StepAliases
<1>8. g \in s.top /\ Live(s, g) /\ g \in DOMAIN s.rec /\ g # 0 /\ s.rec[g].type = "GROUP" /\ data # None
  <2>1. g \in s.top /\ Live(s, g) /\ g \in DOMAIN s.rec /\ s.rec[g].type = "GROUP"
    BY DEF GroupsOf, Live
  <2> QED BY <1>1, <2>1, TopFacts
<1>9. GroupsOf(s) \subseteq GroupsOf(t) /\ Live(t, g) /\ t.rec[g] = s.rec[g]
  BY <1>3, <1>8 DEF GroupsOf, Live
<1> DEFINE n == Len(s.ilist) + 1
<1>10. /\ IndexesIn(t, GroupsOf(s)) /\ Listed(t) = Listed(s) \cup {n} /\ Len(s.tree) <= Len(t.tree)
       /\ \A p \in Listed(s) : /\ t.ilist[p] = s.ilist[p]
                               /\ s.ilist[p].offset # 0 => t.tree[s.ilist[p].offset] = s.tree[s.ilist[p].offset]
       /\ t.ilist[n].group = g /\ t.ilist[n].el = e
       /\ t.tree[t.ilist[n].offset] = Contents(s, data, e)
  BY <1>1, <1>8, HasIndexIs
<1> HIDE DEF n
<1>11. IndexesIn(t, GroupsOf(t))
  BY <1>9, <1>10 DEF IndexesIn, EntryOK
<1>12. ASSUME NEW p \in Listed(s) PROVE TreeOK(t, t.ilist[p])
  <2> DEFINE x == s.ilist[p]
  <2>1. EntryOK(s, x, GroupsOf(s)) /\ TreeOK(s, x)
    BY <1>1 DEF IndexesIn, TreesIn
  <2>2. Len(s.tree) \in Nat /\ Len(t.tree) \in Nat
    BY <1>1, <1>10, SeqPlaces DEF IndexesIn
  <2>3. x.offset = 0 \/ (t.tree[x.offset] = s.tree[x.offset] /\ (x.offset \in s.stale => x.offset \in t.stale))
    BY <1>3, <1>10
  <2>4. t.ilist[p] = x
    BY <1>10
  <2> HIDE DEF x
  <2>5. TreeOK(t, x)
    BY <1>1, <1>4, <1>6, <1>10, <2>1, <2>2, <2>3, EntryKept
  <2> QED BY <2>4, <2>5
<1>13. TreeOK(t, t.ilist[n])
  <2>1. Contents(t, data, e) = Contents(s, data, e)
    BY <1>1, <1>4, <1>6, <1>8, StepReads
  <2> HIDE DEF data
  <2>2. t.tree[t.ilist[n].offset] = Contents(t, data, e) /\ t.ilist[n].group = g /\ t.ilist[n].el = e
    BY <1>10, <2>1
  <2>3. t.rec[g].data = data /\ data.schema = "TABLE"
    BY <1>9 DEF data
  <2> QED BY <2>2, <2>3 DEF TreeOK
<1>14. TreesIn(t)
  BY <1>10, <1>12, <1>13 DEF TreesIn
<1>15. Docs(t) = Docs(s)
  <2>1. DocsWithout(s, t, 0)
    BY <1>1, <1>2, <1>3, <1>4, <1>6, StepWithout
  <2>2. 0 \notin DOMAIN Docs(s)
    BY <1>2 DEF Docs
  <2>3. Docs(s) = [j \in DOMAIN Docs(s) |-> Docs(s)[j]]
    BY DEF Docs
  <2> QED BY <2>1, <2>2, <2>3 DEF DocsWithout
<1> QED BY <1>5, <1>7, <1>11, <1>14, <1>15 DEF Sound

LEMMA DeadSame ==
    ASSUME NEW s, NEW x, Good(s), Sound(s)
    PROVE  Sound([s EXCEPT !.dead = x]) /\ Docs([s EXCEPT !.dead = x]) = Docs(s)
<1> DEFINE t == [s EXCEPT !.dead = x]
<1>1. SameRecords(s, t) /\ SameIndexes(s, t) /\ t.alias = s.alias
  BY GoodIsBase DEF IsBase, SameRecords, SameIndexes
<1> HIDE DEF t
<1>2. AliasKeys(t) = AliasKeys(s) /\ (AliasOnce(s) => AliasOnce(t))
  BY <1>1 DEF AliasKeys, AliasOnce, AliasAll
<1>3. Sound(t) /\ Docs(t) = Docs(s)
  BY <1>1, <1>2, SoundSame
<1> QED BY <1>3 DEF t

LEMMA DbIndexCreateIs ==
    ASSUME NEW s, NEW g, NEW e, Good(s), Sound(s), g \in GroupsOf(s), e # None
    PROVE  LET v == DbIndexCreate(s, g, e) IN Sound(v) /\ Docs(v) = Docs(s)
<1> DEFINE data == s.rec[g].data
           t == AddIndex(s, g, data, e)
           v == DbIndexCreate(s, g, e)
<1>1. v \in {s, [s EXCEPT !.dead = Build(s, data, e).dead]} \/ (v = t /\ data.schema = "TABLE")
  BY DEF DbIndexCreate
<1>2. ASSUME data.schema = "TABLE" PROVE Sound(t) /\ Docs(t) = Docs(s)
  <2>1. AliasOnce(s) /\ s.next \notin AliasKeys(s) /\ IsSeq(s.tree)
    BY DEF Sound, AliasMatch, IndexesIn, RecordsIn, KeysFit, Live, Good, RecordsOK
  <2>2. HasIndex(s, t, g, data, e) /\ Good(t)
    BY <2>1, AddIndexIs
  <2> HIDE DEF t
  <2> QED BY <1>2, <2>2, IndexMade
<1>3. \A x : Sound([s EXCEPT !.dead = x]) /\ Docs([s EXCEPT !.dead = x]) = Docs(s)
  BY DeadSame
<1> HIDE DEF v, t
<1>4. Sound(v) /\ Docs(v) = Docs(s)
  BY <1>1, <1>2, <1>3
<1> QED BY <1>4 DEF v

\* The entry of an index with another tree, which has the values of the rows.
Rebuilt(s, v, p) ==
    /\ p \in Listed(s) /\ SameRecords(s, v) /\ SameAliases(s, v)
    /\ Listed(v) = Listed(s) /\ (\A q \in Listed(s) \ {p} : v.ilist[q] = s.ilist[q])
    /\ IsSeq(v.tree) /\ Len(s.tree) \in Nat /\ Len(s.tree) <= Len(v.tree) /\ Len(v.tree) \in Nat
    /\ LET x == s.ilist[p]
           y == v.ilist[p]
       IN  /\ y.index = x.index /\ y.group = x.group /\ y.el = x.el
           /\ x.group \in GroupsOf(s) /\ s.rec[x.group].data.schema = "TABLE"
           /\ y.offset \in 1 .. Len(v.tree)
           /\ v.tree[y.offset] = Contents(s, s.rec[x.group].data, x.el)
           /\ \A q \in Listed(s) \ {p} : s.ilist[q].offset # 0 =>
                  LET o == s.ilist[q].offset
                  IN  o # y.offset /\ v.tree[o] = s.tree[o] /\ (o \in s.stale => o \in v.stale)

LEMMA IndexRebuilt ==
    ASSUME NEW s, NEW v, NEW p, Good(s), Sound(s), Rebuilt(s, v, p)
    PROVE  Sound(v) /\ Docs(v) = Docs(s)
<1> SUFFICES ASSUME p \in Listed(s), SameRecords(s, v), SameAliases(s, v), Listed(v) = Listed(s),
                    \A q \in Listed(s) \ {p} : v.ilist[q] = s.ilist[q],
                    IsSeq(v.tree), Len(s.tree) \in Nat, Len(s.tree) <= Len(v.tree), Len(v.tree) \in Nat,
                    LET x == s.ilist[p]
                        y == v.ilist[p]
                    IN  /\ y.index = x.index /\ y.group = x.group /\ y.el = x.el
                        /\ x.group \in GroupsOf(s) /\ s.rec[x.group].data.schema = "TABLE"
                        /\ y.offset \in 1 .. Len(v.tree)
                        /\ v.tree[y.offset] = Contents(s, s.rec[x.group].data, x.el)
                        /\ \A q \in Listed(s) \ {p} : s.ilist[q].offset # 0 =>
                               LET o == s.ilist[q].offset
                               IN  o # y.offset /\ v.tree[o] = s.tree[o] /\ (o \in s.stale => o \in v.stale)
             PROVE  Sound(v) /\ Docs(v) = Docs(s)
  BY SMTT(30) DEF Rebuilt
<1> DEFINE x == s.ilist[p]
           y == v.ilist[p]
<1>1. /\ y.index = x.index /\ y.group = x.group /\ y.el = x.el
      /\ x.group \in GroupsOf(s) /\ s.rec[x.group].data.schema = "TABLE"
      /\ y.offset \in 1 .. Len(v.tree)
      /\ v.tree[y.offset] = Contents(s, s.rec[x.group].data, x.el)
      /\ \A q \in Listed(s) \ {p} : s.ilist[q].offset # 0 =>
             /\ s.ilist[q].offset # y.offset /\ v.tree[s.ilist[q].offset] = s.tree[s.ilist[q].offset]
             /\ s.ilist[q].offset \in s.stale => s.ilist[q].offset \in v.stale
  OBVIOUS
<1>2. v.rec = s.rec /\ v.next = s.next /\ v.top = s.top /\ v.alias = s.alias
  BY DEF SameRecords, SameAliases
<1>3. \A k : Live(v, k) <=> Live(s, k)
  BY <1>2 DEF Live
<1>4. \A d, e : Contents(v, d, e) = Contents(s, d, e)
  <2> SUFFICES ASSUME NEW d, NEW e PROVE Contents(v, d, e) = Contents(s, d, e)
    OBVIOUS
  <2> QED BY ONLY <1>2, <1>3, RowsAlike
<1>5. GroupsOf(v) = GroupsOf(s)
  BY <1>2, <1>3 DEF GroupsOf
<1>6. /\ IndexesIn(s, GroupsOf(s)) /\ TreesIn(s) /\ Apart(s)
      /\ \A q \in Listed(s) : EntryOK(s, s.ilist[q], GroupsOf(s)) /\ TreeOK(s, s.ilist[q])
  BY DEF Sound, IndexesIn, TreesIn
<1>7. 0 \notin GroupsOf(s)
  BY DEF Sound, RecordsIn, KeysFit, GroupsOf
<1>8. EntryOK(v, y, GroupsOf(v)) /\ TreeOK(v, y)
  <2>1. y.offset \in 0 .. Len(v.tree)
    BY <1>1
  <2>2. EntryOK(s, x, GroupsOf(s))
    BY <1>6, SMTT(30)
  <2>3. EntryOK(v, y, GroupsOf(v))
    BY <1>1, <1>2, <1>5, <1>7, <2>1, <2>2, SMTT(30) DEF EntryOK
  <2>4. TreeOK(v, y)
    BY <1>1, <1>2, <1>4 DEF TreeOK
  <2> QED BY <2>3, <2>4, SMTT(30)
<1> HIDE DEF x, y
<1>9. ASSUME NEW q \in Listed(s) \ {p} PROVE EntryOK(v, v.ilist[q], GroupsOf(v)) /\ TreeOK(v, v.ilist[q])
  <2> DEFINE z == s.ilist[q]
  <2>1. z = v.ilist[q] /\ EntryOK(s, z, GroupsOf(s)) /\ TreeOK(s, z)
    BY <1>6, SMTT(30)
  <2>2. z.offset # 0 => v.tree[z.offset] = s.tree[z.offset] /\ (z.offset \in s.stale => z.offset \in v.stale)
    BY <1>1
  <2> HIDE DEF z
  <2>3. z.offset \in 0 .. Len(v.tree)
    BY <2>1 DEF EntryOK
  <2>4. EntryOK(v, z, GroupsOf(v))
    BY <1>2, <1>5, <2>1, <2>3, SMTT(30) DEF EntryOK
  <2>5. TreeOK(v, z)
    BY <1>2, <1>4, <2>1, <2>2 DEF TreeOK
  <2> QED BY <2>1, <2>4, <2>5
<1>10. \A q \in Listed(v) : EntryOK(v, v.ilist[q], GroupsOf(v)) /\ TreeOK(v, v.ilist[q])
  BY <1>8, <1>9, SMTT(30) DEF y
<1>11. \A q \in Listed(s) : v.ilist[q].index = s.ilist[q].index
  BY <1>1 DEF x, y
<1>12. Apart(v)
  <2> SUFFICES ASSUME NEW q \in Listed(s), NEW l \in Listed(s), q # l
               PROVE  /\ v.ilist[q].index = v.ilist[l].index => v.ilist[q].index = 0
                      /\ v.ilist[q].offset = v.ilist[l].offset => v.ilist[q].offset = 0
    BY DEF Apart
  <2>1. v.ilist[q].index = v.ilist[l].index => v.ilist[q].index = 0
    BY <1>6, <1>11 DEF Apart
  <2>2. CASE q # p /\ l # p
    BY <1>6, <2>1, <2>2 DEF Apart
  <2>3. CASE q = p
    <3>1. v.ilist[l] = s.ilist[l] /\ l \in Listed(s) \ {p} /\ v.ilist[q].offset = y.offset
      BY <2>3, SMTT(30) DEF y
    <3>2. v.ilist[q].offset # v.ilist[l].offset
      BY <1>1, <3>1
    <3> QED BY <2>1, <3>2
  <2>4. CASE l = p
    <3>1. v.ilist[q] = s.ilist[q] /\ q \in Listed(s) \ {p} /\ v.ilist[l].offset = y.offset
      BY <2>4, SMTT(30) DEF y
    <3>2. v.ilist[q].offset # v.ilist[l].offset
      BY <1>1, <3>1
    <3> QED BY <2>1, <3>2
  <2> QED BY <2>2, <2>3, <2>4
<1>13. IndexesIn(v, GroupsOf(v)) /\ TreesIn(v)
  BY <1>10, <1>12, SMTT(30) DEF IndexesIn, TreesIn
<1>14. RecordsIn(v)
  BY <1>2, <1>3 DEF Sound, RecordsIn, KeysFit, RoleOK, RowsOK, Rows
<1>15. AliasMatch(v)
  BY <1>2, <1>3 DEF Sound, AliasMatch, AliasKeys, AliasOnce, AliasAll
<1>16. \A d : Expand(v, d) = Expand(s, d)
  <2> SUFFICES ASSUME NEW d PROVE Expand(v, d) = Expand(s, d)
    OBVIOUS
  <2>1. \A r : ItemOf(v, r) = ItemOf(s, r)
    BY <1>2, <1>3 DEF ItemOf
  <2>2. \A u : Expand(u, d) = [kind |-> KindOf(d), el |-> d.el, val |-> d.val, items |-> [i \in DOMAIN d.rows |-> ItemOf(u, d.rows[i])]]
    BY ExpandIs
  <2> QED BY <2>1, <2>2
<1>17. Docs(v) = Docs(s)
  BY <1>2, <1>3, <1>16 DEF Docs
<1> QED BY <1>13, <1>14, <1>15, <1>17, SMTT(30) DEF Sound

\* index_list_update_offset() changes one entry.
LEMMA UpdateOffsetIs ==
    ASSUME NEW s, NEW i, NEW o, Good(s), EntryOf(s, i) # 0
    PROVE  LET t == UpdateOffset(s, i, o)
               p == EntryOf(s, i)
           IN  /\ SameRecords(s, t) /\ SameAliases(s, t) /\ t.tree = s.tree /\ t.stale = s.stale /\ t.err = s.err
               /\ Listed(t) = Listed(s) /\ (\A q \in Listed(s) \ {p} : t.ilist[q] = s.ilist[q])
               /\ t.ilist[p].index = s.ilist[p].index /\ t.ilist[p].group = s.ilist[p].group
               /\ t.ilist[p].el = s.ilist[p].el /\ t.ilist[p].offset = o
<1> DEFINE p == EntryOf(s, i)
           x == [s.ilist[p] EXCEPT !.offset = o]
           t == [s EXCEPT !.ilist[p] = x]
<1>1. UpdateOffset(s, i, o) = t
  BY DEF UpdateOffset
<1>2. p \in DOMAIN s.ilist /\ IsEntry(s.ilist[p]) /\ p \in Listed(s)
  <2>1. p \in Listed(s)
    BY EntryIs
  <2> HIDE DEF p
  <2> QED BY <2>1 DEF Listed, Good, IndexesOK
<1> HIDE DEF p
<1>3. x.index = s.ilist[p].index /\ x.group = s.ilist[p].group /\ x.el = s.ilist[p].el /\ x.offset = o
  BY <1>2 DEF IsEntry
<1> HIDE DEF x
<1>4. /\ t.rec = s.rec /\ t.next = s.next /\ t.top = s.top /\ t.alias = s.alias /\ t.tree = s.tree /\ t.stale = s.stale
      /\ t.err = s.err /\ t.ilist = [s.ilist EXCEPT ![p] = x]
  BY GoodIsBase DEF IsBase
<1> HIDE DEF t
<1>5. DOMAIN t.ilist = DOMAIN s.ilist /\ t.ilist[p] = x /\ \A q \in DOMAIN s.ilist \ {p} : t.ilist[q] = s.ilist[q]
  BY <1>2, <1>4
<1>6. Listed(t) = Listed(s)
  BY <1>2, <1>3, <1>5 DEF Listed
<1>7. \A q \in Listed(s) \ {p} : t.ilist[q] = s.ilist[q]
  BY <1>5 DEF Listed
<1> QED BY <1>1, <1>3, <1>4, <1>5, <1>6, <1>7 DEF SameRecords, SameAliases, p

LEMMA DbIndexRebuildIs ==
    ASSUME NEW s, NEW i, Good(s), ~s.err, Sound(s), EntryOf(s, i) # 0
    PROVE  LET v == DbIndexRebuild(s, i) IN Sound(v) /\ Docs(v) = Docs(s)
<1> DEFINE p == EntryOf(s, i)
           x == s.ilist[p]
           e == x.el
           g == Get(s, x.group, FALSE)
           t == Build(s, g.data, e)
           old == x.offset
           c == Contents(s, g.data, e)
           a == UpdateOffset(t, i, Len(t.tree))
           b == [s EXCEPT !.tree[old] = c, !.stale = @ \ {old}, !.dead = t.dead]
           v == DbIndexRebuild(s, i)
           full == g.data # None /\ g.data.schema = "TABLE"
<1>1. v \in {s, [s EXCEPT !.dead = t.dead]} \/ (full /\ v = IF old = 0 THEN a ELSE b)
  BY DEF DbIndexRebuild
<1>2. p \in Listed(s) /\ p # 0
  BY EntryIs
<1>3. IndexesIn(s, GroupsOf(s)) /\ IsSeq(s.tree) /\ Apart(s) /\ EntryOK(s, x, GroupsOf(s)) /\ RecordsIn(s)
  BY <1>2 DEF Sound, IndexesIn
<1>4. Len(s.tree) \in Nat /\ DOMAIN s.tree = 1 .. Len(s.tree)
  BY <1>3, SeqPlaces
<1>5. ASSUME full
      PROVE  x.group \in GroupsOf(s) /\ g.data = s.rec[x.group].data /\ s.rec[x.group].data.schema = "TABLE"
  <2>1. CASE x.group = 0
    <3>1. 0 \notin DOMAIN s.rec
      BY <1>3 DEF RecordsIn, KeysFit
    <3> DEFINE h == x.group
    <3>2. Get(s, h, FALSE).data = None /\ h = 0
      <4> HIDE DEF x
      <4>1. ~Live(s, h)
        BY <2>1, <3>1 DEF Live
      <4> HIDE DEF h
      <4> QED BY <2>1, <4>1 DEF Get, h
    <3> QED BY <1>5, <3>2
  <2>2. CASE x.group # 0
    <3>1. x.group \in GroupsOf(s)
      BY <1>3, <2>2 DEF EntryOK
    <3>2. Live(s, x.group)
      BY <3>1 DEF GroupsOf
    <3> DEFINE h == x.group
    <3> HIDE DEF h
    <3>3. Get(s, h, FALSE).data = s.rec[h].data
      <4>1. Live(s, h)
        BY <3>2 DEF h
      <4> QED BY <4>1 DEF Get
    <3>4. g.data = s.rec[x.group].data
      BY <3>3 DEF h
    <3> QED BY <1>5, <3>1, <3>4
  <2> QED BY <2>1, <2>2
<1>6. ASSUME full, old = 0 PROVE Sound(a) /\ Docs(a) = Docs(s)
  <2> DEFINE data == g.data
             m == Len(s.tree)
  <2>1. /\ SameRecords(s, t) /\ SameAliases(s, t) /\ t.ilist = s.ilist /\ t.stale = s.stale
        /\ t.tree = Append(s.tree, c) /\ Good(t)
    <3> DEFINE f == e
    <3> HIDE DEF data, f
    <3>1. t = Build(s, data, f) /\ c = Contents(s, data, f) /\ data.schema = "TABLE"
      BY <1>6 DEF data, f
    <3> HIDE DEF t, c
    <3>2. LET tt == Build(s, data, f)
          IN  /\ SameRecords(s, tt) /\ SameAliases(s, tt) /\ tt.ilist = s.ilist /\ tt.stale = s.stale
              /\ data.schema = "TABLE" => tt.tree = Append(s.tree, Contents(s, data, f)) /\ tt.err = s.err
              /\ data.schema # "TABLE" => tt.tree = s.tree /\ tt.err = TRUE
      BY BuildIs
    <3>3. Good(Build(s, data, f))
      BY BuildGood
    <3> QED BY <3>1, <3>2, <3>3
  <2> HIDE DEF t, c
  <2>2. /\ IsSeq(t.tree) /\ Len(t.tree) = m + 1 /\ t.tree[m + 1] = c /\ \A o \in 1 .. m : t.tree[o] = s.tree[o]
    <3>1. /\ IsSeq(t.tree) /\ t.tree[m + 1] = c /\ \A o \in DOMAIN s.tree : t.tree[o] = s.tree[o]
      BY <1>3, <2>1, SeqAppend
    <3>2. Len(t.tree) = m + 1
      BY <1>3, <2>1 DEF IsSeq
    <3> QED BY <1>4, <3>1, <3>2
  <2>3. EntryOf(t, i) = p /\ Listed(t) = Listed(s)
    BY <2>1 DEF EntryOf, Listed
  <2> HIDE DEF m
  <2>4. m \in Nat
    BY <1>4 DEF m
  <2> DEFINE o == Len(t.tree)
  <2>5. /\ SameRecords(t, a) /\ SameAliases(t, a) /\ a.tree = t.tree /\ a.stale = t.stale
        /\ Listed(a) = Listed(t) /\ (\A q \in Listed(t) \ {p} : a.ilist[q] = t.ilist[q])
        /\ a.ilist[p].index = t.ilist[p].index /\ a.ilist[p].group = t.ilist[p].group
        /\ a.ilist[p].el = t.ilist[p].el /\ a.ilist[p].offset = o
    <3>1. EntryOf(t, i) # 0
      BY <1>2, <2>3
    <3> HIDE DEF o, p
    <3>2. a = UpdateOffset(t, i, o)
      BY DEF o
    <3> HIDE DEF a
    <3> QED BY <2>1, <2>3, <3>1, <3>2, UpdateOffsetIs
  <2> HIDE DEF a, p, x, g
  <2>6. /\ SameRecords(s, a) /\ SameAliases(s, a) /\ a.tree = t.tree /\ a.stale = s.stale
        /\ Listed(a) = Listed(s) /\ (\A q \in Listed(s) \ {p} : a.ilist[q] = s.ilist[q])
        /\ a.ilist[p].index = x.index /\ a.ilist[p].group = x.group
        /\ a.ilist[p].el = x.el /\ a.ilist[p].offset = m + 1
    BY <2>1, <2>2, <2>3, <2>5 DEF SameRecords, SameAliases, x
  <2>7. \A q \in Listed(s) \ {p} : s.ilist[q].offset # 0 =>
             LET l == s.ilist[q].offset IN l # m + 1 /\ a.tree[l] = s.tree[l] /\ (l \in s.stale => l \in a.stale)
    <3> SUFFICES ASSUME NEW q \in Listed(s) \ {p}, s.ilist[q].offset # 0
                 PROVE  LET l == s.ilist[q].offset IN l # m + 1 /\ a.tree[l] = s.tree[l] /\ (l \in s.stale => l \in a.stale)
      OBVIOUS
    <3>1. s.ilist[q].offset \in 0 .. m
      BY <1>3 DEF IndexesIn, EntryOK, m
    <3>2. s.ilist[q].offset \in 1 .. m /\ s.ilist[q].offset # m + 1
      BY <2>4, <3>1
    <3> QED BY <2>2, <2>6, <3>2
  <2>8. /\ x.group \in GroupsOf(s) /\ s.rec[x.group].data.schema = "TABLE"
        /\ c = Contents(s, s.rec[x.group].data, x.el)
    BY <1>5, <1>6 DEF c
  <2>9. IsSeq(a.tree) /\ Len(a.tree) = m + 1 /\ a.tree[m + 1] = c /\ m + 1 \in 1 .. m + 1 /\ m <= m + 1 /\ m + 1 \in Nat
    BY <2>2, <2>4, <2>6, SMTT(30)
  <2>10. Rebuilt(s, a, p)
    BY <1>2, <2>4, <2>6, <2>7, <2>8, <2>9 DEF Rebuilt, m, x
  <2> QED BY <2>10, IndexRebuilt
<1>7. ASSUME full, old # 0 PROVE Sound(b) /\ Docs(b) = Docs(s)
  <2>1. old \in DOMAIN s.tree
    BY <1>3, <1>4, <1>7 DEF EntryOK
  <2> HIDE DEF c, t
  <2>2. /\ b.rec = s.rec /\ b.next = s.next /\ b.top = s.top /\ b.alias = s.alias /\ b.ilist = s.ilist
        /\ b.tree = [s.tree EXCEPT ![old] = c] /\ b.stale = s.stale \ {old}
    <3> HIDE DEF old
    <3> QED BY GoodIsBase DEF IsBase
  <2> HIDE DEF b, old
  <2>3. /\ IsSeq(b.tree) /\ DOMAIN b.tree = DOMAIN s.tree /\ b.tree[old] = c
        /\ \A o \in DOMAIN s.tree \ {old} : b.tree[o] = s.tree[o]
    BY <1>3, <2>1, <2>2, SeqExcept
  <2>4. Len(b.tree) = Len(s.tree)
    <3>1. DOMAIN b.tree = 1 .. Len(b.tree) /\ Len(b.tree) \in Nat
      BY <2>3, SeqPlaces
    <3> QED BY <1>4, <2>3, <3>1
  <2> HIDE DEF p, g
  <2>5. \A q \in Listed(s) \ {p} : s.ilist[q].offset # 0 =>
             LET l == s.ilist[q].offset IN l # old /\ b.tree[l] = s.tree[l] /\ (l \in s.stale => l \in b.stale)
    <3> SUFFICES ASSUME NEW q \in Listed(s) \ {p}, s.ilist[q].offset # 0
                 PROVE  LET l == s.ilist[q].offset IN l # old /\ b.tree[l] = s.tree[l] /\ (l \in s.stale => l \in b.stale)
      OBVIOUS
    <3>1. s.ilist[q].offset # old
      BY <1>2, <1>3, <1>7 DEF Apart, old
    <3>2. s.ilist[q].offset \in DOMAIN s.tree
      BY <1>3, <1>4 DEF IndexesIn, EntryOK
    <3> QED BY <2>2, <2>3, <3>1, <3>2
  <2>6. /\ x.group \in GroupsOf(s) /\ s.rec[x.group].data.schema = "TABLE"
        /\ c = Contents(s, s.rec[x.group].data, x.el)
    BY <1>5, <1>7 DEF c
  <2>7. SameRecords(s, b) /\ SameAliases(s, b) /\ Listed(b) = Listed(s)
    BY <2>2 DEF SameRecords, SameAliases, Listed
  <2>8. b.ilist[p] = x /\ x.offset = old /\ old \in 1 .. Len(b.tree)
    BY <1>4, <2>1, <2>2, <2>4 DEF old
  <2>9. Rebuilt(s, b, p)
    <3> HIDE DEF x
    <3>1. IsSeq(b.tree) /\ Len(s.tree) \in Nat /\ Len(s.tree) <= Len(b.tree) /\ Len(b.tree) \in Nat
      BY <1>4, <2>3, <2>4
    <3>2. \A q \in Listed(s) \ {p} : b.ilist[q] = s.ilist[q]
      BY <2>2
    <3>3. s.ilist[p] = x /\ b.ilist[p].offset = old /\ b.tree[old] = c
      BY <2>3, <2>8 DEF x
    <3> QED BY <1>2, <2>5, <2>6, <2>7, <2>8, <3>1, <3>2, <3>3 DEF Rebuilt
  <2> QED BY <2>9, IndexRebuilt
<1>8. \A y : Sound([s EXCEPT !.dead = y]) /\ Docs([s EXCEPT !.dead = y]) = Docs(s)
  BY DeadSame
<1> HIDE DEF v, a, b, t, full
<1>9. Sound(v) /\ Docs(v) = Docs(s)
  BY <1>1, <1>6, <1>7, <1>8
<1> QED BY <1>9, SMTT(30) DEF v

-----------------------------------------------------------------------------
(* zvacuum() *)

LEMMA AliasRebuildIs ==
    ASSUME NEW s, NEW t, Good(s), AliasOnce(s), Good(t), t.alias = <<>>
    PROVE  LET u == AliasRebuild(s, t)
           IN  /\ Good(u) /\ SameRecords(t, u) /\ SameIndexes(t, u) /\ u.err = t.err
               /\ AliasOnce(u) /\ AliasKeys(u) = AliasKeys(s)
<1> DEFINE n == Len(s.alias)
           Upto(i) == {s.alias[p].quid : p \in {q \in AliasAll(s) : q <= i}}
           Fine(u, i) == /\ Good(u) /\ From(s, u) /\ SameRecords(t, u) /\ SameIndexes(t, u) /\ u.err = t.err
                         /\ AliasOnce(u) /\ AliasKeys(u) = Upto(i)
<1>1. n \in Nat /\ DOMAIN s.alias = 1 .. n
  BY SeqPlaces DEF Good, AliasesOK
<1>2. PICK f : /\ f[0] = t
               /\ \A i \in 1 .. n :
                      f[i] = IF s.alias[i].len THEN AliasAdd(f[i - 1], s.alias[i].quid, s.alias[i].name)
                             ELSE f[i - 1]
               /\ AliasRebuild(s, t) = f[n]
  BY AliasRebuildRun
<1> HIDE DEF n
<1> DEFINE I == {i \in 0 .. n : Fine(f[i], i)}
<1>3. 0 \in I
  <2>1. From(s, t) /\ AliasAll(t) = {}
    BY DEF From, AliasAll
  <2>2. AliasOnce(t) /\ AliasKeys(t) = {}
    BY <2>1 DEF AliasOnce, AliasKeys
  <2>3. Upto(0) = {}
    BY <1>1 DEF AliasAll
  <2> HIDE DEF Upto
  <2>4. SameRecords(t, t) /\ SameIndexes(t, t)
    BY DEF SameRecords, SameIndexes
  <2>5. Fine(t, 0)
    BY <2>1, <2>2, <2>3, <2>4
  <2> HIDE DEF Fine
  <2> QED BY <1>1, <1>2, <2>5
<1>4. ASSUME NEW i \in 1 .. n, i - 1 \in I PROVE i \in I
  <2> DEFINE u == f[i - 1]
             k == s.alias[i].quid
             name == s.alias[i].name
             w == AliasAdd(u, k, name)
  <2>1. Fine(u, i - 1)
    BY <1>4
  <2>2. CASE s.alias[i].len
    <3>1. i \in AliasAll(s)
      BY <1>1, <2>2 DEF AliasAll
    <3>2. f[i] = w
      BY <1>2, <2>2
    <3>3. Good(w) /\ From(s, w)
      BY <2>1, <3>1, AliasAgain
    <3>4. \A p \in AliasAll(s) : p \in 1 .. n
      BY <1>1 DEF AliasAll
    <3>5. k \notin Upto(i - 1)
      BY <1>1, <3>1, <3>4 DEF AliasOnce
    <3>6. Upto(i) = Upto(i - 1) \cup {k}
      <4>1. {q \in AliasAll(s) : q <= i} = {q \in AliasAll(s) : q <= i - 1} \cup {i}
        <5>1. \A q \in AliasAll(s) : q <= i <=> q <= i - 1 \/ q = i
          BY <1>1, <3>4
        <5> QED BY <1>1, <3>1, <5>1
      <4> QED BY <4>1
    <3> HIDE DEF Upto, k, name
    <3>7. /\ AliasOnce(w) /\ AliasKeys(w) = AliasKeys(u) \cup {k}
          /\ SameRecords(u, w) /\ SameIndexes(u, w) /\ w.err = u.err
      BY <2>1, <3>5, AliasAddIs
    <3> HIDE DEF u, w
    <3>8. SameRecords(t, w) /\ SameIndexes(t, w) /\ w.err = t.err
      BY <2>1, <3>7 DEF SameRecords, SameIndexes
    <3>9. Fine(w, i)
      BY <2>1, <3>3, <3>6, <3>7, <3>8
    <3> HIDE DEF Fine
    <3> QED BY <1>1, <3>2, <3>9
  <2>3. CASE ~s.alias[i].len
    <3>1. f[i] = u
      BY <1>2, <2>3
    <3>2. \A p \in AliasAll(s) : p \in 1 .. n /\ p # i
      BY <1>1, <2>3 DEF AliasAll
    <3>3. {q \in AliasAll(s) : q <= i} = {q \in AliasAll(s) : q <= i - 1}
      BY <1>1, <3>2
    <3>4. Upto(i) = Upto(i - 1)
      BY <3>3
    <3> HIDE DEF Upto, u
    <3>5. Fine(u, i)
      BY <2>1, <3>4
    <3> HIDE DEF Fine
    <3> QED BY <1>1, <3>1, <3>5
  <2> QED BY <2>2, <2>3
<1> HIDE DEF I
<1>5. n \in I
  BY <1>1, <1>3, <1>4, Turns
<1>6. Upto(n) = AliasKeys(s)
  <2>1. {q \in AliasAll(s) : q <= n} = AliasAll(s)
    BY <1>1 DEF AliasAll
  <2> QED BY <2>1 DEF AliasKeys
<1> HIDE DEF Upto
<1>7. Fine(f[n], n)
  BY <1>5 DEF I
<1> QED BY <1>2, <1>6, <1>7

\* One turn of index_list_rebuild(): nothing, or one more entry and its tree.
LEMMA IndexAgainIs ==
    ASSUME NEW u, NEW x, Good(u), IsSeq(u.tree)
    PROVE  LET w == IndexAgain(u, x)
               data == u.rec[x.group].data
               y == [index |-> x.index, group |-> x.group, el |-> x.el,
                     offset |-> IF data.schema = "TABLE" THEN Len(u.tree) + 1 ELSE 0]
           IN  \/ SameRecords(u, w) /\ SameAliases(u, w) /\ SameIndexes(u, w)
               \/ /\ SameRecords(u, w) /\ SameAliases(u, w) /\ w.stale = u.stale
                  /\ x.el # None /\ Live(u, x.group)
                  /\ w.ilist = Append(u.ilist, y)
                  /\ \/ data.schema = "TABLE" /\ w.tree = Append(u.tree, Contents(u, data, x.el))
                     \/ data.schema # "TABLE" /\ w.tree = u.tree
<1> DEFINE g == Get(u, x.group, FALSE)
           data == u.rec[x.group].data
           b == Build(u, g.data, x.el)
           o == OffsetOf(b, g.data)
           z == IndexListAdd(b, x.index, x.group, x.el, o)
           y == [index |-> x.index, group |-> x.group, el |-> x.el,
                 offset |-> IF data.schema = "TABLE" THEN Len(u.tree) + 1 ELSE 0]
           w == IndexAgain(u, x)
<1>1. \/ w \in {u, g.s}
      \/ w = z /\ x.el # None /\ g.meta.type = "GROUP" /\ g.data # None
  BY DEF IndexAgain
<1>2. g.s \in {u, Throw(u)} /\ (g.data # None => Live(u, x.group) /\ g.data = data)
  BY DEF Get, Live
<1>3. CASE w \in {u, g.s}
  <2>1. SameRecords(u, u) /\ SameAliases(u, u) /\ SameIndexes(u, u)
    BY DEF SameRecords, SameAliases, SameIndexes
  <2>2. SameRecords(u, Throw(u)) /\ SameAliases(u, Throw(u)) /\ SameIndexes(u, Throw(u))
    BY ThrowIs
  <2>3. w \in {u, Throw(u)}
    BY <1>2, <1>3
  <2> HIDE DEF w
  <2>4. SameRecords(u, w) /\ SameAliases(u, w) /\ SameIndexes(u, w)
    BY <2>1, <2>2, <2>3
  <2> QED BY <2>4 DEF w
<1>4. CASE w = z /\ x.el # None /\ g.meta.type = "GROUP" /\ g.data # None
  <2>1. g.data = data /\ Live(u, x.group)
    BY <1>2, <1>4
  <2> HIDE DEF g, data
  <2>2. /\ SameRecords(u, b) /\ SameAliases(u, b) /\ b.ilist = u.ilist /\ b.stale = u.stale /\ Good(b)
        /\ data.schema = "TABLE" => b.tree = Append(u.tree, Contents(u, data, x.el))
        /\ data.schema # "TABLE" => b.tree = u.tree
    <3> HIDE DEF b
    <3>1. b = Build(u, data, x.el)
      BY <2>1 DEF b
    <3>2. Good(Build(u, data, x.el))
      BY BuildGood
    <3>3. LET t == Build(u, data, x.el)
          IN  /\ SameRecords(u, t) /\ SameAliases(u, t) /\ t.ilist = u.ilist /\ t.stale = u.stale
              /\ data.schema = "TABLE" => t.tree = Append(u.tree, Contents(u, data, x.el)) /\ t.err = u.err
              /\ data.schema # "TABLE" => t.tree = u.tree /\ t.err = TRUE
      BY BuildIs
    <3> QED BY <3>1, <3>2, <3>3
  <2>3. o = IF data.schema = "TABLE" THEN Len(u.tree) + 1 ELSE 0
    <3>1. Len(Append(u.tree, Contents(u, data, x.el))) = Len(u.tree) + 1
      BY DEF IsSeq
    <3> QED BY <2>1, <2>2, <3>1 DEF OffsetOf
  <2> HIDE DEF b, o
  <2>4. IsBase(b)
    BY <2>2, GoodIsBase
  <2>5. /\ z.rec = b.rec /\ z.next = b.next /\ z.top = b.top /\ z.alias = b.alias /\ z.tree = b.tree /\ z.stale = b.stale
        /\ z.ilist = Append(b.ilist, [index |-> x.index, group |-> x.group, el |-> x.el, offset |-> o])
    BY <2>4 DEF IndexListAdd, IsBase
  <2> HIDE DEF z
  <2>6. z.ilist = Append(u.ilist, y)
    BY <2>2, <2>3, <2>5
  <2> HIDE DEF y
  <2>7. SameRecords(u, z) /\ SameAliases(u, z) /\ z.stale = u.stale
    BY <2>2, <2>5 DEF SameRecords, SameAliases
  <2>8. \/ data.schema = "TABLE" /\ z.tree = Append(u.tree, Contents(u, data, x.el))
        \/ data.schema # "TABLE" /\ z.tree = u.tree
    BY <2>2, <2>5
  <2> HIDE DEF w
  <2>9. w = z /\ x.el # None
    BY <1>4
  <2> QED BY <2>1, <2>6, <2>7, <2>8, <2>9 DEF w, y, data
<1> QED BY <1>1, <1>3, <1>4

\* The entries that the first i entries of s make.
Listing(s, c, u, i) ==
    /\ Good(u) /\ SameRecords(c, u) /\ SameAliases(c, u) /\ u.stale = {}
    /\ IndexesIn(u, GroupsOf(c)) /\ TreesIn(u)
    /\ \A p \in Listed(u) : \E j \in Listed(s) : j <= i /\ u.ilist[p].index = s.ilist[j].index

LEMMA ListingSame ==
    ASSUME NEW s, NEW c, NEW u, NEW w, NEW i, i \in 1 .. Len(s.ilist), Len(s.ilist) \in Nat, Good(s), Good(w),
           Listing(s, c, u, i - 1), SameRecords(u, w), SameAliases(u, w), SameIndexes(u, w)
    PROVE  Listing(s, c, w, i)
<1>1. SameRecords(c, w) /\ SameAliases(c, w) /\ w.stale = {}
  BY DEF Listing, SameRecords, SameAliases, SameIndexes
<1>2. w.rec = u.rec /\ w.next = u.next /\ w.top = u.top /\ w.ilist = u.ilist /\ w.tree = u.tree /\ w.stale = u.stale
  BY DEF SameRecords, SameIndexes
<1>3. Listed(w) = Listed(u)
  BY <1>2 DEF Listed
<1>4. IndexesIn(w, GroupsOf(c))
  BY <1>2, <1>3 DEF Listing, IndexesIn, Apart, EntryOK
<1>5. \A data, e : Contents(w, data, e) = Contents(u, data, e)
  BY <1>2 DEF Contents, Indexed, Live
<1>6. TreesIn(w)
  BY <1>2, <1>3, <1>5 DEF Listing, TreesIn, TreeOK
<1>7. ASSUME NEW p \in Listed(w) PROVE \E j \in Listed(s) : j <= i /\ w.ilist[p].index = s.ilist[j].index
  <2>1. PICK j \in Listed(s) : j <= i - 1 /\ u.ilist[p].index = s.ilist[j].index
    BY <1>3 DEF Listing
  <2>2. j \in Nat
    BY SeqPlaces DEF Listed, Good, IndexesOK
  <2>3. j <= i
    BY <2>1, <2>2, SMTT(30)
  <2> QED BY <1>2, <2>1, <2>3
<1> QED BY <1>1, <1>4, <1>6, <1>7 DEF Listing

LEMMA ListingMore ==
    ASSUME NEW s, NEW c, NEW u, NEW i, i \in 1 .. Len(s.ilist), Len(s.ilist) \in Nat, Good(s), Good(c),
           Listing(s, c, u, i - 1), IndexesIn(s, GroupsOf(c)), c.top = s.top, c.next = s.next, 0 \notin DOMAIN c.rec
    PROVE  Listing(s, c, IndexAgain(u, s.ilist[i]), i)
<1> DEFINE x == s.ilist[i]
           w == IndexAgain(u, x)
           G == GroupsOf(c)
           data == u.rec[x.group].data
           y == [index |-> x.index, group |-> x.group, el |-> x.el,
                 offset |-> IF data.schema = "TABLE" THEN Len(u.tree) + 1 ELSE 0]
<1>1. Good(u) /\ SameRecords(c, u) /\ SameAliases(c, u) /\ IndexesIn(u, G) /\ TreesIn(u) /\ u.stale = {} /\ IsSeq(u.tree)
  BY DEF Listing, IndexesIn
<1>2. Good(w)
  BY <1>1, IndexAgainGood
<1>3. CASE SameRecords(u, w) /\ SameAliases(u, w) /\ SameIndexes(u, w)
  <2> HIDE DEF w
  <2>1. Listing(s, c, w, i)
    BY <1>2, <1>3, ListingSame, SMTT(30)
  <2> QED BY <2>1 DEF w
<1>4. CASE /\ SameRecords(u, w) /\ SameAliases(u, w) /\ w.stale = u.stale
           /\ x.el # None /\ Live(u, x.group)
           /\ w.ilist = Append(u.ilist, y)
           /\ \/ data.schema = "TABLE" /\ w.tree = Append(u.tree, Contents(u, data, x.el))
              \/ data.schema # "TABLE" /\ w.tree = u.tree
  <2>1. i \in Listed(s) /\ DOMAIN s.ilist = 1 .. Len(s.ilist)
    BY <1>4, SeqPlaces DEF Listed, Good, IndexesOK
  <2>2. EntryOK(s, x, G) /\ Apart(s)
    BY <2>1 DEF IndexesIn
  <2>3. u.rec = c.rec /\ u.next = s.next /\ u.top = s.top
    BY <1>1 DEF SameRecords
  <2> HIDE DEF w, x
  <2>4. x.group \in G \ {0}
    <3>1. x.group \in DOMAIN c.rec
      BY <1>4, <2>3 DEF Live
    <3> QED BY <2>2, <3>1 DEF EntryOK
  <2>5. x.index \in 1 .. s.next - 1 /\ x.index \notin s.top
    <3>1. x.index # 0 /\ x.index \in 0 .. s.next - 1 /\ s.next \in Nat
      BY <2>2, <2>4 DEF EntryOK, Good, RecordsOK
    <3> QED BY <2>2, <3>1 DEF EntryOK
  <2>6. ASSUME NEW p \in Listed(u) PROVE u.ilist[p].index # x.index
    <3>1. PICK j \in Listed(s) : j <= i - 1 /\ u.ilist[p].index = s.ilist[j].index
      BY DEF Listing
    <3>2. j # i /\ i # 0
      <4>1. j \in Nat
        BY <2>1 DEF Listed
      <4> QED BY <3>1, <4>1
    <3>3. s.ilist[j].index = x.index => x.index = 0
      BY <2>1, <2>2, <3>2 DEF Apart, x
    <3>4. x.index # 0
      BY <2>5
    <3> QED BY <3>1, <3>3, <3>4
  <2>7. w.rec = u.rec /\ w.next = u.next /\ w.top = u.top /\ w.stale = {}
    BY <1>1, <1>4 DEF SameRecords
  <2> DEFINE k == Contents(u, data, x.el)
             l == Len(u.tree)
             n == Len(u.ilist) + 1
  <2>8. \/ data.schema # "TABLE" /\ y.offset = 0 /\ w.tree = u.tree
        \/ data.schema = "TABLE" /\ y.offset = Len(u.tree) + 1 /\ w.tree = Append(u.tree, k)
    BY <1>4
  <2>9. y.index = x.index /\ y.group = x.group /\ y.el = x.el
    OBVIOUS
  <2>10. w.ilist = Append(u.ilist, y) /\ x.el # None
    BY <1>4
  <2> HIDE DEF y, k
  <2>11. Grown(u, w, y, k, G)
    <3>1. IsSeq(u.ilist) /\ IndexesIn(u, G) /\ u.next \in Nat \ {0} /\ w.next \in Nat /\ u.next <= w.next /\ w.top = u.top
      <4>1. IsSeq(u.ilist) /\ u.next \in Nat \ {0}
        BY <1>1 DEF Good, RecordsOK, IndexesOK
      <4> QED BY <1>1, <2>7, <4>1
    <3>2. y.index \in 1 .. w.next - 1 /\ y.index \notin w.top /\ y.el # None /\ y.group \in G \ {0}
      BY <2>3, <2>4, <2>5, <2>7, <2>9, <2>10
    <3>3. \A p \in Listed(u) : u.ilist[p].index # y.index
      BY <2>6, <2>9
    <3>4. \/ y.offset = 0 /\ w.tree = u.tree
          \/ y.offset = Len(u.tree) + 1 /\ w.tree = Append(u.tree, k)
      BY <2>8
    <3> QED BY <2>10, <3>1, <3>2, <3>3, <3>4 DEF Grown
  <2>12. /\ IndexesIn(w, G) /\ Listed(w) = Listed(u) \cup {n}
         /\ \A p \in Listed(u) : /\ w.ilist[p] = u.ilist[p]
                                 /\ u.ilist[p].offset # 0 => w.tree[u.ilist[p].offset] = u.tree[u.ilist[p].offset]
         /\ w.ilist[n] = y
         /\ y.offset # 0 => w.tree[y.offset] = k
    BY <2>11, EntryAppended
  <2> HIDE DEF n
  <2>13. \A d, e : Contents(w, d, e) = Contents(u, d, e)
    BY <2>7 DEF Contents, Indexed, Live
  <2>14. ASSUME NEW p \in Listed(u) PROVE TreeOK(w, w.ilist[p])
    <3>1. TreeOK(u, u.ilist[p])
      BY <1>1 DEF TreesIn
    <3>2. w.ilist[p] = u.ilist[p]
          /\ (u.ilist[p].offset # 0 => w.tree[u.ilist[p].offset] = u.tree[u.ilist[p].offset])
      BY <2>12
    <3> QED BY <1>1, <2>7, <2>13, <3>1, <3>2 DEF TreeOK
  <2>15. TreeOK(w, w.ilist[n])
    <3>1. y.offset # 0 => data.schema = "TABLE" /\ w.tree[y.offset] = k
      BY <2>8, <2>12
    <3>2. k = Contents(w, data, x.el) /\ data = w.rec[y.group].data
      BY <2>7, <2>9, <2>13 DEF k
    <3> HIDE DEF data
    <3> QED BY <2>9, <2>12, <3>1, <3>2 DEF TreeOK
  <2>16. TreesIn(w)
    BY <2>12, <2>14, <2>15 DEF TreesIn
  <2>17. ASSUME NEW p \in Listed(w) PROVE \E j \in Listed(s) : j <= i /\ w.ilist[p].index = s.ilist[j].index
    <3>1. CASE p \in Listed(u)
      <4>1. PICK j \in Listed(s) : j <= i - 1 /\ u.ilist[p].index = s.ilist[j].index
        BY <3>1 DEF Listing
      <4>2. j \in Nat
        BY <2>1 DEF Listed
      <4>3. j <= i
        BY <4>1, <4>2
      <4> QED BY <2>12, <3>1, <4>1, <4>3
    <3>2. CASE p = n
      <4>1. w.ilist[p].index = s.ilist[i].index /\ i <= i
        BY <2>9, <2>12, <3>2 DEF x
      <4> QED BY <2>1, <4>1
    <3> QED BY <2>12, <3>1, <3>2
  <2>18. SameRecords(c, w) /\ SameAliases(c, w)
    BY <1>1, <1>4 DEF SameRecords, SameAliases
  <2>19. Listing(s, c, w, i)
    BY <1>2, <2>7, <2>12, <2>16, <2>17, <2>18 DEF Listing
  <2> QED BY <2>19 DEF w, x
<1>5. \/ SameRecords(u, w) /\ SameAliases(u, w) /\ SameIndexes(u, w)
      \/ /\ SameRecords(u, w) /\ SameAliases(u, w) /\ w.stale = u.stale
         /\ x.el # None /\ Live(u, x.group)
         /\ w.ilist = Append(u.ilist, y)
         /\ \/ data.schema = "TABLE" /\ w.tree = Append(u.tree, Contents(u, data, x.el))
            \/ data.schema # "TABLE" /\ w.tree = u.tree
  <2> HIDE DEF x
  <2> QED BY <1>1, IndexAgainIs
<1> QED BY <1>3, <1>4, <1>5

\* The copy of the base that db_vacuum() makes has what the base has.
LEMMA VacuumedIs ==
    ASSUME NEW s, Good(s), Sound(s)
    PROVE  Sound(Vacuumed(s)) /\ Docs(Vacuumed(s)) = Docs(s)
<1> DEFINE copy == [s EXCEPT !.rec = [k \in {j \in DOMAIN @ : Live(s, j)} |-> @[k]],
                             !.alias = <<>>, !.alias_size = 0,
                             !.ilist = <<>>, !.index_list_size = 0, !.tree = <<>>, !.stale = {}]
           c == AliasRebuild(s, copy)
           v == Vacuumed(s)
           n == Len(s.ilist)
<1>1. RecordsIn(s) /\ AliasMatch(s) /\ IndexesIn(s, GroupsOf(s)) /\ TreesIn(s) /\ KeysFit(s) /\ AliasOnce(s)
  BY DEF Sound, RecordsIn, AliasMatch
<1>2. /\ IsBase(copy) /\ copy.next = s.next /\ copy.top = s.top /\ copy.stale = {} /\ copy.tree = <<>>
      /\ copy.alias = <<>> /\ copy.alias_size = 0 /\ copy.ilist = <<>> /\ copy.index_list_size = 0
      /\ copy.rec = [k \in {j \in DOMAIN s.rec : Live(s, j)} |-> s.rec[k]]
  BY GoodIsBase, ZenonT(60) DEF IsBase
<1>3. v = IndexListRebuild(s, c)
  BY DEF Vacuumed
<1> HIDE DEF copy
<1>4. Good(copy)
  <2>1. RecordsOK(copy)
    <3>1. IsBase(copy) /\ copy.next = s.next /\ copy.rec = [k \in {j \in DOMAIN s.rec : Live(s, j)} |-> s.rec[k]]
      BY <1>2
    <3> QED BY ONLY Good(s), <3>1 DEF Good, RecordsOK
  <2>2. IsSeq(<<>>) /\ DOMAIN <<>> = {}
    BY DEF IsSeq
  <2>3. AliasesOK(copy)
    <3>1. AliasAll(copy) = {}
      BY <1>2, <2>2 DEF AliasAll
    <3> QED BY <1>2, <2>2, <3>1, FS_EmptySet DEF AliasesOK
  <2>4. IndexesOK(copy)
    <3>1. Listed(copy) = {}
      BY <1>2, <2>2 DEF Listed
    <3> QED BY <1>2, <2>2, <3>1, FS_EmptySet DEF IndexesOK
  <2> QED BY <2>1, <2>3, <2>4 DEF Good
<1>5. /\ Good(c) /\ SameRecords(copy, c) /\ SameIndexes(copy, c)
      /\ AliasOnce(c) /\ AliasKeys(c) = AliasKeys(s)
  BY <1>1, <1>2, <1>4, AliasRebuildIs
<1> HIDE DEF c
<1>6. /\ c.next = s.next /\ c.top = s.top /\ c.stale = {} /\ c.tree = <<>> /\ c.ilist = <<>>
      /\ c.rec = [k \in {j \in DOMAIN s.rec : Live(s, j)} |-> s.rec[k]]
  BY <1>2, <1>5 DEF SameRecords, SameIndexes
<1>7. \A k : (Live(c, k) <=> Live(s, k)) /\ (Live(s, k) => c.rec[k] = s.rec[k])
  BY <1>6 DEF Live
<1>8. GroupsOf(c) = GroupsOf(s)
  BY <1>6, <1>7 DEF GroupsOf
<1>9. 0 \notin DOMAIN s.rec /\ 0 \notin DOMAIN c.rec /\ 0 \notin s.top
  BY <1>1, <1>6 DEF KeysFit
<1>10. n \in Nat
  BY SeqPlaces DEF Good, IndexesOK
<1>11. PICK f : /\ f[0] = c
                /\ \A i \in 1 .. n : f[i] = IndexAgain(f[i - 1], s.ilist[i])
                /\ IndexListRebuild(s, c) = f[n]
  BY IndexListRebuildRun
<1>12. Listing(s, c, c, 0)
  <2>1. Listed(c) = {} /\ IsSeq(c.tree)
    BY <1>6 DEF Listed, IsSeq
  <2>2. IndexesIn(c, GroupsOf(c)) /\ TreesIn(c)
    BY <2>1 DEF IndexesIn, TreesIn, Apart
  <2>3. SameRecords(c, c) /\ SameAliases(c, c)
    BY DEF SameRecords, SameAliases
  <2> QED BY <1>5, <1>6, <2>1, <2>2, <2>3 DEF Listing
<1> DEFINE I == {i \in 0 .. n : Listing(s, c, f[i], i)}
<1>13. n \in I
  <2>1. 0 \in I
    BY <1>10, <1>11, <1>12
  <2>2. ASSUME NEW i \in 1 .. n, i - 1 \in I PROVE i \in I
    <3>1. Listing(s, c, f[i - 1], i - 1)
      BY <2>2
    <3>2. Listing(s, c, IndexAgain(f[i - 1], s.ilist[i]), i)
      BY <1>1, <1>5, <1>6, <1>8, <1>9, <1>10, <3>1, ListingMore
    <3> QED BY <1>10, <1>11, <3>2
  <2> HIDE DEF I
  <2> QED BY <1>10, <2>1, <2>2, Turns
<1>14. Listing(s, c, v, n)
  BY <1>3, <1>11, <1>13
<1> HIDE DEF v, n
<1>15. /\ Good(v) /\ SameRecords(c, v) /\ SameAliases(c, v)
       /\ IndexesIn(v, GroupsOf(c)) /\ TreesIn(v)
  BY <1>14 DEF Listing
<1>16. /\ v.next = s.next /\ v.top = s.top /\ v.rec = c.rec
       /\ (\A k : (Live(v, k) <=> Live(s, k)) /\ (Live(s, k) => v.rec[k] = s.rec[k]))
  BY <1>6, <1>7, <1>15 DEF SameRecords, Live
<1>17. GroupsOf(v) = GroupsOf(c)
  BY <1>8, <1>16 DEF GroupsOf
<1>18. AliasOnce(v) /\ AliasKeys(v) = AliasKeys(s)
  BY <1>5, <1>15 DEF SameAliases, AliasOnce, AliasKeys, AliasAll
<1>19. AliasMatch(v)
  BY <1>1, <1>16, <1>18 DEF AliasMatch
<1>20. Step(s, v, 0, {})
  <2>1. DOMAIN v.rec = {j \in DOMAIN s.rec : Live(s, j)}
    BY <1>6, <1>16
  <2>2. \A x \in DOMAIN s.rec : \/ x \in DOMAIN v.rec /\ v.rec[x] = s.rec[x]
                                \/ x \notin DOMAIN v.rec /\ ~Live(s, x)
    <3> TAKE x \in DOMAIN s.rec
    <3>1. CASE Live(s, x)
      <4>1. v.rec[x] = s.rec[x] /\ x \in DOMAIN v.rec
        BY <1>16, <2>1, <3>1
      <4> QED BY <4>1
    <3>2. CASE ~Live(s, x)
      BY <2>1, <3>2
    <3> QED BY <3>1, <3>2
  <2>3. s.next <= v.next
    BY <1>16 DEF Good, RecordsOK
  <2> QED BY <1>9, <1>16, <2>1, <2>2, <2>3 DEF Step
<1>21. RecordsIn(v)
  <2>1. \A j \in DOMAIN v.rec : ~(j = 0 \/ j \notin DOMAIN s.rec)
    BY <1>6, <1>9, <1>16
  <2> QED BY <1>1, <1>15, <1>20, <2>1, StepRecords
<1>22. Docs(v) = Docs(s)
  <2>0. KeysFit(v)
    BY <1>21 DEF RecordsIn
  <2>1. DocsWithout(s, v, 0)
    BY <1>1, <1>9, <1>15, <1>16, <1>20, <2>0, StepWithout
  <2>2. 0 \notin DOMAIN Docs(s)
    BY <1>9 DEF Docs
  <2>3. Docs(s) = [j \in DOMAIN Docs(s) |-> Docs(s)[j]]
    BY DEF Docs
  <2> QED BY <2>1, <2>2, <2>3 DEF DocsWithout
<1>23. Sound(v)
  BY <1>15, <1>17, <1>19, <1>21, SMTT(30) DEF Sound
<1> QED BY <1>22, <1>23 DEF v

-----------------------------------------------------------------------------
(* A copy of a document *)

\* Groups that read the same have the same indexes.
LEMMA ExpandedAlike ==
    ASSUME NEW s, NEW t, NEW c, NEW d, NEW e, Expand(t, d) = Expand(s, c),
           \A x \in KeysOf(c) : x # 0 /\ Live(s, x), \A x \in KeysOf(d) : x # 0 /\ Live(t, x)
    PROVE  Contents(t, d, e) = Contents(s, c, e)
<1>1. /\ Expand(t, d).items = [i \in DOMAIN d.rows |-> ItemOf(t, d.rows[i])]
      /\ Expand(s, c).items = [i \in DOMAIN c.rows |-> ItemOf(s, c.rows[i])]
  BY ExpandIs
<1>2. [i \in DOMAIN d.rows |-> ItemOf(t, d.rows[i])] = [i \in DOMAIN c.rows |-> ItemOf(s, c.rows[i])]
  BY <1>1
<1>3. DOMAIN d.rows = DOMAIN c.rows /\ \A i \in DOMAIN c.rows : ItemOf(t, d.rows[i]) = ItemOf(s, c.rows[i])
  <2> QED BY <1>2, SMTT(30)
<1>4. ASSUME NEW i \in DOMAIN c.rows
      PROVE  /\ Live(s, c.rows[i].key) /\ Live(t, d.rows[i].key)
             /\ t.rec[d.rows[i].key].data.el = s.rec[c.rows[i].key].data.el
             /\ t.rec[d.rows[i].key].data.val = s.rec[c.rows[i].key].data.val
  <2>1. c.rows[i].key \in KeysOf(c) /\ d.rows[i].key \in KeysOf(d)
    BY <1>3 DEF KeysOf
  <2>2. Live(s, c.rows[i].key) /\ Live(t, d.rows[i].key) /\ c.rows[i].key # 0 /\ d.rows[i].key # 0
    BY <2>1
  <2>3. ItemOf(t, d.rows[i]).data = ItemOf(s, c.rows[i]).data
    BY <1>3
  <2>4. Sent(t.rec[d.rows[i].key].data) = Sent(s.rec[c.rows[i].key].data)
    BY <2>2, <2>3 DEF Item, ItemOf
  <2> QED BY <2>2, <2>4 DEF Sent
<1> QED BY <1>3, <1>4, RowsAlike

\* The base c in which t is, and new indexes on n of the rows of data.
Copying(s, t, c, n, data) ==
    /\ Good(c) /\ KeysFit(c) /\ c.top = t.top /\ t.next <= c.next /\ c.stale = t.stale
    /\ DOMAIN t.rec \subseteq DOMAIN c.rec /\ DOMAIN c.rec \subseteq DOMAIN t.rec \cup t.next .. c.next - 1
    /\ \A x \in DOMAIN t.rec : c.rec[x] = t.rec[x]
    /\ \A x \in DOMAIN c.rec \ DOMAIN t.rec : IsIndex(c.rec[x]) /\ c.rec[x].life = "finite"
    /\ AliasOnce(c) /\ AliasKeys(c) = AliasKeys(t) \cup (DOMAIN c.rec \ DOMAIN t.rec)
    /\ IndexesIn(c, GroupsOf(s) \cup {n}) /\ Len(t.tree) <= Len(c.tree)
    /\ \A p \in Listed(c) :
         LET y == c.ilist[p]
         IN  \/ p \in Listed(t) /\ y = t.ilist[p] /\ (y.offset # 0 => c.tree[y.offset] = t.tree[y.offset])
             \/ y.group = n /\ (y.offset # 0 => data.schema = "TABLE" /\ c.tree[y.offset] = Contents(s, data, y.el))

LEMMA CopyTurn ==
    ASSUME NEW s, NEW t, NEW c, NEW n, NEW data, NEW e, Good(t), Copying(s, t, c, n, data), e # None, n # 0,
           IsSeq(t.tree), AliasKeys(t) \subseteq DOMAIN t.rec, 0 \notin DOMAIN s.rec,
           \A x \in KeysOf(data) \ {0} : Live(s, x) /\ x \in DOMAIN t.rec /\ t.rec[x] = s.rec[x]
    PROVE  Copying(s, t, AddIndex(c, n, data, e), n, data)
<1> DEFINE w == AddIndex(c, n, data, e)
           i == c.next
           G == GroupsOf(s) \cup {n}
           l == Len(c.ilist) + 1
<1>1. /\ Good(c) /\ KeysFit(c) /\ c.top = t.top /\ t.next <= c.next /\ c.stale = t.stale
      /\ DOMAIN t.rec \subseteq DOMAIN c.rec /\ DOMAIN c.rec \subseteq DOMAIN t.rec \cup t.next .. c.next - 1
      /\ (\A x \in DOMAIN t.rec : c.rec[x] = t.rec[x])
      /\ (\A x \in DOMAIN c.rec \ DOMAIN t.rec : IsIndex(c.rec[x]) /\ c.rec[x].life = "finite")
      /\ AliasOnce(c) /\ AliasKeys(c) = AliasKeys(t) \cup (DOMAIN c.rec \ DOMAIN t.rec)
      /\ IndexesIn(c, G) /\ Len(t.tree) <= Len(c.tree)
  BY DEF Copying
<1>2. i \in Nat \ {0} /\ t.next \in Nat \ {0} /\ IsSeq(c.tree) /\ i \notin DOMAIN c.rec /\ i \notin c.top /\ i \notin DOMAIN t.rec
  <2>1. i \in Nat \ {0} /\ t.next \in Nat \ {0} /\ IsSeq(c.tree)
    BY <1>1 DEF Good, RecordsOK, IndexesIn
  <2>2. i \notin DOMAIN c.rec /\ i \notin c.top
    BY <1>1, <2>1 DEF KeysFit
  <2> QED BY <1>1, <2>1, <2>2
<1>3. HasIndex(c, w, n, data, e) /\ Good(w)
  <2>1. c.next \notin AliasKeys(c)
    BY <1>1, <1>2
  <2> QED BY <1>1, <1>2, <2>1, AddIndexIs
<1> HIDE DEF w
<1>4. /\ w.next = i + 1 /\ w.top = c.top /\ w.stale = c.stale
      /\ DOMAIN w.rec = DOMAIN c.rec \cup {i} /\ (\A x \in DOMAIN c.rec : w.rec[x] = c.rec[x])
      /\ IsIndex(w.rec[i]) /\ w.rec[i].life = "finite"
      /\ AliasOnce(w) /\ AliasKeys(w) = AliasKeys(c) \cup {i}
  BY <1>2, <1>3 DEF HasIndex
<1>5. /\ IndexesIn(w, G) /\ l \notin Listed(c) /\ Listed(w) = Listed(c) \cup {l} /\ Len(c.tree) <= Len(w.tree)
      /\ \A p \in Listed(c) : /\ w.ilist[p] = c.ilist[p]
                              /\ c.ilist[p].offset # 0 => w.tree[c.ilist[p].offset] = c.tree[c.ilist[p].offset]
      /\ w.ilist[l].group = n /\ w.ilist[l].el = e
      /\ data.schema # "TABLE" => w.ilist[l].offset = 0
      /\ data.schema = "TABLE" => w.tree[w.ilist[l].offset] = Contents(c, data, e)
  <2> n \in G
    OBVIOUS
  <2> HIDE DEF G
  <2> QED BY <1>1, <1>3, HasIndexIs
<1> HIDE DEF l
<1>6. Contents(c, data, e) = Contents(s, data, e)
  <2>1. 0 \notin DOMAIN c.rec
    BY <1>1 DEF KeysFit
  <2>2. \A x \in KeysOf(data) \ {0} : Live(s, x) /\ Live(c, x) /\ c.rec[x] = s.rec[x]
    BY <1>1 DEF Live
  <2> QED BY <2>1, <2>2, RowsRead, SMTT(30)
<1>7. KeysFit(w)
  <2>1. c.top \subseteq 1 .. i - 1 /\ DOMAIN c.rec \subseteq 1 .. i - 1
    BY <1>1 DEF KeysFit
  <2>2. w.top \subseteq 1 .. i /\ DOMAIN w.rec \subseteq 1 .. i
    BY <1>2, <1>4, <2>1
  <2> QED BY <1>2, <1>4, <2>2 DEF KeysFit
<1>8. t.next <= w.next /\ DOMAIN w.rec \subseteq DOMAIN t.rec \cup t.next .. w.next - 1
  <2>1. \A x \in DOMAIN c.rec : x \in DOMAIN t.rec \cup t.next .. i
    BY <1>1, <1>2
  <2> QED BY <1>1, <1>2, <1>4, <2>1
<1>9. DOMAIN w.rec \ DOMAIN t.rec = (DOMAIN c.rec \ DOMAIN t.rec) \cup {i}
  BY <1>2, <1>4
<1>10. Len(t.tree) <= Len(w.tree)
  <2>1. Len(t.tree) \in Nat /\ Len(c.tree) \in Nat /\ Len(w.tree) \in Nat
    BY <1>2, <1>5, SeqPlaces DEF IndexesIn
  <2> QED BY <1>1, <1>5, <2>1
<1>11. ASSUME NEW p \in Listed(w)
       PROVE  LET y == w.ilist[p]
              IN  \/ p \in Listed(t) /\ y = t.ilist[p] /\ (y.offset # 0 => w.tree[y.offset] = t.tree[y.offset])
                  \/ y.group = n /\ (y.offset # 0 => data.schema = "TABLE" /\ w.tree[y.offset] = Contents(s, data, y.el))
  <2>1. CASE p \in Listed(c)
    <3> DEFINE y == c.ilist[p]
    <3>1. \/ p \in Listed(t) /\ y = t.ilist[p] /\ (y.offset # 0 => c.tree[y.offset] = t.tree[y.offset])
          \/ y.group = n /\ (y.offset # 0 => data.schema = "TABLE" /\ c.tree[y.offset] = Contents(s, data, y.el))
      BY <2>1 DEF Copying
    <3>2. w.ilist[p] = y /\ (y.offset # 0 => w.tree[y.offset] = c.tree[y.offset])
      BY <1>5, <2>1
    <3> QED BY <3>1, <3>2
  <2>2. CASE p = l
    <3> DEFINE y == w.ilist[p]
    <3>1. /\ y.group = n /\ y.el = e
          /\ data.schema # "TABLE" => y.offset = 0
          /\ data.schema = "TABLE" => w.tree[y.offset] = Contents(s, data, e)
      BY <1>5, <1>6, <2>2
    <3> QED BY <3>1
  <2> QED BY <1>5, <2>1, <2>2
<1>12. /\ w.top = t.top /\ w.stale = t.stale /\ DOMAIN t.rec \subseteq DOMAIN w.rec
       /\ \A x \in DOMAIN t.rec : w.rec[x] = t.rec[x]
  BY <1>1, <1>4
<1>13. \A x \in DOMAIN w.rec \ DOMAIN t.rec : IsIndex(w.rec[x]) /\ w.rec[x].life = "finite"
  BY <1>1, <1>4, <1>9
<1>14. AliasOnce(w) /\ AliasKeys(w) = AliasKeys(t) \cup (DOMAIN w.rec \ DOMAIN t.rec)
  BY <1>1, <1>4, <1>9, SMTT(30)
<1>15. Copying(s, t, w, n, data)
  BY <1>3, <1>5, <1>7, <1>8, <1>10, <1>11, <1>12, <1>13, <1>14 DEF Copying
<1> QED BY <1>15 DEF w

LEMMA CopyIndexesIs ==
    ASSUME NEW s, NEW t, NEW g, NEW n, NEW data, Good(s), Good(t), Copying(s, t, t, n, data), n # 0,
           IsSeq(t.tree), AliasKeys(t) \subseteq DOMAIN t.rec, 0 \notin DOMAIN s.rec,
           \A x \in KeysOf(data) \ {0} : Live(s, x) /\ x \in DOMAIN t.rec /\ t.rec[x] = s.rec[x]
    PROVE  Copying(s, t, CopyIndexes(s, t, g, n, data), n, data)
<1> DEFINE m == Len(s.ilist)
<1>1. m \in Nat
  BY SeqPlaces DEF Good, IndexesOK
<1>2. \E f : /\ f[0] = t
             /\ \A i \in 1 .. m : f[i] = IF s.ilist[i].el = None \/ s.ilist[i].group # g THEN f[i - 1]
                                          ELSE AddIndex(f[i - 1], n, data, s.ilist[i].el)
             /\ CopyIndexes(s, t, g, n, data) = f[m]
  BY ONLY CopyIndexesRun, Good(s)
<1> HIDE DEF m
<1>3. PICK f : /\ f[0] = t
               /\ \A i \in 1 .. m : f[i] = IF s.ilist[i].el = None \/ s.ilist[i].group # g THEN f[i - 1]
                                            ELSE AddIndex(f[i - 1], n, data, s.ilist[i].el)
               /\ CopyIndexes(s, t, g, n, data) = f[m]
  BY <1>2, Zenon
<1> DEFINE I == {i \in 0 .. m : Copying(s, t, f[i], n, data)}
<1>4. 0 \in I
  BY <1>1, <1>3
<1>5. ASSUME NEW i \in 1 .. m, i - 1 \in I PROVE i \in I
  <2>1. Copying(s, t, f[i - 1], n, data)
    BY <1>5
  <2>2. \A e : e # None => Copying(s, t, AddIndex(f[i - 1], n, data, e), n, data)
    BY <2>1, CopyTurn
  <2>3. f[i] = IF s.ilist[i].el = None \/ s.ilist[i].group # g THEN f[i - 1]
               ELSE AddIndex(f[i - 1], n, data, s.ilist[i].el)
    BY <1>3
  <2>4. Copying(s, t, f[i], n, data)
    BY <2>1, <2>2, <2>3
  <2> QED BY <1>1, <2>4
<1> HIDE DEF I
<1>6. m \in I
  BY <1>1, <1>4, <1>5, Turns
<1> QED BY <1>3, <1>6 DEF I

\* The guard of Duplicate in a clean workload.
MayCopy(s, k, copy_meta) ==
    copy_meta /\ s.rec[k].alias => k \in s.top /\ s.rec[k].type = "GROUP" /\ IsGroup(SlayPut(s, Expand(s, s.rec[k].data)).data)

\* A copy is a record with the metadata that it was given, or a group.
LEMMA CopyRecord ==
    ASSUME NEW s, NEW t, NEW n, NEW d, NEW meta, Good(s), Sound(s), NewDoc(s, t, n, d), ~IsGroup(d),
           IsRecord(meta), meta.type = "RECORD", meta.alias = FALSE, meta.lock = FALSE, meta.life = "finite",
           Good(SetMeta(t, n, meta))
    PROVE  /\ Sound(SetMeta(t, n, meta))
           /\ DocsWith(s, SetMeta(t, n, meta), n, Expand(t, d)) /\ n \notin DOMAIN Docs(s)
<1> DEFINE v == SetMeta(t, n, meta)
           r == [meta EXCEPT !.data = t.rec[n].data]
<1>1. /\ Good(t) /\ n = s.next /\ n \in Nat \ {0} /\ n < t.next /\ t.top = s.top \cup {n}
      /\ SameAliases(s, t) /\ SameIndexes(s, t)
      /\ n \in DOMAIN t.rec /\ n \notin DOMAIN s.rec /\ t.rec[n] = Record(d)
  BY DEF NewDoc
<1>2. t.rec[n].data = d /\ ~t.rec[n].lock
  BY <1>1 DEF Record
<1>3. /\ r.type = "RECORD" /\ r.alias = FALSE /\ r.lock = FALSE /\ r.life = "finite" /\ r.data = d
  <2> HIDE DEF r
  <2>1. r.type = meta.type /\ r.alias = meta.alias /\ r.lock = meta.lock /\ r.life = meta.life /\ r.data = t.rec[n].data
    BY RecordExcept DEF r
  <2> QED BY <1>2, <2>1
<1> HIDE DEF v
<1>4. Changed(t, v, n, r)
  BY <1>1, <1>2, SetMetaIs DEF v
<1> HIDE DEF r
<1>5. DOMAIN v.rec = DOMAIN t.rec /\ v.rec[n] = r /\ (\A x \in DOMAIN t.rec \ {n} : v.rec[x] = t.rec[x])
  <2>1. n \in DOMAIN t.rec
    BY <1>1
  <2> QED BY ONLY <1>4, <2>1, ChangedIs, SMTT(30)
<1>6. v.next = t.next /\ v.top = t.top /\ SameAliases(s, v) /\ SameIndexes(s, v)
  BY <1>1, <1>4 DEF Changed, SameAliases, SameIndexes
<1>7. Good(v)
  BY DEF v
<1>8. Placed(v, n, d)
  BY <1>1, <1>3, <1>5, <1>6 DEF Placed
<1>9. RecordsIn(s) /\ AliasMatch(s) /\ IndexesIn(s, GroupsOf(s)) /\ TreesIn(s)
  BY DEF Sound
<1>10. AliasOnce(v) /\ AliasKeys(v) = AliasKeys(s)
  BY <1>6, <1>9 DEF AliasMatch, SameAliases, AliasOnce, AliasKeys, AliasAll
<1>11. /\ Step(s, v, n, {}) /\ RecordsIn(v) /\ AliasMatch(v)
       /\ DocsWith(s, v, n, Expand(t, d)) /\ n \notin DOMAIN Docs(s)
  <2>1. t.next <= v.next
    BY <1>1, <1>6 DEF Good, RecordsOK
  <2>2. DOMAIN v.rec \ DOMAIN t.rec = {} /\ ~v.rec[n].alias
    BY <1>3, <1>5
  <2>3. AliasKeys(v) = AliasKeys(s) \cup (DOMAIN v.rec \ DOMAIN t.rec) \cup (IF v.rec[n].alias THEN {n} ELSE {})
    BY <1>10, <2>2
  <2> QED BY <1>5, <1>6, <1>7, <1>8, <1>9, <1>10, <2>1, <2>2, <2>3, PlacedSound
<1>12. IndexesIn(v, GroupsOf(v)) /\ TreesIn(v)
  <2>1. n \notin GroupsOf(s)
    BY <1>1 DEF GroupsOf, Live
  <2>2. KeysFit(v)
    BY <1>11 DEF RecordsIn
  <2> QED BY <1>6, <1>7, <1>9, <1>11, <2>1, <2>2, SameIndexesKept
<1> QED BY <1>11, <1>12 DEF Sound, v

\* The entries of a copy with indexes, in the list with all others.
LEMMA CopyGroup ==
    ASSUME NEW s, NEW t, NEW u, NEW n, NEW data, NEW d, NEW meta, Good(s), Sound(s), NewDoc(s, t, n, d), IsGroup(d),
           IsRecord(meta), meta.lock = FALSE, meta.life = "finite",
           Copying(s, t, u, n, data),
           data.schema = "TABLE" => d.schema = "TABLE" /\ \A w, e :
               (\A x \in KeysOf(d) : x # 0 /\ Live(w, x)) /\ Expand(w, d) = Expand(t, d)
                   => Contents(w, d, e) = Contents(s, data, e),
           Good(MakeGroup(Clear(u), n, meta))
    PROVE  /\ Sound(MakeGroup(Clear(u), n, meta))
           /\ DocsWith(s, MakeGroup(Clear(u), n, meta), n, Expand(t, d)) /\ n \notin DOMAIN Docs(s)
<1> DEFINE c == Clear(u)
           v == MakeGroup(c, n, meta)
<1>1. /\ Good(t) /\ n = s.next /\ n \in Nat \ {0} /\ n < t.next /\ t.top = s.top \cup {n}
      /\ SameAliases(s, t) /\ SameIndexes(s, t)
      /\ n \in DOMAIN t.rec /\ n \notin DOMAIN s.rec /\ t.rec[n] = Record(d) /\ Fresh(s, t, n, d)
  BY DEF NewDoc
<1>2. t.rec[n].data = d /\ ~t.rec[n].lock /\ d # None
  BY <1>1 DEF Record, IsGroup
<1>3. RecordsIn(s) /\ AliasMatch(s) /\ IndexesIn(s, GroupsOf(s)) /\ TreesIn(s)
  BY DEF Sound
<1>4. AliasKeys(t) = AliasKeys(s) /\ n \notin AliasKeys(s) /\ AliasKeys(s) \subseteq DOMAIN s.rec /\ DOMAIN s.rec \subseteq DOMAIN t.rec
  BY <1>1, <1>3 DEF NewDoc, SameAliases, AliasKeys, AliasAll, AliasMatch, Live
<1>5. /\ Good(u) /\ KeysFit(u) /\ u.top = t.top /\ t.next <= u.next /\ u.stale = t.stale
      /\ DOMAIN t.rec \subseteq DOMAIN u.rec /\ DOMAIN u.rec \subseteq DOMAIN t.rec \cup t.next .. u.next - 1
      /\ (\A x \in DOMAIN t.rec : u.rec[x] = t.rec[x])
      /\ (\A x \in DOMAIN u.rec \ DOMAIN t.rec : IsIndex(u.rec[x]) /\ u.rec[x].life = "finite")
      /\ AliasOnce(u) /\ AliasKeys(u) = AliasKeys(t) \cup (DOMAIN u.rec \ DOMAIN t.rec)
      /\ IndexesIn(u, GroupsOf(s) \cup {n}) /\ Len(t.tree) <= Len(u.tree)
  BY DEF Copying
<1>6. Good(c) /\ SameRecords(u, c) /\ SameAliases(u, c) /\ SameIndexes(u, c)
  BY <1>5, ThrowIs, ClearGood
<1> HIDE DEF c
<1>7. /\ c.rec = u.rec /\ c.next = u.next /\ c.top = u.top /\ AliasOnce(c) /\ AliasKeys(c) = AliasKeys(u)
      /\ c.ilist = u.ilist /\ c.tree = u.tree /\ c.stale = u.stale
  BY <1>5, <1>6 DEF SameRecords, SameAliases, SameIndexes, AliasOnce, AliasKeys, AliasAll
<1>8. n \in DOMAIN c.rec /\ c.rec[n] = t.rec[n] /\ n \notin AliasKeys(c)
  BY <1>1, <1>4, <1>5, <1>7
<1> HIDE DEF v
<1>9. Grouped(c, v, n, meta)
  <2>1. ~c.rec[n].lock /\ Whole(c.rec[n].data)
    <3>1. RecordOK(c.rec[n]) /\ c.rec[n].data # None
      BY <1>2, <1>6, <1>8, RecordFacts
    <3> QED BY <1>2, <1>8, <3>1 DEF RecordOK
  <2> QED BY <1>6, <1>7, <1>8, <2>1, MakeGroupIs DEF v
<1>10. Good(v)
  BY DEF v, c
<1>11. /\ DOMAIN v.rec = DOMAIN u.rec /\ (\A x \in DOMAIN u.rec \ {n} : v.rec[x] = u.rec[x])
       /\ v.next = u.next /\ v.top = t.top
       /\ v.rec[n].type = "GROUP" /\ v.rec[n].alias = TRUE /\ v.rec[n].lock = FALSE /\ v.rec[n].life = "finite"
       /\ v.rec[n].data = d /\ n \in DOMAIN v.rec
       /\ AliasOnce(v) /\ AliasKeys(v) = AliasKeys(u) \cup {n}
       /\ v.ilist = u.ilist /\ v.tree = u.tree /\ v.stale = t.stale
  BY <1>2, <1>5, <1>7, <1>8, <1>9 DEF Grouped, SameIndexes
<1>12. Placed(v, n, d)
  BY <1>1, <1>11 DEF Placed
<1>13. /\ Step(s, v, n, {}) /\ RecordsIn(v) /\ AliasMatch(v)
       /\ DocsWith(s, v, n, Expand(t, d)) /\ n \notin DOMAIN Docs(s)
  <2>1. t.next <= v.next /\ DOMAIN t.rec \subseteq DOMAIN v.rec /\ DOMAIN v.rec \subseteq DOMAIN t.rec \cup t.next .. v.next - 1
    BY <1>5, <1>11
  <2>2. \A x \in DOMAIN t.rec \ {n} : v.rec[x] = t.rec[x]
    BY <1>5, <1>11
  <2>3. \A x \in DOMAIN v.rec \ DOMAIN t.rec : IsIndex(v.rec[x]) /\ v.rec[x].life = "finite"
    BY <1>1, <1>5, <1>11
  <2>4. AliasKeys(v) = AliasKeys(s) \cup (DOMAIN v.rec \ DOMAIN t.rec) \cup (IF v.rec[n].alias THEN {n} ELSE {})
    BY <1>4, <1>5, <1>11
  <2>5. AliasOnce(v) /\ v.top = t.top
    BY <1>11
  <2> QED BY ONLY Good(s), NewDoc(s, t, n, d), <1>3, <1>10, <1>12, <2>1, <2>2, <2>3, <2>4, <2>5, PlacedSound
<1>14. KeysFit(v) /\ n \notin GroupsOf(s)
  BY <1>1, <1>13 DEF RecordsIn, GroupsOf, Live
<1>15. GroupsOf(s) \cup {n} \subseteq GroupsOf(v)
  <2>1. n \in GroupsOf(v)
    BY <1>11, <1>12 DEF GroupsOf, Live, Placed
  <2>2. ASSUME NEW g \in GroupsOf(s) PROVE g \in GroupsOf(v)
    <3>1. g \in s.top /\ Live(s, g) /\ s.rec[g].type = "GROUP" /\ g \in DOMAIN s.rec /\ g # n
      BY <1>14 DEF GroupsOf, Live
    <3>2. g \in DOMAIN v.rec /\ v.rec[g] = s.rec[g]
      BY <1>4, <1>5, <1>11, <3>1 DEF NewDoc
    <3>3. g \in v.top
      BY <1>1, <1>11, <3>1
    <3> QED BY <3>1, <3>2, <3>3 DEF GroupsOf, Live
  <2> QED BY <2>1, <2>2
<1>16. Listed(v) = Listed(u) /\ IsSeq(v.tree)
  BY <1>5, <1>11 DEF Listed, IndexesIn
<1>17. IndexesIn(v, GroupsOf(v))
  <2>1. Apart(v)
    BY <1>5, <1>11, <1>16 DEF IndexesIn, Apart
  <2>2. ASSUME NEW p \in Listed(v) PROVE EntryOK(v, v.ilist[p], GroupsOf(v))
    <3>1. EntryOK(u, u.ilist[p], GroupsOf(s) \cup {n})
      BY <1>5, <1>16 DEF IndexesIn
    <3>2. v.ilist[p] = u.ilist[p] /\ v.top = u.top
      BY <1>5, <1>11
    <3> QED BY <1>11, <1>15, <3>1, <3>2 DEF EntryOK
  <2> QED BY <1>16, <2>1, <2>2 DEF IndexesIn
<1>18. ASSUME NEW p \in Listed(v) PROVE TreeOK(v, v.ilist[p])
  <2> DEFINE y == u.ilist[p]
  <2>0. v.ilist[p] = y
    BY <1>11
  <2>1. \/ p \in Listed(t) /\ y = t.ilist[p] /\ (y.offset # 0 => u.tree[y.offset] = t.tree[y.offset])
        \/ y.group = n /\ (y.offset # 0 => data.schema = "TABLE" /\ u.tree[y.offset] = Contents(s, data, y.el))
    BY <1>16 DEF Copying
  <2>2. CASE p \in Listed(t) /\ y = t.ilist[p] /\ (y.offset # 0 => u.tree[y.offset] = t.tree[y.offset])
    <3>1. p \in Listed(s) /\ y = s.ilist[p] /\ t.tree = s.tree /\ t.stale = s.stale
      BY <1>1, <2>2 DEF SameIndexes, Listed
    <3>2. EntryOK(s, y, GroupsOf(s)) /\ TreeOK(s, y)
      BY <1>3, <3>1 DEF IndexesIn, TreesIn
    <3>3. Len(s.tree) \in Nat /\ Len(v.tree) \in Nat /\ Len(s.tree) <= Len(v.tree)
      BY <1>3, <1>5, <1>11, <1>16, <3>1, SeqPlaces DEF IndexesIn
    <3>4. y.offset = 0 \/ (v.tree[y.offset] = s.tree[y.offset] /\ (y.offset \in s.stale => y.offset \in v.stale))
      BY <1>11, <2>2, <3>1
    <3>5. y.group # n \/ y.group = 0
      BY <1>14, <3>2 DEF EntryOK
    <3> HIDE DEF y
    <3>6. TreeOK(v, y)
      BY <1>3, <1>10, <1>13, <1>14, <3>2, <3>3, <3>4, <3>5, EntryKept
    <3> QED BY <2>0, <3>6
  <2>3. CASE y.group = n /\ (y.offset # 0 => data.schema = "TABLE" /\ u.tree[y.offset] = Contents(s, data, y.el))
    <3>1. \A x \in KeysOf(d) : x # 0 /\ Live(v, x)
      <4>1. \A x \in KeysOf(d) : x # 0 /\ x \in DOMAIN t.rec \ DOMAIN s.rec /\ x # n
        BY <1>1 DEF Fresh
      <4>2. \A x \in DOMAIN t.rec \ DOMAIN s.rec : x # n => t.rec[x].life = "finite"
        BY DEF NewDoc
      <4>3. \A x \in KeysOf(d) : x \in DOMAIN v.rec /\ v.rec[x] = t.rec[x]
        BY <1>5, <1>11, <4>1
      <4> QED BY <4>1, <4>2, <4>3 DEF Live
    <3>2. Expand(v, d) = Expand(t, d)
      <4>1. 0 \notin DOMAIN v.rec /\ 0 \notin DOMAIN t.rec
        BY <1>5, <1>14 DEF KeysFit
      <4>2. \A x \in KeysOf(d) \ {0} : Live(t, x) /\ Live(v, x) /\ v.rec[x] = t.rec[x]
        <5> TAKE x \in KeysOf(d) \ {0}
        <5>1. x \in DOMAIN t.rec \ DOMAIN s.rec /\ x # n
          BY <1>1 DEF Fresh
        <5>2. t.rec[x].life = "finite"
          BY <5>1 DEF NewDoc
        <5>3. v.rec[x] = t.rec[x]
          BY <1>5, <1>11, <5>1
        <5> QED BY <3>1, <5>1, <5>2, <5>3 DEF Live
      <4> QED BY <4>1, <4>2, RowsRead
    <3>3. y.offset # 0 => d.schema = "TABLE" /\ v.tree[y.offset] = Contents(v, d, y.el)
      BY <1>11, <2>3, <3>1, <3>2
    <3> HIDE DEF y
    <3>4. TreeOK(v, y)
      BY <1>11, <2>3, <3>3 DEF TreeOK
    <3> QED BY <2>0, <3>4
  <2> QED BY <2>1, <2>2, <2>3
<1>19. TreesIn(v)
  BY <1>18 DEF TreesIn
<1>20. Sound(v)
  BY <1>13, <1>17, <1>19 DEF Sound
<1> QED BY <1>13, <1>20 DEF v, c

LEMMA CopyingStarts ==
    ASSUME NEW s, NEW t, NEW n, NEW d, NEW data, Good(s), Sound(s), NewDoc(s, t, n, d)
    PROVE  Copying(s, t, t, n, data) /\ IsSeq(t.tree) /\ AliasKeys(t) \subseteq DOMAIN t.rec
<1>1. /\ Good(t) /\ n = s.next /\ n \in Nat \ {0} /\ n < t.next /\ t.top = s.top \cup {n}
      /\ SameAliases(s, t) /\ SameIndexes(s, t)
      /\ DOMAIN s.rec \subseteq DOMAIN t.rec /\ DOMAIN t.rec \subseteq DOMAIN s.rec \cup n .. t.next - 1
  BY DEF NewDoc
<1>2. KeysFit(s) /\ AliasMatch(s) /\ IndexesIn(s, GroupsOf(s))
  BY DEF Sound, RecordsIn
<1>3. t.next \in Nat
  BY <1>1 DEF Good, RecordsOK
<1>4. KeysFit(t)
  <2>1. s.top \subseteq 1 .. n - 1 /\ DOMAIN s.rec \subseteq 1 .. n - 1
    BY <1>1, <1>2 DEF KeysFit
  <2>2. \A x \in t.top : x \in 1 .. t.next - 1
    BY <1>1, <1>3, <2>1
  <2>3. \A x \in DOMAIN t.rec : x \in 1 .. t.next - 1
    BY <1>1, <1>3, <2>1
  <2> QED BY <2>2, <2>3 DEF KeysFit
<1>5. AliasOnce(t) /\ AliasKeys(t) = AliasKeys(s) /\ AliasKeys(s) \subseteq DOMAIN s.rec
  BY <1>1, <1>2 DEF SameAliases, AliasOnce, AliasKeys, AliasAll, AliasMatch, Live
<1>6. t.ilist = s.ilist /\ t.tree = s.tree /\ t.stale = s.stale /\ Listed(t) = Listed(s)
  BY <1>1 DEF SameIndexes, Listed
<1>7. IndexesIn(t, GroupsOf(s) \cup {n})
  <2>1. ASSUME NEW p \in Listed(t) PROVE EntryOK(t, t.ilist[p], GroupsOf(s) \cup {n})
    <3>1. EntryOK(s, s.ilist[p], GroupsOf(s)) /\ t.ilist[p] = s.ilist[p]
      BY <1>2, <1>6 DEF IndexesIn
    <3> DEFINE x == s.ilist[p]
    <3>2. x.index \in 0 .. n - 1 /\ x.index \notin s.top
      BY <1>1, <3>1 DEF EntryOK
    <3> HIDE DEF x
    <3>3. x.index \in 0 .. t.next - 1 /\ x.index \notin t.top
      BY <1>1, <1>3, <3>2
    <3> QED BY <1>6, <3>1, <3>3 DEF EntryOK, x
  <2> QED BY <1>2, <1>6, <2>1 DEF IndexesIn, Apart
<1>8. Len(t.tree) \in Nat /\ IsSeq(t.tree)
  BY <1>7, SeqPlaces DEF IndexesIn
<1>9. \A p \in Listed(t) : t.tree[t.ilist[p].offset] = t.tree[t.ilist[p].offset] /\ t.ilist[p] = t.ilist[p]
  OBVIOUS
<1>10. Copying(s, t, t, n, data)
  <2>1. DOMAIN t.rec \ DOMAIN t.rec = {} /\ t.next <= t.next /\ Len(t.tree) <= Len(t.tree)
    BY <1>3, <1>8
  <2> QED BY <1>1, <1>4, <1>5, <1>7, <1>9, <2>1 DEF Copying
<1> QED BY <1>1, <1>5, <1>8, <1>10

\* db_duplicate() gives the document a new key, with its indexes if it is a
\* group and its metadata is copied.
LEMMA DbDuplicateIs ==
    ASSUME NEW s, NEW k \in DOMAIN s.rec, NEW copy_meta, Good(s), Sound(s), ~s.err, Live(s, k),
           k \in s.top \/ s.rec[k].type = "INDEX", MayCopy(s, k, copy_meta)
    PROVE  LET v == DbDuplicate(s, k, copy_meta)
           IN  \/ v = s
               \/ /\ Sound(v) /\ k \in DOMAIN Docs(s)
                  /\ DocsWith(s, v, s.next, Docs(s)[k]) /\ s.next \notin DOMAIN Docs(s)
<1> DEFINE g == Get(s, k, FALSE)
           n == s.next
           data == s.rec[k].data
           in == Expand(s, data)
           s1 == [s EXCEPT !.next = @ + 1]
           d == SlayPut(s1, in).data
           t == NewRecord(s, in)
           meta == IF copy_meta THEN s.rec[k] ELSE Record(None)
           u == IF copy_meta THEN CopyIndexes(s, t, k, n, data) ELSE t
           v == DbDuplicate(s, k, copy_meta)
<1>1. g.s = s /\ g.meta = s.rec[k] /\ g.data = data
  <2>1. LET q == Get(s, k, FALSE) IN q.s = s /\ q.meta = s.rec[k] /\ q.data = s.rec[k].data
    BY ONLY ~s.err, Live(s, k) DEF Get
  <2> QED BY <2>1
<1>2. v = IF s.rec[k].type \notin {"RECORD", "GROUP"} \/ data = None THEN s
          ELSE IF Broken(s, data) THEN [s EXCEPT !.dead = TRUE]
          ELSE IF IsGroup(d) THEN MakeGroup(Clear(u), n, meta)
          ELSE SetMeta(t, n, meta)
  <2> HIDE DEF g
  <2>1. v = LET gg == Get(s, k, FALSE)
                m == IF copy_meta THEN gg.meta ELSE Record(None)
                w == IF copy_meta THEN CopyIndexes(s, NewRecord(s, Expand(s, gg.data)), k, n, gg.data)
                     ELSE NewRecord(s, Expand(s, gg.data))
            IN  IF gg.meta.type \notin {"RECORD", "GROUP"} \/ gg.data = None THEN s
                ELSE IF Broken(s, gg.data) THEN [s EXCEPT !.dead = TRUE]
                ELSE IF IsGroup(SlayPut(s1, Expand(s, gg.data)).data) THEN MakeGroup(Clear(w), n, m)
                ELSE SetMeta(NewRecord(s, Expand(s, gg.data)), n, m)
    BY DEF DbDuplicate, NewRecord
  <2>2. Get(s, k, FALSE) = g
    BY DEF g
  <2> HIDE DEF v, t, s1, d, n
  <2> QED BY <1>1, <2>1, <2>2 DEF d, t
<1>3. Good(v)
  BY DbDuplicateGood
<1>4. RecordsIn(s) /\ AliasMatch(s) /\ KeysFit(s)
  BY DEF Sound, RecordsIn
<1> HIDE DEF g
<1>5. CASE k \notin s.top
  <2>1. s.rec[k].type = "INDEX"
    BY <1>5
  <2>2. v = s
    <3> HIDE DEF v, u, t, meta, d, s1, in
    <3> QED BY <1>2, <2>1
  <2> QED BY <2>2
<1>6. CASE k \in s.top
  <2>1. /\ IsTop(s.rec[k]) /\ IsRecord(s.rec[k]) /\ s.rec[k].lock = FALSE /\ data # None
        /\ s.rec[k].type \in {"RECORD", "GROUP"} /\ (s.rec[k].type = "GROUP" <=> IsGroup(data))
        /\ (s.rec[k].type = "GROUP" => s.rec[k].alias) /\ s.rec[k].alias \in BOOLEAN
    BY <1>4, <1>6, TopFacts
  <2>2. RowsOK(s, k) /\ s.rec[k].life = "finite"
    BY <1>4 DEF RecordsIn, Live
  <2>3. /\ \A x \in KeysOf(data) \ {0} : Live(s, x)
        /\ IsGroup(data) => 0 \notin KeysOf(data)
    BY <2>1, <2>2 DEF RowsOK, Rows, RowKeys
  <2>4. ~Broken(s, data)
    <3> HIDE DEF data
    <3> QED BY <2>3 DEF Broken
  <2>5. IsDoc(in)
    BY <1>4, <1>6, DocTyped
  <2>6. NewDoc(s, t, n, d) /\ Expand(t, d) = in /\ (IsGroup(d) => d.schema = IF in.kind = "ARRAY" THEN "TABLE" ELSE "SET")
    BY <1>4, <2>5, NewRecordIs
  <2>7. IsGroup(d) <=> IsGroup(SlayPut(s, in).data)
    <3>1. Good(s1) /\ KeysFit(s1)
      <4>1. s1.rec = s.rec /\ s1.next = s.next + 1 /\ s1.top = s.top /\ s.next \in Nat
        BY GoodIsBase DEF IsBase, Good, RecordsOK
      <4>2. Good(s1)
        BY NextGood
      <4> HIDE DEF s1
      <4>3. s.top \subseteq 1 .. s.next - 1 /\ DOMAIN s.rec \subseteq 1 .. s.next - 1
        BY <1>4 DEF KeysFit
      <4>4. s.top \subseteq 1 .. s.next /\ DOMAIN s.rec \subseteq 1 .. s.next
        BY <4>1, <4>3
      <4> QED BY <4>1, <4>2, <4>4 DEF KeysFit
    <3> HIDE DEF s1, in
    <3> QED BY <1>4, <2>5, <3>1, GroupSame
  <2>8. Docs(s)[k] = in /\ k \in DOMAIN Docs(s)
    BY <1>6 DEF Docs
  <2> HIDE DEF in, d, t, s1
  <2>9. IsRecord(meta) /\ meta.lock = FALSE /\ meta.life = "finite"
    BY <2>1, <2>2 DEF Record, IsRecord
  <2>10. CASE IsGroup(d)
    <3>1. v = MakeGroup(Clear(u), n, meta)
      <4> HIDE DEF v, u, meta, data
      <4> QED BY <1>2, <2>1, <2>4, <2>10
    <3>2. Copying(s, t, t, n, data) /\ IsSeq(t.tree) /\ AliasKeys(t) \subseteq DOMAIN t.rec
      BY <2>6, CopyingStarts
    <3>3. 0 \notin DOMAIN s.rec /\ n # 0
      BY <1>4, <2>6 DEF KeysFit, NewDoc
    <3>4. \A x \in KeysOf(data) \ {0} : Live(s, x) /\ x \in DOMAIN t.rec /\ t.rec[x] = s.rec[x]
      BY <2>3, <2>6 DEF NewDoc, Live
    <3>5. Copying(s, t, u, n, data)
      <4>1. Good(t)
        BY <2>6 DEF NewDoc
      <4> HIDE DEF data, n
      <4>2. Copying(s, t, CopyIndexes(s, t, k, n, data), n, data)
        BY <3>2, <3>3, <3>4, <4>1, CopyIndexesIs
      <4> QED BY <3>2, <4>2
    <3>6. ASSUME data.schema = "TABLE"
          PROVE  d.schema = "TABLE" /\ \A w, e :
                     (\A x \in KeysOf(d) : x # 0 /\ Live(w, x)) /\ Expand(w, d) = Expand(t, d)
                         => Contents(w, d, e) = Contents(s, data, e)
      <4>1. IsGroup(data)
        BY <2>1, <3>6 DEF IsGroup
      <4>2. in.kind = "ARRAY" /\ in = Expand(s, data)
        BY <3>6 DEF in, Expand
      <4>3. \A x \in KeysOf(data) : x # 0 /\ Live(s, x)
        BY <2>3, <4>1
      <4> HIDE DEF data
      <4>4. \A w, e : (\A x \in KeysOf(d) : x # 0 /\ Live(w, x)) /\ Expand(w, d) = Expand(t, d)
                          => Contents(w, d, e) = Contents(s, data, e)
        BY <2>6, <4>2, <4>3, ExpandedAlike
      <4> QED BY <2>6, <2>10, <4>2, <4>4
    <3> HIDE DEF v, u, meta, data, n
    <3>7. Good(MakeGroup(Clear(u), n, meta))
      BY <1>3, <3>1
    <3>8. Sound(v) /\ DocsWith(s, v, n, Expand(t, d)) /\ n \notin DOMAIN Docs(s)
      BY <2>6, <2>9, <2>10, <3>1, <3>5, <3>6, <3>7, CopyGroup
    <3> QED BY <2>6, <2>8, <3>8 DEF v, n
  <2>11. CASE ~IsGroup(d)
    <3>1. v = SetMeta(t, n, meta)
      <4> HIDE DEF v, u, meta, data
      <4> QED BY <1>2, <2>1, <2>4, <2>11
    <3>2. meta.type = "RECORD" /\ meta.alias = FALSE
      <4>1. CASE copy_meta
        <5>1. ~s.rec[k].alias
          BY <2>7, <2>11, <4>1 DEF MayCopy, in
        <5> QED BY <2>1, <4>1, <5>1
      <4>2. CASE ~copy_meta
        BY <4>2 DEF Record
      <4> QED BY <4>1, <4>2
    <3> HIDE DEF v, u, meta, data, n
    <3>3. Sound(v) /\ DocsWith(s, v, n, Expand(t, d)) /\ n \notin DOMAIN Docs(s)
      BY <1>3, <2>6, <2>9, <2>11, <3>1, <3>2, CopyRecord
    <3> QED BY <2>6, <2>8, <3>3 DEF v, n
  <2> QED BY <2>10, <2>11
<1> QED BY <1>5, <1>6

-----------------------------------------------------------------------------
(* The steps of a clean workload *)

\* The inductive invariant.
CleanInv == Inv /\ (load.clean => Sound(db))

LEMMA InitSound == Init => CleanInv
<1> SUFFICES ASSUME Init PROVE CleanInv
  OBVIOUS
<1> DEFINE r == [Record(None) EXCEPT !.type = "RAW", !.lock = TRUE]
<1>1. /\ db.rec = <<r>> /\ db.alias = <<>> /\ db.ilist = <<>> /\ db.tree = <<>> /\ db.stale = {} /\ db.top = {} /\ db.next = 2
  BY DEF Init
<1>2. IsRaw(r) /\ r.life = "finite" /\ RowKeys(r) = {} /\ r.type = "RAW" /\ r.data = None
  BY DEF IsRaw, Record, RowKeys
<1> HIDE DEF r
<1>3. DOMAIN db.rec = {1} /\ db.rec[1] = r
  BY <1>1
<1>4. RecordsIn(db)
  <2>1. KeysFit(db)
    BY <1>1, <1>3 DEF KeysFit
  <2>2. RoleOK(db, 1) /\ RowsOK(db, 1)
    BY <1>1, <1>2, <1>3 DEF RoleOK, RowsOK, Rows
  <2> QED BY <1>3, <2>1, <2>2 DEF RecordsIn
<1>5. DOMAIN <<>> = {} /\ IsSeq(<<>>)
  BY DEF IsSeq
<1>6. AliasAll(db) = {} /\ Listed(db) = {}
  BY <1>1, <1>5 DEF AliasAll, Listed
<1>7. AliasMatch(db)
  BY <1>1, <1>6 DEF AliasMatch, AliasOnce, AliasKeys
<1>8. IndexesIn(db, GroupsOf(db)) /\ TreesIn(db)
  BY <1>1, <1>5, <1>6 DEF IndexesIn, Apart, TreesIn
<1> QED BY <1>4, <1>7, <1>8, InitInv DEF CleanInv, Sound

LEMMA CleanReply ==
    ASSUME NEW op, NEW s, Inv, Sound(db), Good(s), Sound(s), Reply(op, s)
    PROVE  Sound(db') /\ load' = load /\ DocsOf(db) = Docs(db) /\ DocsOf(db') = Docs(s)
<1>1. db' = Clear(s) /\ load' = load
  BY DEF Reply
<1>2. Sound(Clear(s)) /\ Docs(Clear(s)) = Docs(s) /\ Good(Clear(s)) /\ ~Clear(s).err
  BY SoundThrow, ClearGood
<1>3. DocsOf(db) = Docs(db)
  BY DocsAre DEF Inv, Sound
<1>4. DocsOf(Clear(s)) = Docs(Clear(s))
  BY <1>2, DocsAre DEF Sound
<1> QED BY <1>1, <1>2, <1>3, <1>4

\* Records that a clean workload names.
LEMMA CleanKeys ==
    ASSUME Inv, Sound(db), load.clean
    PROVE  /\ \A k \in Records : k \in DOMAIN db.rec /\ Live(db, k) /\ (k \in db.top \/ db.rec[k].type = "INDEX")
           /\ \A k \in Groups : k \in GroupsOf(db)
           /\ \A k \in DOMAIN db.rec : Clean(k) => k \in db.top \/ db.rec[k].type = "INDEX"
           /\ \A k \in db.top \cap DOMAIN db.rec : db.rec[k].type \in {"RECORD", "GROUP"}
<1>1. \A k \in DOMAIN db.rec : Clean(k) => k \in db.top \/ db.rec[k].type = "INDEX"
  BY DEF Clean
<1>2. \A k \in Records : k \in DOMAIN db.rec /\ Live(db, k) /\ (k \in db.top \/ db.rec[k].type = "INDEX")
  BY <1>1 DEF Records
<1>3. \A k \in Groups : k \in GroupsOf(db)
  BY <1>2 DEF Groups, GroupsOf
<1>4. \A k \in db.top \cap DOMAIN db.rec : db.rec[k].type \in {"RECORD", "GROUP"}
  BY DEF Sound, RecordsIn, RoleOK, IsTop
<1> QED BY <1>1, <1>2, <1>3, <1>4

\* Documents of which one changes or goes.
LEMMA WithIs ==
    ASSUME NEW s, NEW v, NEW k, NEW d, DocsWith(s, v, k, d), k \in DOMAIN Docs(s)
    PROVE  Docs(v) = [Docs(s) EXCEPT ![k] = d]
<1>1. Docs(s) = [j \in DOMAIN Docs(s) |-> Docs(s)[j]]
  BY DEF Docs
<1> DEFINE m == Docs(s)
<1> HIDE DEF m
<1>2. m = [j \in DOMAIN m |-> m[j]] /\ k \in DOMAIN m
  BY <1>1 DEF m
<1>3. [j \in DOMAIN m \cup {k} |-> IF j = k THEN d ELSE m[j]] = [m EXCEPT ![k] = d]
  BY ONLY <1>2
<1> QED BY <1>3 DEF DocsWith, m

LEMMA WithoutIs ==
    ASSUME NEW s, NEW v, NEW k, DocsWithout(s, v, k), k \notin DOMAIN Docs(s)
    PROVE  Docs(v) = Docs(s)
<1>1. Docs(s) = [j \in DOMAIN Docs(s) |-> Docs(s)[j]]
  BY DEF Docs
<1> QED BY <1>1 DEF DocsWithout

\* What clients of a clean workload see of the base.
Held == IF load.clean THEN DocsOf(db) ELSE <<>>

LEMMA PutTurn ==
    ASSUME CleanInv, load.clean, Put
    PROVE  Sound(db') /\ D!Put
<1>1. PICK in \in load.inputs : Reply("put", DbPut(db, in))
  BY DEF Put
<1> DEFINE s == DbPut(db, in)
<1>2. Inv /\ Sound(db) /\ Good(db) /\ load \in Workloads
  BY DEF CleanInv, Inv
<1>3. IsDoc(in)
  BY <1>2, DatabaseAssumption, InputsAre
<1>4. Good(s)
  BY <1>2, <1>3, DbPutGood DEF IsDoc
<1>5. Sound(s) /\ DocsWith(db, s, db.next, in) /\ db.next \notin DOMAIN Docs(db)
  BY <1>2, <1>3, DbPutIs
<1> HIDE DEF s
<1>6. Sound(db') /\ load' = load /\ DocsOf(db) = Docs(db) /\ DocsOf(db') = Docs(s)
  BY <1>1, <1>2, <1>4, <1>5, CleanReply DEF s
<1>7. in \in UNION {l.inputs : l \in Workloads}
  BY <1>2
<1>8. D!Added(in)
  <2>1. DOMAIN Docs(s) = DOMAIN Docs(db) \cup {db.next}
    BY <1>5 DEF DocsWith
  <2> QED BY <1>5, <1>6, <2>1 DEF D!Added, DocsWith
<1> QED BY <1>6, <1>7, <1>8 DEF D!Put

LEMMA UpdateTurn ==
    ASSUME CleanInv, load.clean, Update
    PROVE  Sound(db') /\ (D!Update \/ Held' = Held)
<1>1. PICK k \in Records, in \in load.inputs, descent \in BOOLEAN :
          /\ load.clean => \/ IsGroup(SlayPut(db, in).data) <=> db.rec[k].type = "GROUP"
                           \/ ~db.rec[k].alias
          /\ Reply("update", DbUpdate(db, k, in, descent))
  BY DEF Update
<1> DEFINE s == DbUpdate(db, k, in, descent)
<1>2. Inv /\ Sound(db) /\ Good(db) /\ ~db.err /\ load \in Workloads
  BY DEF CleanInv, Inv
<1>3. IsDoc(in)
  BY <1>2, DatabaseAssumption, InputsAre
<1>4. k \in DOMAIN db.rec /\ Live(db, k) /\ (k \in db.top \/ db.rec[k].type = "INDEX")
  BY <1>2, CleanKeys
<1>5. Good(s)
  BY <1>2, <1>3, <1>4, DbUpdateGood DEF IsDoc
<1>6. CASE k \in db.top
  <2>1. Sound(s) /\ DocsWith(db, s, k, in) /\ k \in DOMAIN Docs(db)
    <3>1. Sound(s) /\ DocsWith(db, s, k, in)
      BY <1>1, <1>2, <1>3, <1>4, <1>6, DbUpdateIs
    <3> QED BY <1>4, <1>6, <3>1 DEF Docs
  <2> HIDE DEF s
  <2>2. Sound(db') /\ load' = load /\ DocsOf(db) = Docs(db) /\ DocsOf(db') = Docs(s)
    BY <1>1, <1>2, <1>5, <2>1, CleanReply DEF s
  <2>3. Docs(s) = [Docs(db) EXCEPT ![k] = in]
    BY <2>1, WithIs
  <2>4. in \in UNION {l.inputs : l \in Workloads}
    BY <1>2
  <2> QED BY <2>1, <2>2, <2>3, <2>4 DEF D!Update, D!Replaced
<1>7. CASE k \notin db.top
  <2>1. s = Throw(db)
    <3>1. db.rec[k].type = "INDEX" /\ Get(db, k, FALSE).meta = db.rec[k]
      BY <1>4, <1>7 DEF Get
    <3> QED BY <3>1 DEF DbUpdate
  <2>2. Sound(Throw(db)) /\ Docs(Throw(db)) = Docs(db)
    BY <1>2, SoundThrow
  <2> HIDE DEF s
  <2>3. Sound(db') /\ load' = load /\ DocsOf(db) = Docs(db) /\ DocsOf(db') = Docs(s)
    BY <1>1, <1>2, <1>5, <2>1, <2>2, CleanReply DEF s
  <2> QED BY <2>1, <2>2, <2>3, SMTT(30) DEF Held
<1> QED BY <1>6, <1>7

LEMMA DuplicateTurn ==
    ASSUME CleanInv, load.clean, Duplicate
    PROVE  Sound(db') /\ (D!Duplicate \/ Held' = Held)
<1>1. PICK k \in Records, copy_meta \in BOOLEAN :
          /\ load.clean /\ copy_meta /\ db.rec[k].alias =>
                 k \in Groups /\ IsGroup(SlayPut(db, Expand(db, db.rec[k].data)).data)
          /\ Reply("dup", DbDuplicate(db, k, copy_meta))
  BY DEF Duplicate
<1> DEFINE s == DbDuplicate(db, k, copy_meta)
<1>2. Inv /\ Sound(db) /\ Good(db) /\ ~db.err
  BY DEF CleanInv, Inv
<1>3. k \in DOMAIN db.rec /\ Live(db, k) /\ (k \in db.top \/ db.rec[k].type = "INDEX")
  BY <1>2, CleanKeys
<1>4. Good(s)
  BY <1>2, DbDuplicateGood
<1>5. MayCopy(db, k, copy_meta)
  <2>1. k \in Groups => k \in GroupsOf(db)
    BY <1>2, CleanKeys
  <2> QED BY <1>1, <2>1 DEF MayCopy, GroupsOf
<1>6. \/ s = db
      \/ /\ Sound(s) /\ k \in DOMAIN Docs(db)
         /\ DocsWith(db, s, db.next, Docs(db)[k]) /\ db.next \notin DOMAIN Docs(db)
  BY <1>2, <1>3, <1>5, DbDuplicateIs
<1> HIDE DEF s
<1>7. Sound(db') /\ load' = load /\ DocsOf(db) = Docs(db) /\ DocsOf(db') = Docs(s)
  BY <1>1, <1>2, <1>4, <1>6, CleanReply DEF s
<1>8. CASE s = db
  BY <1>7, <1>8 DEF Held
<1>9. CASE /\ Sound(s) /\ k \in DOMAIN Docs(db)
           /\ DocsWith(db, s, db.next, Docs(db)[k]) /\ db.next \notin DOMAIN Docs(db)
  <2>1. DOMAIN Docs(s) = DOMAIN Docs(db) \cup {db.next}
    BY <1>9 DEF DocsWith
  <2>2. D!Added(Docs(db)[k])
    BY <1>7, <1>9, <2>1 DEF D!Added, DocsWith
  <2> QED BY <1>7, <1>9, <2>2 DEF D!Duplicate
<1> QED BY <1>6, <1>8, <1>9

LEMMA DropTurn ==
    ASSUME NEW op, NEW s, NEW k, CleanInv, load.clean, Good(s), Sound(s), Reply(op, s), DocsWithout(db, s, k)
    PROVE  Sound(db') /\ (D!Drop \/ Held' = Held)
<1>1. Sound(db') /\ load' = load /\ DocsOf(db) = Docs(db) /\ DocsOf(db') = Docs(s)
  BY CleanReply DEF CleanInv
<1>2. CASE k \in DOMAIN Docs(db)
  BY <1>1, <1>2 DEF D!Drop, DocsWithout
<1>3. CASE k \notin DOMAIN Docs(db)
  BY <1>1, <1>3, WithoutIs DEF Held
<1> QED BY <1>2, <1>3

LEMMA DeleteTurn ==
    ASSUME CleanInv, load.clean, NEW k \in DOMAIN db.rec, NEW descent \in BOOLEAN, Delete(k, descent) \/ Purge(k, descent)
    PROVE  Sound(db') /\ (D!Drop \/ Held' = Held)
<1>1. Inv /\ Sound(db) /\ Good(db) /\ ~db.err
  BY DEF CleanInv, Inv
<1>2. CASE Delete(k, descent)
  <2> DEFINE s == DbDelete(db, k, descent)
  <2>1. Reply("delete", s) /\ k \in Records
    BY <1>2 DEF Delete
  <2>2. Live(db, k) /\ (k \in db.top \/ db.rec[k].type = "INDEX")
    BY <1>1, <2>1, CleanKeys
  <2>3. Good(s) /\ Sound(s) /\ DocsWithout(db, s, k)
    BY <1>1, <2>2, DbDeleteGood, DbDeleteIs
  <2> HIDE DEF s
  <2> QED BY <2>1, <2>3, DropTurn
<1>3. CASE Purge(k, descent)
  <2> DEFINE s == DbPurge(db, k, descent)
  <2>1. /\ Reply("purge", s) /\ Clean(k)
        /\ descent /\ db.rec[k].type = "GROUP" => IsGroup(db.rec[k].data) /\ KeysOf(db.rec[k].data) \subseteq DOMAIN db.rec
    BY <1>3 DEF Purge
  <2>2. k \in db.top \/ db.rec[k].type = "INDEX"
    BY <1>1, <2>1, CleanKeys
  <2>3. descent /\ db.rec[k].type = "GROUP" => Rows(db, k) \subseteq DOMAIN db.rec
    BY <2>1 DEF Rows, RowKeys
  <2>4. Good(s)
    BY <1>1, DbDeleteGood
  <2>5. Sound(s) /\ DocsWithout(db, s, k)
    BY <1>1, <2>2, <2>3, DbPurgeIs
  <2> HIDE DEF s
  <2> QED BY <2>1, <2>4, <2>5, DropTurn
<1> QED BY <1>2, <1>3

LEMMA StillTurn ==
    ASSUME NEW op, NEW s, CleanInv, load.clean, Good(s), Sound(s), Docs(s) = Docs(db), Reply(op, s)
    PROVE  Sound(db') /\ Held' = Held
<1>1. Sound(db') /\ load' = load /\ DocsOf(db) = Docs(db) /\ DocsOf(db') = Docs(s)
  BY CleanReply DEF CleanInv
<1> QED BY <1>1 DEF Held

\* What a group of a clean workload looks like to its clients.
Seen(s, k, data, e) ==
    /\ k \in DOMAIN s.rec /\ k \in DOMAIN Docs(s) /\ e = Expand(s, data) /\ e.el = None
    /\ e = [kind |-> e.kind, el |-> e.el, val |-> e.val, items |-> e.items]
    /\ e.kind = "ARRAY" <=> data.schema = "TABLE"
    /\ e.items = [i \in DOMAIN data.rows |-> ItemOf(s, data.rows[i])] /\ IsSeq(e.items)
    /\ data \in Data /\ IsGroup(data) /\ Whole(data)
    /\ \A x \in KeysOf(data) : x # 0 /\ Live(s, x) /\ IsInner(s.rec[x])

LEMMA GroupDoc ==
    ASSUME NEW s, NEW k, Good(s), Sound(s), k \in GroupsOf(s)
    PROVE  Seen(s, k, s.rec[k].data, Docs(s)[k])
<1> DEFINE data == s.rec[k].data
           e == Docs(s)[k]
<1>1. RecordsIn(s) /\ k \in s.top /\ Live(s, k) /\ k \in DOMAIN s.rec /\ s.rec[k].type = "GROUP"
  BY DEF Sound, GroupsOf, Live
<1>2. data \in Data /\ IsGroup(data) /\ Whole(data) /\ IsTop(s.rec[k]) /\ data # None
  BY <1>1, TopFacts
<1>3. data.el = None
  BY <1>2 DEF IsTop
<1>4. k \in DOMAIN Docs(s) /\ e = Expand(s, data)
  BY <1>1 DEF Docs
<1>5. \A x \in KeysOf(data) : x # 0 /\ Live(s, x) /\ IsInner(s.rec[x])
  <2>1. 0 \notin RowKeys(s.rec[k]) /\ RowKeys(s.rec[k]) = KeysOf(data) /\ s.rec[k].life = "finite"
    BY <1>1, <1>2 DEF RecordsIn, RowsOK, RowKeys, Live
  <2>2. \A x \in Rows(s, k) : Live(s, x) /\ (x \in DOMAIN s.rec => IsInner(s.rec[x]))
    BY <1>1, <2>1 DEF RecordsIn, RowsOK
  <2> QED BY <2>1, <2>2 DEF Rows, Live
<1>6. data.schema \in {"TABLE", "SET"}
  BY <1>2 DEF IsGroup
<1> HIDE DEF data, e
<1>7. e = [kind |-> KindOf(data), el |-> data.el, val |-> data.val, items |-> [i \in DOMAIN data.rows |-> ItemOf(s, data.rows[i])]]
  BY <1>4, ExpandIs
<1>8. e.kind = "ARRAY" <=> data.schema = "TABLE"
  BY <1>6, <1>7 DEF KindOf
<1>9. IsSeq(e.items)
  <2>1. DOMAIN data.rows = 1 .. Len(data.rows) /\ Len(data.rows) \in Nat
    BY <1>2, DataRows
  <2>2. DOMAIN e.items = 1 .. Len(data.rows) /\ e.items = [i \in DOMAIN e.items |-> e.items[i]]
    BY <1>7, <2>1
  <2> QED BY <2>1, <2>2, SeqMade
<1>10. e.el = None /\ e = [kind |-> e.kind, el |-> e.el, val |-> e.val, items |-> e.items]
  BY <1>3, <1>7 DEF data
<1>11. e.items = [i \in DOMAIN data.rows |-> ItemOf(s, data.rows[i])]
  BY <1>7
<1>12. k \in DOMAIN Docs(s) /\ e = Expand(s, data) /\ data \in Data /\ IsGroup(data) /\ Whole(data)
       /\ \A x \in KeysOf(data) : x # 0 /\ Live(s, x) /\ IsInner(s.rec[x])
  BY <1>2, <1>4, <1>5 DEF data, e
<1>13. Seen(s, k, data, e)
  BY ONLY <1>1, <1>8, <1>9, <1>10, <1>11, <1>12 DEF Seen
<1> QED BY <1>13 DEF data, e

\* The step of DocStore that attaches an item.
Attaching(k, x, name, w) ==
    /\ load.clean /\ load' = load
    /\ k \in DOMAIN DocsOf(db) /\ x \in UNION {l.items : l \in Workloads}
    /\ DocsOf(db') = [DocsOf(db) EXCEPT ![k] = [DocsOf(db)[k] EXCEPT !.items = Append(@, [name |-> name, data |-> w])]]
    /\ \/ DocsOf(db)[k].kind = "ARRAY" /\ name = DocsOf(db)[k].el /\ w = x
       \/ DocsOf(db)[k].kind # "ARRAY" /\ x.kind = "OBJECT" /\ name = x.el /\ w = Field(x.val)
       \/ /\ DocsOf(db)[k].kind # "ARRAY" /\ x.kind # "OBJECT" /\ w = x
          /\ k \in DOMAIN DocsOf(db') /\ Len(DocsOf(db')[k].items) > 0
          /\ name = DocsOf(db')[k].items[Len(DocsOf(db')[k].items)].name

LEMMA AttachIs ==
    ASSUME NEW k, NEW x, NEW name, NEW w, Attaching(k, x, name, w)
    PROVE  D!Attach
<1> USE DEF Attaching
<1> DEFINE With(i) == D!Replaced(k, [DocsOf(db)[k] EXCEPT !.items = Append(@, i)])
<1>1. load.clean /\ load'.clean
  OBVIOUS
<1>2. With([name |-> name, data |-> w])
  BY <1>1 DEF D!Replaced
<1> HIDE DEF With
<1>3. IF DocsOf(db)[k].kind = "ARRAY" THEN With([name |-> DocsOf(db)[k].el, data |-> x])
      ELSE IF x.kind = "OBJECT" THEN With([name |-> x.el, data |-> Field(x.val)])
      ELSE k \in DOMAIN DocsOf(db') /\ Len(DocsOf(db')[k].items) > 0 /\
           With([name |-> DocsOf(db')[k].items[Len(DocsOf(db')[k].items)].name, data |-> x])
  BY <1>2
<1> QED BY <1>1, <1>3 DEF With, D!Attach

LEMMA ItemAddTurn ==
    ASSUME CleanInv, load.clean, ItemAdd
    PROVE  Sound(db') /\ D!Attach
<1>1. PICK k \in Groups, in \in load.items : Reply("item", DbItemAdd(db, k, in))
  BY DEF ItemAdd
<1> DEFINE s == DbItemAdd(db, k, in)
           data == db.rec[k].data
           table == data.schema = "TABLE"
           row == IF table THEN in ELSE Field(in.val)
           name == IF table THEN None ELSE IF in.kind = "OBJECT" THEN in.el ELSE db.next
           e == Docs(db)[k]
           y == Item(name, row)
<1>2. Inv /\ Sound(db) /\ Good(db) /\ ~db.err /\ load \in Workloads
  BY DEF CleanInv, Inv
<1>3. in \in Parts /\ in \in UNION {l.items : l \in Workloads}
  BY <1>2, DatabaseAssumption
<1>4. k \in GroupsOf(db)
  BY <1>2, CleanKeys
<1>5. Good(s)
  BY <1>2, <1>4, Named, DbItemAddGood
<1> HIDE DEF s, row, name, y
<1>6. /\ k \in DOMAIN Docs(db) /\ e = Expand(db, data) /\ e.el = None /\ (e.kind = "ARRAY" <=> table) /\ IsSeq(e.items)
      /\ e = [kind |-> e.kind, el |-> e.el, val |-> e.val, items |-> e.items]
  <2>1. Seen(db, k, data, e)
    BY <1>2, <1>4, GroupDoc
  <2> HIDE DEF data, e
  <2> QED BY ONLY <2>1 DEF Seen
<1>7. Sound(s) /\ DocsWith(db, s, k, [Expand(db, data) EXCEPT !.items = Append(@, y)])
  BY <1>2, <1>3, <1>4, DbItemAddIs DEF s, y, row, name
<1> HIDE DEF e
<1>8. Sound(db') /\ load' = load /\ DocsOf(db) = Docs(db) /\ DocsOf(db') = Docs(s)
  BY <1>1, <1>2, <1>5, <1>7, CleanReply DEF s
<1> DEFINE f == [e EXCEPT !.items = Append(@, y)]
<1>9. Docs(s) = [Docs(db) EXCEPT ![k] = f]
  BY <1>6, <1>7, WithIs
<1>10. y = [name |-> name, data |-> row]
  BY DEF Item, y
<1>11. DocsOf(db') = [DocsOf(db) EXCEPT ![k] = [DocsOf(db)[k] EXCEPT !.items = Append(@, [name |-> name, data |-> row])]]
  BY <1>8, <1>9, <1>10 DEF e
<1>12. DocsOf(db')[k].items[Len(DocsOf(db')[k].items)].name = name /\ Len(DocsOf(db')[k].items) > 0 /\ k \in DOMAIN DocsOf(db')
  <2>1. f.items = Append(e.items, y)
    BY <1>6, SMTT(30)
  <2>2. Len(f.items) > 0 /\ f.items[Len(f.items)] = y
    BY <1>6, <2>1 DEF IsSeq
  <2>3. Docs(s)[k] = f /\ k \in DOMAIN Docs(s)
    BY <1>6, <1>9
  <2> HIDE DEF f
  <2> QED BY <1>8, <1>10, <2>2, <2>3
<1>13. \/ e.kind = "ARRAY" /\ name = e.el /\ row = in
       \/ e.kind # "ARRAY" /\ in.kind = "OBJECT" /\ name = in.el /\ row = Field(in.val)
       \/ e.kind # "ARRAY" /\ in.kind # "OBJECT" /\ row = in
  BY <1>3, <1>6, PartSent DEF name, row
<1>14. e = DocsOf(db)[k] /\ k \in DOMAIN DocsOf(db)
  BY <1>6, <1>8 DEF e
<1> HIDE DEF f
<1>15. \/ DocsOf(db)[k].kind = "ARRAY" /\ name = DocsOf(db)[k].el /\ row = in
       \/ DocsOf(db)[k].kind # "ARRAY" /\ in.kind = "OBJECT" /\ name = in.el /\ row = Field(in.val)
       \/ /\ DocsOf(db)[k].kind # "ARRAY" /\ in.kind # "OBJECT" /\ row = in
          /\ k \in DOMAIN DocsOf(db') /\ Len(DocsOf(db')[k].items) > 0
          /\ name = DocsOf(db')[k].items[Len(DocsOf(db')[k].items)].name
  BY ONLY <1>12, <1>13, <1>14
<1>16. load.clean /\ load' = load
  BY <1>8
<1> HIDE DEF e
<1>17. Attaching(k, in, name, row)
  BY ONLY <1>3, <1>11, <1>14, <1>15, <1>16 DEF Attaching
<1>18. D!Attach
  BY ONLY <1>17, AttachIs
<1> QED BY <1>8, <1>18

\* The step of DocStore that detaches an item.
Detaching(k, x, i) ==
    LET items == DocsOf(db)[k].items
    IN  /\ load.clean /\ load' = load
        /\ k \in DOMAIN DocsOf(db) /\ x \in UNION {l.items : l \in Workloads} /\ i \in DOMAIN items
        /\ DocsOf(db') = [DocsOf(db) EXCEPT ![k] = [DocsOf(db)[k] EXCEPT !.items = RemoveAt(@, i)]]
        /\ DocsOf(db)[k].kind = "ARRAY" => items[i].data = x /\ \A j \in 1 .. i - 1 : items[j].data # x
        /\ DocsOf(db)[k].kind # "ARRAY" => /\ items[i].name = x.el /\ items[i].data = Field(x.val)
                                           /\ \A j \in 1 .. i - 1 : items[j].name # x.el

LEMMA DetachIsStep ==
    ASSUME NEW k, NEW x, NEW i, Detaching(k, x, i)
    PROVE  D!Detach
<1> USE DEF Detaching
<1> DEFINE items == DocsOf(db)[k].items
           y == IF DocsOf(db)[k].kind = "ARRAY" THEN x ELSE Field(x.val)
           Before(j) == IF DocsOf(db)[k].kind = "ARRAY" THEN items[j].data = x ELSE items[j].name = x.el
<1>1. load.clean /\ load'.clean
  OBVIOUS
<1>2. D!Replaced(k, [DocsOf(db)[k] EXCEPT !.items = SubSeq(@, 1, i - 1) \o SubSeq(@, i + 1, Len(@))])
  BY <1>1 DEF D!Replaced, RemoveAt
<1>3. Before(i) /\ items[i].data = y /\ \A j \in 1 .. i - 1 : ~Before(j)
  OBVIOUS
<1> QED BY <1>1, <1>2, <1>3 DEF D!Detach

LEMMA ItemRemoveTurn ==
    ASSUME CleanInv, load.clean, ItemRemove
    PROVE  Sound(db') /\ (D!Detach \/ Held' = Held)
<1>1. PICK k \in Groups, in \in load.items :
          /\ Len(db.rec[k].data.rows) > 1
          /\ Reply("item", DbItemRemove(db, k, in))
  BY DEF ItemRemove
<1> DEFINE s == DbItemRemove(db, k, in)
           data == db.rec[k].data
           i == Removed(db, data, in)
           e == Docs(db)[k]
<1>2. Inv /\ Sound(db) /\ Good(db) /\ ~db.err /\ load \in Workloads
  BY DEF CleanInv, Inv
<1>3. in \in Parts /\ in \in UNION {l.items : l \in Workloads}
  BY <1>2, DatabaseAssumption
<1>4. k \in GroupsOf(db)
  BY <1>2, CleanKeys
<1>5. Good(s)
  BY <1>2, <1>4, Named, DbItemRemoveGood
<1>6. Seen(db, k, data, e)
  BY <1>2, <1>4, GroupDoc
<1>7. CASE i = 0
  <2>1. s = db
    BY <1>7 DEF DbItemRemove
  <2> HIDE DEF s
  <2> QED BY <1>1, <1>2, <1>5, <2>1, StillTurn DEF s
<1>8. CASE i # 0
  <2> DEFINE x == IF data.schema = "SET" THEN Field(in.val) ELSE in
             At(j) == Sent(db.rec[data.rows[j].key].data)
  <2>1. Sound(s) /\ DocsWith(db, s, k, [Expand(db, data) EXCEPT !.items = RemoveAt(@, i)])
    BY <1>1, <1>2, <1>3, <1>4, <1>8, DbItemRemoveIs, SMTT(30)
  <2>2. /\ i \in DOMAIN data.rows /\ At(i) = x
        /\ data.schema = "TABLE" => \A j \in 1 .. i - 1 : At(j) # in
        /\ data.schema = "SET" => /\ in.kind = "OBJECT" /\ data.rows[i].name = in.el
                                  /\ \A j \in 1 .. i - 1 : data.rows[j].name # in.el
    <3>1. data \in Data /\ IsGroup(data) /\ \A z \in KeysOf(data) : Live(db, z) /\ IsInner(db.rec[z])
      <4> HIDE DEF data, e
      <4> QED BY ONLY <1>6 DEF Seen
    <3> QED BY <1>3, <1>8, <3>1, RemovedIs, ZenonT(60)
  <2> HIDE DEF s, i
  <2>3. Sound(db') /\ load' = load /\ DocsOf(db) = Docs(db) /\ DocsOf(db') = Docs(s)
    BY <1>1, <1>2, <1>5, <2>1, CleanReply DEF s
  <2> HIDE DEF data, e, x
  <2>4. /\ k \in DOMAIN Docs(db) /\ e = Expand(db, data) /\ IsGroup(data) /\ (e.kind = "ARRAY" <=> data.schema = "TABLE")
        /\ Whole(data) /\ data \in Data
    BY ONLY <1>6 DEF Seen
  <2>5. Docs(s) = [Docs(db) EXCEPT ![k] = [e EXCEPT !.items = RemoveAt(@, i)]]
    BY <2>1, <2>4, WithIs
  <2>6. \A j \in DOMAIN data.rows : e.items[j].name = data.rows[j].name /\ e.items[j].data = At(j)
    <3> SUFFICES ASSUME NEW j \in DOMAIN data.rows PROVE e.items[j].name = data.rows[j].name /\ e.items[j].data = At(j)
      OBVIOUS
    <3>1. data.rows[j].key # 0 /\ Live(db, data.rows[j].key)
      BY ONLY <1>6 DEF Seen, KeysOf
    <3>2. e.items[j] = ItemOf(db, data.rows[j])
      BY ONLY <1>6 DEF Seen
    <3>3. e.items[j] = Item(data.rows[j].name, At(j))
      BY <3>1, <3>2 DEF ItemOf
    <3> HIDE DEF At
    <3> QED BY <3>3 DEF Item
  <2>7. DOMAIN e.items = DOMAIN data.rows
    BY ONLY <1>6 DEF Seen
  <2>8. \A j \in 1 .. i - 1 : j \in DOMAIN data.rows
    <3>1. DOMAIN data.rows = 1 .. Len(data.rows) /\ Len(data.rows) \in Nat
      BY <2>4, DataRows
    <3> QED BY <2>2, <3>1
  <2>9. (data.schema = "TABLE" \/ data.schema = "SET") /\ (data.schema = "SET" => x = Field(in.val)) /\ (data.schema = "TABLE" => x = in)
    BY <2>4 DEF IsGroup, x
  <2> HIDE DEF At
  <2>10. /\ e.kind = "ARRAY" => e.items[i].data = in /\ \A j \in 1 .. i - 1 : e.items[j].data # in
         /\ e.kind # "ARRAY" => /\ e.items[i].name = in.el /\ e.items[i].data = Field(in.val)
                                /\ \A j \in 1 .. i - 1 : e.items[j].name # in.el
    BY ONLY <2>2, <2>4, <2>6, <2>8, <2>9
  <2>11. e = DocsOf(db)[k] /\ k \in DOMAIN DocsOf(db)
    BY <2>3, <2>4 DEF e
  <2>12. DocsOf(db') = [DocsOf(db) EXCEPT ![k] = [e EXCEPT !.items = RemoveAt(@, i)]]
    BY <2>3, <2>5
  <2>13. load.clean /\ load' = load /\ i \in DOMAIN e.items
    BY <2>2, <2>3, <2>7
  <2>14. Detaching(k, in, i)
    BY ONLY <1>3, <2>10, <2>11, <2>12, <2>13 DEF Detaching
  <2>15. D!Detach
    BY ONLY <2>14, DetachIsStep
  <2> QED BY <2>3, <2>15
<1> QED BY <1>7, <1>8

\* The requests that change no document.
LEMMA OtherTurns ==
    ASSUME CleanInv, load.clean, SetMetadata \/ Alias \/ IndexCreate \/ IndexRebuild \/ Vacuum
    PROVE  Sound(db') /\ Held' = Held
<1>1. Inv /\ Sound(db) /\ Good(db) /\ ~db.err
  BY DEF CleanInv, Inv
<1>2. CASE SetMetadata
  BY <1>2 DEF SetMetadata
<1>3. CASE Alias
  <2>1. PICK k \in Records, name \in Names : Reply("alias", DbAliasUpdate(db, k, name))
    BY <1>3 DEF Alias
  <2>2. k \in DOMAIN db.rec /\ Live(db, k) /\ (k \in db.top \/ db.rec[k].type = "INDEX")
    BY <1>1, CleanKeys
  <2>3. Good(DbAliasUpdate(db, k, name))
    BY <1>1, <2>2, DbAliasUpdateGood
  <2>4. Sound(DbAliasUpdate(db, k, name)) /\ Docs(DbAliasUpdate(db, k, name)) = Docs(db)
    BY <1>1, <2>2, DbAliasUpdateIs
  <2> QED BY <2>1, <2>3, <2>4, StillTurn
<1>4. CASE IndexCreate
  <2>1. PICK k \in Groups, e \in Elements : Reply("index", DbIndexCreate(db, k, e))
    BY <1>4 DEF IndexCreate
  <2>2. e # None
    BY DatabaseAssumption
  <2>3. k \in GroupsOf(db)
    BY <1>1, CleanKeys
  <2>4. Good(DbIndexCreate(db, k, e))
    BY <1>1, <2>2, DbIndexCreateGood
  <2>5. Sound(DbIndexCreate(db, k, e)) /\ Docs(DbIndexCreate(db, k, e)) = Docs(db)
    BY <1>1, <2>2, <2>3, DbIndexCreateIs
  <2> QED BY <2>1, <2>4, <2>5, StillTurn
<1>5. CASE IndexRebuild
  <2>1. PICK k \in Records : EntryOf(db, k) # 0 /\ Reply("rebuild", DbIndexRebuild(db, k))
    BY <1>5 DEF IndexRebuild
  <2>2. Good(DbIndexRebuild(db, k))
    BY <1>1, DbIndexRebuildGood
  <2>3. Sound(DbIndexRebuild(db, k)) /\ Docs(DbIndexRebuild(db, k)) = Docs(db)
    BY <1>1, <2>1, DbIndexRebuildIs
  <2> QED BY <2>1, <2>2, <2>3, StillTurn
<1>6. CASE Vacuum
  <2>1. Reply("vacuum", Vacuumed(db))
    BY <1>6 DEF Vacuum
  <2>2. Good(Vacuumed(db)) /\ Sound(Vacuumed(db)) /\ Docs(Vacuumed(db)) = Docs(db)
    BY <1>1, VacuumedGood, VacuumedIs
  <2> QED BY <2>1, <2>2, StillTurn
<1> QED BY <1>2, <1>3, <1>4, <1>5, <1>6

LEMMA CleanTurn ==
    ASSUME CleanInv, load.clean, Next
    PROVE  Sound(db') /\ (D!Next \/ Held' = Held)
<1>1. CASE Put
  BY <1>1, PutTurn DEF D!Next
<1>2. CASE Update
  BY <1>2, UpdateTurn DEF D!Next
<1>3. CASE Duplicate
  BY <1>3, DuplicateTurn DEF D!Next
<1>4. CASE \/ \E k \in DOMAIN db.rec, descent \in BOOLEAN : Delete(k, descent)
           \/ \E k \in DOMAIN db.rec, descent \in BOOLEAN : Purge(k, descent)
  BY <1>4, DeleteTurn DEF D!Next
<1>5. CASE ItemAdd
  BY <1>5, ItemAddTurn DEF D!Next
<1>6. CASE ItemRemove
  BY <1>6, ItemRemoveTurn DEF D!Next
<1>7. CASE SetMetadata \/ Alias \/ IndexCreate \/ IndexRebuild \/ Vacuum
  BY <1>7, OtherTurns
<1> QED BY <1>1, <1>2, <1>3, <1>4, <1>5, <1>6, <1>7 DEF Next

LEMMA LoadStays == ASSUME [Next]_vars PROVE load' = load
  BY DEF Next, vars, Put, Update, Duplicate, Delete, Purge, ItemAdd, ItemRemove, SetMetadata, Alias, IndexCreate,
         IndexRebuild, Vacuum, Reply

LEMMA NextSound == CleanInv /\ [Next]_vars => CleanInv'
<1> SUFFICES ASSUME CleanInv, [Next]_vars PROVE CleanInv'
  OBVIOUS
<1>1. Inv' /\ load' = load
  BY NextInv, LoadStays DEF CleanInv
<1>2. ASSUME load.clean PROVE Sound(db')
  <2>1. CASE Next
    BY <1>2, <2>1, CleanTurn
  <2>2. CASE UNCHANGED vars
    BY <1>2, <2>2 DEF CleanInv, vars
  <2> QED BY <2>1, <2>2
<1> QED BY <1>1, <1>2 DEF CleanInv

LEMMA SpecClean == Spec => []CleanInv
  BY InitSound, NextSound, PTL DEF Spec

-----------------------------------------------------------------------------
(* The theorems *)

(***************************************************************************)
(* In a clean workload the rows of every live group are live, so that      *)
(* slay_get() never follows a row that db_delete(), db_update() or         *)
(* db_item_remove() took away, and whatever the requests no two records    *)
(* share a row (slay_marshall.c, core.c).                                  *)
(***************************************************************************)
THEOREM RowsFollowed == Spec => []RowsAlive
<1>1. ASSUME CleanInv PROVE RowsAlive
  <2>1. RowsApart
    BY <1>1 DEF CleanInv, Inv, Good, RecordsOK, RowsApart
  <2>2. ASSUME load.clean, NEW k \in DOMAIN db.rec, Live(db, k), db.rec[k].type = "GROUP"
        PROVE  ~Broken(db, db.rec[k].data)
    <3>1. Good(db) /\ RecordsIn(db)
      BY <1>1, <2>2 DEF CleanInv, Inv, Sound
    <3>2. k \in GroupsOf(db)
      BY <2>2, <3>1, OnlyTop DEF GroupsOf
    <3>3. Seen(db, k, db.rec[k].data, Docs(db)[k])
      BY <1>1, <2>2, <3>1, <3>2, GroupDoc DEF CleanInv
    <3> QED BY <3>3 DEF Seen, Broken
  <2> QED BY <2>1, <2>2 DEF RowsAlive
<1> QED BY <1>1, SpecClean, PTL

(***************************************************************************)
(* In a clean workload the mark in the metadata of a live record or group  *)
(* tells whether it has an alias, it has at most one, and no alias is left *)
(* of a record that db_delete(), db_purge(), db_update() or a vacuum took  *)
(* away (alias.c).                                                         *)
(***************************************************************************)
THEOREM AliasesMatch == Spec => []AliasExact
<1>1. ASSUME CleanInv PROVE AliasExact
  <2> SUFFICES ASSUME load.clean PROVE AliasExact
    BY DEF AliasExact
  <2>1. Good(db) /\ RecordsIn(db) /\ AliasMatch(db) /\ AliasOnce(db)
    BY <1>1 DEF CleanInv, Inv, Sound, AliasMatch
  <2>2. ASSUME NEW k \in DOMAIN db.rec, Live(db, k), db.rec[k].type # "INDEX"
        PROVE  Cardinality(AliasesOf(db, k)) = IF db.rec[k].alias THEN 1 ELSE 0
    <3>1. k \in AliasKeys(db) <=> db.rec[k].alias
      <4>1. k \in AliasKeys(db) => db.rec[k].alias
        BY <2>1 DEF AliasMatch
      <4>2. db.rec[k].alias => k \in db.top
        BY <2>1, <2>2 DEF RecordsIn, RoleOK, IsInner, IsIndex, IsRaw
      <4> QED BY <2>1, <2>2, <4>1, <4>2 DEF AliasMatch
    <3>2. CASE k \in AliasKeys(db)
      <4>1. PICK p \in AliasAll(db) : db.alias[p].quid = k
        BY <3>2 DEF AliasKeys
      <4>2. AliasesOf(db, k) = {p}
        BY <2>1, <4>1 DEF AliasesOf, AliasAll, AliasOnce
      <4> QED BY <3>1, <3>2, <4>2, FS_Singleton
    <3>3. CASE k \notin AliasKeys(db)
      <4>1. AliasesOf(db, k) = {}
        BY <3>3 DEF AliasesOf, AliasAll, AliasKeys
      <4> QED BY <3>1, <3>3, <4>1, FS_EmptySet
    <3> QED BY <3>2, <3>3
  <2>3. \A p \in DOMAIN db.alias : db.alias[p].len => Live(db, db.alias[p].quid)
    BY <2>1 DEF AliasMatch, AliasKeys, AliasAll
  <2> QED BY <2>2, <2>3 DEF AliasExact
<1> QED BY <1>1, SpecClean, PTL

(***************************************************************************)
(* In a clean workload an entry of the index list is on a live group:      *)
(* db_delete() and db_purge() take the entries of a group with it, all of  *)
(* them, and a deletion that damages the next entry leaves it on no group  *)
(* (index_list_delete(), core.c).                                          *)
(***************************************************************************)
THEOREM IndexesFollow == Spec => []IndexesOnGroups
<1>1. ASSUME CleanInv PROVE IndexesOnGroups
  BY <1>1 DEF CleanInv, Sound, IndexesIn, EntryOK, GroupsOf, IndexesOnGroups
<1> QED BY <1>1, SpecClean, PTL

(***************************************************************************)
(* In a clean workload the first index on a table counts every value as    *)
(* often as the rows of the table have it: db_item_add() and               *)
(* db_item_remove() keep it so, and so do requests on other tables and     *)
(* records.  Only an index whose table db_update() replaced, or that was   *)
(* not the first when an item came or went, is behind until it is built    *)
(* again (index.c, core.c).                                                *)
(***************************************************************************)
THEOREM IndexesMatch == Spec => []IndexCurrent
<1>1. ASSUME CleanInv PROVE IndexCurrent
  <2> SUFFICES ASSUME load.clean, NEW g \in DOMAIN db.rec, OnGroup(db, g) # 0,
                      db.ilist[OnGroup(db, g)].offset \notin db.stale \cup {0}
               PROVE  db.tree[db.ilist[OnGroup(db, g)].offset]
                          = Contents(db, db.rec[g].data, db.ilist[OnGroup(db, g)].el)
    BY DEF IndexCurrent
  <2>1. OnGroup(db, g) \in Listed(db) /\ db.ilist[OnGroup(db, g)].group = g
    BY <1>1, OnGroupIs DEF CleanInv, Inv
  <2>2. TreeOK(db, db.ilist[OnGroup(db, g)])
    BY <1>1, <2>1 DEF CleanInv, Sound, TreesIn
  <2> QED BY <2>1, <2>2 DEF TreeOK
<1> QED BY <1>1, SpecClean, PTL

(***************************************************************************)
(* In a clean workload db_delete() of a document takes it, whatever its    *)
(* rows, its alias and its indexes are: no error that a helper raises on   *)
(* the way keeps engine_delete() from marking it (core.c).                 *)
(***************************************************************************)
THEOREM DeletesTake == Spec => []DeleteTakes
<1>1. ASSUME CleanInv PROVE DeleteTakes
  <2> SUFFICES ASSUME load.clean, NEW k \in Records, NEW descent \in BOOLEAN, db.rec[k].type # "INDEX"
               PROVE  ~Live(DbDelete(db, k, descent), k)
    BY DEF DeleteTakes
  <2>1. Inv /\ Sound(db) /\ Good(db) /\ ~db.err
    BY <1>1 DEF CleanInv, Inv
  <2>2. Live(db, k) /\ k \in db.top
    BY <2>1, CleanKeys
  <2> QED BY <2>1, <2>2, DbDeleteIs
<1> QED BY <1>1, SpecClean, PTL

(***************************************************************************)
(* In a clean workload the reads of a document agree with db_get(): its    *)
(* type, its schema, its number of items, and its name, which leads to it, *)
(* whether alias_add() gave it or db_alias_update() (core.c, alias.c).     *)
(***************************************************************************)
THEOREM ReadsMatch == Spec => []ReadsAgree
<1>1. ASSUME CleanInv PROVE ReadsAgree
  <2> SUFFICES ASSUME load.clean, NEW k \in DOMAIN DocsOf(db)
               PROVE  /\ DbGetType(db, k) = DbGet(db, k).kind
                      /\ DbGetSchema(db, k) \in {"TABLE", "SET"} <=> db.rec[k].type = "GROUP"
                      /\ db.rec[k].type = "GROUP" => DbCountGroup(db, k) = Len(DbGet(db, k).items)
                      /\ db.rec[k].alias => DbAliasGetData(db, DbAliasGetName(db, k)) = DbGet(db, k)
    BY DEF ReadsAgree
  <2> DEFINE r == db.rec[k]
             data == r.data
             d == DbGet(db, k)
  <2>1. Inv /\ Good(db) /\ ~db.err /\ RecordsIn(db) /\ AliasMatch(db) /\ k \in db.top /\ Live(db, k)
    BY <1>1 DEF CleanInv, Inv, Sound, DocsOf
  <2>2. d = Expand(db, data) /\ data # None /\ data \in Data /\ k \in DOMAIN db.rec
    BY <2>1, DocIs
  <2>3. (r.type = "GROUP" <=> IsGroup(data)) /\ k \in Nat
    BY <2>1, <2>2, TopFacts
  <2>4. LET g == Get(db, k, FALSE) IN g.meta = r /\ g.data = data
    BY ONLY <2>1 DEF Get
  <2>5. DbGetSchema(db, k) = data.schema /\ (r.type = "GROUP" => DbCountGroup(db, k) = Len(data.rows))
    <3> HIDE DEF data
    <3> QED BY <2>2, <2>4 DEF DbGetSchema, DbCountGroup
  <2>6. data.schema \in {"FIELD", "OBJECT", "ARRAY", "TABLE", "SET"} /\ Len(data.rows) \in Nat /\ DOMAIN data.rows = 1 .. Len(data.rows)
    BY <2>2, DataRows DEF Data
  <2> HIDE DEF data, d
  <2>7. d = [kind |-> KindOf(data), el |-> data.el, val |-> data.val, items |-> [i \in DOMAIN data.rows |-> ItemOf(db, data.rows[i])]]
    BY <2>2, ExpandIs
  <2>8. DbGetType(db, k) = d.kind
    BY <2>5, <2>6, <2>7 DEF DbGetType, KindOf
  <2>9. Len(d.items) = Len(data.rows)
    BY <2>6, <2>7
  <2>10. ASSUME r.alias PROVE DbAliasGetData(db, DbAliasGetName(db, k)) = d
    <3> DEFINE p == FirstSeen(AliasesOf(db, k))
    <3>1. k \in AliasKeys(db)
      BY <2>1, <2>10 DEF AliasMatch
    <3>2. AliasesOf(db, k) # {}
      BY <3>1 DEF AliasKeys, AliasAll, AliasesOf
    <3>3. AliasesOf(db, k) \subseteq 1 .. Len(db.alias) /\ Len(db.alias) \in Nat
      BY <2>1, SeqPlaces DEF Good, AliasesOK, AliasesOf
    <3>4. p \in AliasesOf(db, k) /\ p # 0
      BY <3>2, <3>3, SeenIsFound
    <3>5. DbAliasGetName(db, k) = db.alias[p].name
      BY <3>4 DEF DbAliasGetName
    <3> HIDE DEF p
    <3>6. AliasGetKey(db, db.alias[p].name) = k
      BY <2>1, <3>4, NamesFound DEF NamesResolve, AliasesOf
    <3>7. k # None
      BY <2>3, DatabaseAssumption
    <3> QED BY <3>5, <3>6, <3>7 DEF DbAliasGetData, d
  <2> QED BY <2>3, <2>2, <2>5, <2>8, <2>9, <2>10 DEF IsGroup, d, data
<1> QED BY <1>1, SpecClean, PTL

(***************************************************************************)
(* The requests of a clean workload implement DocStore: what db_get()      *)
(* gives of the keys that clients have is what they put, updated, attached *)
(* and detached.  A request changes the one document that it names, and    *)
(* requests on names, indexes and the whole base change none, although     *)
(* documents are stored as several records beside shared lists (core.c,    *)
(* slay_marshall.c).                                                        *)
(***************************************************************************)
THEOREM DocumentsKept == Spec => Documents
<1>1. Init => D!Init
  <2> SUFFICES ASSUME Init PROVE D!Init
    OBVIOUS
  <2>1. db.top = {}
    BY DEF Init
  <2>2. DOMAIN DocsOf(db) = {} /\ DocsOf(db) = [k \in DOMAIN DocsOf(db) |-> DocsOf(db)[k]]
    BY <2>1 DEF DocsOf
  <2>3. DocsOf(db) = <<>>
    BY <2>2
  <2> QED BY <2>3 DEF D!Init
<1>2. CleanInv /\ [Next]_vars => [D!Next]_(IF load.clean THEN DocsOf(db) ELSE <<>>)
  <2> SUFFICES ASSUME CleanInv, [Next]_vars
               PROVE  D!Next \/ Held' = Held
    BY DEF Held
  <2>1. load' = load
    BY LoadStays
  <2>2. CASE ~load.clean
    BY <2>1, <2>2 DEF Held
  <2>3. CASE load.clean /\ Next
    BY <2>3, CleanTurn
  <2>4. CASE UNCHANGED vars
    BY <2>4 DEF Held, vars, DocsOf
  <2> QED BY <2>2, <2>3, <2>4
<1> QED BY <1>1, <1>2, SpecClean, PTL DEF Spec, Documents, D!Spec

=============================================================================
