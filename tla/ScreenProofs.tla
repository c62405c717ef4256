---------------------------- MODULE ScreenProofs -----------------------------
(* The proofs about what a person sees and does: the order of the rows of   *)
(* a list, the window over them, the row of the cursor and the marks; and   *)
(* the pages, what their keys do and in which namespace.                    *)
EXTENDS Browse, Lists, FiniteSetTheorems, SequenceTheorems, TLAPS

------------------------------------------------------------------------------
(* The order of the rows.                                                  *)

(* A sequence of all of a set, each once.                                  *)
Enumerates(seq, S) ==
  /\ seq \in Seq(S) /\ \A i, j \in DOMAIN seq : seq[i] = seq[j] => i = j
  /\ \A id \in S : \E i \in DOMAIN seq : seq[i] = id

StrictlyOrders(ahead, S) ==
  /\ \A a \in S : <<a, a>> \notin ahead
  /\ \A a, b \in S : a # b => <<a, b>> \in ahead \/ <<b, a>> \in ahead
  /\ \A a, b, c \in S : <<a, b>> \in ahead /\ <<b, c>> \in ahead => <<a, c>> \in ahead

(* Any strict order puts any finite set in a row: an element has its place *)
(* from how many are ahead of it, and no two have as many.                 *)
LEMMA ArrangedIs ==
  ASSUME NEW S, IsFiniteSet(S), NEW ahead, StrictlyOrders(ahead, S)
  PROVE  Enumerates(Arranged(S, ahead), S)
<1> DEFINE Behind(id) == {other \in S : <<other, id>> \in ahead}
           n == Cardinality(S)
           place == [id \in S |-> Cardinality(Behind(id)) + 1]
<1>1. n \in Nat
  BY FS_CardinalityType
<1>2. ASSUME NEW id \in S
      PROVE  IsFiniteSet(Behind(id)) /\ Cardinality(Behind(id)) \in Nat /\ Cardinality(Behind(id)) < n
  <2>1. Behind(id) \subseteq S /\ id \notin Behind(id)
    BY DEF StrictlyOrders
  <2>2. IsFiniteSet(Behind(id)) /\ Cardinality(Behind(id)) <= n /\ (n = Cardinality(Behind(id)) => S = Behind(id))
    BY <2>1, FS_Subset
  <2>3. Cardinality(Behind(id)) \in Nat
    BY <2>2, FS_CardinalityType
  <2>4. Cardinality(Behind(id)) # n
    BY <2>1, <2>2
  <2> QED
    BY <1>1, <2>2, <2>3, <2>4
<1>3. ASSUME NEW a \in S, NEW b \in S, <<a, b>> \in ahead
      PROVE  Cardinality(Behind(a)) < Cardinality(Behind(b))
  <2>1. Behind(a) \subseteq Behind(b) /\ a \in Behind(b) /\ a \notin Behind(a)
    BY <1>3 DEF StrictlyOrders
  <2>2. /\ Cardinality(Behind(a)) <= Cardinality(Behind(b))
        /\ Cardinality(Behind(b)) = Cardinality(Behind(a)) => Behind(b) = Behind(a)
    BY <1>2, <2>1, FS_Subset
  <2>3. Cardinality(Behind(b)) # Cardinality(Behind(a))
    BY <2>1, <2>2
  <2> QED
    BY <1>2, <2>2, <2>3
<1>4. place \in [S -> 1 .. n] /\ \A a, b \in S : place[a] = place[b] => a = b
  <2>1. place \in [S -> 1 .. n]
    <3>1. \A id \in S : Cardinality(Behind(id)) \in Nat /\ Cardinality(Behind(id)) < n
      BY <1>2
    <3>2. \A id \in S : Cardinality(Behind(id)) + 1 \in 1 .. n
      BY <1>1, <3>1
    <3> QED
      BY <3>2
  <2>2. ASSUME NEW a \in S, NEW b \in S, a # b PROVE Cardinality(Behind(a)) # Cardinality(Behind(b))
    <3>1. <<a, b>> \in ahead \/ <<b, a>> \in ahead
      BY <2>2 DEF StrictlyOrders
    <3>2. Cardinality(Behind(a)) < Cardinality(Behind(b)) \/ Cardinality(Behind(b)) < Cardinality(Behind(a))
      BY <1>3, <3>1
    <3>3. Cardinality(Behind(a)) \in Nat /\ Cardinality(Behind(b)) \in Nat
      BY <1>2
    <3> QED
      BY <3>2, <3>3
  <2>3. ASSUME NEW a \in S, NEW b \in S, place[a] = place[b] PROVE a = b
    <3>1. place[a] = Cardinality(Behind(a)) + 1 /\ place[b] = Cardinality(Behind(b)) + 1
      OBVIOUS
    <3>2. Cardinality(Behind(a)) \in Nat /\ Cardinality(Behind(b)) \in Nat
      BY <1>2
    <3>3. Cardinality(Behind(a)) = Cardinality(Behind(b))
      BY <2>3, <3>1, <3>2
    <3> QED
      BY <2>2, <3>3
  <2> QED
    BY <2>1, <2>3
<1> HIDE DEF place
<1>5. \A at \in 1 .. n : \E id \in S : place[id] = at
  <2>1. place \in Injection(S, 1 .. n)
    BY <1>4 DEF Injection, IsInjective
  <2>2. IsFiniteSet(1 .. n) /\ Cardinality(1 .. n) = n
    BY <1>1, FS_Interval
  <2>3. place \in Surjection(S, 1 .. n)
    BY <2>1, <2>2, FS_Injection
  <2> QED
    BY <2>3 DEF Surjection
<1> DEFINE Is(at) == CHOOSE id \in S : Cardinality(Behind(id)) = at - 1
<1>6. ASSUME NEW at \in 1 .. n PROVE Is(at) \in S /\ place[Is(at)] = at
  <2>1. PICK id \in S : place[id] = at
    BY <1>5
  <2>2. Cardinality(Behind(id)) = at - 1
    BY <1>2, <2>1 DEF place
  <2>3. Is(at) \in S /\ Cardinality(Behind(Is(at))) = at - 1
    BY <2>2
  <2> QED
    BY <2>3 DEF place
<1>7. Arranged(S, ahead) = [at \in 1 .. n |-> Is(at)]
  BY DEF Arranged
<1> HIDE DEF Is, n
<1>8. PICK seq : seq = [at \in 1 .. n |-> Is(at)]
  OBVIOUS
<1>9. seq \in [1 .. n -> S]
  BY <1>6, <1>8
<1>10. seq \in Seq(S) /\ DOMAIN seq = 1 .. n
  BY <1>1, <1>9
<1>11. \A i, j \in DOMAIN seq : seq[i] = seq[j] => i = j
  BY <1>6, <1>8, <1>10
<1>12. ASSUME NEW id \in S PROVE \E i \in DOMAIN seq : seq[i] = id
  <2>1. place[id] \in 1 .. n
    BY <1>4
  <2>2. seq[place[id]] \in S /\ place[seq[place[id]]] = place[id]
    BY <1>6, <1>8, <2>1
  <2>3. seq[place[id]] = id
    BY <1>4, <2>2
  <2> QED
    BY <1>10, <2>1, <2>3
<1> QED
  BY <1>7, <1>8, <1>10, <1>11, <1>12 DEF Enumerates

Rows == 1 .. Child

LEMMA RowsAre ==
  /\ Size \in Nat /\ Child \in Nat /\ Resources \subseteq Rows /\ Child \in Rows /\ Child \notin Resources
  /\ Rows \subseteq Nat \ {Nobody}
  /\ \A S \in SUBSET Rows : IsFiniteSet(S)
<1>1. Size \in Nat /\ Child \in Nat /\ Resources \subseteq Rows /\ Child \in Rows /\ Child \notin Resources
  BY ListsAssumption DEF Child, Resources, Rows
<1>2. IsFiniteSet(Rows)
  BY <1>1, FS_Interval DEF Rows
<1>3. \A S \in SUBSET Rows : IsFiniteSet(S)
  BY <1>2, FS_Subset
<1> QED
  BY <1>1, <1>3 DEF Rows, Nobody

LEMMA ItemsAre ==
  ASSUME NEW rows, rows.there \in SUBSET Rows
  PROVE  Enumerates(Items(rows), rows.there)
<1>1. PICK S : S = rows.there
  OBVIOUS
<1>2. IsFiniteSet(S) /\ S \subseteq Nat
  BY <1>1, RowsAre
<1>3. PICK ahead : ahead = {pair \in S \X S : pair[1] < pair[2]}
  OBVIOUS
<1>4. \A a, b \in S : <<a, b>> \in ahead <=> a < b
  BY <1>3
<1>5. StrictlyOrders(ahead, S)
  BY <1>2, <1>4 DEF StrictlyOrders
<1> QED
  BY <1>1, <1>2, <1>3, <1>5, ArrangedIs DEF Items

LEMMA InOrderIs ==
  ASSUME NEW S \in SUBSET Rows, NEW sort, NEW read \in SUBSET Resources
  PROVE  Enumerates(InOrder(S, sort, read), S)
<1> DEFINE Less(a, b) == Cell(a, sort.column, read) < Cell(b, sort.column, read)
           Before(a, b) == IF sort.desc THEN Less(b, a) ELSE Less(a, b)
           Ahead(a, b) == Before(a, b) \/ (~Before(b, a) /\ a < b)
<1>1. \A id \in S : Cell(id, sort.column, read) \in Nat /\ id \in Nat
  BY RowsAre, ListsAssumption DEF Cell
<1>2. PICK ahead : ahead = {pair \in S \X S : Ahead(pair[1], pair[2])}
  OBVIOUS
<1>3. \A a, b \in S : <<a, b>> \in ahead <=> Ahead(a, b)
  BY <1>2
<1>4. PICK c : c = [id \in S |-> Cell(id, sort.column, read)]
  OBVIOUS
<1>5. c \in [S -> Nat]
  BY <1>1, <1>4
<1>6. StrictlyOrders(ahead, S)
  <2>1. CASE sort.desc
    <3>1. \A a, b \in S : <<a, b>> \in ahead <=> c[b] < c[a] \/ (~(c[a] < c[b]) /\ a < b)
      BY <1>3, <1>4, <2>1
    <3> QED
      BY <1>1, <1>5, <3>1 DEF StrictlyOrders
  <2>2. CASE ~sort.desc
    <3>1. \A a, b \in S : <<a, b>> \in ahead <=> c[a] < c[b] \/ (~(c[b] < c[a]) /\ a < b)
      BY <1>3, <1>4, <2>2
    <3> QED
      BY <1>1, <1>5, <3>1 DEF StrictlyOrders
  <2> QED
    BY <2>1, <2>2
<1>7. InOrder(S, sort, read) = Arranged(S, ahead)
  BY <1>2 DEF InOrder
<1> QED
  BY <1>6, <1>7, RowsAre, ArrangedIs

------------------------------------------------------------------------------
(* The table.                                                              *)

LEMMA OfTwo ==
  ASSUME NEW a \in Int, NEW b \in Int
  PROVE  /\ (Max({a, b}) = a /\ a >= b) \/ (Max({a, b}) = b /\ b >= a)
         /\ (Min({a, b}) = a /\ a <= b) \/ (Min({a, b}) = b /\ b <= a)
<1>1. Max({a, b}) \in {a, b} /\ \A y \in {a, b} : Max({a, b}) >= y
  <2>1. \E x \in {a, b} : \A y \in {a, b} : x >= y
    <3>1. CASE a >= b
      BY <3>1
    <3>2. CASE b >= a
      BY <3>2
    <3> QED
      BY <3>1, <3>2
  <2> QED
    BY <2>1 DEF Max
<1>2. Min({a, b}) \in {a, b} /\ \A y \in {a, b} : Min({a, b}) <= y
  <2>1. \E x \in {a, b} : \A y \in {a, b} : x <= y
    <3>1. CASE a <= b
      BY <3>1
    <3>2. CASE b <= a
      BY <3>2
    <3> QED
      BY <3>1, <3>2
  <2> QED
    BY <2>1 DEF Min
<1> QED
  BY <1>1, <1>2

LEMMA ClampedIs ==
  ASSUME NEW at \in Int, NEW rows \in Nat
  PROVE  Clamped(at, rows) \in Nat
<1>1. PICK low : low = Min({at, rows})
  OBVIOUS
<1>2. rows \in Int
  OBVIOUS
<1>3. low = at \/ low = rows
  BY <1>1, <1>2, OfTwo, Zenon
<1>4. low \in Int /\ 1 \in Int
  BY <1>3
<1>5. \/ Clamped(at, rows) = 1
      \/ Clamped(at, rows) = low /\ low >= 1
  BY <1>1, <1>4, OfTwo, Zenon DEF Clamped
<1> QED
  BY <1>4, <1>5

(* A list, with a cursor on a row or on none.                              *)
ListShape(l) ==
  /\ l = [cursor |-> l.cursor, top |-> l.top, ids |-> l.ids, index |-> l.index, height |-> l.height,
          filter |-> l.filter, sort |-> l.sort, marks |-> l.marks, looked |-> l.looked]
  /\ l.cursor \in Nat /\ l.top \in Nat /\ l.height \in Nat \ {0} /\ l.ids \in Seq(Rows)

(* The row of the cursor is in the window.                                 *)
InView(l) == l.cursor \in DOMAIN l.ids => l.top < l.cursor /\ l.cursor <= l.top + l.height

(* What a table over the rows of a page shows: some of them, each once, and*)
(* the index leads from each to its resource.                              *)
FromPage(ids, index, rows) ==
  /\ ids \in Seq(rows.there) /\ \A i, j \in DOMAIN ids : ids[i] = ids[j] => i = j
  /\ DOMAIN index = DOMAIN ids
  /\ \A i \in DOMAIN ids : Items(rows)[index[i]] = ids[i]

ListOK(l, rows) == ListShape(l) /\ InView(l) /\ FromPage(l.ids, l.index, rows)

(* What is the same of two lists but for the place of the window.          *)
ButTop(n, l) ==
  /\ n.cursor = l.cursor /\ n.ids = l.ids /\ n.index = l.index /\ n.height = l.height
  /\ n.filter = l.filter /\ n.sort = l.sort /\ n.marks = l.marks /\ n.looked = l.looked

(* follow moves the window and nothing else, and the cursor is in it.      *)
LEMMA FollowIs ==
  ASSUME NEW l, ListShape(l)
  PROVE  ListShape(Follow(l)) /\ InView(Follow(l)) /\ ButTop(Follow(l), l)
<1>1. PICK len : len = Len(l.ids) /\ len \in Nat /\ DOMAIN l.ids = 1 .. len
  BY DEF ListShape
<1>2. PICK cursor, height, top : cursor = l.cursor /\ height = l.height /\ top = l.top
  OBVIOUS
<1>3. cursor \in Nat /\ height \in Nat \ {0} /\ top \in Nat
  BY <1>2 DEF ListShape
<1>4. PICK before, after, beyond : before = cursor - 1 /\ after = cursor - height /\ beyond = len - height
  OBVIOUS
<1>5. before \in Int /\ after \in Int /\ beyond \in Int /\ 0 \in Int /\ top \in Int
  BY <1>1, <1>3, <1>4
<1>6. PICK up : up = IF cursor # NoRow THEN Min({top, before}) ELSE top
  OBVIOUS
<1>7. \/ cursor = 0 /\ up = top
      \/ cursor # 0 /\ ((up = top /\ top <= before) \/ up = before)
  BY <1>5, <1>6, OfTwo, Zenon DEF NoRow
<1>8. up \in Int /\ (cursor # 0 => up < cursor)
  BY <1>3, <1>4, <1>5, <1>7
<1>9. PICK down : down = Max({up, after})
  OBVIOUS
<1>10. (down = up /\ up >= after) \/ (down = after /\ after >= up)
  BY <1>5, <1>8, <1>9, OfTwo, Zenon
<1>11. down \in Int /\ after <= down /\ (cursor # 0 => down < cursor)
  BY <1>3, <1>4, <1>5, <1>8, <1>10
<1>12. PICK low : low = Min({down, beyond})
  OBVIOUS
<1>13. (low = down /\ down <= beyond) \/ (low = beyond /\ beyond <= down)
  BY <1>5, <1>11, <1>12, OfTwo, Zenon
<1>14. PICK at : at = Max({0, low})
  OBVIOUS
<1>15. low \in Int
  BY <1>5, <1>11, <1>13
<1>16. (at = 0 /\ 0 >= low) \/ (at = low /\ low >= 0)
  BY <1>5, <1>14, <1>15, OfTwo, Zenon
<1>17. at \in Nat /\ (cursor # 0 /\ cursor <= len => at < cursor /\ cursor <= at + height)
  BY <1>1, <1>3, <1>4, <1>5, <1>8, <1>11, <1>13, <1>15, <1>16
<1>18. Follow(l) = [l EXCEPT !.top = at]
  BY <1>1, <1>2, <1>4, <1>6, <1>9, <1>12, <1>14, Zenon DEF Follow
<1>19. PICK n : n = [l EXCEPT !.top = at]
  OBVIOUS
<1>20. n = [cursor |-> l.cursor, top |-> at, ids |-> l.ids, index |-> l.index, height |-> l.height,
            filter |-> l.filter, sort |-> l.sort, marks |-> l.marks, looked |-> l.looked]
  BY <1>19 DEF ListShape
<1>21. ListShape(n) /\ ButTop(n, l) /\ n.top = at
  BY <1>17, <1>20 DEF ListShape, ButTop
<1>22. InView(n)
  BY <1>1, <1>2, <1>3, <1>17, <1>21 DEF InView, ButTop
<1> QED
  BY <1>18, <1>19, <1>21, <1>22

------------------------------------------------------------------------------
(* What a read of the table keeps.                                         *)

(* The cursor stays on its resource, or the list shows it no longer: then  *)
(* the cursor is on none, unless the list was narrowed otherwise.          *)
StaysOn(n, l) ==
  At(l) # Nobody =>
    \/ At(n) = At(l)
    \/ At(l) \notin Shown(n) /\ (At(n) = Nobody \/ n.looked # l.looked)

LEMMA NarrowedAre ==
  ASSUME NEW rows, rows.there \in SUBSET Rows, NEW filter, NEW tr
  PROVE  Narrowed(rows, filter, tr) \in SUBSET rows.there
BY DEF Narrowed

(* A row of the screen is one of the page, so the index finds it there.    *)
LEMMA IndexIs ==
  ASSUME NEW rows, rows.there \in SUBSET Rows, NEW S \in SUBSET rows.there, NEW ids, Enumerates(ids, S),
         NEW index, index = [i \in DOMAIN ids |-> CHOOSE at \in DOMAIN Items(rows) : Items(rows)[at] = ids[i]]
  PROVE  ids \in Seq(Rows) /\ FromPage(ids, index, rows)
<1>1. ids \in Seq(S) /\ \A i, j \in DOMAIN ids : ids[i] = ids[j] => i = j
  BY DEF Enumerates
<1>2. PICK there : there = rows.there
  OBVIOUS
<1>3. ids \in Seq(Rows) /\ ids \in Seq(there)
  BY <1>1, <1>2
<1>4. PICK items : items = Items(rows)
  OBVIOUS
<1>5. \A id \in there : \E at \in DOMAIN items : items[at] = id
  <2>1. Enumerates(items, there)
    BY <1>2, <1>4, ItemsAre
  <2> QED
    BY <2>1 DEF Enumerates
<1>6. \A i \in DOMAIN ids : ids[i] \in there
  BY <1>3
<1>7. \A i \in DOMAIN ids : index[i] = CHOOSE at \in DOMAIN items : items[at] = ids[i]
  BY <1>4
<1>8. ASSUME NEW i \in DOMAIN ids PROVE items[index[i]] = ids[i]
  BY <1>5, <1>6, <1>7
<1> QED
  BY <1>1, <1>2, <1>3, <1>4, <1>8 DEF FromPage

(* read: the list is of the page, and the cursor stays on its resource.    *)
LEMMA RereadIs ==
  ASSUME NEW l, ListShape(l), NEW rows, rows.there \in SUBSET Rows, NEW tr, NEW read \in SUBSET Resources
  PROVE  /\ ListOK(Reread(l, rows, tr, read), rows) /\ StaysOn(Reread(l, rows, tr, read), l)
         /\ Reread(l, rows, tr, read).marks = l.marks
<1> DEFINE narrowed == [filter |-> l.filter, troubled |-> tr]
           again == narrowed = l.looked
           S == Narrowed(rows, l.filter, tr)
           ids == InOrder(S, l.sort, read)
           index == [i \in DOMAIN ids |-> CHOOSE at \in DOMAIN Items(rows) : Items(rows)[at] = ids[i]]
           from == IF ~again /\ l.cursor = NoRow THEN 1 ELSE l.cursor
           cursor == IF from = NoRow THEN NoRow ELSE Clamped(from, Len(ids))
           laid == [l EXCEPT !.ids = ids, !.index = index, !.looked = narrowed, !.cursor = cursor]
           put == Follow(laid)
           there == {i \in DOMAIN ids : ids[i] = At(l)}
           n == Reread(l, rows, tr, read)
<1>1. n = CASE there # {} -> Follow([put EXCEPT !.cursor = CHOOSE i \in there : TRUE])
            [] there = {} /\ At(l) # Nobody /\ again -> [put EXCEPT !.cursor = NoRow]
            [] OTHER -> put
  BY DEF Reread
<1>2. S \in SUBSET rows.there /\ S \in SUBSET Rows
  BY NarrowedAre
<1> HIDE DEF S
<1>3. Enumerates(ids, S)
  BY <1>2, InOrderIs
<1> HIDE DEF ids
<1>4. index = [i \in DOMAIN ids |-> CHOOSE at \in DOMAIN Items(rows) : Items(rows)[at] = ids[i]]
  OBVIOUS
<1> HIDE DEF n, narrowed, again, index, from, cursor, laid, put, there
<1>5. ids \in Seq(Rows) /\ FromPage(ids, index, rows)
  BY <1>2, <1>3, <1>4, IndexIs
<1>6. cursor \in Nat
  <2>1. from \in Int /\ Len(ids) \in Nat
    BY <1>5 DEF from, ListShape
  <2>2. Clamped(from, Len(ids)) \in Nat
    BY <2>1, ClampedIs, Zenon
  <2> QED
    BY <2>2 DEF cursor, NoRow
<1>7. laid = [cursor |-> cursor, top |-> l.top, ids |-> ids, index |-> index, height |-> l.height,
               filter |-> l.filter, sort |-> l.sort, marks |-> l.marks, looked |-> narrowed]
  <2>1. laid = [l EXCEPT !.ids = ids, !.index = index, !.looked = narrowed, !.cursor = cursor]
    BY DEF laid
  <2> QED
    BY <2>1 DEF ListShape
<1>8. ListShape(laid)
  BY <1>5, <1>6, <1>7 DEF ListShape
<1>9. ListShape(put) /\ InView(put) /\ ButTop(put, laid)
  BY <1>8, FollowIs DEF put
<1>10. ASSUME NEW m, ListShape(m), InView(m), m.ids = ids, m.index = index PROVE ListOK(m, rows)
  BY <1>5, <1>10 DEF ListOK
<1>11. DOMAIN ids \subseteq Nat \ {NoRow}
  BY <1>5 DEF NoRow
<1>12. put.ids = ids /\ put.index = index /\ put.marks = l.marks /\ put.looked = narrowed
  BY <1>7, <1>9 DEF ButTop
<1>13. there = {} => At(l) \notin Range(ids)
  BY DEF there, Range
<1>14. CASE there # {}
  <2>1. PICK i : i = CHOOSE j \in there : TRUE
    OBVIOUS
  <2>2. i \in DOMAIN ids /\ ids[i] = At(l)
    BY <1>14, <2>1 DEF there
  <2>3. PICK moved : moved = [put EXCEPT !.cursor = i]
    OBVIOUS
  <2>4. moved = [cursor |-> i, top |-> put.top, ids |-> put.ids, index |-> put.index, height |-> put.height,
                 filter |-> put.filter, sort |-> put.sort, marks |-> put.marks, looked |-> put.looked]
    BY <1>9, <2>3 DEF ListShape
  <2>5. ListShape(moved) /\ moved.ids = ids /\ moved.index = index /\ moved.marks = l.marks /\ moved.cursor = i
    BY <1>9, <1>11, <1>12, <2>2, <2>4 DEF ListShape
  <2>6. n = Follow(moved)
    BY <1>1, <1>14, <2>1, <2>3
  <2>7. ListShape(n) /\ InView(n) /\ ButTop(n, moved)
    BY <2>5, <2>6, FollowIs
  <2>8. n.ids = ids /\ n.index = index /\ n.marks = l.marks /\ n.cursor = i
    BY <2>5, <2>7 DEF ButTop
  <2>9. ListOK(n, rows)
    BY <1>10, <2>7, <2>8
  <2>10. At(n) = At(l)
    BY <2>2, <2>8 DEF At
  <2> QED
    BY <2>8, <2>9, <2>10 DEF n, StaysOn
<1>15. CASE there = {} /\ At(l) # Nobody /\ again
  <2>1. n = [put EXCEPT !.cursor = NoRow]
    BY <1>1, <1>15
  <2>2. n = [cursor |-> NoRow, top |-> put.top, ids |-> put.ids, index |-> put.index, height |-> put.height,
             filter |-> put.filter, sort |-> put.sort, marks |-> put.marks, looked |-> put.looked]
    BY <1>9, <2>1 DEF ListShape
  <2>3. n.ids = ids /\ n.index = index /\ n.marks = l.marks /\ n.cursor = NoRow
    BY <1>12, <2>2
  <2>4. ListShape(n)
    BY <1>9, <2>2 DEF ListShape, NoRow
  <2>5. NoRow \notin DOMAIN n.ids
    BY <1>11, <2>3
  <2>6. InView(n) /\ At(n) = Nobody
    BY <2>3, <2>5 DEF InView, At
  <2>7. ListOK(n, rows)
    BY <1>10, <2>3, <2>4, <2>6
  <2>8. At(l) \notin Shown(n)
    BY <1>13, <1>15, <2>3 DEF Shown
  <2> QED
    BY <2>3, <2>6, <2>7, <2>8 DEF n, StaysOn
<1>16. CASE there = {} /\ ~(At(l) # Nobody /\ again)
  <2>1. n = put
    BY <1>1, <1>16
  <2>2. ListOK(n, rows)
    BY <1>9, <1>10, <1>12, <2>1
  <2>3. At(l) # Nobody => At(l) \notin Shown(n) /\ n.looked # l.looked
    BY <1>12, <1>13, <1>16, <2>1 DEF again, Shown
  <2> QED
    BY <1>12, <2>1, <2>2, <2>3 DEF n, StaysOn
<1> QED
  BY <1>14, <1>15, <1>16

------------------------------------------------------------------------------
(* The list of every screen.                                               *)

(* The list of resources is under what was opened from it, and the place   *)
(* it was left is one to come back to.                                     *)
ScreenOK ==
  /\ screen = [is |-> screen.is, rows |-> screen.rows]
  /\ screen.rows.there \in SUBSET Rows
  /\ screen.is = "list" => screen.rows.there \in SUBSET Resources
  /\ history # <<>> =>
       /\ screen.is = "child" /\ history[1].rows.there \in SUBSET Resources
       /\ history[1].left.cursor \in Nat /\ history[1].left.top \in Nat

(* What an action took the marks of is what it is on.                      *)
ActionOK ==
  /\ action = [step |-> action.step, kind |-> action.kind, on |-> action.on, took |-> action.took,
               here |-> action.here]
  /\ action.kind = "marked" => action.took \subseteq action.on

ListsInv == ScreenOK /\ ActionOK /\ usage \in SUBSET Resources /\ ListOK(list, screen.rows)

(* The cursor, the marks and the window of a list that is of its page.     *)
LEMMA SeenIs ==
  ASSUME ListOK(list, screen.rows), screen.rows.there \in SUBSET Rows
  PROVE  /\ Selected = At(list) /\ Shown(list) \subseteq screen.rows.there
         /\ InWindow(list) \subseteq Shown(list) /\ ActsOnWhatIsSeen
<1>1. PICK items, index, ids : items = Items(screen.rows) /\ index = list.index /\ ids = list.ids
  OBVIOUS
<1>2. PICK there : there = screen.rows.there
  OBVIOUS
<1>3. ids \in Seq(there) /\ DOMAIN index = DOMAIN ids /\ \A i \in DOMAIN ids : items[index[i]] = ids[i]
  BY <1>1, <1>2 DEF ListOK, FromPage
<1>4. DOMAIN ids = 1 .. Len(ids) /\ Len(ids) \in Nat /\ \A i \in DOMAIN ids : ids[i] \in there
  BY <1>3
<1>5. Selected = At(list)
  BY <1>1, <1>3 DEF Selected, At
<1>6. Shown(list) = {ids[i] : i \in DOMAIN ids}
  BY <1>1 DEF Shown, Range
<1>7. Shown(list) \subseteq there /\ InWindow(list) \subseteq Shown(list)
  BY <1>1, <1>4, <1>6 DEF InWindow
<1>8. {items[index[i]] : i \in DOMAIN index} = Shown(list)
  BY <1>3, <1>6
<1>9. MarkedFrom = IF ShownMarks # {} THEN ShownMarks ELSE {At(list)} \ {Nobody}
  <2>1. {Items(screen.rows)[list.index[i]] : i \in DOMAIN list.index} \cap list.marks = ShownMarks
    BY <1>1, <1>8 DEF ShownMarks
  <2> QED
    BY <1>5, <2>1 DEF MarkedFrom
<1>10. ASSUME At(list) # Nobody PROVE At(list) \in InWindow(list)
  <2>1. PICK cursor : cursor = list.cursor
    OBVIOUS
  <2>2. cursor \in DOMAIN ids /\ At(list) = ids[cursor]
    BY <1>1, <1>10, <2>1 DEF At
  <2>3. PICK top, height : top = list.top /\ height = list.height
    OBVIOUS
  <2>4. cursor \in Nat /\ top \in Nat /\ height \in Nat /\ top < cursor /\ cursor <= top + height
    BY <1>1, <2>1, <2>2, <2>3 DEF ListOK, ListShape, InView
  <2>5. cursor \in (top + 1) .. (top + height)
    BY <2>4
  <2> QED
    BY <1>1, <2>2, <2>3, <2>5 DEF InWindow
<1> QED
  BY <1>2, <1>5, <1>7, <1>9, <1>10 DEF ActsOnWhatIsSeen

(* A field of a list that is not of its rows.                              *)
LEMMA ChangedIs ==
  ASSUME NEW l, ListShape(l), NEW filter, NEW sort, NEW marks, NEW n,
         \/ n = l
         \/ n = [l EXCEPT !.filter = filter]
         \/ n = [l EXCEPT !.sort = sort]
         \/ n = [l EXCEPT !.marks = marks]
         \/ n = [l EXCEPT !.filter = filter, !.sort = sort]
  PROVE  ListShape(n) /\ At(n) = At(l) /\ n.looked = l.looked
<1>1. /\ n.cursor = l.cursor /\ n.top = l.top /\ n.ids = l.ids /\ n.index = l.index /\ n.height = l.height
      /\ n.looked = l.looked
  BY DEF ListShape
<1>2. n = [cursor |-> n.cursor, top |-> n.top, ids |-> n.ids, index |-> n.index, height |-> n.height,
           filter |-> n.filter, sort |-> n.sort, marks |-> n.marks, looked |-> n.looked]
  <2>1. CASE n = l
    BY <2>1 DEF ListShape
  <2>2. CASE n = [l EXCEPT !.filter = filter]
    BY <2>2 DEF ListShape
  <2>3. CASE n = [l EXCEPT !.sort = sort]
    BY <2>3 DEF ListShape
  <2>4. CASE n = [l EXCEPT !.marks = marks]
    BY <2>4 DEF ListShape
  <2>5. CASE n = [l EXCEPT !.filter = filter, !.sort = sort]
    BY <2>5 DEF ListShape
  <2> QED
    BY <2>1, <2>2, <2>3, <2>4, <2>5
<1> QED
  BY <1>1, <1>2 DEF ListShape, At

(* What is read again of such a list.                                      *)
LEMMA AgainIs ==
  ASSUME NEW l, ListShape(l), NEW n, ListShape(n), At(n) = At(l), n.looked = l.looked,
         NEW rows, rows.there \in SUBSET Rows, NEW tr, NEW read \in SUBSET Resources,
         NEW after, after = Reread(n, rows, tr, read)
  PROVE  ListOK(after, rows) /\ StaysOn(after, l) /\ after.marks = n.marks
<1>1. ListOK(after, rows) /\ StaysOn(after, n) /\ after.marks = n.marks
  BY RereadIs
<1> QED
  BY <1>1 DEF StaysOn

------------------------------------------------------------------------------
(* Each step keeps the invariant, and the cursor on its resource.          *)

Kept == ListsInv' /\ (screen'.is = screen.is /\ (~\E by \in {-1, 1} : Move(by)) => StaysOn(list', list))

LEMMA SameScreen ==
  ASSUME ListsInv, UNCHANGED <<screen, history>>
  PROVE  ScreenOK' /\ screen'.rows = screen.rows /\ screen.rows.there \in SUBSET Rows
BY DEF ListsInv, ScreenOK

LEMMA SameAction ==
  ASSUME ListsInv, UNCHANGED action
  PROVE  ActionOK'
BY DEF ListsInv, ActionOK

LEMMA AnswerKeeps ==
  ASSUME ListsInv, Answer
  PROVE  Kept
<1>1. PICK rows \in Answers :
        screen' = [screen EXCEPT !.rows =
                     IF screen.is = "list" THEN rows ELSE [there |-> {Child}, trouble |-> {}]]
  BY DEF Answer
<1>2. PICK now : now = IF screen.is = "list" THEN rows ELSE [there |-> {Child}, trouble |-> {}]
  OBVIOUS
<1>3. rows.there \in SUBSET Resources
  BY DEF Answers
<1>4. now.there \in SUBSET Rows /\ (screen.is = "list" => now.there \in SUBSET Resources)
  BY <1>2, <1>3, RowsAre
<1>5. screen' = [is |-> screen.is, rows |-> now]
  BY <1>1, <1>2 DEF ListsInv, ScreenOK
<1>6. ScreenOK'
  BY <1>4, <1>5 DEF Answer, ListsInv, ScreenOK
<1>7. list' = Reread(list, now, troubled, usage)
  BY <1>5 DEF Answer
<1>8. ListShape(list) /\ usage \in SUBSET Resources
  BY DEF ListsInv, ListOK
<1>9. ListOK(list', now) /\ StaysOn(list', list)
  BY <1>4, <1>7, <1>8, RereadIs
<1>10. screen'.rows = now /\ usage' = usage /\ ActionOK'
  BY <1>5, SameAction DEF Answer
<1> QED
  BY <1>6, <1>8, <1>9, <1>10 DEF Kept, ListsInv

LEMMA ReadingKeeps ==
  ASSUME ListsInv, Reading
  PROVE  Kept
<1>1. PICK answered \in SUBSET InWindow(list) :
        usage' = usage \cup answered /\ list' = Reread(list, screen.rows, troubled, usage')
  BY DEF Reading
<1>2. ScreenOK' /\ ActionOK' /\ screen'.rows = screen.rows /\ screen.rows.there \in SUBSET Rows
  BY SameScreen, SameAction DEF Reading
<1>3. ListOK(list, screen.rows)
  BY DEF ListsInv
<1>4. usage' \in SUBSET Resources
  <2>1. screen.rows.there \in SUBSET Resources
    BY DEF Reading, ListsInv, ScreenOK
  <2>2. InWindow(list) \subseteq screen.rows.there
    BY <1>2, <1>3, SeenIs
  <2> QED
    BY <1>1, <2>1, <2>2 DEF ListsInv
<1>5. ListShape(list)
  BY <1>3 DEF ListOK
<1>6. ListOK(list', screen.rows) /\ StaysOn(list', list)
  BY <1>1, <1>2, <1>4, <1>5, RereadIs
<1> QED
  BY <1>2, <1>4, <1>6 DEF Kept, ListsInv

LEMMA TroubledKeeps ==
  ASSUME ListsInv, Troubled
  PROVE  Kept
<1>1. ScreenOK' /\ ActionOK' /\ screen'.rows = screen.rows /\ screen.rows.there \in SUBSET Rows
  BY SameScreen, SameAction DEF Troubled
<1>2. ListShape(list) /\ usage \in SUBSET Resources /\ usage' = usage
  BY DEF Troubled, ListsInv, ListOK
<1>3. list' = Reread(list, screen.rows, troubled', usage)
  BY DEF Troubled
<1>4. ListOK(list', screen.rows) /\ StaysOn(list', list)
  BY <1>1, <1>2, <1>3, RereadIs
<1> QED
  BY <1>1, <1>2, <1>4 DEF Kept, ListsInv

(* A list of which something else changed, laid out again.                 *)
LEMMA RelaidKeeps ==
  ASSUME ListsInv, UNCHANGED <<screen, history, usage>>, ActionOK',
         NEW l, ListShape(l), At(l) = At(list), l.looked = list.looked, list' = Relaid(l)
  PROVE  Kept /\ list'.marks = l.marks
<1>1. ScreenOK' /\ screen'.rows = screen.rows /\ screen.rows.there \in SUBSET Rows
  BY SameScreen
<1>2. ListShape(list) /\ usage \in SUBSET Resources
  BY DEF ListsInv, ListOK
<1>3. list' = Reread(l, screen.rows, troubled, usage)
  BY DEF Relaid
<1>4. ListOK(list', screen.rows) /\ StaysOn(list', list) /\ list'.marks = l.marks
  BY <1>1, <1>2, <1>3, AgainIs
<1> QED
  BY <1>1, <1>2, <1>4 DEF Kept, ListsInv

LEMMA ChoiceKeeps ==
  ASSUME ListsInv, Filter \/ Mark \/ MarkAll \/ \E column \in Columns : SortBy(column)
  PROVE  Kept
<1>1. Quiet /\ ActionOK'
  <2>1. Quiet
    BY DEF Filter, Mark, MarkAll, SortBy
  <2> QED
    BY <2>1, SameAction DEF Quiet
<1>2. ListShape(list)
  BY DEF ListsInv, ListOK
<1>3. PICK filter, sort, marks, l :
        /\ \/ l = [list EXCEPT !.filter = filter]
           \/ l = [list EXCEPT !.sort = sort]
           \/ l = [list EXCEPT !.marks = marks]
        /\ list' = Relaid(l)
  <2>1. CASE Filter
    BY <2>1 DEF Filter
  <2>2. CASE Mark
    BY <2>2 DEF Mark
  <2>3. CASE MarkAll
    BY <2>3 DEF MarkAll
  <2>4. CASE \E column \in Columns : SortBy(column)
    BY <2>4 DEF SortBy
  <2> QED
    BY <2>1, <2>2, <2>3, <2>4
<1>4. ListShape(l) /\ At(l) = At(list) /\ l.looked = list.looked
  BY <1>2, <1>3, ChangedIs
<1> QED
  BY <1>1, <1>3, <1>4, RelaidKeeps DEF Quiet

LEMMA MoveKeeps ==
  ASSUME ListsInv, NEW by \in {-1, 1}, Move(by)
  PROVE  Kept
<1>1. ScreenOK' /\ ActionOK' /\ screen'.rows = screen.rows /\ usage' = usage
  BY SameScreen, SameAction DEF Move, Quiet
<1>2. PICK l : l = [list EXCEPT !.cursor = Clamped(list.cursor + by, Len(list.ids))]
  OBVIOUS
<1>3. ListShape(list) /\ FromPage(list.ids, list.index, screen.rows)
  BY DEF ListsInv, ListOK
<1>4. PICK to : to = Clamped(list.cursor + by, Len(list.ids))
  OBVIOUS
<1>5. to \in Nat
  <2>1. list.cursor + by \in Int /\ Len(list.ids) \in Nat
    BY <1>3 DEF ListShape
  <2> QED
    BY <1>4, <2>1, ClampedIs
<1>6. l = [cursor |-> to, top |-> list.top, ids |-> list.ids, index |-> list.index, height |-> list.height,
           filter |-> list.filter, sort |-> list.sort, marks |-> list.marks, looked |-> list.looked]
  BY <1>2, <1>3, <1>4 DEF ListShape
<1>7. ListShape(l) /\ l.ids = list.ids /\ l.index = list.index
  BY <1>3, <1>5, <1>6 DEF ListShape
<1>8. list' = Follow(l)
  BY <1>2 DEF Move
<1>9. ListShape(list') /\ InView(list') /\ ButTop(list', l)
  BY <1>7, <1>8, FollowIs
<1>10. ListOK(list', screen.rows)
  BY <1>3, <1>7, <1>9 DEF ListOK, ButTop
<1>11. \E b \in {-1, 1} : Move(b)
  OBVIOUS
<1> QED
  BY <1>1, <1>10, <1>11 DEF Kept, ListsInv

LEMMA ResizedKeeps ==
  ASSUME ListsInv, NEW height \in Heights, Resized(height)
  PROVE  Kept
<1>1. Quiet /\ ActionOK'
  BY SameAction DEF Resized, Quiet
<1>2. ListShape(list) /\ height \in Nat \ {0}
  BY ListsAssumption DEF ListsInv, ListOK
<1>3. PICK l : l = [list EXCEPT !.height = height]
  OBVIOUS
<1>4. l = [cursor |-> list.cursor, top |-> list.top, ids |-> list.ids, index |-> list.index, height |-> height,
           filter |-> list.filter, sort |-> list.sort, marks |-> list.marks, looked |-> list.looked]
  BY <1>2, <1>3 DEF ListShape
<1>5. ListShape(l) /\ l.cursor = list.cursor /\ l.ids = list.ids /\ l.looked = list.looked
  BY <1>2, <1>4 DEF ListShape
<1>6. PICK n : n = Follow(l)
  OBVIOUS
<1>7. ListShape(n) /\ ButTop(n, l)
  BY <1>5, <1>6, FollowIs
<1>8. At(n) = At(list) /\ n.looked = list.looked
  BY <1>5, <1>7 DEF ButTop, At
<1>9. list' = Relaid(n)
  BY <1>3, <1>6 DEF Resized
<1> QED
  BY <1>1, <1>7, <1>8, <1>9, RelaidKeeps DEF Quiet

Unmarked ==
  /\ list.marks \ list'.marks \subseteq action.on
  /\ ~action.here => list'.marks \subseteq list.marks

(* What an action on the marked rows did is what loses its marks.          *)
LEMMA EndsKeeps ==
  ASSUME ListsInv, ListEnds
  PROVE  Kept /\ (action.kind = "marked" => Unmarked)
<1>1. PICK failed \in SUBSET action.on : list' = Relaid([list EXCEPT !.marks = Done(failed)])
  BY DEF ListEnds
<1>2. ActionOK' /\ UNCHANGED <<screen, history, usage>>
  BY DEF ListEnds, ActionOK, Idle
<1>3. ListShape(list)
  BY DEF ListsInv, ListOK
<1>4. PICK l, marks : l = [list EXCEPT !.marks = marks] /\ marks = Done(failed)
  OBVIOUS
<1>5. ListShape(l) /\ At(l) = At(list) /\ l.looked = list.looked
  BY <1>3, <1>4, ChangedIs
<1>6. l.marks = marks
  BY <1>3, <1>4 DEF ListShape
<1>7. Kept /\ list'.marks = marks
  BY <1>1, <1>2, <1>4, <1>5, <1>6, RelaidKeeps
<1>8. ASSUME action.kind = "marked" PROVE Unmarked
  <2>1. action.took \subseteq action.on
    BY <1>8 DEF ListsInv, ActionOK
  <2>2. marks = IF action.here THEN (list.marks \ action.took) \cup failed ELSE list.marks \ (action.on \ failed)
    BY <1>4, <1>8 DEF Done
  <2> QED
    BY <1>7, <2>1, <2>2 DEF Unmarked
<1> QED
  BY <1>7, <1>8

LEMMA AskedKeeps ==
  ASSUME ListsInv, No \/ Yes \/ \E kind \in {"marked", "fitting", "one"} : Ask(kind)
  PROVE  Kept
<1>1. UNCHANGED <<screen, history, list, usage>>
  BY DEF No, Yes, Ask
<1>2. ScreenOK' /\ screen'.rows = screen.rows /\ screen.rows.there \in SUBSET Rows
  BY <1>1, SameScreen
<1>3. ActionOK'
  <2>1. CASE No
    BY <2>1 DEF No, ActionOK, Idle
  <2>2. CASE Yes
    <3>1. action' = [action EXCEPT !.step = "sent"]
      BY <2>2 DEF Yes
    <3> QED
      BY <3>1 DEF ListsInv, ActionOK
  <2>3. ASSUME NEW kind \in {"marked", "fitting", "one"}, Ask(kind) PROVE ActionOK'
    <3>1. action' = [step |-> "asked", kind |-> kind, on |-> On(kind), took |-> ShownMarks, here |-> TRUE]
      BY <2>3 DEF Ask
    <3>2. kind = "marked" => On(kind) = MarkedFrom
      BY DEF On
    <3>3. ShownMarks \subseteq MarkedFrom
      <4>1. ActsOnWhatIsSeen
        BY <1>2, SeenIs DEF ListsInv
      <4> QED
        BY <4>1 DEF ActsOnWhatIsSeen
    <3> QED
      BY <3>1, <3>2, <3>3 DEF ActionOK
  <2> QED
    BY <2>1, <2>2, <2>3
<1>4. StaysOn(list', list)
  BY <1>1 DEF StaysOn
<1> QED
  BY <1>1, <1>2, <1>3, <1>4 DEF Kept, ListsInv

LEMMA LeftAction ==
  ASSUME ListsInv, action' = [action EXCEPT !.here = FALSE]
  PROVE  ActionOK'
BY DEF ListsInv, ActionOK

(* enter: a new table over the rows the screen has.                        *)
LEMMA EnteredIs ==
  ASSUME ListShape(list), NEW rows, rows.there \in SUBSET Rows
  PROVE  ListOK(Entered(rows), rows)
<1>1. PICK l : l = NewTable([list EXCEPT !.filter = FALSE, !.sort = NoSort, !.marks = {}])
  OBVIOUS
<1>2. PICK left : left = [list EXCEPT !.filter = FALSE, !.sort = NoSort, !.marks = {}]
  OBVIOUS
<1>3. left = [cursor |-> list.cursor, top |-> list.top, ids |-> list.ids, index |-> list.index,
              height |-> list.height, filter |-> FALSE, sort |-> NoSort, marks |-> {}, looked |-> list.looked]
  BY <1>2 DEF ListShape
<1>4. l = [left EXCEPT !.cursor = 1, !.top = 0, !.ids = <<>>, !.index = <<>>]
  BY <1>1, <1>2 DEF NewTable
<1>5. l = [cursor |-> 1, top |-> 0, ids |-> <<>>, index |-> <<>>, height |-> list.height,
           filter |-> FALSE, sort |-> NoSort, marks |-> {}, looked |-> list.looked]
  BY <1>3, <1>4
<1>6. list.height \in Nat \ {0}
  BY DEF ListShape
<1>7. ListShape(l)
  BY <1>5, <1>6 DEF ListShape
<1>8. Entered(rows) = Reread(l, rows, troubled, {})
  BY <1>1 DEF Entered
<1> QED
  BY <1>7, <1>8, RereadIs

LEMMA OpenKeeps ==
  ASSUME ListsInv, Open
  PROVE  Kept
<1>1. ListShape(list)
  BY DEF ListsInv, ListOK
<1>2. screen' = [is |-> "child", rows |-> NoRead] /\ NoRead.there = {} /\ usage' = {}
  BY DEF Open, NoRead
<1>3. ScreenOK'
  <2>1. history' = <<[rows |-> screen.rows, left |-> Left]>> /\ screen.rows.there \in SUBSET Resources
    BY DEF Open, ListsInv, ScreenOK
  <2>2. Left.cursor \in Nat /\ Left.top \in Nat
    BY <1>1 DEF Left, ListShape
  <2> QED
    BY <1>2, <2>1, <2>2 DEF ScreenOK
<1>4. ActionOK'
  BY LeftAction DEF Open
<1>5. ListOK(list', NoRead)
  <2>1. ListOK(Entered(NoRead), NoRead)
    BY <1>1, <1>2, EnteredIs
  <2> QED
    BY <2>1 DEF Open
<1>6. screen'.is # screen.is
  BY <1>2 DEF Open
<1> QED
  BY <1>2, <1>3, <1>4, <1>5, <1>6 DEF Kept, ListsInv

(* back, returnTo: the cursor on the row number it was left on.            *)
LEMMA BackKeeps ==
  ASSUME ListsInv, Back
  PROVE  Kept
<1>1. ListShape(list)
  BY DEF ListsInv, ListOK
<1>2. PICK rows, left : rows = history[1].rows /\ left = history[1].left
  OBVIOUS
<1>3. /\ screen.is = "child" /\ rows.there \in SUBSET Resources
      /\ left.cursor \in Nat /\ left.top \in Nat
  BY <1>2 DEF Back, ListsInv, ScreenOK
<1>4. rows.there \in SUBSET Rows
  BY <1>3, RowsAre
<1>5. screen' = [is |-> "list", rows |-> rows] /\ history' = <<>> /\ usage' = {}
  BY <1>2 DEF Back
<1>6. ScreenOK'
  BY <1>3, <1>4, <1>5 DEF ScreenOK
<1>7. ActionOK'
  BY LeftAction DEF Back
<1>8. PICK l : l = Entered(rows)
  OBVIOUS
<1>9. ListShape(l)
  BY <1>1, <1>4, <1>8, EnteredIs DEF ListOK
<1>10. PICK n : n = [l EXCEPT !.filter = left.filter, !.sort = left.sort]
  OBVIOUS
<1>11. ListShape(n)
  BY <1>9, <1>10, ChangedIs
<1>12. PICK again : again = Reread(n, rows, troubled, {})
  OBVIOUS
<1>13. ListShape(again) /\ FromPage(again.ids, again.index, rows)
  BY <1>4, <1>11, <1>12, RereadIs DEF ListOK
<1>14. PICK to : to = [again EXCEPT !.cursor = left.cursor, !.top = left.top]
  OBVIOUS
<1>15. to = [cursor |-> left.cursor, top |-> left.top, ids |-> again.ids, index |-> again.index,
             height |-> again.height, filter |-> again.filter, sort |-> again.sort, marks |-> again.marks,
             looked |-> again.looked]
  BY <1>13, <1>14 DEF ListShape
<1>16. ListShape(to) /\ to.ids = again.ids /\ to.index = again.index
  BY <1>3, <1>13, <1>15 DEF ListShape
<1>17. list' = Follow(to)
  BY <1>2, <1>8, <1>10, <1>12, <1>14 DEF Back, ReturnedTo
<1>18. ListShape(list') /\ InView(list') /\ ButTop(list', to)
  BY <1>16, <1>17, FollowIs
<1>19. ListOK(list', rows)
  BY <1>13, <1>16, <1>18 DEF ListOK, ButTop
<1>20. screen'.is # screen.is
  BY <1>3, <1>5
<1> QED
  BY <1>5, <1>6, <1>7, <1>19, <1>20 DEF Kept, ListsInv

LEMMA FirstList == ListsInit => ListsInv
<1> SUFFICES ASSUME ListsInit PROVE ListsInv
  OBVIOUS
<1>1. PICK height \in Heights : list = NewList(height)
  BY DEF ListsInit
<1>2. height \in Nat \ {0}
  BY ListsAssumption
<1>3. PICK there : there = screen.rows.there
  OBVIOUS
<1>4. screen = [is |-> "list", rows |-> NoRead] /\ there = {}
  BY <1>3 DEF ListsInit, NoRead
<1>5. ScreenOK
  BY <1>3, <1>4 DEF ListsInit, ScreenOK
<1>6. ActionOK /\ usage \in SUBSET Resources
  BY DEF ListsInit, ActionOK, Idle
<1>7. ListShape(list) /\ list.ids = <<>> /\ list.index = <<>>
  BY <1>1, <1>2 DEF NewList, ListShape
<1>8. InView(list)
  BY <1>7 DEF InView
<1>9. FromPage(list.ids, list.index, screen.rows)
  BY <1>7 DEF FromPage
<1> QED
  BY <1>5, <1>6, <1>7, <1>8, <1>9 DEF ListsInv, ListOK

LEMMA StepKeeps ==
  ASSUME ListsInv, ListsNext
  PROVE  Kept
<1>1. CASE Answer
  BY <1>1, AnswerKeeps
<1>2. CASE Reading
  BY <1>2, ReadingKeeps
<1>3. CASE Troubled
  BY <1>3, TroubledKeeps
<1>4. CASE Filter \/ Mark \/ MarkAll \/ \E column \in Columns : SortBy(column)
  BY <1>4, ChoiceKeeps
<1>5. CASE No \/ Yes \/ \E kind \in {"marked", "fitting", "one"} : Ask(kind)
  BY <1>5, AskedKeeps
<1>6. CASE ListEnds
  BY <1>6, EndsKeeps
<1>7. CASE Open
  BY <1>7, OpenKeeps
<1>8. CASE Back
  BY <1>8, BackKeeps
<1>9. CASE \E by \in {-1, 1} : Move(by)
  BY <1>9, MoveKeeps
<1>10. CASE \E height \in Heights \ {list.height} : Resized(height)
  BY <1>10, ResizedKeeps
<1> QED
  BY <1>1, <1>2, <1>3, <1>4, <1>5, <1>6, <1>7, <1>8, <1>9, <1>10 DEF ListsNext

LEMMA ListsInductive == ListsInit /\ [][ListsNext]_listsVars => []ListsInv
<1>1. ListsInv /\ [ListsNext]_listsVars => ListsInv'
  <2> SUFFICES ASSUME ListsInv, [ListsNext]_listsVars PROVE ListsInv'
    OBVIOUS
  <2>1. CASE ListsNext
    BY <2>1, StepKeeps DEF Kept
  <2>2. CASE UNCHANGED listsVars
    BY <2>2 DEF listsVars, ListsInv, ScreenOK, ActionOK, ListOK
  <2> QED
    BY <2>1, <2>2
<1> QED
  BY <1>1, FirstList, PTL

------------------------------------------------------------------------------
(* A key acts on the marks that are drawn or, with none, on the row of the *)
(* cursor, which is in the window (page.go, markedFrom; table.go, follow): *)
(* for every number of resources, every order and every height.            *)
THEOREM ActsOnSeen == ListsInit /\ [][ListsNext]_listsVars => []ActsOnWhatIsSeen
<1>1. ListsInv => ActsOnWhatIsSeen
  BY SeenIs DEF ListsInv, ScreenOK
<1> QED
  BY <1>1, ListsInductive, PTL

(* Whatever is answered, read, narrowed, ordered or marked, the cursor is  *)
(* on the resource it was on while the list shows it; when that went by    *)
(* itself the cursor is on none (list.go, read).                           *)
THEOREM StaysOnItsResource == ListsInit /\ [][ListsNext]_listsVars => CursorStaysOnItsResource
<1> DEFINE Moving == \E by \in {-1, 1} : Move(by)
           Step == (At(list) # Nobody /\ screen'.is = screen.is /\ ~Moving) =>
                     \/ At(list') = At(list)
                     \/ At(list) \notin Shown(list') /\ (At(list') = Nobody \/ list'.looked # list.looked)
<1>1. ListsInv /\ [ListsNext]_listsVars => [Step]_listsVars
  <2> SUFFICES ASSUME ListsInv, ListsNext PROVE Step
    OBVIOUS
  <2>1. Kept
    BY StepKeeps
  <2> QED
    BY <2>1 DEF Kept, StaysOn
<1>2. CursorStaysOnItsResource <=> [][Step]_listsVars
  BY PTL DEF CursorStaysOnItsResource
<1> QED
  BY <1>1, <1>2, ListsInductive, PTL

(* Of an action on all the marked rows, what it did is unmarked and nothing*)
(* else: a mark the filter hid, one put on meanwhile and one of what failed*)
(* stay (actions.go, doneMsg).                                             *)
THEOREM UnmarksDone == ListsInit /\ [][ListsNext]_listsVars => UnmarksWhatItDid
<1> DEFINE Step == (action.kind = "marked" /\ ListEnds) =>
                     /\ list.marks \ list'.marks \subseteq action.on
                     /\ (~action.here => list'.marks \subseteq list.marks)
<1>1. ListsInv /\ [ListsNext]_listsVars => [Step]_listsVars
  BY EndsKeeps DEF Unmarked
<1>2. UnmarksWhatItDid <=> [][Step]_listsVars
  BY PTL DEF UnmarksWhatItDid
<1> QED
  BY <1>1, <1>2, ListsInductive, PTL

------------------------------------------------------------------------------
(* The tables of the pages.                                                *)

(* The pages that are of one thing in a namespace, and those of none. A    *)
(* description may be of either, and the logs of a list be of all of them. *)
Placed == {"launches", "job", "jobAllocations", "taskGroups", "jobMeta", "versions", "plan", "deployment",
           "deployWatch", "tasks", "taskEvents", "logs", "files", "file", "serviceInstances", "variable",
           "volume", "scaling", "subjectEvents"}
Unplaced == Views \cup {"poolJobs", "client", "machine", "nodeMeta", "plugin", "server", "poolQueue", "find"}

(* The pages whose rows are in a namespace.                                *)
WithRows == Placed \cup {"jobs", "allocations", "namespaceTasks", "deployments", "services", "variables", "volumes",
                         "scalingPolicies", "evaluations", "overview", "feed", "find", "poolJobs", "client", "queue",
                         "poolQueue", "plugin", "nodes"}

(* What a key opens that is of the namespace it acts in.                   *)
Linked == Placed \cup {"describe", "jobLogs"}

(* What a key of a page does in read-only mode, and where it acts.         *)
Suits(name, key) ==
  /\ key = [press |-> key.press, does |-> key.does, to |-> key.to, at |-> key.at, writes |-> key.writes,
            offered |-> key.offered]
  /\ ~key.writes => key.does \in {"open", "switch", "stay"} /\ key.to # "plan"
  /\ key.does = "open" =>
       \/ key.at = "row" /\ name \in WithRows /\ key.to \in Linked
       \/ key.at = "page" /\ name \in Placed \cup {"describe"} /\ key.to \in Linked
       \/ key.at = "page" /\ name \in {"allocations", "client"} /\ key.to = "jobLogs"
       \/ key.at = "cluster" /\ key.to \in Unplaced \cup {"describe"}
  /\ key.does = "switch" => key.at = "row" /\ name \in WithRows /\ key.to = "jobs"
  /\ key.does \notin {"open", "switch", "stay"} =>
       \/ key.at = "row" /\ name \in WithRows
       \/ key.at = "page" /\ name \in Placed /\ key.to # "plan"
       \/ key.at = "cluster" /\ key.to # "plan"
       \/ key.at \in {"session", "file"} /\ key.press = "n" /\ key.writes /\ (key.to = "plan" => key.at = "file")

(* The ways a key is written down.                                         *)
Here(name, at) == (at = "row" /\ name \in WithRows) \/ (at = "page" /\ name \in Placed)

LEMMA WritingIs ==
  ASSUME NEW press, NEW does, NEW to, NEW at
  PROVE  Writing(Key(press, does, to, at)) =
           [press |-> press, does |-> does, to |-> to, at |-> at, writes |-> TRUE, offered |-> TRUE]
<1>1. PICK key : key = [press |-> press, does |-> does, to |-> to, at |-> at, writes |-> FALSE, offered |-> TRUE]
  OBVIOUS
<1>2. PICK yes, n : yes = TRUE /\ n = [key EXCEPT !.writes = yes]
  OBVIOUS
<1>3. n = [press |-> press, does |-> does, to |-> to, at |-> at, writes |-> yes, offered |-> TRUE]
  BY <1>1, <1>2
<1> QED
  BY <1>1, <1>2, <1>3, Zenon DEF Writing, Key

LEMMA OpensSuit ==
  /\ \A name, press : Suits(name, Stays(press))
  /\ \A name, press, to, at : Here(name, at) /\ to \in Linked /\ to # "plan" => Suits(name, Opens(press, to, at))
  /\ \A name, press, to : to \in Unplaced \cup {"describe"} => Suits(name, Opens(press, to, "cluster"))
  /\ \A press, to : to \in Linked /\ to # "plan" => Suits("describe", Opens(press, to, "page"))
  /\ \A name \in {"allocations", "client"} : \A press : Suits(name, Opens(press, "jobLogs", "page"))
  /\ \A name, press, at : Here(name, at) => Suits(name, Plans(press, at))
  /\ \A name, key, offered : Suits(name, key) => Suits(name, When(key, offered))
<1>1. \A to \in Unplaced \cup {"describe"} : to # "plan"
  BY DEF Unplaced, Views
<1>2. "plan" \in Linked
  BY DEF Linked, Placed
<1>3. ASSUME NEW name, NEW press PROVE Suits(name, Stays(press))
  BY DEF Suits, Stays, Key
<1>4. ASSUME NEW name, NEW press, NEW to, NEW at, Here(name, at), to \in Linked, to # "plan"
      PROVE  Suits(name, Opens(press, to, at))
  BY <1>4 DEF Suits, Here, Opens, Key
<1>5. ASSUME NEW name, NEW press, NEW to \in Unplaced \cup {"describe"} PROVE Suits(name, Opens(press, to, "cluster"))
  BY <1>1 DEF Suits, Opens, Key
<1>6. ASSUME NEW name, NEW press, NEW at, Here(name, at) PROVE Suits(name, Plans(press, at))
  <2>1. PICK key : key = Plans(press, at)
    OBVIOUS
  <2>2. key = [press |-> press, does |-> "open", to |-> "plan", at |-> at, writes |-> TRUE, offered |-> TRUE]
    BY <2>1, WritingIs, Zenon DEF Plans, Opens
  <2>3. Suits(name, key)
    BY <1>2, <1>6, <2>2 DEF Suits, Here
  <2> QED
    BY <2>1, <2>3
<1>7. ASSUME NEW name, NEW key, NEW offered, Suits(name, key) PROVE Suits(name, When(key, offered))
  <2>1. PICK n : n = When(key, offered)
    OBVIOUS
  <2>2. n = [key EXCEPT !.offered = offered]
    BY <2>1, Zenon DEF When
  <2>3. /\ n.press = key.press /\ n.does = key.does /\ n.to = key.to /\ n.at = key.at /\ n.writes = key.writes
        /\ n = [press |-> n.press, does |-> n.does, to |-> n.to, at |-> n.at, writes |-> n.writes,
                offered |-> n.offered]
    BY <1>7, <2>2 DEF Suits
  <2>4. Suits(name, n)
    BY <1>7, <2>3 DEF Suits
  <2> QED
    BY <2>1, <2>4
<1>8. ASSUME NEW press, NEW to \in Linked, to # "plan" PROVE Suits("describe", Opens(press, to, "page"))
  BY <1>8 DEF Suits, Opens, Key
<1>9. ASSUME NEW name \in {"allocations", "client"}, NEW press PROVE Suits(name, Opens(press, "jobLogs", "page"))
  BY DEF Suits, Opens, Key
<1> QED
  BY <1>3, <1>4, <1>5, <1>6, <1>7, <1>8, <1>9

LEMMA CallsSuit ==
  ASSUME NEW name, NEW press, NEW to, NEW at, to # "plan" \/ at = "row", Here(name, at) \/ at = "cluster"
  PROVE  /\ Suits(name, Asks(press, to, at)) /\ Suits(name, Types(press, to, at))
         /\ Suits(name, TypesAndAsks(press, to, at)) /\ Suits(name, TypesAndEdits(press, to, at))
         /\ Suits(name, Forms(press, to, at)) /\ Suits(name, Edits(press, to, at)) /\ Suits(name, Does(press, to, at))
<1>1. ASSUME NEW does \in {"ask", "type", "typeask", "typeedit", "form", "edit", "do"}
      PROVE  Suits(name, Writing(Key(press, does, to, at)))
  <2>1. PICK key : key = Writing(Key(press, does, to, at))
    OBVIOUS
  <2>2. key = [press |-> press, does |-> does, to |-> to, at |-> at, writes |-> TRUE, offered |-> TRUE]
    BY <2>1, WritingIs, Zenon
  <2>3. Suits(name, key)
    BY <1>1, <2>2 DEF Suits, Here
  <2> QED
    BY <2>1, <2>3
<1> QED
  BY <1>1 DEF Asks, Types, TypesAndAsks, TypesAndEdits, Forms, Edits, Does

LEMMA NewSuit ==
  ASSUME NEW name, NEW to
  PROVE  /\ to # "plan" => Suits(name, TypesAndEdits("n", to, "session"))
         /\ Suits(name, Edits("n", to, "file"))
<1>1. PICK typed, edited : typed = TypesAndEdits("n", to, "session") /\ edited = Edits("n", to, "file")
  OBVIOUS
<1>2. /\ typed = [press |-> "n", does |-> "typeedit", to |-> to, at |-> "session", writes |-> TRUE, offered |-> TRUE]
      /\ edited = [press |-> "n", does |-> "edit", to |-> to, at |-> "file", writes |-> TRUE, offered |-> TRUE]
  BY <1>1, WritingIs, Zenon DEF TypesAndEdits, Edits
<1>3. (to # "plan" => Suits(name, typed)) /\ Suits(name, edited)
  BY <1>2 DEF Suits
<1> QED
  BY <1>1, <1>3

LEMMA JobsSuit ==
  ASSUME NEW name \in {"jobs", "poolJobs", "launches", "job"}, NEW is, NEW key \in JobsKeys(is)
  PROVE  Suits(name, key)
<1>1. Here(name, "row")
  BY DEF Here, WithRows, Placed
<1>2. /\ {"jobAllocations", "taskGroups", "jobMeta", "versions", "jobLogs", "deployWatch", "subjectEvents", "launches",
          "describe"} \subseteq Linked
  BY DEF Linked, Placed
<1>3. \A press, to : /\ Suits(name, Asks(press, to, "row")) /\ Suits(name, Forms(press, to, "row"))
                     /\ Suits(name, Edits(press, to, "row"))
  BY <1>1, CallsSuit
<1>4. \A press, to : to \in Linked /\ to # "plan" => Suits(name, Opens(press, to, "row"))
  BY <1>1, OpensSuit
<1>5. CASE key \in LaunchKeys(is) \cup DispatchKeys(is) \cup PurgeKeys(is)
  BY <1>2, <1>3, <1>4, <1>5, OpensSuit DEF LaunchKeys, DispatchKeys, PurgeKeys
<1>6. CASE key \in EvaluatingKeys(is)
  BY <1>1, <1>3, <1>6, OpensSuit DEF EvaluatingKeys
<1>7. CASE key \in JobFileKeys \cup JobTextKeys \cup PlacementKeys(is, "row") \cup MarkKeys
  BY <1>2, <1>3, <1>4, <1>7, OpensSuit, NewSuit DEF JobFileKeys, JobTextKeys, PlacementKeys, MarkKeys
<1>8. CASE key \notin LaunchKeys(is) \cup DispatchKeys(is) \cup EvaluatingKeys(is) \cup PurgeKeys(is)
                       \cup JobFileKeys \cup JobTextKeys \cup PlacementKeys(is, "row") \cup MarkKeys
  BY <1>2, <1>4, <1>8, OpensSuit DEF JobsKeys
<1> QED
  BY <1>5, <1>6, <1>7, <1>8

LEMMA TaskGroupsSuit ==
  ASSUME NEW name \in {"taskGroups"}, NEW is, NEW key \in TaskGroupKeys(is)
  PROVE  Suits(name, key)
<1>1. name \in Placed /\ name \in WithRows /\ {"describe", "jobAllocations", "jobLogs", "scaling"} \subseteq Linked
  BY DEF WithRows, Linked, Placed, Unplaced, Views
<1> QED
  BY <1>1, OpensSuit, CallsSuit, NewSuit DEF Here, TaskGroupKeys, ScaleKeys, PlacementKeys

LEMMA VersionsSuit ==
  ASSUME NEW name \in {"versions"}, NEW is, NEW key \in VersionKeys(is)
  PROVE  Suits(name, key)
<1>1. name \in Placed /\ name \in WithRows /\ {"describe"} \subseteq Linked
  BY DEF WithRows, Linked, Placed, Unplaced, Views
<1> QED
  BY <1>1, OpensSuit, CallsSuit, NewSuit DEF Here, VersionKeys

LEMMA PlansSuit ==
  ASSUME NEW name \in {"plan"}, NEW is, NEW key \in PlanKeys(is)
  PROVE  Suits(name, key)
<1>1. name \in Placed /\ name \in WithRows
  BY DEF WithRows, Linked, Placed, Unplaced, Views
<1> QED
  BY <1>1, OpensSuit, CallsSuit, NewSuit DEF Here, PlanKeys, TextKeys, FindKeys

LEMMA AllocsSuit ==
  ASSUME NEW name \in {"allocations", "jobAllocations", "client", "volume", "deployment", "deployWatch"}, NEW is, NEW key \in AllocKeys
  PROVE  Suits(name, key)
<1>1. name \in WithRows /\ {"describe", "jobLogs", "subjectEvents", "tasks"} \subseteq Linked /\ name \in Placed \cup {"allocations", "client"}
  BY DEF WithRows, Linked, Placed, Unplaced, Views
<1> QED
  BY <1>1, OpensSuit, CallsSuit, NewSuit DEF Here, AllocKeys, MarkKeys

LEMMA HolderSuit ==
  ASSUME NEW name, NEW is, NEW at, Here(name, at), NEW active, NEW key \in HolderKeys(is, at, active)
  PROVE  Suits(name, key)
<1>1. \A press, to : to # "plan" => Suits(name, Asks(press, to, at))
  BY CallsSuit
<1> QED
  BY <1>1, OpensSuit DEF HolderKeys

LEMMA DeploymentsSuit ==
  ASSUME NEW name \in {"deployments"}, NEW is, NEW key \in DeploymentsKeys(is)
  PROVE  Suits(name, key)
<1>1. name \in WithRows /\ {"deployment", "describe"} \subseteq Linked
  BY DEF WithRows, Linked, Placed, Unplaced, Views
<1> QED
  BY <1>1, OpensSuit, CallsSuit, NewSuit DEF Here, DeploymentsKeys, HolderKeys

LEMMA DeploymentSuit ==
  ASSUME NEW name \in {"deployment", "deployWatch"}, NEW is, NEW key \in DeploymentKeys(is)
  PROVE  Suits(name, key)
<1>1. Here(name, "page")
  BY DEF Here, Placed
<1>2. \A press, to : to # "plan" => Suits(name, Asks(press, to, "page"))
  BY <1>1, CallsSuit
<1>3. CASE key \in AllocKeys
  BY <1>3, AllocsSuit
<1>4. CASE key \in HolderKeys(is, "page", Active(is))
  BY <1>1, <1>4, HolderSuit
<1>5. CASE key \in HealthKeys(is)
  BY <1>2, <1>5, OpensSuit DEF HealthKeys
<1>6. CASE key \notin AllocKeys \cup HolderKeys(is, "page", Active(is)) \cup HealthKeys(is)
  <2>1. /\ Suits(name, When(Asks("p", "promoteGroup", "page"), Active(is) /\ "waits" \in is))
        /\ Suits(name, When(Asks("ctrl+p", "promote", "page"), Active(is) /\ "waits" \in is))
    BY <1>2, OpensSuit
  <2> QED
    BY <1>6, <2>1 DEF DeploymentKeys
<1> QED
  BY <1>3, <1>4, <1>5, <1>6

LEMMA TaskSuit ==
  ASSUME NEW name \in {"tasks", "namespaceTasks"}, NEW is, NEW key \in TaskKeys(is)
  PROVE  Suits(name, key)
<1>1. name \in WithRows /\ {"files", "logs", "subjectEvents", "taskEvents"} \subseteq Linked
  BY DEF WithRows, Linked, Placed, Unplaced, Views
<1> QED
  BY <1>1, OpensSuit, CallsSuit, NewSuit DEF Here, TaskKeys, TaskEventKeys, RunKeys

LEMMA TasksSuit ==
  ASSUME NEW name \in {"tasks"}, NEW is, NEW key \in TasksKeys(is)
  PROVE  Suits(name, key)
<1>1. CASE key \in TaskKeys(is)
  BY <1>1, TaskSuit
<1>2. CASE key \notin TaskKeys(is)
  <2>1. name \in Placed /\ name \in WithRows /\ {"describe", "tasks"} \subseteq Linked /\ {"client"} \subseteq Unplaced
    BY DEF WithRows, Linked, Placed, Unplaced, Views
  <2> QED
    BY <1>2, <2>1, OpensSuit, CallsSuit DEF Here, TasksKeys
<1> QED
  BY <1>1, <1>2

LEMMA DescribeSuit ==
  ASSUME NEW name \in {"describe"}, NEW is, NEW key \in DescribeKeys(is)
  PROVE  Suits(name, key)
<1>1. {"jobAllocations"} \subseteq Linked /\ "jobAllocations" \in Placed
  BY DEF WithRows, Linked, Placed, Unplaced, Views
<1> QED
  BY <1>1, OpensSuit, CallsSuit, NewSuit DEF Here, DescribeKeys, TextKeys, FindKeys

LEMMA LogsSuit ==
  ASSUME NEW name \in {"logs"}, NEW is, NEW key \in LogsKeys(is)
  PROVE  Suits(name, key)
<1>1. name \in Placed /\ name \in WithRows /\ {"logs"} \subseteq Linked
  BY DEF WithRows, Linked, Placed, Unplaced, Views
<1> QED
  BY <1>1, OpensSuit, CallsSuit, NewSuit DEF Here, LogsKeys, TextKeys, FindKeys

LEMMA JobLogsSuit ==
  ASSUME NEW name \in {"jobLogs"}, NEW is, NEW key \in JobLogsKeys(is)
  PROVE  Suits(name, key)
BY OpensSuit, CallsSuit, NewSuit DEF Here, JobLogsKeys, TextKeys, FindKeys

LEMMA AgentLogsSuit ==
  ASSUME NEW name \in {"agentLogs"}, NEW is, NEW key \in AgentLogsKeys(is)
  PROVE  Suits(name, key)
BY OpensSuit, CallsSuit, NewSuit DEF Here, AgentLogsKeys, TextKeys, FindKeys

LEMMA FilesSuit ==
  ASSUME NEW name \in {"files"}, NEW is, NEW key \in FilesKeys(is)
  PROVE  Suits(name, key)
<1>1. name \in Placed /\ name \in WithRows /\ {"file", "files"} \subseteq Linked
  BY DEF WithRows, Linked, Placed, Unplaced, Views
<1> QED
  BY <1>1, OpensSuit, CallsSuit, NewSuit DEF Here, FilesKeys

LEMMA FileSuit ==
  ASSUME NEW name \in {"file"}, NEW is, NEW key \in FileKeys(is)
  PROVE  Suits(name, key)
<1>1. name \in Placed /\ name \in WithRows
  BY DEF WithRows, Linked, Placed, Unplaced, Views
<1> QED
  BY <1>1, OpensSuit, CallsSuit, NewSuit DEF Here, FileKeys, TextKeys, FindKeys

LEMMA ServicesSuit ==
  ASSUME NEW name \in {"services"}, NEW is, NEW key \in ServicesKeys
  PROVE  Suits(name, key)
<1>1. name \in WithRows /\ {"describe", "serviceInstances"} \subseteq Linked
  BY DEF WithRows, Linked, Placed, Unplaced, Views
<1> QED
  BY <1>1, OpensSuit, CallsSuit, NewSuit DEF Here, ServicesKeys

LEMMA InstancesSuit ==
  ASSUME NEW name \in {"serviceInstances"}, NEW is, NEW key \in ServiceInstanceKeys(is)
  PROVE  Suits(name, key)
<1>1. name \in Placed /\ name \in WithRows /\ {"tasks"} \subseteq Linked
  BY DEF WithRows, Linked, Placed, Unplaced, Views
<1> QED
  BY <1>1, OpensSuit, CallsSuit, NewSuit DEF Here, ServiceInstanceKeys

LEMMA VariableFilesSuit ==
  ASSUME NEW name \in {"variables", "variable"}, NEW is, NEW key \in LockKeys(is) \cup VariableFileKeys(is)
  PROVE  Suits(name, key)
<1>1. Here(name, "row")
  BY DEF Here, WithRows, Placed
<1>2. \A press, to : Suits(name, Asks(press, to, "row")) /\ Suits(name, Edits(press, to, "row"))
  BY <1>1, CallsSuit
<1> QED
  BY <1>2, OpensSuit DEF LockKeys, VariableFileKeys

LEMMA VariablesSuit ==
  ASSUME NEW name \in {"variables", "variable"}, NEW is, NEW key \in VariablesKeys(is)
  PROVE  Suits(name, key)
<1>1. Here(name, "row") /\ "variable" \in Linked
  BY DEF Here, WithRows, Linked, Placed
<1>2. \A press, to : Suits(name, Asks(press, to, "row"))
  BY <1>1, CallsSuit
<1>3. Suits(name, Opens("enter", "variable", "row")) /\ Suits(name, TypesAndEdits("n", "variable", "session"))
  BY <1>1, OpensSuit, NewSuit
<1>4. Suits(name, When(Asks("ctrl+d", "deleteVariable", "row"), "locked" \notin is))
  BY <1>2, OpensSuit
<1> QED
  BY <1>3, <1>4, VariableFilesSuit DEF VariablesKeys

LEMMA VariableSuit ==
  ASSUME NEW name \in {"variable"}, NEW is, NEW key \in VariableKeys(is)
  PROVE  Suits(name, key)
BY OpensSuit, VariableFilesSuit DEF VariableKeys

LEMMA VolumesSuit ==
  ASSUME NEW name \in {"volumes"}, NEW is, NEW key \in VolumesKeys
  PROVE  Suits(name, key)
<1>1. name \in WithRows /\ {"describe", "volume"} \subseteq Linked
  BY DEF WithRows, Linked, Placed, Unplaced, Views
<1> QED
  BY <1>1, OpensSuit, CallsSuit, NewSuit DEF Here, VolumesKeys

LEMMA VolumeSuit ==
  ASSUME NEW name \in {"volume"}, NEW is, NEW key \in VolumeKeys(is)
  PROVE  Suits(name, key)
<1>1. CASE key \in AllocKeys
  BY <1>1, AllocsSuit
<1>2. CASE key \notin AllocKeys
  <2>1. name \in Placed /\ name \in WithRows
    BY DEF WithRows, Linked, Placed, Unplaced, Views
  <2> QED
    BY <1>2, <2>1, OpensSuit, CallsSuit DEF Here, VolumeKeys
<1> QED
  BY <1>1, <1>2

LEMMA PluginsSuit ==
  ASSUME NEW name \in {"plugins"}, NEW is, NEW key \in PluginsKeys
  PROVE  Suits(name, key)
<1>1. {"describe"} \subseteq Linked /\ {"plugin"} \subseteq Unplaced
  BY DEF WithRows, Linked, Placed, Unplaced, Views
<1> QED
  BY <1>1, OpensSuit, CallsSuit, NewSuit DEF Here, PluginsKeys

LEMMA PluginSuit ==
  ASSUME NEW name \in {"plugin"}, NEW is, NEW key \in PluginKeys(is)
  PROVE  Suits(name, key)
<1>1. name \in WithRows /\ {"tasks"} \subseteq Linked
  BY DEF WithRows, Linked, Placed, Unplaced, Views
<1> QED
  BY <1>1, OpensSuit, CallsSuit, NewSuit DEF Here, PluginKeys

LEMMA PoliciesSuit ==
  ASSUME NEW name \in {"scalingPolicies"}, NEW is, NEW key \in ScalingPoliciesKeys
  PROVE  Suits(name, key)
<1>1. name \in WithRows /\ {"describe", "scaling"} \subseteq Linked
  BY DEF WithRows, Linked, Placed, Unplaced, Views
<1> QED
  BY <1>1, OpensSuit, CallsSuit, NewSuit DEF Here, ScalingPoliciesKeys

LEMMA ScalingSuit ==
  ASSUME NEW name \in {"scaling"}, NEW is, NEW key \in ScalingKeys(is)
  PROVE  Suits(name, key)
<1>1. name \in Placed /\ name \in WithRows /\ {"describe"} \subseteq Linked
  BY DEF WithRows, Linked, Placed, Unplaced, Views
<1> QED
  BY <1>1, OpensSuit, CallsSuit, NewSuit DEF Here, ScalingKeys

LEMMA EvaluationsSuit ==
  ASSUME NEW name \in {"evaluations"}, NEW is, NEW key \in EvaluationsKeys
  PROVE  Suits(name, key)
<1>1. name \in WithRows /\ {"describe", "jobAllocations"} \subseteq Linked
  BY DEF WithRows, Linked, Placed, Unplaced, Views
<1> QED
  BY <1>1, OpensSuit, CallsSuit, NewSuit DEF Here, EvaluationsKeys

LEMMA NodesSuit ==
  ASSUME NEW name \in {"nodes"}, NEW is, NEW key \in NodesKeys(is)
  PROVE  Suits(name, key)
<1>1. {"agentLogs", "client"} \subseteq Unplaced
  BY DEF Unplaced, Views
<1>2. \A press, to : to # "plan" => Suits(name, Asks(press, to, "cluster"))
  BY CallsSuit
<1>3. CASE key \in DownKeys(is)
  BY <1>2, <1>3, OpensSuit DEF DownKeys
<1>4. CASE key \notin DownKeys(is)
  BY <1>1, <1>2, <1>4, OpensSuit DEF NodesKeys, MarkKeys
<1> QED
  BY <1>3, <1>4

LEMMA ClientSuit ==
  ASSUME NEW name \in {"client"}, NEW is, NEW key \in ClientKeys(is)
  PROVE  Suits(name, key)
<1>1. CASE key \in AllocKeys
  BY <1>1, AllocsSuit
<1>2. CASE key \notin AllocKeys
  <2>1. name \in WithRows /\ {"describe"} \subseteq Linked /\ {"agentLogs", "machine", "nodeMeta"} \subseteq Unplaced
    BY DEF WithRows, Linked, Placed, Unplaced, Views
  <2> QED
    BY <1>2, <2>1, OpensSuit, CallsSuit DEF Here, ClientKeys, IdentityKeys
<1> QED
  BY <1>1, <1>2

LEMMA MachineSuit ==
  ASSUME NEW name \in {"machine"}, NEW is, NEW key \in MachineKeys
  PROVE  Suits(name, key)
<1>1. {"machine"} \subseteq Unplaced
  BY DEF WithRows, Linked, Placed, Unplaced, Views
<1> QED
  BY <1>1, OpensSuit, CallsSuit, NewSuit DEF Here, MachineKeys

LEMMA NodeMetaSuit ==
  ASSUME NEW name \in {"nodeMeta"}, NEW is, NEW key \in NodeMetaKeys
  PROVE  Suits(name, key)
BY OpensSuit, CallsSuit, NewSuit DEF Here, NodeMetaKeys

LEMMA NamespacesSuit ==
  ASSUME NEW name \in {"namespaces"}, NEW is, NEW key \in NamespaceKeys(is)
  PROVE  Suits(name, key)
BY OpensSuit, CallsSuit, NewSuit DEF Here, NamespaceKeys

LEMMA NodePoolsSuit ==
  ASSUME NEW name \in {"nodePools"}, NEW is, NEW key \in NodePoolsKeys(is)
  PROVE  Suits(name, key)
<1>1. {"nodes", "poolJobs", "poolQueue"} \subseteq Unplaced
  BY DEF WithRows, Linked, Placed, Unplaced, Views
<1> QED
  BY <1>1, OpensSuit, CallsSuit, NewSuit DEF Here, NodePoolsKeys

LEMMA QueueSuit ==
  ASSUME NEW name \in {"queue", "poolQueue"}, NEW is, NEW key \in QueueKeys
  PROVE  Suits(name, key)
<1>1. name \in WithRows /\ {"jobAllocations"} \subseteq Linked
  BY DEF WithRows, Linked, Placed, Unplaced, Views
<1> QED
  BY <1>1, OpensSuit, CallsSuit, NewSuit DEF Here, QueueKeys

LEMMA ServersSuit ==
  ASSUME NEW name \in {"servers"}, NEW is, NEW key \in ServersKeys(is)
  PROVE  Suits(name, key)
<1>1. {"agentLogs", "server"} \subseteq Unplaced
  BY DEF WithRows, Linked, Placed, Unplaced, Views
<1> QED
  BY <1>1, OpensSuit, CallsSuit, NewSuit DEF Here, ServersKeys

LEMMA ServerSuit ==
  ASSUME NEW name \in {"server"}, NEW is, NEW key \in ServerKeys(is)
  PROVE  Suits(name, key)
<1>1. {"agentLogs"} \subseteq Unplaced
  BY DEF WithRows, Linked, Placed, Unplaced, Views
<1> QED
  BY <1>1, OpensSuit, CallsSuit, NewSuit DEF Here, ServerKeys

LEMMA SchedulerSuit ==
  ASSUME NEW name \in {"scheduler"}, NEW is, NEW key \in SchedulerKeys
  PROVE  Suits(name, key)
BY OpensSuit, CallsSuit, NewSuit DEF Here, SchedulerKeys

LEMMA ACLSuit ==
  ASSUME NEW name \in {"acl"}, NEW is, NEW key \in ACLKeys(is)
  PROVE  Suits(name, key)
<1>1. {"describe"} \subseteq Linked
  BY DEF WithRows, Linked, Placed, Unplaced, Views
<1> QED
  BY <1>1, OpensSuit, CallsSuit, NewSuit DEF Here, ACLKeys

LEMMA OverviewSuit ==
  ASSUME NEW name \in {"overview"}, NEW is, NEW key \in OverviewKeys(is)
  PROVE  Suits(name, key)
<1>1. name \in WithRows /\ {"allocations", "deployments", "evaluations", "jobs", "nodes"} \subseteq Unplaced
  BY DEF WithRows, Linked, Placed, Unplaced, Views
<1> QED
  BY <1>1, OpensSuit, CallsSuit, NewSuit DEF Here, OverviewKeys

LEMMA MatchSuit ==
  ASSUME NEW name \in {"find", "feed", "subjectEvents"}, NEW is, NEW key \in MatchKeys(is)
  PROVE  Suits(name, key)
<1>1. Here(name, "row") /\ name \in WithRows
  BY DEF Here, WithRows, Placed
<1>2. /\ \A to \in Matched : to \in Linked \/ to \in {"client", "plugin"}
      /\ \A to \in Matched : to # "plan" /\ {"client", "plugin"} \subseteq Unplaced
  BY DEF Matched, Linked, Placed, Unplaced
<1>3. CASE key = When(Key("enter", "switch", "jobs", "row"), "namespace" \in is)
  <2>1. Suits(name, Key("enter", "switch", "jobs", "row"))
    BY <1>1 DEF Suits, Key
  <2> QED
    BY <1>3, <2>1, OpensSuit
<1>4. ASSUME NEW to \in Matched,
             key = When(Opens("enter", to, IF to \in {"client", "plugin"} THEN "cluster" ELSE "row"), to \in is)
      PROVE  Suits(name, key)
  <2>1. Suits(name, Opens("enter", to, IF to \in {"client", "plugin"} THEN "cluster" ELSE "row"))
    <3>1. CASE to \in {"client", "plugin"}
      BY <1>2, <3>1, OpensSuit
    <3>2. CASE to \notin {"client", "plugin"}
      BY <1>1, <1>2, <3>2, OpensSuit
    <3> QED
      BY <3>1, <3>2
  <2> QED
    BY <1>4, <2>1, OpensSuit
<1> QED
  BY <1>3, <1>4 DEF MatchKeys

LEMMA StillSuit ==
  ASSUME NEW name \in {"jobMeta", "picker"}, NEW is, NEW key \in JobMetaKeys \cup PickerKeys
  PROVE  Suits(name, key)
BY OpensSuit, CallsSuit, NewSuit DEF Here, JobMetaKeys, PickerKeys

LEMMA KeysSuit ==
  ASSUME NEW name, NEW is, NEW key \in KeysOf(name, is)
  PROVE  Suits(name, key)
<1>1. \/ name \in {"jobs", "poolJobs", "launches", "job"} /\ key \in JobsKeys(is)
      \/ name \in {"allocations", "jobAllocations"} /\ key \in AllocKeys
      \/ name = "taskGroups" /\ key \in TaskGroupKeys(is)
      \/ name = "jobMeta" /\ key \in JobMetaKeys
      \/ name = "versions" /\ key \in VersionKeys(is)
      \/ name = "plan" /\ key \in PlanKeys(is)
      \/ name = "deployments" /\ key \in DeploymentsKeys(is)
      \/ name = "deployment" /\ key \in DeploymentKeys(is)
      \/ name = "deployWatch" /\ key \in DeployWatchKeys(is)
      \/ name = "tasks" /\ key \in TasksKeys(is)
      \/ name = "namespaceTasks" /\ key \in TaskKeys(is)
      \/ name = "describe" /\ key \in DescribeKeys(is)
      \/ name = "logs" /\ key \in LogsKeys(is)
      \/ name = "jobLogs" /\ key \in JobLogsKeys(is)
      \/ name = "agentLogs" /\ key \in AgentLogsKeys(is)
      \/ name = "files" /\ key \in FilesKeys(is)
      \/ name = "file" /\ key \in FileKeys(is)
      \/ name = "services" /\ key \in ServicesKeys
      \/ name = "serviceInstances" /\ key \in ServiceInstanceKeys(is)
      \/ name = "variables" /\ key \in VariablesKeys(is)
      \/ name = "variable" /\ key \in VariableKeys(is)
      \/ name = "volumes" /\ key \in VolumesKeys
      \/ name = "volume" /\ key \in VolumeKeys(is)
      \/ name = "plugins" /\ key \in PluginsKeys
      \/ name = "plugin" /\ key \in PluginKeys(is)
      \/ name = "scalingPolicies" /\ key \in ScalingPoliciesKeys
      \/ name = "scaling" /\ key \in ScalingKeys(is)
      \/ name = "evaluations" /\ key \in EvaluationsKeys
      \/ name = "nodes" /\ key \in NodesKeys(is)
      \/ name = "client" /\ key \in ClientKeys(is)
      \/ name = "machine" /\ key \in MachineKeys
      \/ name = "nodeMeta" /\ key \in NodeMetaKeys
      \/ name = "namespaces" /\ key \in NamespaceKeys(is)
      \/ name = "nodePools" /\ key \in NodePoolsKeys(is)
      \/ name \in {"queue", "poolQueue"} /\ key \in QueueKeys
      \/ name = "servers" /\ key \in ServersKeys(is)
      \/ name = "server" /\ key \in ServerKeys(is)
      \/ name = "scheduler" /\ key \in SchedulerKeys
      \/ name = "acl" /\ key \in ACLKeys(is)
      \/ name = "overview" /\ key \in OverviewKeys(is)
      \/ name = "find" /\ key \in FoundKeys(is)
      \/ name \in {"feed", "subjectEvents"} /\ key \in FeedKeys(is)
      \/ name = "picker" /\ key \in PickerKeys
  BY DEF KeysOf
<1> QED
  BY <1>1, JobsSuit, TaskGroupsSuit, VersionsSuit, PlansSuit, AllocsSuit, DeploymentsSuit, DeploymentSuit, TaskSuit, TasksSuit, DescribeSuit, LogsSuit, JobLogsSuit, AgentLogsSuit, FilesSuit, FileSuit, ServicesSuit, InstancesSuit, VariablesSuit, VariableSuit, VolumesSuit, VolumeSuit, PluginsSuit, PluginSuit, PoliciesSuit, ScalingSuit, EvaluationsSuit, NodesSuit, ClientSuit, MachineSuit, NodeMetaSuit, NamespacesSuit, NodePoolsSuit, QueueSuit, ServersSuit, ServerSuit, SchedulerSuit, ACLSuit, OverviewSuit, MatchSuit, StillSuit DEF FoundKeys, FeedKeys, DeployWatchKeys

------------------------------------------------------------------------------
(* The presses of the keys of a page.                                      *)

(* A key, the press it is on, and whether it is offered.                   *)
IsOn(key, press, offered) ==
  /\ key = [press |-> key.press, does |-> key.does, to |-> key.to, at |-> key.at, writes |-> key.writes,
            offered |-> key.offered]
  /\ key.press = press /\ key.offered = offered

(* On one press at most one of the keys is offered.                        *)
Apart(keys) == \A key, other \in keys : key.offered /\ other.offered /\ key.press = other.press => key = other

LEMMA KeyIsOn ==
  /\ \A press : IsOn(Stays(press), press, TRUE)
  /\ \A press, to, at :
       /\ IsOn(Opens(press, to, at), press, TRUE) /\ IsOn(Plans(press, at), press, TRUE)
       /\ IsOn(Asks(press, to, at), press, TRUE) /\ IsOn(Types(press, to, at), press, TRUE)
       /\ IsOn(TypesAndAsks(press, to, at), press, TRUE) /\ IsOn(TypesAndEdits(press, to, at), press, TRUE)
       /\ IsOn(Forms(press, to, at), press, TRUE) /\ IsOn(Edits(press, to, at), press, TRUE)
       /\ IsOn(Does(press, to, at), press, TRUE)
  /\ \A key, press, offered : IsOn(key, press, TRUE) => IsOn(When(key, offered), press, offered)
<1>1. ASSUME NEW press PROVE IsOn(Stays(press), press, TRUE)
  BY DEF IsOn, Stays, Key
<1>2. ASSUME NEW press, NEW to, NEW at PROVE IsOn(Opens(press, to, at), press, TRUE)
  BY DEF IsOn, Opens, Key
<1>3. ASSUME NEW press, NEW does, NEW to, NEW at PROVE IsOn(Writing(Key(press, does, to, at)), press, TRUE)
  <2>1. PICK key : key = Writing(Key(press, does, to, at))
    OBVIOUS
  <2>2. key = [press |-> press, does |-> does, to |-> to, at |-> at, writes |-> TRUE, offered |-> TRUE]
    BY <2>1, WritingIs, Zenon
  <2>3. IsOn(key, press, TRUE)
    BY <2>2 DEF IsOn
  <2> QED
    BY <2>1, <2>3
<1>4. ASSUME NEW key, NEW press, NEW offered, IsOn(key, press, TRUE) PROVE IsOn(When(key, offered), press, offered)
  <2>1. PICK n : n = When(key, offered)
    OBVIOUS
  <2>2. n = [key EXCEPT !.offered = offered]
    BY <2>1, Zenon DEF When
  <2>3. IsOn(n, press, offered)
    BY <1>4, <2>2 DEF IsOn
  <2> QED
    BY <2>1, <2>3
<1> QED
  BY <1>1, <1>2, <1>3, <1>4, Zenon DEF Plans, Asks, Types, TypesAndAsks, TypesAndEdits, Forms, Edits, Does, Opens

(* What its row does not offer is no key of it.                           *)
LEMMA WhenIsOn ==
  ASSUME NEW key, NEW press, IsOn(key, press, TRUE), NEW offered
  PROVE  When(key, offered).press = press /\ (~offered => ~When(key, offered).offered)
<1>1. IsOn(When(key, offered), press, offered)
  BY KeyIsOn
<1> QED
  BY <1>1, Zenon DEF IsOn

(* Sets of keys that are apart.                                            *)
LEMMA OneOfTwo ==
  ASSUME NEW key, NEW other, ~key.offered \/ ~other.offered
  PROVE  Apart({key, other})
BY Zenon DEF Apart

LEMMA BothApart ==
  ASSUME NEW some, NEW others, Apart(some), Apart(others),
         \A key \in some, other \in others : key.offered /\ other.offered => key.press # other.press
  PROVE  Apart(some \cup others)
BY Zenon DEF Apart

(* A row is of one fact of each set, at most.                              *)
LEMMA FactIs ==
  ASSUME NEW facts, NEW is \in OneOf(facts), NEW f \in is, NEW g \in is
  PROVE  f = g /\ f \in facts
BY DEF OneOf

LEMMA JobIs ==
  ASSUME NEW name \in {"jobs", "poolJobs", "launches", "job"}, NEW is \in FactsOf(name)
  PROVE  ~("periodic" \in is /\ "parameterized" \in is)
<1>1. PICK a \in OneOf({"periodic", "parameterized", "system"}), b \in Both(OneOf({"stopped"}), OneOf({"waits"})) :
        is = a \cup b
  BY DEF FactsOf, Both
<1>2. "periodic" \notin b /\ "parameterized" \notin b
  BY <1>1 DEF Both, OneOf
<1> QED
  BY <1>1, <1>2, FactIs

(* The pages, their keys grouped as the code keeps them.                   *)
LEMMA JobsApart ==
  ASSUME NEW name \in {"jobs", "poolJobs", "launches", "job"}, NEW is \in FactsOf(name)
  PROVE  Apart(JobsKeys(is))
<1> DEFINE enter == When(Opens("enter", "jobAllocations", "row"), RunsItself(is))
           launches == When(Opens("enter", "launches", "row"), Launches(is))
           runs == When(Asks("r", "runNow", "row"), "periodic" \in is)
           dispatches == When(Forms("r", "dispatch", "row"), "parameterized" \in is)
           opening == { Opens("t", "taskGroups", "row"), Opens("m", "jobMeta", "row"), Opens("v", "versions", "row"),
                        When(Opens("l", "jobLogs", "row"), RunsItself(is)),
                        When(Opens("w", "deployWatch", "row"), RunsItself(is)),
                        When(Opens("o", "subjectEvents", "row"), RunsItself(is)) }
           others == opening \cup EvaluatingKeys(is) \cup PurgeKeys(is) \cup JobFileKeys \cup JobTextKeys
                       \cup PlacementKeys(is, "row") \cup MarkKeys
<1>1. enter.press = "enter" /\ launches.press = "enter" /\ (~enter.offered \/ ~launches.offered)
  <2>1. \A to : IsOn(Opens("enter", to, "row"), "enter", TRUE)
    BY KeyIsOn
  <2>2. enter.press = "enter" /\ (~RunsItself(is) => ~enter.offered)
    BY <2>1, WhenIsOn
  <2>3. launches.press = "enter" /\ (~Launches(is) => ~launches.offered)
    BY <2>1, WhenIsOn
  <2> QED
    BY <2>2, <2>3 DEF RunsItself
<1>2. runs.press = "r" /\ dispatches.press = "r" /\ (~runs.offered \/ ~dispatches.offered)
  <2>1. IsOn(Asks("r", "runNow", "row"), "r", TRUE) /\ IsOn(Forms("r", "dispatch", "row"), "r", TRUE)
    BY KeyIsOn
  <2>2. runs.press = "r" /\ (~("periodic" \in is) => ~runs.offered)
    BY <2>1, WhenIsOn
  <2>3. dispatches.press = "r" /\ (~("parameterized" \in is) => ~dispatches.offered)
    BY <2>1, WhenIsOn
  <2> QED
    BY <2>2, <2>3, JobIs
<1>3. Apart(others)
  BY KeyIsOn DEF Apart, IsOn, EvaluatingKeys, PurgeKeys, JobFileKeys, JobTextKeys, PlacementKeys, MarkKeys
<1>4. \A key \in others : key.press \notin {"enter", "r"}
  BY KeyIsOn DEF IsOn, EvaluatingKeys, PurgeKeys, JobFileKeys, JobTextKeys, PlacementKeys, MarkKeys
<1>5. JobsKeys(is) = {enter, launches} \cup ({runs, dispatches} \cup others)
  BY DEF JobsKeys, LaunchKeys, DispatchKeys
<1> HIDE DEF enter, launches, runs, dispatches, others
<1>6. Apart({enter, launches}) /\ Apart({runs, dispatches})
  BY <1>1, <1>2, OneOfTwo
<1>7. Apart({runs, dispatches} \cup others)
  BY <1>2, <1>3, <1>4, <1>6, BothApart
<1>8. \A key \in {runs, dispatches} \cup others : key.press # "enter"
  BY <1>2, <1>4
<1> QED
  BY <1>1, <1>5, <1>6, <1>7, <1>8, BothApart

LEMMA VersionsApart ==
  ASSUME NEW is
  PROVE  Apart(VersionKeys(is))
<1> DEFINE stable == When(Does("s", "markStable", "page"), "stable" \notin is)
           unstable == When(Does("s", "markUnstable", "page"), "stable" \in is)
           others == { Opens("enter", "describe", "page"), Plans("u", "page"), Types("t", "tag", "page"),
                       When(Asks("ctrl+t", "untag", "page"), "tagged" \in is) }
<1>1. stable.press = "s" /\ unstable.press = "s" /\ (~stable.offered \/ ~unstable.offered)
  <2>1. \A to : IsOn(Does("s", to, "page"), "s", TRUE)
    BY KeyIsOn
  <2>2. stable.press = "s" /\ (~("stable" \notin is) => ~stable.offered)
    BY <2>1, WhenIsOn
  <2>3. unstable.press = "s" /\ (~("stable" \in is) => ~unstable.offered)
    BY <2>1, WhenIsOn
  <2> QED
    BY <2>2, <2>3
<1>2. Apart(others) /\ \A key \in others : key.press # "s"
  BY KeyIsOn DEF Apart, IsOn
<1>3. VersionKeys(is) = {stable, unstable} \cup others
  BY DEF VersionKeys
<1> HIDE DEF stable, unstable, others
<1>4. Apart({stable, unstable})
  BY <1>1, OneOfTwo
<1> QED
  BY <1>1, <1>2, <1>3, <1>4, BothApart

LEMMA PlansApart ==
  ASSUME NEW is
  PROVE  Apart(PlanKeys(is))
<1> DEFINE free == is \intersect {"revert", "refused"} = {}
           submits == When(Does("y", "submit", "page"), free)
           reverts == When(Does("y", "revert", "page"), "revert" \in is /\ "refused" \notin is)
           others == {Stays("r")} \cup TextKeys(is)
<1> HIDE DEF free
<1>1. submits.press = "y" /\ reverts.press = "y" /\ (~submits.offered \/ ~reverts.offered)
  <2>1. \A to : IsOn(Does("y", to, "page"), "y", TRUE)
    BY KeyIsOn
  <2>2. submits.press = "y" /\ (~free => ~submits.offered)
    BY <2>1, WhenIsOn
  <2>3. reverts.press = "y" /\ (~("revert" \in is /\ "refused" \notin is) => ~reverts.offered)
    BY <2>1, WhenIsOn
  <2>4. "revert" \in is => ~free
    BY DEF free
  <2> QED
    BY <2>2, <2>3, <2>4
<1>2. Apart(others) /\ \A key \in others : key.press # "y"
  BY KeyIsOn DEF Apart, IsOn, TextKeys, FindKeys
<1>3. PlanKeys(is) = {submits, reverts} \cup others
  BY DEF PlanKeys, free
<1> HIDE DEF submits, reverts, others
<1>4. Apart({submits, reverts})
  BY <1>1, OneOfTwo
<1> QED
  BY <1>1, <1>2, <1>3, <1>4, BothApart

(* What holds a deployment: it is not running and paused at once.          *)
LEMMA HoldersApart ==
  ASSUME NEW is, ~("running" \in is /\ "paused" \in is), NEW at, NEW active
  PROVE  Apart(HolderKeys(is, at, active)) /\ \A key \in HolderKeys(is, at, active) : key.press \in {"f", "ctrl+s"}
<1> DEFINE pauses == When(Asks("ctrl+s", "pause", at), "running" \in is)
           resumes == When(Asks("ctrl+s", "resume", at), "paused" \in is)
           fails == When(Asks("f", "fail", at), active)
<1>1. pauses.press = "ctrl+s" /\ resumes.press = "ctrl+s" /\ (~pauses.offered \/ ~resumes.offered)
  <2>1. \A to : IsOn(Asks("ctrl+s", to, at), "ctrl+s", TRUE)
    BY KeyIsOn
  <2>2. pauses.press = "ctrl+s" /\ (~("running" \in is) => ~pauses.offered)
    BY <2>1, WhenIsOn
  <2>3. resumes.press = "ctrl+s" /\ (~("paused" \in is) => ~resumes.offered)
    BY <2>1, WhenIsOn
  <2> QED
    BY <2>2, <2>3
<1>2. fails.press = "f"
  <2>1. IsOn(Asks("f", "fail", at), "f", TRUE)
    BY KeyIsOn
  <2> QED
    BY <2>1, WhenIsOn
<1>3. HolderKeys(is, at, active) = {pauses, resumes} \cup {fails}
  BY DEF HolderKeys
<1> HIDE DEF pauses, resumes, fails
<1>4. Apart({pauses, resumes}) /\ Apart({fails})
  BY <1>1, OneOfTwo DEF Apart
<1>5. Apart({pauses, resumes} \cup {fails})
  BY <1>1, <1>2, <1>4, BothApart
<1> QED
  BY <1>1, <1>2, <1>3, <1>5

LEMMA DeploymentsApart ==
  ASSUME NEW is \in FactsOf("deployments")
  PROVE  Apart(DeploymentsKeys(is))
<1> DEFINE others == {Opens("enter", "deployment", "row"), Opens("d", "describe", "row"), Asks("p", "promote", "row")}
<1>1. ~("running" \in is /\ "paused" \in is)
  BY FactIs DEF FactsOf
<1>2. Apart(others) /\ \A key \in others : key.press \notin {"f", "ctrl+s"}
  BY KeyIsOn DEF Apart, IsOn
<1>3. DeploymentsKeys(is) = others \cup HolderKeys(is, "row", TRUE)
  BY DEF DeploymentsKeys
<1> HIDE DEF others
<1>4. /\ Apart(HolderKeys(is, "row", TRUE))
      /\ \A key \in HolderKeys(is, "row", TRUE) : key.press \in {"f", "ctrl+s"}
  BY <1>1, HoldersApart
<1> QED
  BY <1>2, <1>3, <1>4, BothApart

LEMMA AllocsApart == Apart(AllocKeys)
BY KeyIsOn DEF Apart, IsOn, AllocKeys, MarkKeys

LEMMA DeploymentApart ==
  ASSUME NEW name \in {"deployment", "deployWatch"}, NEW is \in FactsOf(name)
  PROVE  Apart(DeploymentKeys(is))
<1> DEFINE promoting == { When(Asks("p", "promoteGroup", "page"), Active(is) /\ "waits" \in is),
                          When(Asks("ctrl+p", "promote", "page"), Active(is) /\ "waits" \in is) }
           others == promoting \cup HealthKeys(is) \cup AllocKeys
           holders == HolderKeys(is, "page", Active(is))
<1>1. ~("running" \in is /\ "paused" \in is)
  <2>1. PICK a \in OneOf({"running", "paused"}), b \in OneOf({"waits"}) : is = a \cup b
    BY DEF FactsOf, Both
  <2>2. "running" \notin b /\ "paused" \notin b
    BY <2>1 DEF OneOf
  <2> QED
    BY <2>1, <2>2, FactIs
<1>2. Apart(others) /\ \A key \in others : key.press \notin {"f", "ctrl+s"}
  BY KeyIsOn DEF Apart, IsOn, HealthKeys, AllocKeys, MarkKeys
<1>3. DeploymentKeys(is) = others \cup holders
  BY DEF DeploymentKeys
<1>4. Apart(holders) /\ \A key \in holders : key.press \in {"f", "ctrl+s"}
  BY <1>1, HoldersApart
<1> HIDE DEF others, holders
<1> QED
  BY <1>2, <1>3, <1>4, BothApart

(* The keys of a page that all open something else with one press: a row   *)
(* is of one of them.                                                      *)
LEMMA OverviewApart ==
  ASSUME NEW is \in FactsOf("overview")
  PROVE  Apart(OverviewKeys(is))
<1> DEFINE counts == {"jobs", "allocations", "nodes", "evaluations", "deployments"}
           opens(to) == When(Opens("enter", to, "cluster"), "counted" \in is /\ to \in is)
<1>1. PICK r \in counts : is = {"counted", r}
  BY DEF FactsOf
<1>2. ASSUME NEW to \in counts PROVE opens(to).offered => to = r
  <2>1. IsOn(Opens("enter", to, "cluster"), "enter", TRUE)
    BY KeyIsOn
  <2>2. ~("counted" \in is /\ to \in is) => ~opens(to).offered
    BY <2>1, WhenIsOn
  <2>3. to \in is => to = r
    BY <1>1
  <2> QED
    BY <2>2, <2>3
<1>3. OverviewKeys(is) = {opens(to) : to \in counts}
  BY DEF OverviewKeys
<1> HIDE DEF opens
<1> QED
  BY <1>2, <1>3 DEF Apart

LEMMA MatchesApart ==
  ASSUME NEW name \in {"find", "feed", "subjectEvents"}, NEW is \in FactsOf(name)
  PROVE  Apart(MatchKeys(is))
<1> DEFINE at(to) == IF to \in {"client", "plugin"} THEN "cluster" ELSE "row"
           opens(to) == When(Opens("enter", to, at(to)), to \in is)
           switches == When(Key("enter", "switch", "jobs", "row"), "namespace" \in is)
<1>1. is \in OneOf(Matched \cup {"namespace"}) /\ "namespace" \notin Matched
  BY DEF FactsOf, OneOf, Matched
<1>2. \A to, other \in is : to = other
  BY <1>1, FactIs
<1>3. ASSUME NEW to PROVE opens(to).offered => to \in is
  <2>1. IsOn(Opens("enter", to, at(to)), "enter", TRUE)
    BY KeyIsOn
  <2> QED
    BY <2>1, WhenIsOn
<1>4. switches.offered => "namespace" \in is
  <2>1. IsOn(Key("enter", "switch", "jobs", "row"), "enter", TRUE)
    BY DEF IsOn, Key
  <2> QED
    BY <2>1, WhenIsOn
<1>5. MatchKeys(is) = {opens(to) : to \in Matched} \cup {switches}
  BY DEF MatchKeys
<1> HIDE DEF opens, switches
<1> QED
  BY <1>1, <1>2, <1>3, <1>4, <1>5 DEF Apart

(* What hangs off a job and an allocation.                                 *)
LEMMA JobThingsApart ==
  ASSUME NEW is
  PROVE  /\ Apart(TaskGroupKeys(is))
         /\ Apart(JobMetaKeys)
         /\ Apart(TasksKeys(is))
         /\ Apart(TaskKeys(is))
<1>1. Apart(TaskGroupKeys(is))
  BY KeyIsOn DEF Apart, IsOn, TaskGroupKeys, ScaleKeys, PlacementKeys
<1>2. Apart(JobMetaKeys)
  BY Zenon DEF Apart, JobMetaKeys
<1>3. Apart(TasksKeys(is))
  BY KeyIsOn DEF Apart, IsOn, TasksKeys, TaskKeys, TaskEventKeys, RunKeys
<1>4. Apart(TaskKeys(is))
  BY KeyIsOn DEF Apart, IsOn, TaskKeys, TaskEventKeys, RunKeys
<1> QED
  BY <1>1, <1>2, <1>3, <1>4

(* The texts and the files.                                                *)
LEMMA TextsApart ==
  ASSUME NEW is
  PROVE  /\ Apart(DescribeKeys(is))
         /\ Apart(LogsKeys(is))
         /\ Apart(JobLogsKeys(is))
         /\ Apart(AgentLogsKeys(is))
         /\ Apart(FilesKeys(is))
         /\ Apart(FileKeys(is))
<1>1. Apart(DescribeKeys(is))
  BY KeyIsOn DEF Apart, IsOn, DescribeKeys, TextKeys, FindKeys
<1>2. Apart(LogsKeys(is))
  BY KeyIsOn DEF Apart, IsOn, LogsKeys, TextKeys, FindKeys
<1>3. Apart(JobLogsKeys(is))
  BY KeyIsOn DEF Apart, IsOn, JobLogsKeys, TextKeys, FindKeys
<1>4. Apart(AgentLogsKeys(is))
  BY KeyIsOn DEF Apart, IsOn, AgentLogsKeys, TextKeys, FindKeys
<1>5. Apart(FilesKeys(is))
  BY Zenon DEF Apart, FilesKeys
<1>6. Apart(FileKeys(is))
  BY KeyIsOn DEF Apart, IsOn, FileKeys, TextKeys, FindKeys
<1> QED
  BY <1>1, <1>2, <1>3, <1>4, <1>5, <1>6

(* Services, variables, volumes, plugins, scaling and evaluations.         *)
LEMMA ThingsApart ==
  ASSUME NEW is
  PROVE  /\ Apart(ServicesKeys)
         /\ Apart(ServiceInstanceKeys(is))
         /\ Apart(VariablesKeys(is))
         /\ Apart(VariableKeys(is))
         /\ Apart(VolumesKeys)
         /\ Apart(PluginsKeys)
         /\ Apart(PluginKeys(is))
         /\ Apart(ScalingPoliciesKeys)
         /\ Apart(ScalingKeys(is))
         /\ Apart(EvaluationsKeys)
<1>1. Apart(ServicesKeys)
  BY KeyIsOn DEF Apart, IsOn, ServicesKeys
<1>2. Apart(ServiceInstanceKeys(is))
  BY KeyIsOn DEF Apart, IsOn, ServiceInstanceKeys
<1>3. Apart(VariablesKeys(is))
  BY KeyIsOn DEF Apart, IsOn, VariablesKeys, LockKeys, VariableFileKeys
<1>4. Apart(VariableKeys(is))
  BY KeyIsOn DEF Apart, IsOn, VariableKeys, LockKeys, VariableFileKeys
<1>5. Apart(VolumesKeys)
  BY KeyIsOn DEF Apart, IsOn, VolumesKeys
<1>6. Apart(PluginsKeys)
  BY KeyIsOn DEF Apart, IsOn, PluginsKeys
<1>7. Apart(PluginKeys(is))
  BY Zenon DEF Apart, PluginKeys
<1>8. Apart(ScalingPoliciesKeys)
  BY KeyIsOn DEF Apart, IsOn, ScalingPoliciesKeys
<1>9. Apart(ScalingKeys(is))
  BY Zenon DEF Apart, ScalingKeys
<1>10. Apart(EvaluationsKeys)
  BY KeyIsOn DEF Apart, IsOn, EvaluationsKeys
<1> QED
  BY <1>1, <1>2, <1>3, <1>4, <1>5, <1>6, <1>7, <1>8, <1>9, <1>10

(* The cluster.                                                            *)
LEMMA ClusterApart ==
  ASSUME NEW is
  PROVE  /\ Apart(NodesKeys(is))
         /\ Apart(ClientKeys(is))
         /\ Apart(MachineKeys)
         /\ Apart(NodeMetaKeys)
         /\ Apart(NamespaceKeys(is))
         /\ Apart(NodePoolsKeys(is))
         /\ Apart(QueueKeys)
         /\ Apart(ServersKeys(is))
         /\ Apart(ServerKeys(is))
         /\ Apart(SchedulerKeys)
         /\ Apart(ACLKeys(is))
         /\ Apart(PickerKeys)
<1>1. Apart(NodesKeys(is))
  BY KeyIsOn DEF Apart, IsOn, NodesKeys, DownKeys, MarkKeys
<1>2. Apart(ClientKeys(is))
  BY KeyIsOn DEF Apart, IsOn, ClientKeys, IdentityKeys, AllocKeys, MarkKeys
<1>3. Apart(MachineKeys)
  BY KeyIsOn DEF Apart, IsOn, MachineKeys
<1>4. Apart(NodeMetaKeys)
  BY KeyIsOn DEF Apart, IsOn, NodeMetaKeys
<1>5. Apart(NamespaceKeys(is))
  BY KeyIsOn DEF Apart, IsOn, NamespaceKeys
<1>6. Apart(NodePoolsKeys(is))
  BY KeyIsOn DEF Apart, IsOn, NodePoolsKeys
<1>7. Apart(QueueKeys)
  BY Zenon DEF Apart, QueueKeys
<1>8. Apart(ServersKeys(is))
  BY KeyIsOn DEF Apart, IsOn, ServersKeys
<1>9. Apart(ServerKeys(is))
  BY KeyIsOn DEF Apart, IsOn, ServerKeys
<1>10. Apart(SchedulerKeys)
  BY KeyIsOn DEF Apart, IsOn, SchedulerKeys
<1>11. Apart(ACLKeys(is))
  BY KeyIsOn DEF Apart, IsOn, ACLKeys
<1>12. Apart(PickerKeys)
  BY Zenon DEF Apart, PickerKeys
<1> QED
  BY <1>1, <1>2, <1>3, <1>4, <1>5, <1>6, <1>7, <1>8, <1>9, <1>10, <1>11, <1>12

(* On every page but that of a volume, which puts the keys of an allocation *)
(* and its own on one press.                                               *)
LEMMA KeysApart ==
  ASSUME NEW name, name # "volume", NEW is \in FactsOf(name)
  PROVE  Apart(KeysOf(name, is))
<1>1. CASE name \in {"jobs", "poolJobs", "launches", "job"}
  BY <1>1, JobsApart DEF KeysOf
<1>2. CASE name \in {"allocations", "jobAllocations"}
  BY <1>2, AllocsApart DEF KeysOf
<1>3. CASE name \in {"taskGroups", "jobMeta", "tasks", "namespaceTasks"}
  BY <1>3, JobThingsApart DEF KeysOf
<1>4. CASE name = "versions"
  BY <1>4, VersionsApart DEF KeysOf
<1>5. CASE name = "plan"
  BY <1>5, PlansApart DEF KeysOf
<1>6. CASE name = "deployments"
  BY <1>6, DeploymentsApart DEF KeysOf
<1>7. CASE name \in {"deployment", "deployWatch"}
  BY <1>7, DeploymentApart DEF KeysOf, DeployWatchKeys
<1>8. CASE name \in {"describe", "logs", "jobLogs", "agentLogs", "files", "file"}
  BY <1>8, TextsApart DEF KeysOf
<1>9. CASE name \in {"services", "serviceInstances", "variables", "variable", "volumes", "plugins", "plugin",
                      "scalingPolicies", "scaling", "evaluations"}
  BY <1>9, ThingsApart DEF KeysOf
<1>10. CASE name \in {"nodes", "client", "machine", "nodeMeta", "namespaces", "nodePools", "queue", "poolQueue",
                       "servers", "server", "scheduler", "acl", "picker"}
  BY <1>10, ClusterApart DEF KeysOf
<1>11. CASE name = "overview"
  BY <1>11, OverviewApart DEF KeysOf
<1>12. CASE name \in {"find", "feed", "subjectEvents"}
  BY <1>12, MatchesApart DEF KeysOf, FoundKeys, FeedKeys
<1>13. CASE KeysOf(name, is) = {}
  BY <1>13 DEF Apart
<1> QED
  BY Zenon, <1>1, <1>2, <1>3, <1>4, <1>5, <1>6, <1>7, <1>8, <1>9, <1>10, <1>11, <1>12, <1>13 DEF KeysOf

------------------------------------------------------------------------------
(* The rows of a page.                                                     *)

Names == Placed \cup Unplaced \cup {"describe", "jobLogs"}
OfSession == {"jobs", "allocations", "namespaceTasks", "deployments", "services", "variables", "volumes",
              "scalingPolicies", "evaluations", "overview", "feed", "find"}
OfAll == {"poolJobs", "client", "queue", "poolQueue", "nodes"}

(* The pages of one thing are asked and watched where it is; a text asks    *)
(* for no events.                                                          *)
Texts == {"plan", "describe", "logs", "jobLogs", "file"}

LEMMA PlacedPage ==
  ASSUME NEW name \in (Placed \cup {"jobLogs", "describe"}) \ Texts
  PROVE  \E topics : PageOf(name) = Page("page", "page", topics, FALSE)
<1>1. CASE name \in {"launches", "job", "jobAllocations", "subjectEvents"}
  <2>1. /\ name \in {"launches", "job"} => PageOf(name) = JobsPage(name)
        /\ name = "jobAllocations" => PageOf(name) = AllocationsPage(name)
        /\ name = "subjectEvents" => PageOf(name) = FeedPage(name)
    BY <1>1 DEF PageOf
  <2> QED
    BY <1>1, <2>1 DEF JobsPage, AllocationsPage, FeedPage, OfAThing
<1>2. CASE name \in {"taskGroups", "jobMeta", "versions", "deployment", "deployWatch"}
  BY <1>2 DEF PageOf, TaskGroupsPage, JobMetaPage, VersionsPage, DeploymentPage, DeployWatchPage, OfAThing
<1>3. CASE name \in {"tasks", "taskEvents", "files", "serviceInstances"}
  BY <1>3 DEF PageOf, TasksPage, TaskEventsPage, FilesPage, ServiceInstancesPage, OfAThing
<1>4. CASE name \in {"variable", "volume", "scaling"}
  BY <1>4 DEF PageOf, VariablePage, VolumePage, ScalingPage, OfAThing
<1> QED
  BY <1>1, <1>2, <1>3, <1>4 DEF Placed, Texts

LEMMA TextPage ==
  ASSUME NEW name \in Texts
  PROVE  /\ PageOf(name).topics = {}
         /\ PageOf(name).reads = "page" \/ (PageOf(name).reads = "none" /\ name \in {"plan", "describe"})
BY DEF Texts, PageOf, PlanPage, DescribePage, LogsPage, JobLogsPage, FilePage, Page, Polled

LEMMA PlacedRead ==
  ASSUME NEW name \in Placed \cup {"jobLogs", "describe"}
  PROVE  PageOf(name).reads = "page" \/ (PageOf(name).reads = "none" /\ name \in {"plan", "describe"})
<1>1. CASE name \in Texts
  BY <1>1, TextPage
<1>2. CASE name \notin Texts
  <2>1. PICK topics : PageOf(name) = Page("page", "page", topics, FALSE)
    BY <1>2, PlacedPage
  <2> QED
    BY <2>1 DEF Page
<1> QED
  BY <1>1, <1>2

LEMMA SessionRead ==
  ASSUME NEW name \in OfSession
  PROVE  /\ PageOf(name).reads = "session" /\ PageOf(name).watches = "session"
         /\ name # "find" => PageOf(name).follows
<1>1. CASE name \in {"jobs", "allocations", "namespaceTasks", "deployments", "services", "variables"}
  BY <1>1 DEF PageOf, JobsPage, AllocationsPage, NamespaceTasksPage, DeploymentsPage, ServicesPage, VariablesPage,
       OfTheSession, Page
<1>2. CASE name \in {"volumes", "scalingPolicies", "evaluations", "overview", "feed", "find"}
  BY <1>2 DEF PageOf, VolumesPage, ScalingPoliciesPage, EvaluationsPage, OverviewPage, FeedPage, FindPage,
       OfTheSession, Page
<1> QED
  BY <1>1, <1>2 DEF OfSession

LEMMA AllRead ==
  /\ \A name \in OfAll : PageOf(name).reads = "all"
  /\ PageOf("plugin").reads = "cluster" /\ PageOf("client").watches = "all" /\ PageOf("allocations").watches = "session"
BY DEF OfAll, PageOf, JobsPage, AllocationsPage, ClientPage, QueuePage, NodesPage, PluginPage, OfTheSession, Page

LEMMA OthersRead ==
  ASSUME NEW name \in Unplaced \ (OfSession \cup OfAll \cup {"plugin"})
  PROVE  PageOf(name).reads \in {"cluster", "none"}
BY DEF Unplaced, Views, OfSession, OfAll, PageOf, PickerPage, NamespacesPage, ServersPage, NodePoolsPage, PluginsPage,
       ACLPage, SchedulerPage, AboutPage, AgentLogsPage, MachinePage, NodeMetaPage, ServerPage, OfTheCluster, Page

Somewhere == Namespaces \cup {All, Nowhere}

(* A screen is of a namespace of its own, of none, or - the logs of a list *)
(* - of all of them; and of its own is of what it was opened on.           *)
OwnOK(opened) ==
  /\ opened.page \in Placed => opened.own \in Namespaces /\ opened.own = opened.meant
  /\ opened.page \in Unplaced => opened.own = Nowhere
  /\ opened.page = "describe" => opened.own \in Namespaces \cup {Nowhere} /\ opened.own = opened.meant
  /\ opened.page = "jobLogs" => opened.own = All \/ (opened.own \in Namespaces /\ opened.own = opened.meant)
  /\ opened.submitted => opened.page = "plan"

(* The namespace of a row is that of its page, and so are its facts.       *)
RowOK(r, opened, of) ==
  /\ r.is \in FactsOf(opened.page)
  /\ r.at \in Somewhere
  /\ opened.page \in Placed \cup {"describe"} => r.at = opened.own
  /\ opened.page \in WithRows => r.at \in Namespaces
  /\ opened.page = "allocations" /\ of # All => r.at = of
  /\ opened.page = "describe" /\ opened.own = Nowhere => "evaluation" \notin r.is

LEMMA AskedThere ==
  ASSUME NEW opened, opened.page \in Names, OwnOK(opened), NEW of \in Namespaces \cup {All}
  PROVE  /\ AskedIn(opened, of) \in Somewhere
         /\ opened.page \in Placed \cup {"describe"} => AskedIn(opened, of) = opened.own
         /\ opened.page \in WithRows => AskedIn(opened, of) \in Namespaces \cup {All}
         /\ opened.page = "allocations" => AskedIn(opened, of) = of
<1>1. CASE opened.page \in Placed \cup {"describe", "jobLogs"}
  <2>1. PageOf(opened.page).reads = "page" \/ (PageOf(opened.page).reads = "none" /\ opened.page \in {"plan", "describe"})
    BY <1>1, PlacedRead
  <2>2. AskedIn(opened, of) = opened.own
    <3>1. CASE PageOf(opened.page).reads = "page"
      <4>1. opened.page \notin {"plugin", "plan", "describe"}
        BY <3>1 DEF PageOf, PluginPage, PlanPage, DescribePage, Page
      <4> QED
        BY Zenon, <3>1, <4>1 DEF AskedIn
    <3>2. CASE PageOf(opened.page).reads = "none" /\ opened.page \in {"plan", "describe"}
      BY <3>2 DEF AskedIn
    <3> QED
      BY <2>1, <3>1, <3>2
  <2>3. opened.own \in Somewhere /\ (opened.page \in Placed => opened.own \in Namespaces)
    BY <1>1 DEF OwnOK, Somewhere
  <2>4. opened.page # "allocations" /\ (opened.page \in WithRows => opened.page \in Placed)
    BY <1>1 DEF WithRows, Placed
  <2> QED
    BY <2>2, <2>3, <2>4
<1>2. CASE opened.page \in OfSession
  <2>1. AskedIn(opened, of) = of
    <3>1. PageOf(opened.page).reads = "session" /\ opened.page \notin {"plugin", "plan", "describe"}
      BY <1>2, SessionRead DEF OfSession
    <3> QED
      BY <3>1 DEF AskedIn
  <2>2. opened.page \notin Placed \cup {"describe"}
    BY <1>2 DEF OfSession, Placed
  <2> QED
    BY <2>1, <2>2 DEF Somewhere
<1>3. CASE opened.page \in OfAll \cup {"plugin"}
  <2>1. AskedIn(opened, of) = All
    <3>1. CASE opened.page \in OfAll
      <4>1. PageOf(opened.page).reads = "all" /\ opened.page \notin {"plugin", "plan", "describe"}
        BY <3>1, AllRead DEF OfAll
      <4> QED
        BY <4>1 DEF AskedIn
    <3>2. CASE opened.page = "plugin"
      BY <3>2, AllRead DEF AskedIn
    <3> QED
      BY <1>3, <3>1, <3>2
  <2>2. opened.page \notin Placed \cup {"describe", "allocations"}
    BY <1>3 DEF OfAll, Placed
  <2> QED
    BY <2>1, <2>2 DEF Somewhere
<1>4. CASE opened.page \in Unplaced \ (OfSession \cup OfAll \cup {"plugin"})
  <2>1. PageOf(opened.page).reads \in {"cluster", "none"}
    BY <1>4, OthersRead
  <2>2. opened.page \notin {"plugin", "plan", "describe"} \cup Placed \cup WithRows \cup {"allocations"}
    BY <1>4 DEF Unplaced, Views, OfSession, OfAll, WithRows, Placed
  <2>3. AskedIn(opened, of) = Nowhere
    BY <2>1, <2>2 DEF AskedIn
  <2> QED
    BY <2>2, <2>3 DEF Somewhere
<1> QED
  BY <1>1, <1>2, <1>3, <1>4 DEF Names

LEMMA FactsThere ==
  ASSUME NEW name
  PROVE  \E f \in FactsOf(name) : "evaluation" \notin f
<1>1. {} \in OneOf({}) /\ \A facts : {} \in OneOf(facts)
  BY DEF OneOf
<1>2. \A some, others : {} \in some /\ {} \in others => {} \in Both(some, others)
  BY DEF Both
<1>3. CASE name = "overview"
  <2>1. {"counted", "jobs"} \in FactsOf(name)
    BY <1>3 DEF FactsOf
  <2> QED
    BY <2>1
<1>4. CASE name # "overview"
  <2>1. {} \in FactsOf(name)
    BY <1>1, <1>2, <1>4 DEF FactsOf
  <2> QED
    BY <2>1
<1> QED
  BY <1>3, <1>4

(* A row that is shown is as the page has its rows, and there is one.      *)
LEMMA ShownIs ==
  ASSUME NEW opened, opened.page \in Names, OwnOK(opened), NEW of \in Namespaces \cup {All}
  PROVE  (\A r \in RowsShown(opened, of) : RowOK(r, opened, of)) /\ RowOK(FirstRow(opened, of), opened, of)
<1> DEFINE asked == AskedIn(opened, of)
           facts == {f \in FactsOf(opened.page) : asked = Nowhere => "evaluation" \notin f}
           places == IF asked = All THEN Namespaces ELSE {asked}
<1>4. RowsShown(opened, of) = {[is |-> f, at |-> n] : f \in facts, n \in places}
  BY DEF RowsShown
<1>5. /\ asked \in Somewhere
      /\ opened.page \in Placed \cup {"describe"} => asked = opened.own
      /\ opened.page \in WithRows => asked \in Namespaces \cup {All}
      /\ opened.page = "allocations" => asked = of
  BY AskedThere
<1>6. /\ Default \in Namespaces /\ All \notin Namespaces /\ Nowhere \notin Namespaces \cup {All}
  BY BrowseAssumption
<1>7. ASSUME NEW f \in facts, NEW n \in places PROVE RowOK([is |-> f, at |-> n], opened, of)
  <2>1. n \in Somewhere /\ (asked # All => n = asked) /\ (asked = All => n \in Namespaces)
    BY <1>5 DEF Somewhere
  <2>2. opened.page \in Placed \cup {"describe"} => asked # All
    BY <1>5, <1>6 DEF OwnOK
  <2>3. opened.page = "describe" /\ opened.own = Nowhere => "evaluation" \notin f
    BY <1>5
  <2> QED
    BY <1>5, <2>1, <2>2, <2>3 DEF RowOK
<1>8. \A r \in RowsShown(opened, of) : RowOK(r, opened, of)
  BY <1>4, <1>7
<1>9. FirstRow(opened, of) \in RowsShown(opened, of)
  <2>1. \E f : f \in facts
    BY FactsThere
  <2>2. \E n : n \in places
    BY <1>6
  <2>3. PICK f, n : f \in facts /\ n \in places
    BY <2>1, <2>2
  <2>4. [is |-> f, at |-> n] \in RowsShown(opened, of)
    BY <1>4, <2>3
  <2> QED
    BY <2>4 DEF FirstRow
<1> QED
  BY <1>8, <1>9

------------------------------------------------------------------------------
(* The screens on top of one another.                                      *)

Screens == [page : Names, own : Somewhere, meant : Somewhere, submitted : BOOLEAN]

Fits(stack) == stack \in Seq(Screens) /\ \A i \in DOMAIN stack : OwnOK(stack[i])
NoPlanIn(stack) == \A i \in DOMAIN stack : stack[i].page # "plan"

PagesOK == Fits(pages) /\ pages # <<>> /\ RowOK(row, OnTop, namespace)

(* What is open over a page, and a call, are of what the key was pressed   *)
(* on; a file that is planned has a namespace.                             *)
OverOK ==
  /\ over = [kind |-> over.kind, call |-> over.call, at |-> over.at, meant |-> over.meant]
  /\ over.at \in {over.meant, Nowhere} /\ over.at \in Somewhere /\ over.meant \in Somewhere
  /\ over.call = "plan" => over.at \in Namespaces /\ over.at = over.meant

CalledOK == called = NoCall \/ called.at \in {called.meant, Nowhere}

(* In read-only mode there is nothing to submit, nor a way to what could   *)
(* be: no plan is on the screens under the page either.                    *)
Harmless == readOnly => called = NoCall /\ over = NotOver /\ NoPlanIn(pages)

BrowseInv == PagesOK /\ namespace \in Namespaces \cup {All} /\ OverOK /\ CalledOK /\ Harmless

LEMMA TopIs ==
  ASSUME NEW stack, Fits(stack), stack # <<>>
  PROVE  Last(stack) \in Screens /\ OwnOK(Last(stack)) /\ (NoPlanIn(stack) => Last(stack).page # "plan")
<1>1. Len(stack) \in DOMAIN stack /\ Last(stack) = stack[Len(stack)] /\ stack[Len(stack)] \in Screens
  BY DEF Fits, Last
<1> QED
  BY <1>1 DEF Fits, NoPlanIn

LEMMA OnIs ==
  ASSUME NEW stack, Fits(stack), NEW opened \in Screens, OwnOK(opened)
  PROVE  /\ Fits(Append(stack, opened)) /\ Append(stack, opened) # <<>> /\ Last(Append(stack, opened)) = opened
         /\ NoPlanIn(stack) /\ opened.page # "plan" => NoPlanIn(Append(stack, opened))
<1>1. PICK more : more = Append(stack, opened)
  OBVIOUS
<1>2. /\ more \in Seq(Screens) /\ Len(more) = Len(stack) + 1 /\ more[Len(stack) + 1] = opened
      /\ \A i \in 1 .. Len(stack) : more[i] = stack[i]
  BY <1>1 DEF Fits
<1>3. Len(stack) \in Nat /\ DOMAIN stack = 1 .. Len(stack) /\ DOMAIN more = 1 .. (Len(stack) + 1)
  BY <1>2 DEF Fits
<1>4. \A i \in DOMAIN more : more[i] = opened \/ \E j \in DOMAIN stack : more[i] = stack[j]
  BY <1>2, <1>3
<1>5. Fits(more)
  BY <1>2, <1>4 DEF Fits
<1>6. more # <<>> /\ Last(more) = opened
  BY <1>2, <1>3 DEF Last
<1>7. NoPlanIn(stack) /\ opened.page # "plan" => NoPlanIn(more)
  BY <1>4 DEF NoPlanIn
<1> QED
  BY <1>1, <1>5, <1>6, <1>7

LEMMA UnderIs ==
  ASSUME NEW stack, Fits(stack), stack # <<>>
  PROVE  /\ Fits(Front(stack)) /\ (NoPlanIn(stack) => NoPlanIn(Front(stack)))
         /\ Len(stack) > 1 => Front(stack) # <<>>
<1>1. PICK under : under = Front(stack)
  OBVIOUS
<1>2. PICK n : n = Len(stack) - 1
  OBVIOUS
<1>2a. n \in Nat /\ Len(stack) = n + 1 /\ DOMAIN stack = 1 .. (n + 1)
  <2>1. Len(stack) \in Nat /\ Len(stack) # 0 /\ DOMAIN stack = 1 .. Len(stack)
    BY DEF Fits
  <2> QED
    BY <1>2, <2>1
<1>3. under = [i \in 1 .. n |-> stack[i]]
  BY <1>1, <1>2 DEF Front
<1>4. \A i \in 1 .. n : stack[i] \in Screens /\ i \in DOMAIN stack
  BY <1>2a DEF Fits
<1>5. under \in [1 .. n -> Screens]
  BY <1>3, <1>4
<1>6. under \in Seq(Screens) /\ DOMAIN under = 1 .. n
  BY <1>2a, <1>5
<1>7. \A i \in DOMAIN under : i \in DOMAIN stack /\ under[i] = stack[i]
  BY <1>3, <1>4, <1>6
<1>8. Fits(under) /\ (NoPlanIn(stack) => NoPlanIn(under))
  BY <1>6, <1>7 DEF Fits, NoPlanIn
<1>9. Len(stack) > 1 => under # <<>>
  BY <1>2a, <1>6
<1> QED
  BY <1>1, <1>8, <1>9

(* A page opens on top, and its first row is one of its own.               *)
LEMMA PutOnIs ==
  ASSUME PagesOK, NEW opened \in Screens, OwnOK(opened), NEW of \in Namespaces \cup {All}, PutOn(opened, of),
         namespace' = of
  PROVE  PagesOK' /\ (NoPlanIn(pages) /\ opened.page # "plan" => NoPlanIn(pages'))
<1>1. pages' = Append(pages, opened) /\ row' = FirstRow(opened, of)
  BY DEF PutOn
<1>2. Fits(pages') /\ pages' # <<>> /\ Last(pages') = opened
  BY <1>1, OnIs DEF PagesOK
<1>3. opened.page \in Names
  BY DEF Screens
<1>4. RowOK(row', opened, of)
  BY <1>1, <1>3, ShownIs
<1>5. NoPlanIn(pages) /\ opened.page # "plan" => NoPlanIn(pages')
  BY <1>1, OnIs DEF PagesOK
<1> QED
  BY <1>2, <1>4, <1>5 DEF PagesOK, OnTop

(* The page under it is read again.                                        *)
LEMMA ReadAgainIs ==
  ASSUME Fits(pages'), pages' # <<>>, namespace' \in Namespaces \cup {All}, row' = FirstRow(OnTop', namespace')
  PROVE  PagesOK'
<1>1. OnTop' \in Screens /\ OwnOK(OnTop')
  BY TopIs DEF OnTop
<1>2. OnTop'.page \in Names
  BY <1>1 DEF Screens
<1>3. RowOK(row', OnTop', namespace')
  BY <1>1, <1>2, ShownIs
<1> QED
  BY <1>3 DEF PagesOK

------------------------------------------------------------------------------
(* Where a key acts.                                                       *)

LEMMA OfEvaluation ==
  ASSUME NEW is, NEW key \in KeysOf("describe", is), key.offered, key.does = "open"
  PROVE  "evaluation" \in is
<1>1. key \in DescribeKeys(is)
  BY DEF KeysOf
<1>2. CASE key = When(Opens("a", "jobAllocations", "page"), "evaluation" \in is)
  BY <1>2 DEF When, Opens, Key
<1>3. CASE key \in TextKeys(is)
  <2>1. key.does = "stay"
    BY <1>3 DEF TextKeys, FindKeys, When, Stays, Key
  <2> QED
    BY <2>1
<1> QED
  BY <1>1, <1>2, <1>3 DEF DescribeKeys

Pressed(key, at) ==
  /\ key.does = "open" =>
       /\ PageOn(key.to, at, Meant(key, at)) \in Screens /\ OwnOK(PageOn(key.to, at, Meant(key, at)))
  /\ key.does = "switch" => at \in Namespaces /\ key.to = "jobs"
  /\ key.does \notin {"open", "switch", "stay"} =>
       /\ at \in {Meant(key, at), Nowhere} /\ at \in Somewhere /\ Meant(key, at) \in Somewhere
       /\ key.to = "plan" => at \in Namespaces /\ at = Meant(key, at)

(* A page that is opened on a row, of the namespace of the row.            *)
LEMMA OpenedOn ==
  ASSUME NEW to \in Linked, NEW at \in Namespaces
  PROVE  PageOn(to, at, at) \in Screens /\ OwnOK(PageOn(to, at, at))
<1>1. to \in Names /\ to \notin Unplaced
  BY DEF Linked, Names, Unplaced, Views, Placed
<1> QED
  BY <1>1 DEF PageOn, Screens, OwnOK, Somewhere

LEMMA OpenedNowhere ==
  ASSUME NEW to \in Unplaced \cup {"describe"}
  PROVE  PageOn(to, Nowhere, Nowhere) \in Screens /\ OwnOK(PageOn(to, Nowhere, Nowhere))
<1>1. to \in Names /\ to \notin Placed \cup {"jobLogs"}
  BY DEF Names, Unplaced, Views, Placed
<1> QED
  BY <1>1 DEF PageOn, Screens, OwnOK, Somewhere

LEMMA LogsOpened ==
  ASSUME NEW at \in Namespaces \cup {All}, NEW meant \in Somewhere, at = All \/ at = meant
  PROVE  PageOn("jobLogs", at, meant) \in Screens /\ OwnOK(PageOn("jobLogs", at, meant))
<1>1. "jobLogs" \in Names /\ "jobLogs" \notin Placed \cup Unplaced
  BY DEF Names, Unplaced, Views, Placed
<1> QED
  BY <1>1 DEF PageOn, Screens, OwnOK, Somewhere

LEMMA PressedIs ==
  ASSUME PagesOK, namespace \in Namespaces \cup {All}, NEW key \in Offered(OnTop.page, row.is), NEW at \in ActsAt(key)
  PROVE  Pressed(key, at) /\ (readOnly => key.does \in {"open", "switch", "stay"} /\ key.to # "plan")
<1>1. key \in KeysOf(OnTop.page, row.is) /\ key.offered /\ ~(readOnly /\ key.writes)
  BY DEF Offered, Withheld
<1>2. Suits(OnTop.page, key)
  BY <1>1, KeysSuit
<1>3. OnTop \in Screens /\ OwnOK(OnTop) /\ RowOK(row, OnTop, namespace)
  BY TopIs DEF PagesOK, OnTop
<1>4. All \notin Namespaces /\ Nowhere \notin Namespaces \cup {All} /\ Default \in Namespaces
  BY BrowseAssumption
<1>5. PICK meant : meant = Meant(key, at)
  OBVIOUS
<1>6. meant = at \/ (at # Nowhere /\ meant = row.at)
  BY <1>5 DEF Meant
<1>7. CASE key.at = "row" /\ OnTop.page \in WithRows
  <2>1. at = row.at /\ row.at \in Namespaces
    BY <1>3, <1>7 DEF ActsAt, RowOK
  <2>2. meant = at /\ at \in Somewhere
    BY <1>6, <2>1 DEF Somewhere
  <2>3. key.does = "open" => key.to \in Linked
    BY <1>2, <1>7 DEF Suits
  <2>4. Pressed(key, at)
    BY <1>2, <1>5, <2>1, <2>2, <2>3, OpenedOn DEF Suits, Pressed
  <2> QED
    BY <1>1, <1>2, <2>4 DEF Suits
<1>8. CASE key.at = "page" /\ OnTop.page \in Placed
  <2>1. OnTop.own \in Namespaces /\ row.at = OnTop.own
    BY <1>3, <1>8 DEF OwnOK, RowOK
  <2>2. OnTop.own # Nowhere
    BY <1>4, <2>1
  <2>3. at = OnTop.own
    BY <1>8, <2>2 DEF ActsAt
  <2>4. meant = at /\ at \in Somewhere /\ at \in Namespaces
    BY <1>6, <2>1, <2>3 DEF Somewhere
  <2>5. OnTop.page \notin {"describe", "allocations", "client"}
    BY <1>8 DEF Placed
  <2>6. key.does = "open" => key.to \in Linked
    BY <1>2, <1>8, <2>5 DEF Suits
  <2>7. key.does # "switch"
    BY <1>2, <1>8 DEF Suits
  <2>8. Pressed(key, at)
    BY <1>5, <2>4, <2>6, <2>7, OpenedOn DEF Pressed
  <2> QED
    BY <1>1, <1>2, <2>8 DEF Suits
<1>9. CASE key.at = "page" /\ OnTop.page = "describe" /\ key.does = "open"
  <2>1. "evaluation" \in row.is
    BY <1>1, <1>9, OfEvaluation
  <2>2. OnTop.own \in Namespaces /\ row.at = OnTop.own
    BY <1>3, <1>9, <2>1 DEF OwnOK, RowOK
  <2>3. OnTop.own # Nowhere
    BY <1>4, <2>2
  <2>4. at = OnTop.own
    BY <1>9, <2>3 DEF ActsAt
  <2>5. meant = at /\ at \in Namespaces
    BY <1>6, <2>2, <2>4
  <2>6. key.to \in Linked
    BY <1>2, <1>9 DEF Suits
  <2>7. Pressed(key, at)
    BY <1>5, <1>9, <2>5, <2>6, OpenedOn DEF Pressed
  <2> QED
    BY <1>1, <1>2, <2>7 DEF Suits
<1>10. CASE key.at = "page" /\ OnTop.page \in {"allocations", "client"} /\ key.does = "open"
  <2>1. OnTop.own = Nowhere /\ OnTop.page \in WithRows /\ OnTop.page \notin Placed \cup {"describe"}
    BY <1>3, <1>10 DEF OwnOK, Unplaced, Views, WithRows, Placed
  <2>2. at = Where(PageOf(OnTop.page).watches, OnTop)
    BY <1>10, <2>1 DEF ActsAt
  <2>3. row.at \in Namespaces /\ (OnTop.page = "allocations" /\ namespace # All => row.at = namespace)
    BY <1>3, <2>1 DEF RowOK
  <2>4. at \in Namespaces \cup {All} /\ (at = All \/ at = row.at)
    <3>1. CASE OnTop.page = "allocations"
      <4>1. at = namespace
        BY <2>2, <3>1, AllRead DEF Where
      <4> QED
        BY <2>3, <3>1, <4>1
    <3>2. CASE OnTop.page = "client"
      <4>1. at = All
        BY <2>2, <3>2, AllRead DEF Where
      <4> QED
        BY <4>1
    <3> QED
      BY <1>10, <3>1, <3>2
  <2>5. meant \in Somewhere /\ (at = All \/ at = meant)
    BY <1>6, <2>3, <2>4 DEF Somewhere
  <2>6. key.to = "jobLogs"
    <3>1. OnTop.page \notin Placed \cup {"describe"}
      BY <2>1
    <3> QED
      BY <1>2, <1>10, <3>1 DEF Suits
  <2>7. Pressed(key, at)
    BY <1>5, <1>10, <2>4, <2>5, <2>6, LogsOpened DEF Pressed
  <2> QED
    BY <1>1, <1>2, <2>7 DEF Suits
<1>11. CASE key.at = "cluster"
  <2>1. at = Nowhere
    BY <1>11 DEF ActsAt
  <2>2. meant = Nowhere
    BY <1>6, <2>1
  <2>3. key.does = "open" => key.to \in Unplaced \cup {"describe"}
    BY <1>2, <1>11 DEF Suits
  <2>4. key.does # "switch" /\ (key.does \notin {"open", "switch", "stay"} => key.to # "plan")
    BY <1>2, <1>11 DEF Suits
  <2>5. Pressed(key, at)
    BY <1>5, <2>1, <2>2, <2>3, <2>4, OpenedNowhere DEF Pressed, Somewhere
  <2> QED
    BY <1>1, <1>2, <2>5 DEF Suits
<1>12. CASE /\ key.at \in {"session", "file"} /\ key.press = "n" /\ key.writes
            /\ key.does \notin {"open", "switch", "stay"}
  <2>1. at \in Namespaces
    <3>1. CASE key.at = "session"
      BY <1>4, <3>1 DEF ActsAt, TargetNamespace
    <3>2. CASE key.at = "file"
      BY <3>2 DEF ActsAt
    <3> QED
      BY <1>12, <3>1, <3>2
  <2>2. meant = at
    BY <1>5, <1>12 DEF Meant
  <2>3. Pressed(key, at)
    BY <1>5, <1>12, <2>1, <2>2 DEF Pressed, Somewhere
  <2> QED
    BY <1>1, <1>12, <2>3
<1>13. CASE key.does = "stay"
  <2>1. Pressed(key, at)
    BY <1>13 DEF Pressed
  <2> QED
    BY <1>1, <1>2, <1>13, <2>1 DEF Suits
<1> QED
  BY <1>2, <1>7, <1>8, <1>9, <1>10, <1>11, <1>12, <1>13 DEF Suits

------------------------------------------------------------------------------
(* The steps.                                                              *)

LEMMA PressKeeps ==
  ASSUME BrowseInv, Press
  PROVE  BrowseInv'
<1> DEFINE Chosen(key, at) ==
          \/ /\ key.does = "open"
             /\ PutOn(PageOn(key.to, at, Meant(key, at)), namespace)
             /\ called' = NoCall /\ UNCHANGED <<namespace, over>>
          \/ /\ key.does = "switch" /\ namespace' = at /\ PutOn(Listed(key.to), at)
             /\ called' = NoCall /\ UNCHANGED over
          \/ /\ key.does \in {"ask", "type", "typeask", "typeedit", "edit", "form"}
             /\ \E kind \in IF key.does = "form" THEN {"ask", "edit"} ELSE {key.does} :
                  over' = [kind |-> kind, call |-> key.to, at |-> at, meant |-> Meant(key, at)]
             /\ called' = NoCall /\ UNCHANGED <<pages, row, namespace>>
          \/ /\ key.does = "do" /\ ~OnTop.submitted
             /\ called' = [call |-> key.to, at |-> at, meant |-> Meant(key, at)]
             /\ pages' = [pages EXCEPT ![Len(pages)].submitted = OnTop.page = "plan"]
             /\ UNCHANGED <<row, namespace, over>>
<1>0. PICK key \in Offered(OnTop.page, row.is) : \E at \in ActsAt(key) : Chosen(key, at)
  BY DEF Press
<1>1. PICK at \in ActsAt(key) : Chosen(key, at)
  BY <1>0
<1>2. PagesOK /\ namespace \in Namespaces \cup {All} /\ OverOK /\ CalledOK /\ Harmless
  BY DEF BrowseInv
<1>3. Pressed(key, at) /\ (readOnly => key.does \in {"open", "switch", "stay"} /\ key.to # "plan")
  BY <1>1, <1>2, PressedIs
<1>4. over = NotOver /\ readOnly' = readOnly
  BY DEF Press
<1>5. CASE /\ key.does = "open" /\ PutOn(PageOn(key.to, at, Meant(key, at)), namespace)
           /\ called' = NoCall /\ UNCHANGED <<namespace, over>>
  <2>1. PICK opened : opened = PageOn(key.to, at, Meant(key, at))
    OBVIOUS
  <2>2. opened \in Screens /\ OwnOK(opened)
    BY <1>3, <1>5, <2>1 DEF Pressed
  <2>3. opened.page = key.to
    BY <2>1 DEF PageOn
  <2>4. PagesOK' /\ (NoPlanIn(pages) /\ key.to # "plan" => NoPlanIn(pages'))
    BY <1>2, <1>5, <2>1, <2>2, <2>3, PutOnIs
  <2>5. OverOK' /\ CalledOK'
    BY <1>2, <1>5 DEF OverOK, CalledOK
  <2>6. Harmless'
    BY <1>2, <1>3, <1>4, <1>5, <2>4 DEF Harmless
  <2> QED
    BY <1>2, <1>5, <2>4, <2>5, <2>6 DEF BrowseInv
<1>6. CASE key.does = "switch" /\ namespace' = at /\ PutOn(Listed(key.to), at) /\ called' = NoCall /\ UNCHANGED over
  <2>1. at \in Namespaces /\ key.to = "jobs"
    BY <1>3, <1>6 DEF Pressed
  <2>2. PICK opened : opened = Listed("jobs")
    OBVIOUS
  <2>3. opened \in Screens /\ OwnOK(opened) /\ opened.page # "plan"
    <3>1. "jobs" \in Unplaced
      BY DEF Unplaced, Views
    <3>2. opened = PageOn("jobs", Nowhere, Nowhere) /\ opened.page = "jobs"
      BY <2>2 DEF Listed, PageOn
    <3> QED
      BY <3>1, <3>2, OpenedNowhere
  <2>4. PagesOK' /\ (NoPlanIn(pages) => NoPlanIn(pages'))
    BY <1>2, <1>6, <2>1, <2>2, <2>3, PutOnIs
  <2>5. OverOK' /\ CalledOK'
    BY <1>2, <1>6 DEF OverOK, CalledOK
  <2>6. Harmless'
    BY <1>2, <1>4, <1>6, <2>4 DEF Harmless
  <2> QED
    BY <1>6, <2>1, <2>4, <2>5, <2>6 DEF BrowseInv
<1>7. CASE /\ key.does \in {"ask", "type", "typeask", "typeedit", "edit", "form"}
           /\ \E kind \in IF key.does = "form" THEN {"ask", "edit"} ELSE {key.does} :
                over' = [kind |-> kind, call |-> key.to, at |-> at, meant |-> Meant(key, at)]
           /\ called' = NoCall /\ UNCHANGED <<pages, row, namespace>>
  <2>1. PICK kind : over' = [kind |-> kind, call |-> key.to, at |-> at, meant |-> Meant(key, at)]
    BY <1>7
  <2>2. /\ at \in {Meant(key, at), Nowhere} /\ at \in Somewhere /\ Meant(key, at) \in Somewhere
        /\ key.to = "plan" => at \in Namespaces /\ at = Meant(key, at)
    BY <1>3, <1>7 DEF Pressed
  <2>3. OverOK'
    <3>1. PICK meant, o : meant = Meant(key, at) /\ o = over'
      OBVIOUS
    <3>2. o = [kind |-> kind, call |-> key.to, at |-> at, meant |-> meant]
      BY <2>1, <3>1
    <3>3. /\ o = [kind |-> o.kind, call |-> o.call, at |-> o.at, meant |-> o.meant]
          /\ o.at = at /\ o.meant = meant /\ o.call = key.to
      BY <3>2
    <3> QED
      BY <2>2, <3>1, <3>3 DEF OverOK, Somewhere
  <2>4. CalledOK' /\ Harmless'
    BY <1>3, <1>4, <1>7 DEF CalledOK, Harmless
  <2>5. PagesOK' /\ namespace' = namespace
    BY <1>2, <1>7 DEF PagesOK, OnTop
  <2> QED
    BY <1>2, <2>3, <2>4, <2>5 DEF BrowseInv
<1>8. CASE /\ key.does = "do" /\ ~OnTop.submitted
           /\ called' = [call |-> key.to, at |-> at, meant |-> Meant(key, at)]
           /\ pages' = [pages EXCEPT ![Len(pages)].submitted = OnTop.page = "plan"]
           /\ UNCHANGED <<row, namespace, over>>
  <2>1. at \in {Meant(key, at), Nowhere}
    BY <1>3, <1>8 DEF Pressed
  <2>2. CalledOK'
    <3>1. called'.at = at /\ called'.meant = Meant(key, at)
      BY <1>8
    <3> QED
      BY <2>1, <3>1 DEF CalledOK
  <2>3. PICK last, sent : last = Len(pages) /\ sent = (OnTop.page = "plan")
    OBVIOUS
  <2>4. OnTop = pages[last] /\ OnTop \in Screens /\ OwnOK(OnTop) /\ last \in DOMAIN pages
    BY <1>2, <2>3, TopIs DEF PagesOK, OnTop, Last, Fits
  <2>5. PICK opened : opened = [OnTop EXCEPT !.submitted = sent]
    OBVIOUS
  <2>6. /\ opened \in Screens
        /\ opened.page = OnTop.page /\ opened.own = OnTop.own /\ opened.meant = OnTop.meant /\ opened.submitted = sent
    BY <2>3, <2>4, <2>5 DEF Screens
  <2>7. OwnOK(opened)
    BY <2>3, <2>4, <2>6 DEF OwnOK
  <2>8. pages' = [pages EXCEPT ![last] = opened]
    BY <1>8, <2>3, <2>4, <2>5
  <2>9. pages' \in Seq(Screens) /\ Len(pages') = last /\ pages'[last] = opened /\ DOMAIN pages' = DOMAIN pages
        /\ \A i \in DOMAIN pages : i # last => pages'[i] = pages[i]
    BY <1>2, <2>3, <2>4, <2>6, <2>8 DEF PagesOK, Fits
  <2>10. Fits(pages') /\ pages' # <<>> /\ OnTop' = opened
    <3>1. pages' # <<>> /\ OnTop' = opened
      BY <2>4, <2>9 DEF OnTop, Last
    <3>2. \A i \in DOMAIN pages' : OwnOK(pages'[i])
      BY <1>2, <2>7, <2>9 DEF PagesOK, Fits
    <3> QED
      BY <2>9, <3>1, <3>2 DEF Fits
  <2>11. PagesOK'
    BY <1>2, <1>8, <2>6, <2>10 DEF PagesOK, RowOK
  <2>12. OverOK' /\ Harmless'
    BY <1>2, <1>3, <1>4, <1>8 DEF OverOK, Harmless
  <2> QED
    BY <1>2, <1>8, <2>2, <2>11, <2>12 DEF BrowseInv
<1> QED
  BY <1>1, <1>5, <1>6, <1>7, <1>8

LEMMA NotOverIs ==
  ASSUME over' = NotOver
  PROVE  OverOK'
<1>1. Nowhere \in Somewhere
  BY DEF Somewhere
<1>2. /\ NotOver = [kind |-> NotOver.kind, call |-> NotOver.call, at |-> NotOver.at, meant |-> NotOver.meant]
      /\ NotOver.at = Nowhere /\ NotOver.meant = Nowhere /\ NotOver.call = "none"
  BY DEF NotOver
<1> QED
  BY <1>1, <1>2 DEF OverOK

LEMMA PlanDoneKeeps ==
  ASSUME BrowseInv, PlanDone
  PROVE  BrowseInv'
<1>1. PagesOK /\ namespace \in Namespaces \cup {All} /\ OverOK /\ CalledOK /\ Harmless
  BY DEF BrowseInv
<1>2. /\ over = NotOver /\ OnTop.submitted /\ Len(pages) > 1
      /\ row' = FirstRow(Last(pages'), namespace) /\ called' = NoCall /\ UNCHANGED <<namespace, readOnly, over>>
  BY DEF PlanDone
<1>3. Fits(pages) /\ pages # <<>> /\ OnTop \in Screens /\ OwnOK(OnTop) /\ (NoPlanIn(pages) => OnTop.page # "plan")
  BY <1>1, TopIs DEF PagesOK, OnTop
<1>4. OnTop.page = "plan" /\ OnTop.own \in Namespaces /\ OnTop.meant = OnTop.own
  BY <1>2, <1>3 DEF OwnOK, Placed
<1>5. ~readOnly
  BY <1>1, <1>3, <1>4 DEF Harmless
<1>6. Fits(Front(pages)) /\ Front(pages) # <<>>
  BY <1>2, <1>3, UnderIs
<1>7. Fits(pages') /\ pages' # <<>>
  <2>1. CASE pages' = Front(pages)
    BY <1>6, <2>1
  <2>2. CASE pages' = Append(Front(pages), PageOn("deployWatch", OnTop.own, OnTop.meant))
    <3>1. PICK opened : opened = PageOn("deployWatch", OnTop.own, OnTop.meant)
      OBVIOUS
    <3>2. "deployWatch" \in Linked
      BY DEF Linked, Placed
    <3>3. opened \in Screens /\ OwnOK(opened)
      BY <1>4, <3>1, <3>2, OpenedOn
    <3> QED
      BY <1>6, <2>2, <3>1, <3>3, OnIs
  <2> QED
    BY <2>1, <2>2 DEF PlanDone
<1>8. PagesOK'
  BY <1>1, <1>2, <1>7, ReadAgainIs DEF OnTop
<1> QED
  BY <1>1, <1>2, <1>5, <1>8 DEF BrowseInv, OverOK, CalledOK, Harmless

LEMMA SaveFileKeeps ==
  ASSUME BrowseInv, SaveFile
  PROVE  BrowseInv'
<1>1. PagesOK /\ namespace \in Namespaces \cup {All} /\ OverOK /\ CalledOK /\ Harmless
  BY DEF BrowseInv
<1>2. over.kind = "edit" /\ over' = NotOver /\ UNCHANGED <<namespace, readOnly>>
  BY DEF SaveFile
<1>3. ~readOnly
  BY <1>1, <1>2 DEF Harmless, NotOver
<1>4. PagesOK' /\ CalledOK'
  <2>1. CASE over.call = "plan" /\ PutOn(PageOn("plan", over.at, over.meant), namespace) /\ called' = NoCall
    <3>1. PICK opened : opened = PageOn("plan", over.at, over.meant)
      OBVIOUS
    <3>2. "plan" \in Linked
      BY DEF Linked, Placed
    <3>3. opened \in Screens /\ OwnOK(opened)
      BY <1>1, <2>1, <3>1, <3>2, OpenedOn DEF OverOK
    <3>4. PagesOK'
      BY <1>1, <1>2, <2>1, <3>1, <3>3, PutOnIs
    <3> QED
      BY <2>1, <3>4 DEF CalledOK
  <2>2. CASE over.call # "plan" /\ called' = Call /\ UNCHANGED <<pages, row>>
    <3>1. Call.at = over.at /\ Call.meant = over.meant
      BY DEF Call
    <3> QED
      BY <1>1, <1>2, <2>2, <3>1 DEF PagesOK, OnTop, OverOK, CalledOK
  <2> QED
    BY <2>1, <2>2 DEF SaveFile
<1> QED
  BY <1>1, <1>2, <1>3, <1>4, NotOverIs DEF BrowseInv, Harmless

(* A page of no thing opens.                                               *)
LEMMA ListedOpens ==
  ASSUME BrowseInv, NEW name \in Unplaced, PutOn(Listed(name), namespace), called' = NoCall,
         UNCHANGED <<namespace, readOnly, over>>
  PROVE  BrowseInv'
<1>1. PagesOK /\ namespace \in Namespaces \cup {All} /\ OverOK /\ CalledOK /\ Harmless
  BY DEF BrowseInv
<1>2. PICK opened : opened = Listed(name)
  OBVIOUS
<1>3. opened = PageOn(name, Nowhere, Nowhere) /\ opened.page = name /\ name # "plan"
  BY <1>2 DEF Listed, PageOn, Unplaced, Views
<1>4. opened \in Screens /\ OwnOK(opened)
  BY <1>3, OpenedNowhere
<1>5. PagesOK' /\ (NoPlanIn(pages) => NoPlanIn(pages'))
  BY <1>1, <1>2, <1>3, <1>4, PutOnIs
<1> QED
  BY <1>1, <1>5 DEF BrowseInv, OverOK, CalledOK, Harmless

LEMMA OpenByNameKeeps ==
  ASSUME BrowseInv, OpenByName
  PROVE  BrowseInv'
<1>1. PagesOK /\ namespace \in Namespaces \cup {All} /\ OverOK /\ CalledOK /\ Harmless
  BY DEF BrowseInv
<1>2. called' = NoCall /\ UNCHANGED <<namespace, readOnly, over>>
  BY DEF OpenByName
<1>3. PICK name \in Views :
        \/ name # OnTop.page /\ PutOn(Listed(name), namespace)
        \/ name = OnTop.page /\ row' = FirstRow(OnTop, namespace) /\ UNCHANGED pages
  BY DEF OpenByName
<1>4. CASE PutOn(Listed(name), namespace)
  BY <1>2, <1>4, ListedOpens DEF Unplaced
<1>5. CASE row' = FirstRow(OnTop, namespace) /\ UNCHANGED pages
  <2>1. PagesOK'
    BY <1>1, <1>2, <1>5, ReadAgainIs DEF PagesOK, OnTop
  <2> QED
    BY <1>1, <1>2, <1>5, <2>1 DEF BrowseInv, OverOK, CalledOK, Harmless
<1> QED
  BY <1>3, <1>4, <1>5

LEMMA GoBackKeeps ==
  ASSUME BrowseInv, GoBack
  PROVE  BrowseInv'
<1>1. PagesOK /\ namespace \in Namespaces \cup {All} /\ OverOK /\ CalledOK /\ Harmless
  BY DEF BrowseInv
<1>2. /\ Len(pages) > 1 /\ pages' = Front(pages) /\ row' = FirstRow(Last(pages'), namespace)
      /\ called' = NoCall /\ UNCHANGED <<namespace, readOnly, over>>
  BY DEF GoBack
<1>3. Fits(pages') /\ pages' # <<>> /\ (NoPlanIn(pages) => NoPlanIn(pages'))
  BY <1>1, <1>2, UnderIs DEF PagesOK
<1>4. PagesOK'
  BY <1>1, <1>2, <1>3, ReadAgainIs DEF OnTop
<1> QED
  BY <1>1, <1>2, <1>3, <1>4 DEF BrowseInv, OverOK, CalledOK, Harmless

LEMMA RunVerbKeeps ==
  ASSUME BrowseInv, RunVerb
  PROVE  BrowseInv'
<1>1. PagesOK /\ namespace \in Namespaces \cup {All} /\ OverOK /\ CalledOK /\ Harmless
  BY DEF BrowseInv
<1>2. called' = NoCall /\ UNCHANGED <<namespace, readOnly>>
  BY DEF RunVerb
<1>3. PICK verb \in {v \in Verbs : ~Withheld(v)} :
        \/ verb.name = "find" /\ PutOn(Listed("find"), namespace) /\ UNCHANGED over
        \/ /\ verb.name = "gc" /\ over' = [NotOver EXCEPT !.kind = "ask", !.call = "gc"]
           /\ UNCHANGED <<pages, row>>
        \/ /\ verb.name = "run" /\ \E at \in Namespaces : PutOn(PageOn("plan", at, at), namespace)
           /\ UNCHANGED over
  BY DEF RunVerb
<1>4. verb.name \in {"gc", "run"} => verb.writes
  BY DEF Verbs, Verb
<1>5. readOnly => verb.name = "find"
  BY <1>3, <1>4 DEF Verbs, Verb, Withheld
<1>6. CASE verb.name = "find" /\ PutOn(Listed("find"), namespace) /\ UNCHANGED over
  BY <1>2, <1>6, ListedOpens DEF Unplaced
<1>7. CASE verb.name = "gc" /\ over' = [NotOver EXCEPT !.kind = "ask", !.call = "gc"] /\ UNCHANGED <<pages, row>>
  <2>1. over' = [kind |-> "ask", call |-> "gc", at |-> Nowhere, meant |-> Nowhere]
    BY <1>7 DEF NotOver
  <2>2. OverOK'
    <3>1. PICK o : o = over'
      OBVIOUS
    <3>2. /\ o = [kind |-> o.kind, call |-> o.call, at |-> o.at, meant |-> o.meant]
          /\ o.at = Nowhere /\ o.meant = Nowhere /\ o.call = "gc"
      BY <2>1, <3>1
    <3> QED
      BY <3>1, <3>2 DEF OverOK, Somewhere
  <2>3. PagesOK' /\ ~readOnly
    BY <1>1, <1>2, <1>5, <1>7 DEF PagesOK, OnTop
  <2> QED
    BY <1>1, <1>2, <2>2, <2>3 DEF BrowseInv, CalledOK, Harmless
<1>8. CASE /\ verb.name = "run" /\ \E at \in Namespaces : PutOn(PageOn("plan", at, at), namespace)
           /\ UNCHANGED over
  <2>1. PICK at \in Namespaces : PutOn(PageOn("plan", at, at), namespace)
    BY <1>8
  <2>2. PICK opened : opened = PageOn("plan", at, at)
    OBVIOUS
  <2>3. opened \in Screens /\ OwnOK(opened)
    BY <2>2, OpenedOn DEF Linked, Placed
  <2>4. PagesOK' /\ ~readOnly
    BY <1>1, <1>2, <1>5, <1>8, <2>1, <2>2, <2>3, PutOnIs
  <2> QED
    BY <1>1, <1>2, <1>8, <2>4 DEF BrowseInv, OverOK, CalledOK, Harmless
<1> QED
  BY <1>3, <1>6, <1>7, <1>8

LEMMA MovesKeeps ==
  ASSUME BrowseInv, NEW to \in Namespaces \cup {All}, Moves(to)
  PROVE  BrowseInv'
<1>1. PagesOK /\ namespace \in Namespaces \cup {All} /\ OverOK /\ CalledOK /\ Harmless
  BY DEF BrowseInv
<1>2. namespace' = to /\ called' = NoCall /\ UNCHANGED <<pages, readOnly, over>>
  BY DEF Moves
<1>3. PagesOK'
  <2>1. CASE PageOf(OnTop.page).follows
    <3>1. row' = FirstRow(OnTop, to) /\ OnTop' = OnTop
      BY <1>2, <2>1 DEF Moves, OnTop
    <3> QED
      BY <1>1, <1>2, <3>1, ReadAgainIs DEF PagesOK
  <2>2. CASE ~PageOf(OnTop.page).follows
    <3>1. UNCHANGED <<row, pages>> /\ OnTop' = OnTop
      BY <1>2, <2>2 DEF Moves, OnTop
    <3>2. OnTop.page # "allocations"
      BY <2>2, SessionRead DEF OfSession
    <3> QED
      BY <1>1, <3>1, <3>2 DEF PagesOK, RowOK
  <2> QED
    BY <2>1, <2>2
<1> QED
  BY <1>1, <1>2, <1>3 DEF BrowseInv, OverOK, CalledOK, Harmless

LEMMA BrowseStep ==
  ASSUME BrowseInv, [BrowseNext]_browseVars
  PROVE  BrowseInv'
<1>1. PagesOK /\ namespace \in Namespaces \cup {All} /\ OverOK /\ CalledOK /\ Harmless
  BY DEF BrowseInv
<1>2. CASE Press
  BY <1>2, PressKeeps
<1>3. CASE PlanDone
  BY <1>3, PlanDoneKeeps
<1>4. CASE Refuse
  <2>1. PagesOK'
    BY <1>1, <1>4 DEF Refuse, PagesOK, OnTop
  <2> QED
    BY <1>1, <1>4, <2>1, NotOverIs DEF Refuse, BrowseInv, CalledOK, Harmless
<1>5. CASE Confirm
  <2>1. Call.at = over.at /\ Call.meant = over.meant /\ over # NotOver
    BY <1>5 DEF Confirm, Call, NotOver
  <2>2. PagesOK'
    BY <1>1, <1>5 DEF Confirm, PagesOK, OnTop
  <2> QED
    BY <1>1, <1>5, <2>1, <2>2, NotOverIs DEF Confirm, BrowseInv, OverOK, CalledOK, Harmless
<1>6. CASE EnterLine
  <2>1. over # NotOver /\ UNCHANGED <<pages, row, namespace, readOnly>>
    BY <1>6 DEF EnterLine, NotOver
  <2>2. PagesOK' /\ ~readOnly
    BY <1>1, <2>1 DEF PagesOK, OnTop, Harmless
  <2>3. OverOK' /\ CalledOK'
    <3>1. CASE called' = Call /\ over' = NotOver
      <4>1. Call.at = over.at /\ Call.meant = over.meant
        BY DEF Call
      <4> QED
        BY <1>1, <3>1, <4>1, NotOverIs DEF OverOK, CalledOK
    <3>2. CASE \E kind : over' = [over EXCEPT !.kind = kind] /\ called' = NoCall
      <4>1. PICK kind, o : over' = [over EXCEPT !.kind = kind] /\ o = over'
        BY <3>2
      <4>2. /\ o = [kind |-> o.kind, call |-> o.call, at |-> o.at, meant |-> o.meant]
            /\ o.call = over.call /\ o.at = over.at /\ o.meant = over.meant
        BY <1>1, <4>1 DEF OverOK
      <4> QED
        BY <1>1, <3>2, <4>1, <4>2 DEF OverOK, CalledOK
    <3> QED
      BY <1>6, <3>1, <3>2 DEF EnterLine
  <2> QED
    BY <1>1, <2>1, <2>2, <2>3 DEF BrowseInv, Harmless
<1>7. CASE SaveFile
  BY <1>7, SaveFileKeeps
<1>8. CASE OpenByName
  BY <1>8, OpenByNameKeeps
<1>9. CASE GoBack
  BY <1>9, GoBackKeeps
<1>10. CASE RunVerb
  BY <1>10, RunVerbKeeps
<1>11. CASE SwitchNamespace \/ NamespaceDeleted
  <2>1. \E to \in Namespaces \cup {All} : Moves(to)
    BY <1>11, BrowseAssumption DEF SwitchNamespace, NamespaceDeleted
  <2> QED
    BY <2>1, MovesKeeps
<1>12. CASE RowsRead
  <2>1. OnTop \in Screens /\ OwnOK(OnTop)
    BY <1>1, TopIs DEF PagesOK, OnTop
  <2>2. RowOK(row', OnTop, namespace)
    BY <1>1, <1>12, <2>1, ShownIs DEF RowsRead, Screens
  <2>3. PagesOK'
    BY <1>1, <1>12, <2>2 DEF RowsRead, PagesOK, OnTop
  <2> QED
    BY <1>1, <1>12, <2>3 DEF RowsRead, BrowseInv, OverOK, CalledOK, Harmless
<1>13. CASE UNCHANGED browseVars
  BY <1>1, <1>13 DEF browseVars, BrowseInv, PagesOK, OnTop, OverOK, CalledOK, Harmless
<1> QED
  BY <1>2, <1>3, <1>4, <1>5, <1>6, <1>7, <1>8, <1>9, <1>10, <1>11, <1>12, <1>13 DEF BrowseNext

LEMMA BrowseStarts ==
  ASSUME BrowseInit
  PROVE  BrowseInv
<1>1. /\ pages = <<Listed("jobs")>> /\ namespace \in {Default, All} /\ row = FirstRow(OnTop, namespace)
      /\ over = NotOver /\ called = NoCall
  BY DEF BrowseInit
<1>2. PICK opened : opened = Listed("jobs")
  OBVIOUS
<1>3. opened = PageOn("jobs", Nowhere, Nowhere) /\ opened.page = "jobs" /\ "jobs" \in Unplaced
  BY <1>2 DEF Listed, PageOn, Unplaced, Views
<1>4. opened \in Screens /\ OwnOK(opened)
  BY <1>3, OpenedNowhere
<1>5. pages = <<opened>> /\ Fits(pages) /\ pages # <<>> /\ OnTop = opened /\ NoPlanIn(pages)
  BY <1>1, <1>2, <1>3, <1>4 DEF Fits, OnTop, Last, NoPlanIn
<1>6. namespace \in Namespaces \cup {All}
  BY <1>1, BrowseAssumption
<1>7. RowOK(row, OnTop, namespace)
  BY <1>1, <1>4, <1>5, <1>6, ShownIs DEF Screens
<1>8. OverOK
  <2>1. Nowhere \in Somewhere
    BY DEF Somewhere
  <2>2. /\ NotOver = [kind |-> NotOver.kind, call |-> NotOver.call, at |-> NotOver.at, meant |-> NotOver.meant]
        /\ NotOver.at = Nowhere /\ NotOver.meant = Nowhere /\ NotOver.call = "none"
    BY DEF NotOver
  <2> QED
    BY <1>1, <2>1, <2>2 DEF OverOK
<1> QED
  BY <1>1, <1>5, <1>6, <1>7, <1>8 DEF BrowseInv, PagesOK, CalledOK, Harmless

(* In read-only mode no sequence of keys, commands, lines, questions and   *)
(* files changes the cluster, or even shows a plan that could be submitted *)
(* (src/internal/ui/actions.go, command.go): for every set of namespaces,  *)
(* any depth of screens, and every row of every page.                      *)
THEOREM ReadOnlyHolds == BrowseInit /\ [][BrowseNext]_browseVars => []ReadOnlyChangesNothing
<1>1. BrowseInv => ReadOnlyChangesNothing
  <2>1. PagesOK /\ NoPlanIn(pages) => OnTop.page # "plan"
    BY TopIs DEF PagesOK, OnTop
  <2> QED
    BY <2>1 DEF BrowseInv, Harmless, ReadOnlyChangesNothing
<1> QED
  BY <1>1, BrowseStarts, BrowseStep, PTL

(* What is done to a row, and what is opened from it, goes to the namespace *)
(* of the row, whatever namespace the session looks at, and wherever it has *)
(* gone since the question, the line or the file was opened                 *)
(* (src/internal/ui/page.go, namespace.go).                                 *)
THEOREM NamespaceIsKept == BrowseInit /\ [][BrowseNext]_browseVars => []KeepsToTheNamespace
<1>1. BrowseInv => KeepsToTheNamespace
  <2> SUFFICES ASSUME BrowseInv PROVE KeepsToTheNamespace
    OBVIOUS
  <2>1. called # NoCall => called.at \in {called.meant, Nowhere}
    BY DEF BrowseInv, CalledOK
  <2>2. ASSUME NEW i \in DOMAIN pages
        PROVE  \/ pages[i].own \in {pages[i].meant, Nowhere}
               \/ pages[i].page = "jobLogs" /\ pages[i].own = All
    <3>1. pages[i] \in Screens /\ OwnOK(pages[i])
      BY <2>2 DEF BrowseInv, PagesOK, Fits
    <3>2. pages[i].page \in Placed \cup Unplaced \cup {"describe", "jobLogs"}
      BY <3>1 DEF Screens, Names
    <3> QED
      BY <3>1, <3>2 DEF OwnOK
  <2> QED
    BY <2>1, <2>2 DEF KeepsToTheNamespace
<1> QED
  BY <1>1, BrowseStarts, BrowseStep, PTL

(* A page asks for its events in the namespace it asks its rows in.        *)
LEMMA EventsOfRows ==
  ASSUME NEW name \in Names \ {"queue", "poolQueue"}, PageOf(name).topics # {},
         PageOf(name).reads \notin {"cluster", "none"}
  PROVE  PageOf(name).watches \in {"all", PageOf(name).reads}
<1>1. CASE name \in Placed \cup {"describe", "jobLogs"}
  <2>1. name \notin Texts
    BY TextPage
  <2>2. PICK topics : PageOf(name) = Page("page", "page", topics, FALSE)
    BY <1>1, <2>1, PlacedPage
  <2> QED
    BY <2>2 DEF Page
<1>2. CASE name \in OfSession
  BY <1>2, SessionRead
<1>3. CASE name \in {"poolJobs", "client", "nodes"}
  BY <1>3 DEF PageOf, JobsPage, ClientPage, NodesPage, Page
<1>4. CASE name \in Unplaced \ (OfSession \cup OfAll)
  BY <1>4, AllRead, OthersRead
<1> QED
  BY <1>1, <1>2, <1>3, <1>4 DEF Names, OfAll

(* Every page but the two of the queue is told of the changes of all it     *)
(* shows: its events are asked for in the namespace of its rows or in every *)
(* one (src/internal/ui/page.go, watch.go). The queue of the brokers holds  *)
(* jobs of every namespace and watches one (run pages_queue).               *)
THEOREM WatchedIsRead == BrowseInit /\ [][BrowseNext]_browseVars =>
                           [](OnTop.page \notin {"queue", "poolQueue"} => WatchesWhatItReads)
<1>1. BrowseInv => (OnTop.page \notin {"queue", "poolQueue"} => WatchesWhatItReads)
  <2> SUFFICES ASSUME BrowseInv, OnTop.page \notin {"queue", "poolQueue"} PROVE WatchesWhatItReads
    OBVIOUS
  <2>1. OnTop.page \in Names
    BY TopIs DEF BrowseInv, PagesOK, OnTop, Screens
  <2>2. SUFFICES ASSUME PageOf(OnTop.page).topics # {}, PageOf(OnTop.page).reads \notin {"cluster", "none"}
                 PROVE  Where(PageOf(OnTop.page).watches, OnTop) \in {All, Where(PageOf(OnTop.page).reads, OnTop)}
    BY DEF WatchesWhatItReads
  <2>3. PageOf(OnTop.page).watches \in {"all", PageOf(OnTop.page).reads}
    BY <2>1, <2>2, EventsOfRows
  <2> QED
    BY <2>3 DEF Where
<1> QED
  BY <1>1, BrowseStarts, BrowseStep, PTL

(* A press means one thing on a row: of the keys a page keeps on one press  *)
(* at most one is offered, on every row of every page but that of a volume  *)
(* (src/internal/ui/page.go:229). There "ctrl+r" releases a claim and       *)
(* restarts an allocation, and the first one is taken.                      *)
THEOREM OneThingOfAKey == BrowseInit /\ [][BrowseNext]_browseVars =>
                            [](OnTop.page # "volume" => OneKeyOneThing)
<1>1. BrowseInv => (OnTop.page # "volume" => OneKeyOneThing)
  <2> SUFFICES ASSUME BrowseInv, OnTop.page # "volume" PROVE OneKeyOneThing
    OBVIOUS
  <2>1. row.is \in FactsOf(OnTop.page)
    BY DEF BrowseInv, PagesOK, RowOK
  <2>2. Apart(KeysOf(OnTop.page, row.is))
    BY <2>1, KeysApart
  <2>3. \A key \in Offered(OnTop.page, row.is) : key \in KeysOf(OnTop.page, row.is) /\ key.offered
    BY DEF Offered
  <2> QED
    BY <2>2, <2>3 DEF Apart, OneKeyOneThing
<1> QED
  BY <1>1, BrowseStarts, BrowseStep, PTL
=============================================================================
