----------------------------- MODULE TextProofs ------------------------------
(* Theorems of the window over a text, for any height, widths, lines and    *)
(* limits: what is kept of its rows, its place, and the matches of a word.  *)
(* The sums and the rows of a text are folds over its lines; the lemmas     *)
(* first say of each fold that there is a function that goes through the    *)
(* places one by one, by induction over the number of lines.                *)
EXTENDS TextWindow, Extrema, FiniteSetTheorems, SequenceTheorems, TLAPS

------------------------------------------------------------------------------
(* Induction, over a set of naturals.                                       *)
LEMMA Inducts ==
  ASSUME NEW S, 0 \in S, \A n \in Nat : n \in S => n + 1 \in S
  PROVE  \A n \in Nat : n \in S
<1> SUFFICES ASSUME NEW T, T = {n \in Nat : n \notin S}, T # {} PROVE FALSE
  OBVIOUS
<1>1. T \in SUBSET Nat
  OBVIOUS
<1>2. PICK least : least = Min(T)
  OBVIOUS
<1>3. least \in Nat /\ least \notin S /\ \A n \in T : least <= n
  BY <1>1, <1>2, MinIs
<1>4. least # 0
  BY <1>3
<1>5. least - 1 \in Nat
  BY <1>3, <1>4
<1>6. least - 1 \notin T
  BY <1>3, <1>5
<1> QED
  BY <1>3, <1>5, <1>6

-------------------------------------------------------------------------------
(* The sums and the rows of a text, place by place.                         *)
Added(f, p, n) ==
  p \in [0 .. n -> Nat] /\ p[0] = 0 /\ \A k \in 0 .. n - 1 : p[k + 1] = p[k] + f[k + 1]

AnyOf(s) == CHOOSE x \in s : TRUE
SumOfRest(f, g, s) == IF s = {} THEN 0 ELSE f[AnyOf(s)] + g[s \ {AnyOf(s)}]

IsSum(f, g, n) == \A s \in SUBSET (1 .. n) : g[s] = SumOfRest(f, g, s)
AddsUp(f, g, n) == \A s \in SUBSET (1 .. n) : \A x \in s : g[s] = f[x] + g[s \ {x}]
SumFunction1(f, g, n) == g = [s \in SUBSET (1 .. n) |-> SumOfRest(f, g, s)]

(* The size of a set of places, which grows with every place in it.         *)
LEMMA SizeIs ==
  ASSUME NEW n \in Nat
  PROVE  \E size \in [SUBSET (1 .. n) -> 0 .. n] :
           \A s \in SUBSET (1 .. n) :
             /\ size[s] = 0 => s = {}
             /\ \A x \in s : size[s \ {x}] + 1 = size[s] /\ s \ {x} \in SUBSET (1 .. n)
<1> DEFINE size == [s \in SUBSET (1 .. n) |-> Cardinality(s)]
<1>1. IsFiniteSet(1 .. n) /\ Cardinality(1 .. n) = n
  <2>1. 1 \in Int /\ n \in Int
    OBVIOUS
  <2>2. IsFiniteSet(1 .. n) /\ Cardinality(1 .. n) = IF 1 > n THEN 0 ELSE n - 1 + 1
    BY <2>1, FS_Interval
  <2> QED
    BY <2>2
<1>2. ASSUME NEW s \in SUBSET (1 .. n) PROVE IsFiniteSet(s) /\ Cardinality(s) \in 0 .. n
  <2>2. IsFiniteSet(s) /\ Cardinality(s) <= n
    BY <1>1, FS_Subset
  <2>3. Cardinality(s) \in Nat
    BY <2>2, FS_CardinalityType
  <2> QED
    BY <2>2, <2>3
<1>3. ASSUME NEW s \in SUBSET (1 .. n) PROVE Cardinality(s) = 0 => s = {}
  BY <1>2, FS_EmptySet
<1>4. ASSUME NEW s \in SUBSET (1 .. n), NEW x \in s
      PROVE  Cardinality(s \ {x}) + 1 = Cardinality(s) /\ s \ {x} \in SUBSET (1 .. n)
  <2>1. Cardinality(s \ {x}) = Cardinality(s) - 1
    BY <1>2, FS_RemoveElement
  <2> QED
    BY <1>2, <2>1
<1>5. size \in [SUBSET (1 .. n) -> 0 .. n]
  BY <1>2
<1> QED
  BY <1>3, <1>4, <1>5

LEMMA SumExists ==
  ASSUME NEW n \in Nat, NEW f \in [1 .. n -> Nat]
  PROVE  \E g \in [SUBSET (1 .. n) -> Nat] : IsSum(f, g, n)
<1>1. PICK size \in [SUBSET (1 .. n) -> 0 .. n] :
           \A s \in SUBSET (1 .. n) :
             /\ size[s] = 0 => s = {}
             /\ \A x \in s : size[s \ {x}] + 1 = size[s] /\ s \ {x} \in SUBSET (1 .. n)
  BY SizeIs
<1> DEFINE Holds(g, k) == \A s \in SUBSET (1 .. n) : size[s] <= k => g[s] = SumOfRest(f, g, s)
           Reached == {k \in Nat : \E g \in [SUBSET (1 .. n) -> Nat] : Holds(g, k)}
<1>4. \A s : s # {} => AnyOf(s) \in s
  BY DEF AnyOf
<1>5. ASSUME NEW g, NEW h, NEW s, \A x \in s : g[s \ {x}] = h[s \ {x}]
      PROVE  SumOfRest(f, g, s) = SumOfRest(f, h, s)
  BY <1>4, <1>5 DEF SumOfRest
<1>6. 0 \in Reached
  <2> DEFINE g == [s \in SUBSET (1 .. n) |-> 0]
  <2>1. ASSUME NEW s \in SUBSET (1 .. n), size[s] <= 0 PROVE g[s] = SumOfRest(f, g, s)
    <3>1. size[s] \in 0 .. n
      OBVIOUS
    <3>2. s = {}
      BY <1>1, <2>1, <3>1
    <3> QED
      BY <3>2 DEF SumOfRest
  <2>2. g \in [SUBSET (1 .. n) -> Nat]
    OBVIOUS
  <2> HIDE DEF g
  <2> QED
    BY <2>1, <2>2
<1>7. ASSUME NEW k \in Nat, k \in Reached PROVE k + 1 \in Reached
  <2>1. PICK g \in [SUBSET (1 .. n) -> Nat] : Holds(g, k)
    BY <1>7
  <2> DEFINE h == [s \in SUBSET (1 .. n) |-> SumOfRest(f, g, s)]
  <2>2. h \in [SUBSET (1 .. n) -> Nat]
    <3> SUFFICES ASSUME NEW s \in SUBSET (1 .. n) PROVE SumOfRest(f, g, s) \in Nat
      OBVIOUS
    <3>1. CASE s # {}
      <4>1. AnyOf(s) \in 1 .. n /\ s \ {AnyOf(s)} \in SUBSET (1 .. n)
        BY <3>1, <1>4
      <4>2. f[AnyOf(s)] \in Nat /\ g[s \ {AnyOf(s)}] \in Nat
        BY <4>1
      <4> QED
        BY <3>1, <4>2 DEF SumOfRest
    <3> QED
      BY <3>1 DEF SumOfRest
  <2>3. \A s \in SUBSET (1 .. n) : h[s] = SumOfRest(f, g, s)
    OBVIOUS
  <2> HIDE DEF h
  <2>4. ASSUME NEW s \in SUBSET (1 .. n), size[s] <= k + 1 PROVE h[s] = SumOfRest(f, h, s)
    <3>1. ASSUME NEW x \in s PROVE g[s \ {x}] = h[s \ {x}]
      <4>1. s \ {x} \in SUBSET (1 .. n) /\ size[s \ {x}] + 1 = size[s]
        BY <1>1
      <4>2. size[s \ {x}] \in 0 .. n /\ size[s] \in 0 .. n
        BY <4>1
      <4>3. size[s \ {x}] <= k
        BY <2>4, <4>1, <4>2
      <4> QED
        BY <2>1, <2>3, <4>1, <4>3
    <3>2. SumOfRest(f, g, s) = SumOfRest(f, h, s)
      BY <1>5, <3>1
    <3> QED
      BY <2>3, <3>2
  <2>5. Holds(h, k + 1)
    BY <2>4
  <2> HIDE DEF Holds
  <2> QED
    BY <2>2, <2>5
<1>8. n \in Reached
  <2> HIDE DEF Reached
  <2> QED
    BY <1>6, <1>7, Inducts
<1>9. PICK g \in [SUBSET (1 .. n) -> Nat] : Holds(g, n)
  BY <1>8
<1>10. ASSUME NEW s \in SUBSET (1 .. n) PROVE g[s] = SumOfRest(f, g, s)
  <2>1. size[s] \in 0 .. n
    BY <1>1
  <2>2. size[s] <= n
    BY <2>1
  <2> QED
    BY <1>9, <2>2
<1> QED
  BY <1>10 DEF IsSum

LEMMA SumIsOne ==
  ASSUME NEW n \in Nat, NEW f, NEW g, NEW h \in [SUBSET (1 .. n) -> Nat],
         SumFunction1(f, g, n), IsSum(f, h, n)
  PROVE  g = h
<1>1. PICK size \in [SUBSET (1 .. n) -> 0 .. n] :
           \A s \in SUBSET (1 .. n) :
             /\ size[s] = 0 => s = {}
             /\ \A x \in s : size[s \ {x}] + 1 = size[s] /\ s \ {x} \in SUBSET (1 .. n)
  BY SizeIs
<1> DEFINE Same == {k \in Nat : \A s \in SUBSET (1 .. n) : size[s] <= k => g[s] = h[s]}
<1>2. ASSUME NEW s \in SUBSET (1 .. n), \A x \in s : g[s \ {x}] = h[s \ {x}]
      PROVE  g[s] = h[s]
  <2>1. g[s] = SumOfRest(f, g, s) /\ h[s] = SumOfRest(f, h, s)
    BY DEF SumFunction1, IsSum
  <2>2. SumOfRest(f, g, s) = SumOfRest(f, h, s)
    <3>1. s # {} => AnyOf(s) \in s
      BY DEF AnyOf
    <3> QED
      BY <1>2, <3>1 DEF SumOfRest
  <2> QED
    BY <2>1, <2>2
<1>3. 0 \in Same
  <2> SUFFICES ASSUME NEW s \in SUBSET (1 .. n), size[s] <= 0 PROVE g[s] = h[s]
    OBVIOUS
  <2>1. size[s] \in 0 .. n
    OBVIOUS
  <2>2. s = {}
    BY <1>1, <2>1
  <2> QED
    BY <1>2, <2>2
<1>4. ASSUME NEW k \in Nat, k \in Same, NEW s \in SUBSET (1 .. n), size[s] <= k + 1
      PROVE  g[s] = h[s]
  <2>1. ASSUME NEW x \in s PROVE g[s \ {x}] = h[s \ {x}]
    <3>1. s \ {x} \in SUBSET (1 .. n) /\ size[s \ {x}] + 1 = size[s]
      BY <1>1
    <3>2. size[s \ {x}] \in 0 .. n /\ size[s] \in 0 .. n
      BY <3>1
    <3>3. size[s \ {x}] <= k
      BY <1>4, <3>1, <3>2
    <3> QED
      BY <1>4, <3>1, <3>3
  <2> QED
    BY <1>2, <2>1
<1>5. ASSUME NEW k \in Nat, k \in Same PROVE k + 1 \in Same
  <2>1. \A s \in SUBSET (1 .. n) : size[s] <= k + 1 => g[s] = h[s]
    BY <1>4, <1>5
  <2>2. k + 1 \in Nat
    OBVIOUS
  <2> QED
    BY <2>1, <2>2, Zenon
<1>6. n \in Same
  <2> HIDE DEF Same
  <2> QED
    BY <1>3, <1>5, Inducts
<1>7. ASSUME NEW s \in SUBSET (1 .. n) PROVE g[s] = h[s]
  <2>1. size[s] \in 0 .. n
    OBVIOUS
  <2>2. size[s] <= n
    BY <2>1
  <2> QED
    BY <1>6, <2>2
<1> QED
  BY <1>7 DEF SumFunction1

(* Whatever the order in which they are added.                              *)
LEMMA SumOfAny ==
  ASSUME NEW n \in Nat, NEW f \in [1 .. n -> Nat], NEW g \in [SUBSET (1 .. n) -> Nat], IsSum(f, g, n)
  PROVE  AddsUp(f, g, n)
<1>1. PICK size \in [SUBSET (1 .. n) -> 0 .. n] :
           \A s \in SUBSET (1 .. n) :
             /\ size[s] = 0 => s = {}
             /\ \A x \in s : size[s \ {x}] + 1 = size[s] /\ s \ {x} \in SUBSET (1 .. n)
  BY SizeIs
<1> DEFINE Fine == {k \in Nat : \A s \in SUBSET (1 .. n) : size[s] <= k =>
                         \A x \in s : g[s] = f[x] + g[s \ {x}]}
<1>2. 0 \in Fine
  <2> SUFFICES ASSUME NEW s \in SUBSET (1 .. n), size[s] <= 0 PROVE s = {}
    OBVIOUS
  <2>1. size[s] \in 0 .. n
    OBVIOUS
  <2> QED
    BY <1>1, <2>1
<1>3. ASSUME NEW s \in SUBSET (1 .. n), NEW x \in s, NEW k \in Nat, size[s] <= k + 1
      PROVE  /\ s \ {x} \in SUBSET (1 .. n) /\ size[s \ {x}] <= k
             /\ g[s \ {x}] \in Nat /\ f[x] \in Nat
  <2>1. s \ {x} \in SUBSET (1 .. n) /\ size[s \ {x}] + 1 = size[s]
    BY <1>1
  <2>2. size[s \ {x}] \in 0 .. n /\ size[s] \in 0 .. n
    BY <2>1
  <2>3. size[s \ {x}] <= k
    BY <1>3, <2>1, <2>2
  <2> QED
    BY <2>1, <2>3
<1>4. ASSUME NEW k \in Nat, k \in Fine, NEW s \in SUBSET (1 .. n), size[s] <= k + 1, NEW x \in s
      PROVE  g[s] = f[x] + g[s \ {x}]
  <2>1. PICK y : y = AnyOf(s)
    OBVIOUS
  <2>2. y \in s /\ g[s] = f[y] + g[s \ {y}]
    BY <2>1 DEF IsSum, SumOfRest, AnyOf
  <2>3. CASE x = y
    BY <2>2, <2>3
  <2>4. CASE x # y
    <3>1. s \ {y} \in SUBSET (1 .. n) /\ size[s \ {y}] <= k /\ g[s \ {y}] \in Nat /\ f[y] \in Nat
      BY <1>3, <1>4, <2>2
    <3>2. s \ {x} \in SUBSET (1 .. n) /\ size[s \ {x}] <= k /\ g[s \ {x}] \in Nat /\ f[x] \in Nat
      BY <1>3, <1>4
    <3>3. g[s \ {y}] = f[x] + g[(s \ {y}) \ {x}]
      BY <1>4, <2>4, <3>1
    <3>4. g[s \ {x}] = f[y] + g[(s \ {x}) \ {y}]
      BY <1>4, <2>2, <2>4, <3>2
    <3>5. (s \ {x}) \ {y} = (s \ {y}) \ {x}
      OBVIOUS
    <3>6. g[(s \ {y}) \ {x}] \in Nat
      <4>1. (s \ {y}) \ {x} \in SUBSET (1 .. n)
        OBVIOUS
      <4> QED
        BY <4>1
    <3>7. PICK a \in Nat, b \in Nat, r \in Nat : a = f[x] /\ b = f[y] /\ r = g[(s \ {y}) \ {x}]
      BY <3>1, <3>2, <3>6
    <3>8. g[s] = b + (a + r) /\ g[s \ {x}] = b + r
      BY <2>2, <3>3, <3>4, <3>5, <3>7
    <3>9. b + (a + r) = a + (b + r)
      OBVIOUS
    <3> QED
      BY <3>7, <3>8, <3>9
  <2> QED
    BY <2>3, <2>4
<1>5. ASSUME NEW k \in Nat, k \in Fine PROVE k + 1 \in Fine
  <2>1. \A s \in SUBSET (1 .. n) : size[s] <= k + 1 => \A x \in s : g[s] = f[x] + g[s \ {x}]
    BY <1>4, <1>5
  <2>2. k + 1 \in Nat
    OBVIOUS
  <2> QED
    BY <2>1, <2>2, Zenon
<1>6. n \in Fine
  <2> HIDE DEF Fine
  <2> QED
    BY <1>2, <1>5, Inducts
<1> SUFFICES ASSUME NEW s \in SUBSET (1 .. n) PROVE \A x \in s : g[s] = f[x] + g[s \ {x}]
  BY DEF AddsUp
<1>7. size[s] \in 0 .. n
  OBVIOUS
<1>8. size[s] <= n
  BY <1>7
<1> QED
  BY <1>6, <1>8

Summed(f) == FoldSeq(+, 0, f)

LEMMA SumIs ==
  ASSUME NEW f \in Seq(Nat)
  PROVE  \E p : Added(f, p, Len(f)) /\ Summed(f) = p[Len(f)]
<1>1. PICK n \in Nat : n = Len(f)
  BY LenProperties
<1>2. f \in [1 .. n -> Nat] /\ DOMAIN f = 1 .. n
  BY <1>1, LenProperties
<1>3. PICK g : g = (CHOOSE h : h = [s \in SUBSET (1 .. n) |-> SumOfRest(f, h, s)])
  OBVIOUS
<1>4. Summed(f) = g[1 .. n]
  BY <1>2, <1>3 DEF Summed, FoldSeq, FoldFunction, FoldFunctionOnSet, MapThenFoldSet, SumOfRest, AnyOf
<1>5. PICK g0 \in [SUBSET (1 .. n) -> Nat] : IsSum(f, g0, n)
  BY <1>2, SumExists
<1>6. g0 = [s \in SUBSET (1 .. n) |-> SumOfRest(f, g0, s)]
  BY <1>5 DEF IsSum
<1>7. SumFunction1(f, g, n)
  BY <1>3, <1>6 DEF SumFunction1
<1>8. g = g0
  BY <1>5, <1>7, SumIsOne
<1>9. AddsUp(f, g, n)
  BY <1>2, <1>5, <1>8, SumOfAny
<1> DEFINE p == [k \in 0 .. n |-> g[1 .. k]]
<1>17. p \in [0 .. n -> Nat]
  <2> SUFFICES ASSUME NEW k \in 0 .. n PROVE g[1 .. k] \in Nat
    OBVIOUS
  <2>1. 1 .. k \in SUBSET (1 .. n)
    OBVIOUS
  <2> QED
    BY <1>5, <1>8, <2>1
<1>18. p[0] = 0
  <2>1. 1 .. 0 = {} /\ {} \in SUBSET (1 .. n)
    OBVIOUS
  <2>2. g[{}] = 0
    BY <1>7, <2>1 DEF SumOfRest, SumFunction1
  <2> QED
    BY <2>1, <2>2
<1>19. ASSUME NEW k \in 0 .. n - 1 PROVE p[k + 1] = p[k] + f[k + 1]
  <2>1. (1 .. k + 1) \ {k + 1} = 1 .. k /\ k + 1 \in 1 .. k + 1 /\ 1 .. k + 1 \in SUBSET (1 .. n)
    OBVIOUS
  <2>2. g[1 .. k + 1] = f[k + 1] + g[1 .. k]
    BY <1>9, <2>1 DEF AddsUp
  <2>3. k + 1 \in 0 .. n /\ k \in 0 .. n /\ k + 1 \in 1 .. n
    OBVIOUS
  <2>4. p[k + 1] = g[1 .. k + 1] /\ p[k] = g[1 .. k]
    BY <2>3
  <2>5. p[k] \in Nat /\ f[k + 1] \in Nat
    BY <1>2, <1>17, <2>3
  <2> HIDE DEF p
  <2> QED
    BY <2>2, <2>4, <2>5
<1>20. p[n] = g[1 .. n]
  OBVIOUS
<1> HIDE DEF p
<1>21. Added(f, p, n) /\ Summed(f) = p[n]
  BY <1>4, <1>17, <1>18, <1>19, <1>20 DEF Added
<1> QED
  BY <1>1, <1>21

-------------------------------------------------------------------------------
(* Sequences put behind one another.                                        *)
Glued(R, a, p, n) ==
  p \in [0 .. n -> Seq(R)] /\ p[0] = <<>> /\ \A k \in 0 .. n - 1 : p[k + 1] = p[k] \o a[k + 1]

LEMMA GluedExists ==
  ASSUME NEW R, NEW n \in Nat, NEW a \in [1 .. n -> Seq(R)]
  PROVE  \E p : Glued(R, a, p, n)
<1> DEFINE Reached == {m \in Nat : m <= n => \E p : Glued(R, a, p, m)}
<1>1. 0 \in Reached
  <2>1. Glued(R, a, [k \in 0 .. 0 |-> <<>>], 0)
    BY EmptySeq DEF Glued
  <2> QED
    BY <2>1
<1>2. ASSUME NEW m \in Nat, m \in Reached PROVE m + 1 \in Reached
  <2> SUFFICES ASSUME m + 1 <= n PROVE \E p : Glued(R, a, p, m + 1)
    OBVIOUS
  <2>1. PICK p : Glued(R, a, p, m)
    BY <1>2
  <2> DEFINE q == [k \in 0 .. m + 1 |-> IF k = m + 1 THEN p[m] \o a[m + 1] ELSE p[k]]
  <2>2. p[m] \in Seq(R) /\ a[m + 1] \in Seq(R)
    BY <2>1 DEF Glued
  <2>3. p[m] \o a[m + 1] \in Seq(R)
    BY <2>2, ConcatProperties
  <2>4. q \in [0 .. m + 1 -> Seq(R)]
    <3> SUFFICES ASSUME NEW k \in 0 .. m + 1, k # m + 1 PROVE p[k] \in Seq(R)
      BY <2>3
    <3>1. k \in 0 .. m
      OBVIOUS
    <3> QED
      BY <2>1, <3>1 DEF Glued
  <2>5. q[0] = <<>>
    BY <2>1 DEF Glued
  <2>6. ASSUME NEW k \in 0 .. m PROVE q[k + 1] = q[k] \o a[k + 1]
    <3>1. q[k] = p[k]
      OBVIOUS
    <3>2. CASE k = m
      <4>1. m + 1 \in 0 .. m + 1
        OBVIOUS
      <4>2. q[m + 1] = p[m] \o a[m + 1]
        BY <4>1
      <4> HIDE DEF q
      <4> QED
        BY <3>1, <3>2, <4>2
    <3>3. CASE k # m
      <4>1. k \in 0 .. m - 1 /\ k + 1 \in 0 .. m + 1 /\ k + 1 # m + 1
        BY <3>3
      <4>2. q[k + 1] = p[k + 1]
        BY <4>1
      <4> QED
        BY <2>1, <3>1, <4>1, <4>2 DEF Glued
    <3> QED
      BY <3>2, <3>3
  <2>7. (m + 1) - 1 = m
    OBVIOUS
  <2> HIDE DEF q
  <2>8. Glued(R, a, q, m + 1)
    BY <2>4, <2>5, <2>6, <2>7 DEF Glued
  <2> QED
    BY <2>8
<1>3. n \in Reached
  <2> HIDE DEF Reached
  <2> QED
    BY <1>1, <1>2, Inducts
<1> QED
  BY <1>3

LEMMA FlatIs ==
  ASSUME NEW R, NEW a \in Seq(Seq(R))
  PROVE  \E p : Glued(R, a, p, Len(a)) /\ FlattenSeq(a) = p[Len(a)]
<1>1. PICK n \in Nat : n = Len(a)
  BY LenProperties
<1>2. a \in [1 .. n -> Seq(R)]
  BY <1>1, LenProperties
<1>3. PICK p : Glued(R, a, p, n)
  BY <1>2, GluedExists
<1>4. CASE n = 0
  <2>1. a = <<>>
    BY <1>1, <1>4, EmptySeq
  <2>2. FlattenSeq(a) = <<>>
    BY <1>1, <1>4, <2>1 DEF FlattenSeq
  <2> QED
    BY <1>1, <1>3, <1>4, <2>2 DEF Glued
<1>5. CASE n # 0
  <2> DEFINE Body(h, i) == IF i = 1 THEN a[i] ELSE h[i - 1] \o a[i]
  <2>1. PICK g : g = (CHOOSE h : h = [i \in 1 .. n |-> Body(h, i)])
    OBVIOUS
  <2>2. FlattenSeq(a) = g[n]
    BY <1>1, <1>5, <2>1 DEF FlattenSeq
  <2> DEFINE q == [i \in 1 .. n |-> p[i]]
  <2>3. ASSUME NEW i \in 1 .. n PROVE q[i] = Body(q, i)
    <3>1. i - 1 \in 0 .. n - 1 /\ (i - 1) + 1 = i
      OBVIOUS
    <3>2. p[i] = p[i - 1] \o a[i]
      BY <1>3, <3>1 DEF Glued
    <3>3. CASE i = 1
      <4>1. a[1] \in Seq(R) /\ p[0] = <<>>
        BY <1>2, <1>3, <3>3 DEF Glued
      <4>2. <<>> \o a[1] = a[1]
        BY <4>1, ConcatEmptySeq
      <4>3. i - 1 = 0
        BY <3>3
      <4>4. p[i] = a[i]
        BY <3>2, <3>3, <4>1, <4>2, <4>3, Zenon
      <4> QED
        BY <3>3, <4>4
    <3>4. CASE i # 1
      <4>1. i - 1 \in 1 .. n
        BY <3>4
      <4> QED
        BY <3>2, <3>4, <4>1
    <3> QED
      BY <3>3, <3>4
  <2>4. q = [i \in 1 .. n |-> Body(q, i)]
    <3> HIDE DEF Body
    <3> QED
      BY <2>3
  <2>5. g = [i \in 1 .. n |-> Body(g, i)]
    <3> HIDE DEF Body, q
    <3> QED
      BY <2>1, <2>4
  <2> DEFINE Same == {k \in Nat : k \in 1 .. n => g[k] = p[k]}
  <2>6. 0 \in Same
    OBVIOUS
  <2>7. ASSUME NEW k \in Nat, k \in Same PROVE k + 1 \in Same
    <3> SUFFICES ASSUME k + 1 \in 1 .. n PROVE g[k + 1] = p[k + 1]
      OBVIOUS
    <3>1. p[k + 1] = Body(q, k + 1)
      BY <2>3
    <3>2. g[k + 1] = Body(g, k + 1)
      BY <2>5
    <3>3. CASE k + 1 = 1
      BY <3>1, <3>2, <3>3
    <3>4. CASE k + 1 # 1
      <4>1. k \in 1 .. n /\ (k + 1) - 1 = k
        BY <3>4
      <4>2. g[k] = q[k]
        BY <2>7, <4>1
      <4> HIDE DEF q
      <4> QED
        BY <3>1, <3>2, <3>4, <4>1, <4>2
    <3> QED
      BY <3>3, <3>4
  <2>8. n \in Same
    <3> HIDE DEF Same
    <3> QED
      BY <2>6, <2>7, Inducts
  <2>9. g[n] = p[n]
    BY <1>5, <2>8
  <2> QED
    BY <1>1, <1>3, <2>2, <2>9
<1> QED
  BY <1>4, <1>5

LEMMA FlatOfBoth ==
  ASSUME NEW R, NEW a \in Seq(Seq(R)), NEW b \in Seq(Seq(R))
  PROVE  FlattenSeq(a \o b) = FlattenSeq(a) \o FlattenSeq(b)
<1> DEFINE c == a \o b
<1>1. PICK n \in Nat, m \in Nat : n = Len(a) /\ m = Len(b)
  BY LenProperties
<1>2. c \in Seq(Seq(R)) /\ Len(c) = n + m /\ \A k \in 1 .. n : c[k] = a[k]
  BY <1>1, ConcatProperties
<1>3. \A k \in 1 .. m : c[n + k] = b[k]
  <2> SUFFICES ASSUME NEW k \in 1 .. m PROVE c[n + k] = b[k]
    OBVIOUS
  <2>1. n + k \in 1 .. n + m /\ ~(n + k <= n) /\ (n + k) - n = k
    OBVIOUS
  <2> QED
    BY <1>1, <2>1, ConcatProperties
<1> HIDE DEF c
<1>4. PICK p : Glued(R, a, p, n) /\ FlattenSeq(a) = p[n]
  BY <1>1, FlatIs
<1>5. PICK q : Glued(R, b, q, m) /\ FlattenSeq(b) = q[m]
  BY <1>1, FlatIs
<1>6. PICK r : Glued(R, c, r, n + m) /\ FlattenSeq(c) = r[n + m]
  BY <1>2, FlatIs
<1> DEFINE First == {k \in Nat : k <= n => r[k] = p[k]}
           Second == {k \in Nat : k <= m => r[n + k] = p[n] \o q[k]}
<1>7. 0 \in First
  BY <1>4, <1>6 DEF Glued
<1>8. ASSUME NEW k \in Nat, k \in First PROVE k + 1 \in First
  <2> SUFFICES ASSUME k + 1 <= n PROVE r[k + 1] = p[k + 1]
    OBVIOUS
  <2>1. k \in 0 .. n - 1 /\ k \in 0 .. (n + m) - 1 /\ k + 1 \in 1 .. n
    OBVIOUS
  <2>2. r[k + 1] = r[k] \o c[k + 1] /\ p[k + 1] = p[k] \o a[k + 1]
    BY <1>4, <1>6, <2>1 DEF Glued
  <2>3. c[k + 1] = a[k + 1]
    BY <1>2, <2>1
  <2>4. k <= n
    BY <2>1
  <2>5. r[k] = p[k]
    BY <1>8, <2>4
  <2> QED
    BY <2>2, <2>3, <2>5
<1>9. r[n] = p[n] /\ p[n] \in Seq(R)
  <2>1. n \in First
    <3> HIDE DEF First
    <3> QED
      BY <1>7, <1>8, Inducts
  <2> QED
    BY <1>4, <2>1 DEF Glued
<1>10. 0 \in Second
  <2>1. q[0] = <<>> /\ n + 0 = n
    BY <1>5 DEF Glued
  <2> QED
    BY <1>9, <2>1, ConcatEmptySeq
<1>11. ASSUME NEW k \in Nat, k \in Second PROVE k + 1 \in Second
  <2>1. ASSUME k + 1 <= m PROVE r[n + (k + 1)] = p[n] \o q[k + 1]
    <3>1. n + k \in 0 .. (n + m) - 1 /\ k \in 0 .. m - 1 /\ k + 1 \in 1 .. m /\ (n + k) + 1 = n + (k + 1)
          /\ k \in 0 .. m /\ k <= m
      BY <2>1
    <3>2. r[n + (k + 1)] = r[n + k] \o b[k + 1]
      <4>1. r[(n + k) + 1] = r[n + k] \o c[(n + k) + 1]
        BY <1>6, <3>1 DEF Glued
      <4>2. c[n + (k + 1)] = b[k + 1]
        BY <1>3, <3>1
      <4> QED
        BY <3>1, <4>1, <4>2, Zenon
    <3>3. q[k + 1] = q[k] \o b[k + 1] /\ q[k] \in Seq(R)
      BY <1>5, <3>1 DEF Glued
    <3>4. b[k + 1] \in Seq(R)
      BY <1>1, <3>1, LenProperties
    <3>5. r[n + k] = p[n] \o q[k]
      BY <1>11, <3>1, Zenon
    <3>6. (p[n] \o q[k]) \o b[k + 1] = p[n] \o (q[k] \o b[k + 1])
      <4>1. PICK u \in Seq(R), v \in Seq(R), w \in Seq(R) : u = p[n] /\ v = q[k] /\ w = b[k + 1]
        BY <1>9, <3>3, <3>4
      <4>2. (u \o v) \o w = u \o (v \o w)
        BY ConcatAssociative
      <4> QED
        BY <4>1, <4>2
    <3> QED
      BY <3>2, <3>3, <3>5, <3>6, Zenon
  <2>2. k + 1 \in Nat
    OBVIOUS
  <2> QED
    BY <2>1, <2>2, Zenon
<1>12. r[n + m] = p[n] \o q[m]
  <2>1. m \in Second
    <3> HIDE DEF Second
    <3> QED
      BY <1>10, <1>11, Inducts
  <2>2. m <= m
    OBVIOUS
  <2> QED
    BY <2>1, <2>2, Zenon
<1> QED
  BY <1>4, <1>5, <1>6, <1>12 DEF c

(* How long they are together, and what is in them.                         *)
LEMMA FlatHas ==
  ASSUME NEW R, NEW a \in Seq(Seq(R)), NEW f \in Seq(Nat),
         Len(f) = Len(a), \A i \in 1 .. Len(a) : f[i] = Len(a[i])
  PROVE  /\ FlattenSeq(a) \in Seq(R) /\ Len(FlattenSeq(a)) = Summed(f)
         /\ \A k \in 1 .. Len(FlattenSeq(a)) :
              \E i \in 1 .. Len(a) : \E j \in 1 .. Len(a[i]) : FlattenSeq(a)[k] = a[i][j]
<1>1. PICK n \in Nat : n = Len(a)
  BY LenProperties
<1>2. PICK p : Glued(R, a, p, n) /\ FlattenSeq(a) = p[n]
  BY <1>1, FlatIs
<1>3. PICK q : Added(f, q, n) /\ Summed(f) = q[n]
  BY <1>1, SumIs
<1>4. \A k \in 0 .. n : p[k] \in Seq(R) /\ q[k] \in Nat
  BY <1>2, <1>3 DEF Glued, Added
<1> DEFINE Has(k) == /\ Len(p[k]) = q[k]
                     /\ \A at \in 1 .. q[k] : \E i \in 1 .. k : \E j \in 1 .. Len(a[i]) : p[k][at] = a[i][j]
           Good == {k \in Nat : k <= n => Has(k)}
<1>5. 0 \in Good
  <2>1. p[0] = <<>> /\ q[0] = 0
    BY <1>2, <1>3 DEF Glued, Added
  <2> QED
    BY <2>1
<1>6. ASSUME NEW k \in Nat, k \in Good PROVE k + 1 \in Good
  <2> SUFFICES ASSUME k + 1 <= n PROVE Has(k + 1)
    OBVIOUS
  <2>1. k \in 0 .. n - 1 /\ k + 1 \in 1 .. n /\ k \in 0 .. n /\ k <= n
    OBVIOUS
  <2>2. Has(k)
    BY <1>6, <2>1
  <2>3. p[k + 1] = p[k] \o a[k + 1] /\ q[k + 1] = q[k] + f[k + 1]
    BY <1>2, <1>3, <2>1 DEF Glued, Added
  <2>4. PICK l \in Nat : l = Len(a[k + 1]) /\ l = f[k + 1] /\ a[k + 1] \in Seq(R)
    BY <1>1, <2>1, LenProperties
  <2>5. p[k] \in Seq(R) /\ q[k] \in Nat
    BY <1>4, <2>1
  <2>6. /\ Len(p[k + 1]) = q[k] + l
        /\ \A at \in 1 .. q[k] + l : p[k + 1][at] = IF at <= q[k] THEN p[k][at] ELSE a[k + 1][at - q[k]]
    <3>1. PICK u \in Seq(R), v \in Seq(R) : u = p[k] /\ v = a[k + 1]
      BY <2>4, <2>5
    <3>2. p[k + 1] = u \o v /\ Len(u) = q[k] /\ Len(v) = l
      BY <2>2, <2>3, <2>4, <3>1
    <3>3. Len(u \o v) = q[k] + l
          /\ \A at \in 1 .. q[k] + l : (u \o v)[at] = IF at <= q[k] THEN u[at] ELSE v[at - q[k]]
      <4>1. Len(u \o v) = Len(u) + Len(v)
            /\ \A at \in 1 .. Len(u) + Len(v) : (u \o v)[at] = IF at <= Len(u) THEN u[at] ELSE v[at - Len(u)]
        BY ConcatProperties
      <4> QED
        BY <3>2, <4>1, Zenon
    <3> QED
      BY <3>1, <3>2, <3>3, Zenon
  <2>7. ASSUME NEW at \in 1 .. q[k] + l
        PROVE  \E i \in 1 .. k + 1 : \E j \in 1 .. Len(a[i]) : p[k + 1][at] = a[i][j]
    <3>1. CASE at <= q[k]
      <4>1. at \in 1 .. q[k]
        BY <2>5, <3>1
      <4>2. PICK i \in 1 .. k : \E j \in 1 .. Len(a[i]) : p[k][at] = a[i][j]
        BY <2>2, <4>1
      <4>3. i \in 1 .. k + 1 /\ p[k + 1][at] = p[k][at]
        BY <2>6, <3>1
      <4> QED
        BY <4>2, <4>3
    <3>2. CASE ~(at <= q[k])
      <4>1. at - q[k] \in 1 .. l /\ k + 1 \in 1 .. k + 1
        BY <2>5, <3>2
      <4>2. p[k + 1][at] = a[k + 1][at - q[k]]
        BY <2>6, <3>2
      <4> QED
        BY <2>4, <4>1, <4>2
    <3> QED
      BY <3>1, <3>2
  <2>8. q[k + 1] = q[k] + l
    BY <2>3, <2>4
  <2> QED
    BY <2>6, <2>7, <2>8
<1>7. n \in Good
  <2> HIDE DEF Good
  <2> QED
    BY <1>5, <1>6, Inducts
<1>8. Has(n)
  BY <1>7
<1>9. n \in 0 .. n
  OBVIOUS
<1>10. p[n] \in Seq(R)
  BY <1>4, <1>9
<1> QED
  <2>1. FlattenSeq(a) \in Seq(R) /\ Len(FlattenSeq(a)) = Summed(f)
    BY <1>2, <1>3, <1>8, <1>10
  <2> QED
    <3>1. PICK flat : flat = FlattenSeq(a)
      OBVIOUS
    <3>2. \A k \in 1 .. Len(flat) : \E i \in 1 .. Len(a) : \E j \in 1 .. Len(a[i]) : flat[k] = a[i][j]
      BY <1>1, <1>2, <1>8, <3>1
    <3> QED
      BY <2>1, <3>1, <3>2

(* The lines of a text and the rows they are drawn as.                      *)
LineSet == [n : Nat, wide : Nat \ {0}, word : BOOLEAN]
RowSet == [line : Nat, part : Nat, word : BOOLEAN, width : Int]

LEMMA LinesAre ==
  ASSUME NEW count \in Nat, written \in Nat, NEW lines \in NewLines(count)
  PROVE  lines \in Seq(LineSet) /\ Len(lines) = count /\ \A i \in 1 .. count : lines[i].n = written + i
<1>1. PICK kind \in [1 .. count -> LineKinds] :
        lines = [i \in 1 .. count |-> [n |-> written + i, wide |-> kind[i].wide, word |-> kind[i].word]]
  BY DEF NewLines
<1>2. ASSUME NEW i \in 1 .. count
      PROVE  [n |-> written + i, wide |-> kind[i].wide, word |-> kind[i].word] \in LineSet
  <2>1. kind[i] \in [wide : Nat \ {0}, word : BOOLEAN]
    BY TextWindowAssumption
  <2>2. kind[i].wide \in Nat \ {0} /\ kind[i].word \in BOOLEAN
    BY <2>1
  <2> QED
    BY <2>2 DEF LineSet
<1> QED
  BY <1>1, <1>2

(* What is drawn of a line, by the settings alone.                          *)
Drawable(w) ==
  w.filter \in BOOLEAN /\ w.wrap \in BOOLEAN /\ w.times \in BOOLEAN /\ w.width \in Nat \ {0}

LEMMA OfALine ==
  ASSUME NEW w, Drawable(w), NEW l \in LineSet
  PROVE  /\ RowsOf(w, l) \in Seq(RowSet) /\ Len(RowsOf(w, l)) \in Nat
         /\ \A i \in 1 .. Len(RowsOf(w, l)) : RowsOf(w, l)[i].line = l.n
<1> DEFINE wide == l.wide + IF w.times THEN 1 ELSE 0
           parts == IF w.wrap THEN (wide + w.width - 1) \div w.width ELSE 1
           Wide(i) == IF ~w.wrap THEN wide ELSE Min({w.width, wide - (i - 1) * w.width})
           Part(i) == [line |-> l.n, part |-> i, word |-> l.word /\ i = parts, width |-> Wide(i)]
<1>1. wide \in Nat /\ l.n \in Nat /\ l.word \in BOOLEAN
  BY DEF Drawable, LineSet
<1>2. parts \in Int
  BY <1>1 DEF Drawable
<1>3. RowsOf(w, l) = IF w.filter /\ ~l.word THEN <<>> ELSE [i \in 1 .. parts |-> Part(i)]
  BY DEF RowsOf
<1> HIDE DEF wide, parts
<1>4. ASSUME NEW i \in 1 .. parts PROVE Wide(i) \in Int
  <2>1. CASE w.wrap
    <3>1. i - 1 \in Int /\ w.width \in Int
      BY <1>2 DEF Drawable
    <3>2. (i - 1) * w.width \in Int
      BY <3>1
    <3>3. wide - (i - 1) * w.width \in Int
      BY <1>1, <3>2
    <3>4. PICK a \in Int, b \in Int : a = w.width /\ b = wide - (i - 1) * w.width
      BY <3>1, <3>3
    <3>5. Min({a, b}) \in {a, b}
      <4>1. \E x \in {a, b} : \A y \in {a, b} : x <= y
        <5>1. CASE a <= b
          BY <5>1
        <5>2. CASE b <= a
          BY <5>2
        <5> QED
          BY <5>1, <5>2
      <4> QED
        BY <4>1 DEF Min
    <3> QED
      BY <2>1, <3>4, <3>5
  <2> QED
    BY <1>1, <2>1 DEF Drawable
<1>5. ASSUME NEW i \in 1 .. parts PROVE Part(i) \in RowSet
  <2>1. i \in Nat /\ (l.word /\ i = parts) \in BOOLEAN
    BY <1>2
  <2> QED
    BY <1>1, <1>4, <2>1 DEF RowSet
<1> HIDE DEF Part
<1>6. [i \in 1 .. parts |-> Part(i)] \in Seq(RowSet) /\ Len([i \in 1 .. parts |-> Part(i)]) \in Nat
      /\ \A i \in 1 .. Len([j \in 1 .. parts |-> Part(j)]) : [j \in 1 .. parts |-> Part(j)][i] = Part(i) /\ i \in 1 .. parts
  <2>1. PICK m \in Nat : 1 .. parts = 1 .. m
    <3>1. CASE parts >= 0
      BY <1>2, <3>1
    <3>2. CASE parts < 0
      <4>1. 1 .. parts = 1 .. 0
        BY <1>2, <3>2
      <4> QED
        BY <4>1
    <3> QED
      BY <1>2, <3>1, <3>2
  <2>2. PICK s : s = [i \in 1 .. m |-> Part(i)]
    OBVIOUS
  <2>3. s \in [1 .. m -> RowSet]
    BY <1>5, <2>1, <2>2
  <2>4. s \in Seq(RowSet) /\ Len(s) = m
    BY <2>3
  <2>5. \A i \in 1 .. m : s[i] = Part(i)
    BY <2>2
  <2> QED
    BY <2>1, <2>2, <2>4, <2>5
<1>7. \A i : Part(i).line = l.n
  BY DEF Part
<1>8. CASE w.filter /\ ~l.word
  BY <1>3, <1>8, EmptySeq
<1>9. CASE ~(w.filter /\ ~l.word)
  <2>1. PICK s : s = [i \in 1 .. parts |-> Part(i)]
    OBVIOUS
  <2>2. RowsOf(w, l) = s
    BY <1>3, <1>9, <2>1
  <2>3. s \in Seq(RowSet) /\ Len(s) \in Nat /\ \A i \in 1 .. Len(s) : s[i] = Part(i)
    BY <1>6, <2>1
  <2> QED
    BY <1>7, <2>2, <2>3
<1> QED
  BY <1>8, <1>9

LEMMA SameSettings ==
  ASSUME NEW w, NEW o, Drawable(w), Drawable(o), Settings(w) = Settings(o), NEW l
  PROVE  RowsOf(w, l) = RowsOf(o, l)
<1>1. w.filter = o.filter /\ w.wrap = o.wrap /\ w.times = o.times /\ (w.wrap => w.width = o.width)
  BY DEF Settings
<1> QED
  BY <1>1 DEF RowsOf

LEMMA Parted ==
  ASSUME NEW R, NEW s \in Seq(R), NEW over \in 0 .. Len(s)
  PROVE  /\ SubSeq(s, 1, over) \in Seq(R) /\ Len(SubSeq(s, 1, over)) = over
         /\ SubSeq(s, over + 1, Len(s)) \in Seq(R) /\ Len(SubSeq(s, over + 1, Len(s))) = Len(s) - over
         /\ s = SubSeq(s, 1, over) \o SubSeq(s, over + 1, Len(s))
<1>1. PICK n \in Nat : n = Len(s)
  BY LenProperties
<1>2. \A i \in 1 .. n : s[i] \in R
  BY <1>1, ElementOfSeq
<1>3. 1 \in Int /\ over \in Int /\ over + 1 \in Int /\ n \in Int
  BY <1>1
<1>4. PICK a : a = SubSeq(s, 1, over)
  OBVIOUS
<1>5. PICK b : b = SubSeq(s, over + 1, n)
  OBVIOUS
<1>6. a \in Seq(R) /\ Len(a) = over /\ \A i \in 1 .. over : a[i] = s[i]
  BY <1>1, <1>2, <1>4
<1>7. b \in Seq(R) /\ Len(b) = n - over /\ \A i \in 1 .. n - over : b[i] = s[over + i]
  BY <1>1, <1>2, <1>5
<1>8. a \o b \in Seq(R) /\ Len(a \o b) = n /\ \A i \in 1 .. n : (a \o b)[i] = IF i <= over THEN a[i] ELSE b[i - over]
  BY <1>1, <1>6, <1>7, ConcatProperties
<1>9. ASSUME NEW i \in 1 .. n PROVE (a \o b)[i] = s[i]
  <2>1. CASE i <= over
    BY <1>6, <1>8, <2>1
  <2>2. CASE ~(i <= over)
    <3>1. i - over \in 1 .. n - over /\ over + (i - over) = i
      BY <1>1, <2>2
    <3>2. b[i - over] = s[i]
      BY <1>7, <3>1
    <3> QED
      BY <1>8, <2>2, <3>2
  <2> QED
    BY <2>1, <2>2
<1>10. s = a \o b
  <2>1. PICK c : c = a \o b
    OBVIOUS
  <2>2. c \in Seq(R) /\ Len(c) = Len(s) /\ \A i \in 1 .. Len(c) : c[i] = s[i]
    BY <1>1, <1>8, <1>9, <2>1
  <2>3. c = s
    BY <2>2, SeqEqual
  <2> QED
    BY <2>1, <2>3
<1> QED
  BY <1>1, <1>4, <1>5, <1>6, <1>7, <1>10

LEMMA Behind ==
  ASSUME NEW R, NEW a \in Seq(R), NEW b \in Seq(R)
  PROVE  /\ a \o b \in Seq(R) /\ Len(a \o b) = Len(a) + Len(b)
         /\ SubSeq(a \o b, 1, Len(a)) = a
         /\ SubSeq(a \o b, Len(a) + 1, Len(a \o b)) = b
<1>1. PICK n \in Nat, m \in Nat : n = Len(a) /\ m = Len(b)
  BY LenProperties
<1>2. PICK c : c = a \o b
  OBVIOUS
<1>3. c \in Seq(R) /\ Len(c) = n + m /\ \A i \in 1 .. n + m : c[i] = IF i <= n THEN a[i] ELSE b[i - n]
  BY <1>1, <1>2, ConcatProperties
<1>4. n \in 0 .. Len(c)
  BY <1>3
<1>5. PICK d : d = SubSeq(c, 1, n)
  OBVIOUS
<1>6. PICK e : e = SubSeq(c, n + 1, n + m)
  OBVIOUS
<1>7. \A i \in 1 .. n + m : c[i] \in R
  BY <1>3, ElementOfSeq
<1>8. d \in Seq(R) /\ Len(d) = n /\ \A i \in 1 .. n : d[i] = c[i]
  BY <1>3, <1>5, <1>7
<1>9. e \in Seq(R) /\ Len(e) = m /\ \A i \in 1 .. m : e[i] = c[n + i]
  BY <1>3, <1>6, <1>7
<1>10. d = a
  <2>1. \A i \in 1 .. n : d[i] = a[i]
    BY <1>3, <1>8
  <2> QED
    BY <1>1, <1>8, <2>1, SeqEqual
<1>11. e = b
  <2>1. ASSUME NEW i \in 1 .. m PROVE e[i] = b[i]
    <3>1. n + i \in 1 .. n + m /\ ~(n + i <= n) /\ (n + i) - n = i
      OBVIOUS
    <3> QED
      BY <1>3, <1>9, <3>1
  <2> QED
    BY <1>1, <1>9, <2>1, SeqEqual
<1> QED
  BY <1>1, <1>2, <1>3, <1>5, <1>6, <1>10, <1>11

LEMMA DrawnIs ==
  ASSUME NEW w, Drawable(w), NEW x \in Seq(LineSet)
  PROVE  /\ DrawnRows(w, x) \in Seq(RowSet) /\ Len(DrawnRows(w, x)) \in Nat
         /\ DrawnCounts(w, x) \in Seq(Nat) /\ Len(DrawnCounts(w, x)) = Len(x)
         /\ Len(DrawnRows(w, x)) = Summed(DrawnCounts(w, x))
         /\ \A k \in 1 .. Len(DrawnRows(w, x)) : \E i \in 1 .. Len(x) : DrawnRows(w, x)[k].line = x[i].n
<1>1. PICK n \in Nat : n = Len(x)
  BY LenProperties
<1>2. DOMAIN x = 1 .. n /\ \A i \in 1 .. n : x[i] \in LineSet
  BY <1>1, LenProperties
<1>3. PICK a : a = [i \in 1 .. n |-> RowsOf(w, x[i])]
  OBVIOUS
<1>4. PICK f : f = [i \in 1 .. n |-> Len(RowsOf(w, x[i]))]
  OBVIOUS
<1>5. a \in [1 .. n -> Seq(RowSet)] /\ f \in [1 .. n -> Nat]
  BY <1>2, <1>3, <1>4, OfALine
<1>6. a \in Seq(Seq(RowSet)) /\ f \in Seq(Nat) /\ Len(a) = n /\ Len(f) = n
  BY <1>5
<1>7. \A i \in 1 .. n : f[i] = Len(a[i]) /\ a[i] = RowsOf(w, x[i])
  BY <1>3, <1>4
<1>8. DrawnRows(w, x) = FlattenSeq(a) /\ DrawnCounts(w, x) = f
  BY <1>2, <1>3, <1>4 DEF DrawnRows, DrawnCounts
<1>9. Len(f) = Len(a) /\ \A i \in 1 .. Len(a) : f[i] = Len(a[i])
  BY <1>6, <1>7
<1>10. /\ FlattenSeq(a) \in Seq(RowSet) /\ Len(FlattenSeq(a)) = Summed(f)
       /\ \A k \in 1 .. Len(FlattenSeq(a)) : \E i \in 1 .. Len(a) : \E j \in 1 .. Len(a[i]) : FlattenSeq(a)[k] = a[i][j]
  BY <1>6, <1>9, FlatHas
<1>11. ASSUME NEW k \in 1 .. Len(DrawnRows(w, x)) PROVE \E i \in 1 .. Len(x) : DrawnRows(w, x)[k].line = x[i].n
  <2>1. PICK i \in 1 .. n : \E j \in 1 .. Len(a[i]) : DrawnRows(w, x)[k] = a[i][j]
    BY <1>6, <1>8, <1>10
  <2>2. PICK j \in 1 .. Len(RowsOf(w, x[i])) : DrawnRows(w, x)[k] = RowsOf(w, x[i])[j]
    BY <1>7, <2>1
  <2>3. DrawnRows(w, x)[k].line = x[i].n
    BY <1>2, <2>2, OfALine
  <2> QED
    BY <1>1, <2>3
<1>12. Len(DrawnRows(w, x)) \in Nat
  BY <1>8, <1>10, LenProperties
<1> QED
  BY <1>1, <1>6, <1>8, <1>10, <1>11, <1>12

LEMMA DrawnBoth ==
  ASSUME NEW w, Drawable(w), NEW x \in Seq(LineSet), NEW y \in Seq(LineSet)
  PROVE  /\ DrawnRows(w, x \o y) = DrawnRows(w, x) \o DrawnRows(w, y)
         /\ DrawnCounts(w, x \o y) = DrawnCounts(w, x) \o DrawnCounts(w, y)
<1>1. PICK n \in Nat, m \in Nat : n = Len(x) /\ m = Len(y)
  BY LenProperties
<1>2. PICK z : z = x \o y
  OBVIOUS
<1>3. z \in Seq(LineSet) /\ Len(z) = n + m /\ \A i \in 1 .. n + m : z[i] = IF i <= n THEN x[i] ELSE y[i - n]
  BY <1>1, <1>2, ConcatProperties
<1>4. DOMAIN x = 1 .. n /\ DOMAIN y = 1 .. m /\ DOMAIN z = 1 .. n + m
  BY <1>1, <1>3, LenProperties
<1>5. /\ \A i \in 1 .. n : x[i] \in LineSet
      /\ \A i \in 1 .. m : y[i] \in LineSet
  BY <1>1, LenProperties
<1>6. PICK a : a = [i \in 1 .. n |-> RowsOf(w, x[i])]
  OBVIOUS
<1>7. PICK b : b = [i \in 1 .. m |-> RowsOf(w, y[i])]
  OBVIOUS
<1>8. PICK c : c = [i \in 1 .. n + m |-> RowsOf(w, z[i])]
  OBVIOUS
<1>9. a \in Seq(Seq(RowSet)) /\ Len(a) = n
  <2>1. a \in [1 .. n -> Seq(RowSet)]
    BY <1>5, <1>6, OfALine
  <2> QED
    BY <2>1
<1>10. b \in Seq(Seq(RowSet)) /\ Len(b) = m
  <2>1. b \in [1 .. m -> Seq(RowSet)]
    BY <1>5, <1>7, OfALine
  <2> QED
    BY <2>1
<1>11. c \in Seq(Seq(RowSet)) /\ Len(c) = n + m
  <2>1. c \in [1 .. n + m -> Seq(RowSet)]
    <3>1. \A i \in 1 .. n + m : z[i] \in LineSet
      BY <1>3, ElementOfSeq
    <3> QED
      BY <3>1, <1>8, OfALine
  <2> QED
    BY <2>1
<1>12. ASSUME NEW i \in 1 .. n + m PROVE c[i] = IF i <= n THEN a[i] ELSE b[i - n]
  <2>1. c[i] = RowsOf(w, z[i])
    BY <1>8
  <2>2. CASE i <= n
    <3>1. i \in 1 .. n /\ z[i] = x[i]
      BY <1>3, <2>2
    <3> QED
      BY <1>6, <2>1, <2>2, <3>1
  <2>3. CASE ~(i <= n)
    <3>1. i - n \in 1 .. m /\ z[i] = y[i - n]
      BY <1>3, <2>3
    <3> QED
      BY <1>7, <2>1, <2>3, <3>1
  <2> QED
    BY <2>2, <2>3
<1>13. a \o b \in Seq(Seq(RowSet)) /\ Len(a \o b) = n + m
       /\ \A i \in 1 .. n + m : (a \o b)[i] = IF i <= n THEN a[i] ELSE b[i - n]
  BY <1>9, <1>10, ConcatProperties
<1>14. c = a \o b
  <2>1. PICK d : d = a \o b
    OBVIOUS
  <2>2. d \in Seq(Seq(RowSet)) /\ Len(d) = n + m /\ \A i \in 1 .. Len(c) : c[i] = d[i]
    BY <1>11, <1>12, <1>13, <2>1
  <2>3. c = d
    BY <1>11, <2>2, SeqEqual
  <2> QED
    BY <2>1, <2>3
<1>15. FlattenSeq(c) = FlattenSeq(a) \o FlattenSeq(b)
  BY <1>9, <1>10, <1>14, FlatOfBoth
<1>16. DrawnRows(w, x) = FlattenSeq(a) /\ DrawnRows(w, y) = FlattenSeq(b) /\ DrawnRows(w, z) = FlattenSeq(c)
  BY <1>4, <1>6, <1>7, <1>8 DEF DrawnRows
<1>17. PICK f : f = DrawnCounts(w, x)
  OBVIOUS
<1>18. PICK g : g = DrawnCounts(w, y)
  OBVIOUS
<1>19. PICK h : h = DrawnCounts(w, z)
  OBVIOUS
<1>20. f \in Seq(Nat) /\ g \in Seq(Nat) /\ h \in Seq(Nat) /\ Len(f) = n /\ Len(g) = m /\ Len(h) = n + m
  BY <1>1, <1>3, <1>17, <1>18, <1>19, DrawnIs
<1>21. /\ \A i \in 1 .. n : f[i] = Len(a[i])
       /\ \A i \in 1 .. m : g[i] = Len(b[i])
       /\ \A i \in 1 .. n + m : h[i] = Len(c[i])
  BY <1>4, <1>6, <1>7, <1>8, <1>17, <1>18, <1>19 DEF DrawnCounts
<1>22. PICK e : e = f \o g
  OBVIOUS
<1>23. e \in Seq(Nat) /\ Len(e) = n + m /\ \A i \in 1 .. n + m : e[i] = IF i <= n THEN f[i] ELSE g[i - n]
  BY <1>20, <1>22, ConcatProperties
<1>24. ASSUME NEW i \in 1 .. n + m PROVE h[i] = e[i]
  <2>1. CASE i <= n
    <3>1. i \in 1 .. n
      BY <2>1
    <3> QED
      BY <1>12, <1>21, <1>23, <2>1, <3>1
  <2>2. CASE ~(i <= n)
    <3>1. i - n \in 1 .. m
      BY <2>2
    <3> QED
      BY <1>12, <1>21, <1>23, <2>2, <3>1
  <2> QED
    BY <2>1, <2>2
<1>25. h = e
  BY <1>20, <1>23, <1>24, SeqEqual
<1> QED
  BY <1>2, <1>15, <1>16, <1>17, <1>18, <1>19, <1>22, <1>25

LEMMA SameDrawn ==
  ASSUME NEW w, NEW o, Drawable(w), Drawable(o), Settings(w) = Settings(o), NEW x
  PROVE  DrawnRows(w, x) = DrawnRows(o, x) /\ DrawnCounts(w, x) = DrawnCounts(o, x)
<1>1. \A l : RowsOf(w, l) = RowsOf(o, l)
  BY SameSettings
<1> QED
  BY <1>1 DEF DrawnRows, DrawnCounts

LEMMA LargerOf ==
  ASSUME NEW a \in Int, NEW b \in Int
  PROVE  /\ Max({a, b}) \in Int
         /\ (Max({a, b}) = a /\ a >= b) \/ (Max({a, b}) = b /\ b >= a)
<1>1. \E x \in {a, b} : \A y \in {a, b} : x >= y
  <2>1. CASE a >= b
    BY <2>1
  <2>2. CASE b >= a
    BY <2>2
  <2> QED
    BY <2>1, <2>2
<1>2. Max({a, b}) \in {a, b} /\ \A y \in {a, b} : Max({a, b}) >= y
  BY <1>1 DEF Max
<1> QED
  BY <1>2

LEMMA SmallerOf ==
  ASSUME NEW a \in Int, NEW b \in Int
  PROVE  /\ Min({a, b}) \in Int
         /\ (Min({a, b}) = a /\ a <= b) \/ (Min({a, b}) = b /\ b <= a)
<1>1. \E x \in {a, b} : \A y \in {a, b} : x <= y
  <2>1. CASE a <= b
    BY <2>1
  <2>2. CASE b <= a
    BY <2>2
  <2> QED
    BY <2>1, <2>2
<1>2. Min({a, b}) \in {a, b} /\ \A y \in {a, b} : Min({a, b}) <= y
  BY <1>1 DEF Min
<1> QED
  BY <1>2

(* The widest of the rows, which is none of them where they are of no cell. *)
Widest(rows, wide) ==
  /\ wide \in Nat /\ \A i \in 1 .. Len(rows) : rows[i].width <= wide
  /\ wide = 0 \/ \E i \in 1 .. Len(rows) : rows[i].width = wide

LEMMA WidestIs ==
  ASSUME NEW rows \in Seq(RowSet)
  PROVE  Widest(rows, WidestOf(rows)) /\ \A wide : Widest(rows, wide) => wide = WidestOf(rows)
<1>1. PICK n \in Nat : n = Len(rows)
  BY LenProperties
<1>2. DOMAIN rows = 1 .. n
  BY <1>1, LenProperties
<1>3. PICK f : f = [i \in 1 .. n |-> rows[i].width]
  OBVIOUS
<1>4. f \in [1 .. n -> Int]
  <2> SUFFICES ASSUME NEW i \in 1 .. n PROVE rows[i].width \in Int
    BY <1>3
  <2>1. rows[i] \in RowSet
    BY <1>1, ElementOfSeq
  <2> QED
    BY <2>1 DEF RowSet
<1> DEFINE Some(k, m) == m \in Nat /\ (\A i \in 1 .. k : f[i] <= m) /\ (m = 0 \/ \E i \in 1 .. k : f[i] = m)
           Good == {k \in Nat : k <= n => \E m \in Nat : Some(k, m)}
<1>5. 0 \in Good
  <2>1. Some(0, 0)
    OBVIOUS
  <2> QED
    BY <2>1
<1>6. ASSUME NEW k \in Nat, k \in Good PROVE k + 1 \in Good
  <2> SUFFICES ASSUME k + 1 <= n PROVE \E m \in Nat : Some(k + 1, m)
    OBVIOUS
  <2>1. PICK m \in Nat : Some(k, m)
    BY <1>6
  <2>2. f[k + 1] \in Int /\ k + 1 \in 1 .. k + 1
    BY <1>4
  <2>3. \A i \in 1 .. k + 1 : i = k + 1 \/ i \in 1 .. k
    OBVIOUS
  <2>4. CASE f[k + 1] <= m
    <3>1. \A i \in 1 .. k + 1 : f[i] <= m
      BY <2>1, <2>3, <2>4
    <3>2. m = 0 \/ \E i \in 1 .. k + 1 : f[i] = m
      BY <2>1
    <3>3. Some(k + 1, m)
      BY <3>1, <3>2
    <3> QED
      BY <3>3
  <2>5. CASE f[k + 1] > m
    <3>1. f[k + 1] \in Nat
      BY <2>2, <2>5
    <3>2. \A i \in 1 .. k : f[i] \in Int
      BY <1>4
    <3>3. \A i \in 1 .. k + 1 : f[i] <= f[k + 1]
      BY <2>1, <2>2, <2>3, <2>5, <3>2
    <3>4. Some(k + 1, f[k + 1])
      BY <2>2, <3>1, <3>3
    <3> QED
      BY <3>1, <3>4
  <2> QED
    BY <2>2, <2>4, <2>5
<1>7. n \in Good
  <2> HIDE DEF Good
  <2> QED
    BY <1>5, <1>6, Inducts
<1>8. PICK m \in Nat : Some(n, m)
  BY <1>7
<1>9. PICK S : S = {0} \cup {f[i] : i \in 1 .. n}
  OBVIOUS
<1>10. WidestOf(rows) = Max(S)
  BY <1>2, <1>3, <1>9 DEF WidestOf
<1>11. m \in S /\ S \in SUBSET Int /\ \A x \in S : m >= x
  BY <1>4, <1>8, <1>9
<1>12. Max(S) \in S /\ \A y \in S : Max(S) >= y
  BY <1>11 DEF Max
<1>13. Max(S) = m
  <2>1. PICK most : most = Max(S)
    OBVIOUS
  <2>2. most \in Int /\ most >= m /\ m >= most
    BY <1>11, <1>12, <2>1
  <2> QED
    BY <2>1, <2>2
<1>14. \A wide \in Nat : Some(n, wide) => wide = m
  BY <1>4, <1>8
<1>15. \A wide : Some(n, wide) <=> Widest(rows, wide)
  BY <1>1, <1>3 DEF Widest
<1>16. \A wide : Widest(rows, wide) => wide \in Nat
  BY DEF Widest
<1> HIDE DEF Some
<1> QED
  BY <1>8, <1>10, <1>13, <1>14, <1>15, <1>16

LEMMA WidestOfBoth ==
  ASSUME NEW a \in Seq(RowSet), NEW b \in Seq(RowSet)
  PROVE  /\ WidestOf(a) \in Nat /\ WidestOf(b) \in Nat
         /\ WidestOf(a \o b) = IF WidestOf(a) >= WidestOf(b) THEN WidestOf(a) ELSE WidestOf(b)
<1>1. PICK n \in Nat, m \in Nat : n = Len(a) /\ m = Len(b)
  BY LenProperties
<1>2. PICK c : c = a \o b
  OBVIOUS
<1>3. c \in Seq(RowSet) /\ Len(c) = n + m /\ \A i \in 1 .. n + m : c[i] = IF i <= n THEN a[i] ELSE b[i - n]
  BY <1>1, <1>2, ConcatProperties
<1>4. PICK x \in Nat, y \in Nat : x = WidestOf(a) /\ y = WidestOf(b) /\ Widest(a, x) /\ Widest(b, y)
  BY WidestIs DEF Widest
<1>5. PICK z \in Nat : z = IF x >= y THEN x ELSE y
  OBVIOUS
<1>6. /\ \A i \in 1 .. n : a[i].width <= x /\ a[i].width \in Int /\ c[i] = a[i] /\ i \in 1 .. n + m
      /\ \A i \in 1 .. m : b[i].width <= y /\ b[i].width \in Int /\ c[n + i] = b[i] /\ n + i \in 1 .. n + m
  <2>1. ASSUME NEW i \in 1 .. n PROVE a[i].width <= x /\ a[i].width \in Int /\ c[i] = a[i] /\ i \in 1 .. n + m
    <3>1. a[i] \in RowSet
      BY <1>1, ElementOfSeq
    <3>2. i \in 1 .. n + m
      OBVIOUS
    <3> QED
      BY <1>1, <1>3, <1>4, <3>1, <3>2 DEF RowSet, Widest
  <2>2. ASSUME NEW i \in 1 .. m PROVE b[i].width <= y /\ b[i].width \in Int /\ c[n + i] = b[i] /\ n + i \in 1 .. n + m
    <3>1. b[i] \in RowSet
      BY <1>1, ElementOfSeq
    <3>2. n + i \in 1 .. n + m /\ ~(n + i <= n) /\ (n + i) - n = i
      OBVIOUS
    <3> QED
      BY <1>1, <1>3, <1>4, <3>1, <3>2 DEF RowSet, Widest
  <2> QED
    BY <2>1, <2>2
<1>7. ASSUME NEW i \in 1 .. n + m PROVE c[i].width <= z
  <2>1. CASE i <= n
    <3>1. i \in 1 .. n
      BY <2>1
    <3>2. a[i].width <= x /\ a[i].width \in Int /\ c[i] = a[i]
      BY <1>6, <3>1
    <3> QED
      BY <1>5, <3>2
  <2>2. CASE ~(i <= n)
    <3>1. i - n \in 1 .. m /\ n + (i - n) = i
      BY <2>2
    <3>2. b[i - n].width <= y /\ b[i - n].width \in Int /\ c[i] = b[i - n]
      BY <1>6, <3>1
    <3> QED
      BY <1>5, <3>2
  <2> QED
    BY <2>1, <2>2
<1>8. z = 0 \/ \E i \in 1 .. n + m : c[i].width = z
  <2>1. CASE x >= y
    <3>1. z = x /\ (x = 0 \/ \E i \in 1 .. n : a[i].width = x)
      BY <1>1, <1>4, <1>5, <2>1 DEF Widest
    <3> QED
      BY <1>6, <3>1
  <2>2. CASE ~(x >= y)
    <3>1. z = y /\ (y = 0 \/ \E i \in 1 .. m : b[i].width = y)
      BY <1>1, <1>4, <1>5, <2>2 DEF Widest
    <3> QED
      BY <1>6, <3>1
  <2> QED
    BY <2>1, <2>2
<1>9. Widest(c, z)
  BY <1>3, <1>7, <1>8 DEF Widest
<1>10. z = WidestOf(c)
  BY <1>3, <1>9, WidestIs
<1> QED
  BY <1>2, <1>4, <1>5, <1>10

(* What is measured again when rows leave, and those that arrive.           *)
LEMMA MeasuredIs ==
  ASSUME NEW a \in Seq(RowSet), NEW b \in Seq(RowSet), NEW new \in Seq(RowSet), NEW kept,
         kept.rows = a \o b, kept.widest = WidestOf(a \o b)
  PROVE  Measured(kept, Len(a), new) = WidestOf(b \o new)
<1>1. PICK n \in Nat : n = Len(a)
  BY LenProperties
<1>2. SubSeq(kept.rows, n + 1, Len(kept.rows)) = b /\ SubSeq(kept.rows, 1, n) = a
  BY <1>1, Behind
<1>3. PICK x \in Nat, y \in Nat, z \in Nat :
        /\ x = WidestOf(a) /\ y = WidestOf(b) /\ z = WidestOf(new)
        /\ kept.widest = (IF x >= y THEN x ELSE y)
        /\ WidestOf(b \o new) = (IF y >= z THEN y ELSE z)
  BY WidestOfBoth
<1>4. n = 0 => x = 0
  <2> SUFFICES ASSUME n = 0 PROVE x = 0
    OBVIOUS
  <2>1. Widest(a, x)
    BY <1>3, WidestIs
  <2> QED
    BY <1>1, <2>1 DEF Widest
<1>5. Measured(kept, n, new) = Max({IF n > 0 /\ x = kept.widest THEN y ELSE kept.widest, z})
  BY <1>2, <1>3 DEF Measured
<1>6. (IF n > 0 /\ x = kept.widest THEN y ELSE kept.widest) = y
  BY <1>3, <1>4
<1>7. Max({y, z}) = IF y >= z THEN y ELSE z
  BY LargerOf
<1> QED
  BY <1>1, <1>3, <1>5, <1>6, <1>7

Texts == [id : {0, 1}, lines : Seq(LineSet), dropped : Nat]

Whole(w) ==
  w = [text |-> w.text, top |-> w.top, at |-> w.at, shift |-> w.shift, width |-> w.width,
        following |-> w.following, wrap |-> w.wrap, times |-> w.times, filter |-> w.filter,
        found |-> w.found, kept |-> w.kept]

WindowShape(w) ==
  /\ Whole(w)
  /\ w.kept = [id |-> w.kept.id, settings |-> w.kept.settings, lines |-> w.kept.lines,
               counts |-> w.kept.counts, rows |-> w.kept.rows, widest |-> w.kept.widest]
  /\ w.text \in Texts /\ w.top \in Nat /\ w.at \in Nat /\ w.shift \in Nat /\ Drawable(w)
  /\ w.following \in BOOLEAN /\ w.found \in BOOLEAN

(* What a window keeps that draws everything afresh.                        *)
Afresh(w) ==
  [id |-> w.text.id, settings |-> Settings(w), lines |-> Total(w.text),
   counts |-> DrawnCounts(w, w.text.lines), rows |-> DrawnRows(w, w.text.lines),
   widest |-> WidestOf(DrawnRows(w, w.text.lines))]

Fresh(w) == WindowShape(w) /\ w.kept = Afresh(w)

(* A window brought up to date, with so many rows gone from the front.      *)
Put(w, gone) ==
  [w EXCEPT !.top = Max({@ - gone, 0}), !.at = Max({@ - gone, 0}), !.kept = Afresh(w)]

LEMMA ThreeFields ==
  ASSUME NEW w, NEW x, NEW y, NEW z,
         Whole(w)
  PROVE  [w EXCEPT !.top = x, !.at = y, !.kept = z] =
           [text |-> w.text, top |-> x, at |-> y, shift |-> w.shift,
            width |-> w.width, following |-> w.following, wrap |-> w.wrap, times |-> w.times,
            filter |-> w.filter, found |-> w.found, kept |-> z]
<1>1. PICK p : p = [w EXCEPT !.top = x, !.at = y, !.kept = z]
  OBVIOUS
<1>2. p = [text |-> w.text, top |-> x, at |-> y, shift |-> w.shift,
           width |-> w.width, following |-> w.following, wrap |-> w.wrap, times |-> w.times,
           filter |-> w.filter, found |-> w.found, kept |-> z]
  BY <1>1 DEF Whole
<1> QED
  BY <1>1, <1>2

LEMMA PutShape ==
  ASSUME NEW w, WindowShape(w), NEW gone
  PROVE  Put(w, gone) =
           [text |-> w.text, top |-> Max({w.top - gone, 0}), at |-> Max({w.at - gone, 0}), shift |-> w.shift,
            width |-> w.width, following |-> w.following, wrap |-> w.wrap, times |-> w.times,
            filter |-> w.filter, found |-> w.found, kept |-> Afresh(w)]
<1>1. PICK x, y, z : x = Max({w.top - gone, 0}) /\ y = Max({w.at - gone, 0}) /\ z = Afresh(w)
  OBVIOUS
<1>2. Put(w, gone) = [w EXCEPT !.top = x, !.at = y, !.kept = z]
  BY <1>1, Zenon DEF Put
<1>3. Whole(w)
  BY Zenon DEF WindowShape
<1>4. [w EXCEPT !.top = x, !.at = y, !.kept = z] =
        [text |-> w.text, top |-> x, at |-> y, shift |-> w.shift,
         width |-> w.width, following |-> w.following, wrap |-> w.wrap, times |-> w.times,
         filter |-> w.filter, found |-> w.found, kept |-> z]
  BY <1>3, ThreeFields, Zenon
<1> QED
  BY <1>1, <1>2, <1>4, Zenon

LEMMA PutIs ==
  ASSUME NEW w, WindowShape(w), NEW gone \in Nat
  PROVE  /\ Fresh(Put(w, gone))
         /\ Put(w, gone).text = w.text /\ Put(w, gone).shift = w.shift /\ Put(w, gone).width = w.width
         /\ Put(w, gone).following = w.following /\ Put(w, gone).wrap = w.wrap /\ Put(w, gone).times = w.times
         /\ Put(w, gone).filter = w.filter /\ Put(w, gone).found = w.found
         /\ Put(w, gone).top = Max({w.top - gone, 0}) /\ Put(w, gone).at = Max({w.at - gone, 0})
         /\ Put(w, gone).kept = Afresh(w) /\ Afresh(Put(w, gone)) = Afresh(w)
<1>1. PICK p : p = Put(w, gone)
  OBVIOUS
<1>2. p = [text |-> w.text, top |-> Max({w.top - gone, 0}), at |-> Max({w.at - gone, 0}), shift |-> w.shift,
           width |-> w.width, following |-> w.following, wrap |-> w.wrap, times |-> w.times,
           filter |-> w.filter, found |-> w.found, kept |-> Afresh(w)]
  BY <1>1, PutShape
<1>3. /\ p.text = w.text /\ p.shift = w.shift /\ p.width = w.width
      /\ p.following = w.following /\ p.wrap = w.wrap /\ p.times = w.times
      /\ p.filter = w.filter /\ p.found = w.found
      /\ p.top = Max({w.top - gone, 0}) /\ p.at = Max({w.at - gone, 0}) /\ p.kept = Afresh(w)
  BY <1>2
<1>4. Max({w.top - gone, 0}) \in Nat /\ Max({w.at - gone, 0}) \in Nat
  <2>1. ASSUME NEW x \in Int PROVE Max({x, 0}) \in Nat
    BY LargerOf
  <2>2. w.top - gone \in Int /\ w.at - gone \in Int
    BY DEF WindowShape
  <2> QED
    BY <2>1, <2>2
<1>5. Drawable(p) /\ Settings(p) = Settings(w)
  BY <1>3 DEF WindowShape, Drawable, Settings
<1>6. Afresh(p) = Afresh(w)
  <2>1. DrawnRows(p, w.text.lines) = DrawnRows(w, w.text.lines) /\ DrawnCounts(p, w.text.lines) = DrawnCounts(w, w.text.lines)
    BY <1>5, SameDrawn DEF WindowShape
  <2> QED
    BY <1>3, <1>5, <2>1 DEF Afresh
<1>7. p.kept = [id |-> p.kept.id, settings |-> p.kept.settings, lines |-> p.kept.lines,
                counts |-> p.kept.counts, rows |-> p.kept.rows, widest |-> p.kept.widest]
  BY <1>3 DEF Afresh
<1>8. p = [text |-> p.text, top |-> p.top, at |-> p.at, shift |-> p.shift, width |-> p.width,
           following |-> p.following, wrap |-> p.wrap, times |-> p.times, filter |-> p.filter,
           found |-> p.found, kept |-> p.kept]
  BY <1>2
<1>9. WindowShape(p)
  BY <1>3, <1>4, <1>5, <1>7, <1>8 DEF WindowShape, Whole
<1> QED
  BY <1>1, <1>3, <1>6, <1>9 DEF Fresh

LEMMA RefreshedAfresh ==
  ASSUME NEW w, WindowShape(w),
         \/ w.kept.id # w.text.id \/ w.kept.settings # Settings(w)
         \/ w.kept.lines \in Nat /\ w.text.dropped > w.kept.lines
  PROVE  Refreshed(w) = Put(w, 0)
<1>1. w.text.dropped \in Nat /\ Len(w.text.lines) \in Nat /\ w.top \in Nat /\ w.at \in Nat
  BY LenProperties DEF WindowShape, Texts
<1>2. ~Matches(w)
  BY <1>1 DEF Matches, Total
<1>3. Refreshed(w) = [w EXCEPT !.kept = Afresh(w)]
  <2>1. ~(/\ w.kept.id = w.text.id /\ w.kept.settings = Settings(w)
          /\ w.kept.lines - Len(w.kept.counts) <= w.text.dropped /\ w.text.dropped <= w.kept.lines
          /\ w.kept.lines <= Total(w.text))
    BY <1>1
  <2> QED
    BY <1>2, <2>1, Zenon DEF Refreshed, Afresh
<1>4. Max({w.top - 0, 0}) = w.top /\ Max({w.at - 0, 0}) = w.at
  <2>1. ASSUME NEW x \in Nat PROVE Max({x - 0, 0}) = x
    <3>1. x - 0 = x
      OBVIOUS
    <3> QED
      BY <3>1, LargerOf
  <2> QED
    BY <1>1, <2>1
<1>5. Put(w, 0) = [text |-> w.text, top |-> w.top, at |-> w.at, shift |-> w.shift,
           width |-> w.width, following |-> w.following, wrap |-> w.wrap, times |-> w.times,
           filter |-> w.filter, found |-> w.found, kept |-> Afresh(w)]
  BY <1>4, PutShape
<1>6. [w EXCEPT !.kept = Afresh(w)] = [text |-> w.text, top |-> w.top, at |-> w.at, shift |-> w.shift,
           width |-> w.width, following |-> w.following, wrap |-> w.wrap, times |-> w.times,
           filter |-> w.filter, found |-> w.found, kept |-> Afresh(w)]
  BY DEF WindowShape, Whole
<1> QED
  BY <1>3, <1>5, <1>6

(* The other way, where the text went on from the one that is drawn.        *)
LEMMA RefreshedOn ==
  ASSUME NEW w, WindowShape(w), NEW a \in Seq(LineSet), NEW b \in Seq(LineSet), NEW new \in Seq(LineSet),
         NEW id, NEW dropped \in Nat,
         w.text = [id |-> id, lines |-> b \o new, dropped |-> dropped + Len(a)],
         w.kept = [id |-> id, settings |-> Settings(w), lines |-> dropped + Len(a \o b),
                   counts |-> DrawnCounts(w, a \o b), rows |-> DrawnRows(w, a \o b),
                   widest |-> WidestOf(DrawnRows(w, a \o b))]
  PROVE  Refreshed(w) = Put(w, Len(DrawnRows(w, a)))
<1>1. Drawable(w) /\ w.top \in Nat /\ w.at \in Nat
  BY DEF WindowShape
<1>2. PICK k \in Nat, n \in Nat, m \in Nat : k = Len(a) /\ n = Len(b) /\ m = Len(new)
  BY LenProperties
<1>3. Len(a \o b) = k + n /\ Len(b \o new) = n + m
  BY <1>2, ConcatProperties
<1>4. PICK ra \in Seq(RowSet), rb \in Seq(RowSet), rn \in Seq(RowSet) :
        ra = DrawnRows(w, a) /\ rb = DrawnRows(w, b) /\ rn = DrawnRows(w, new)
  BY <1>1, DrawnIs
<1>5. PICK ca \in Seq(Nat), cb \in Seq(Nat), cn \in Seq(Nat) :
        /\ ca = DrawnCounts(w, a) /\ cb = DrawnCounts(w, b) /\ cn = DrawnCounts(w, new)
        /\ Len(ca) = k /\ Len(cb) = n /\ Len(cn) = m /\ Summed(ca) = Len(ra)
  BY <1>1, <1>2, <1>4, DrawnIs
<1>6. DrawnRows(w, a \o b) = ra \o rb /\ DrawnCounts(w, a \o b) = ca \o cb
      /\ DrawnRows(w, b \o new) = rb \o rn /\ DrawnCounts(w, b \o new) = cb \o cn
  BY <1>1, <1>4, <1>5, DrawnBoth
<1>7. /\ w.kept.id = id /\ w.kept.settings = Settings(w) /\ w.kept.lines = dropped + (k + n)
      /\ w.kept.counts = ca \o cb /\ w.kept.rows = ra \o rb /\ w.kept.widest = WidestOf(ra \o rb)
  <2>1. PICK x, s, c, d, e :
          /\ x = dropped + Len(a \o b) /\ s = Settings(w) /\ c = DrawnCounts(w, a \o b)
          /\ d = DrawnRows(w, a \o b) /\ e = WidestOf(DrawnRows(w, a \o b))
    OBVIOUS
  <2>2. w.kept = [id |-> id, settings |-> s, lines |-> x, counts |-> c, rows |-> d, widest |-> e]
    BY <2>1, Zenon
  <2>x. PICK t : t = w.kept
    OBVIOUS
  <2>3. w.kept.id = id /\ w.kept.settings = s /\ w.kept.lines = x /\ w.kept.counts = c /\ w.kept.rows = d
        /\ w.kept.widest = e
    BY <2>2
  <2> QED
    BY <1>3, <1>6, <2>1, <2>3, Zenon
<1>8. w.text.id = id /\ w.text.lines = b \o new /\ w.text.dropped = dropped + k
      /\ Len(w.text.lines) = n + m
  <2>1. w.text.id = id /\ w.text.lines = b \o new /\ w.text.dropped = dropped + Len(a)
    <3>1. PICK x, y, t : x = b \o new /\ y = dropped + Len(a) /\ t = w.text
      OBVIOUS
    <3>2. t = [id |-> id, lines |-> x, dropped |-> y]
      BY <3>1, Zenon
    <3>3. t.id = id /\ t.lines = x /\ t.dropped = y
      BY <3>2
    <3> QED
      BY <3>1, <3>3, Zenon
  <2> QED
    BY <1>2, <1>3, <2>1, Zenon
<1>9. Total(w.text) = dropped + k + (n + m)
  BY <1>8 DEF Total
<1>10. Afresh(w) = [id |-> id, settings |-> Settings(w), lines |-> dropped + k + (n + m),
                    counts |-> cb \o cn, rows |-> rb \o rn, widest |-> WidestOf(rb \o rn)]
  BY <1>6, <1>8, <1>9 DEF Afresh
<1>11. Len(w.kept.counts) = k + n
  <2>1. Len(ca \o cb) = Len(ca) + Len(cb)
    BY ConcatProperties
  <2> QED
    BY <1>5, <1>7, <2>1, Zenon
<1> DEFINE first == w.kept.lines - Len(w.kept.counts)
           left == w.text.dropped - first
           gone == FoldSeq(+, 0, SubSeq(w.kept.counts, 1, left))
           arrived == SubSeq(w.text.lines, w.kept.lines - w.text.dropped + 1, Len(w.text.lines))
           rows == DrawnRows(w, arrived)
           Grown == /\ w.kept.id = w.text.id /\ w.kept.settings = Settings(w)
                    /\ first <= w.text.dropped /\ w.text.dropped <= w.kept.lines
                    /\ w.kept.lines <= Total(w.text)
           Next == [w EXCEPT !.top = Max({@ - gone, 0}), !.at = Max({@ - gone, 0}),
                     !.kept.rows = SubSeq(@, gone + 1, Len(@)) \o rows, !.kept.lines = Total(w.text),
                     !.kept.counts = SubSeq(@, left + 1, Len(@)) \o DrawnCounts(w, arrived),
                     !.kept.widest = Measured(w.kept, gone, rows)]
<1>12. Refreshed(w) = IF Matches(w) THEN w ELSE IF Grown THEN Next ELSE [w EXCEPT !.kept = Afresh(w)]
  BY Zenon DEF Refreshed, Afresh
<1>13. first = dropped /\ left = k /\ Grown
  <2>1. PICK kl, kc, td : kl = w.kept.lines /\ kc = Len(w.kept.counts) /\ td = w.text.dropped
    OBVIOUS
  <2>2. kl = dropped + (k + n) /\ kc = k + n /\ td = dropped + k
    BY <1>7, <1>8, <1>11, <2>1, Zenon
  <2>3. kl - kc = dropped /\ td - (kl - kc) = k /\ kl - kc <= td /\ td <= kl /\ kl <= dropped + k + (n + m)
    BY <2>2
  <2> QED
    BY <1>7, <1>8, <1>9, <2>1, <2>3, Zenon
<1>14. gone = Len(ra)
  <2>1. SubSeq(ca \o cb, 1, Len(ca)) = ca
    BY Behind
  <2>2. SubSeq(w.kept.counts, 1, left) = ca
    <3> HIDE DEF left
    <3> QED
      BY <1>5, <1>7, <1>13, <2>1
  <2> QED
    BY <1>5, <2>2 DEF Summed
<1>15. arrived = new
  <2>1. w.kept.lines - w.text.dropped + 1 = Len(b) + 1
    BY <1>2, <1>7, <1>8
  <2>2. SubSeq(b \o new, Len(b) + 1, Len(b \o new)) = new
    BY Behind
  <2> QED
    BY <1>8, <2>1, <2>2
<1>16. rows = rn
  BY <1>4, <1>15
<1> HIDE DEF first, left, gone, rows, arrived
<1>17. SubSeq(w.kept.rows, gone + 1, Len(w.kept.rows)) \o rows = rb \o rn
  <2>1. SubSeq(ra \o rb, Len(ra) + 1, Len(ra \o rb)) = rb
    BY Behind
  <2> QED
    BY <1>7, <1>14, <1>16, <2>1
<1>18. SubSeq(w.kept.counts, left + 1, Len(w.kept.counts)) \o DrawnCounts(w, arrived) = cb \o cn
  <2>1. SubSeq(ca \o cb, Len(ca) + 1, Len(ca \o cb)) = cb
    BY Behind
  <2> QED
    BY <1>5, <1>7, <1>13, <1>15, <2>1
<1>19. Measured(w.kept, gone, rows) = WidestOf(rb \o rn)
  BY <1>7, <1>14, <1>16, MeasuredIs
<1>20. Next = Put(w, gone)
  <2>1. PICK x, y, r, c, d : /\ x = Max({w.top - gone, 0}) /\ y = Max({w.at - gone, 0})
                          /\ r = SubSeq(w.kept.rows, gone + 1, Len(w.kept.rows)) \o rows
                          /\ c = SubSeq(w.kept.counts, left + 1, Len(w.kept.counts)) \o DrawnCounts(w, arrived)
                          /\ d = Measured(w.kept, gone, rows)
    OBVIOUS
  <2>2. Next = [w EXCEPT !.top = x, !.at = y, !.kept.rows = r, !.kept.lines = Total(w.text), !.kept.counts = c,
                         !.kept.widest = d]
    BY <2>1
  <2>3. [w EXCEPT !.top = x, !.at = y, !.kept.rows = r, !.kept.lines = Total(w.text), !.kept.counts = c,
                  !.kept.widest = d]
        = [w EXCEPT !.top = x, !.at = y, !.kept = Afresh(w)]
    <3>1. [w.kept EXCEPT !.rows = r, !.lines = Total(w.text), !.counts = c, !.widest = d] = Afresh(w)
      <4>1. PICK kept, kid, ks, kr, kc, kd, total :
              /\ kept = w.kept /\ kid = w.kept.id /\ ks = w.kept.settings /\ kr = w.kept.rows /\ kc = w.kept.counts
              /\ kd = w.kept.widest /\ total = Total(w.text)
        OBVIOUS
      <4>2. kept = [id |-> kid, settings |-> ks, lines |-> w.kept.lines, counts |-> kc, rows |-> kr, widest |-> kd]
        BY <4>1, Zenon DEF WindowShape
      <4>3. PICK p : p = [kept EXCEPT !.rows = r, !.lines = total, !.counts = c, !.widest = d]
        OBVIOUS
      <4>4. p = [id |-> kid, settings |-> ks, lines |-> total, counts |-> c, rows |-> r, widest |-> d]
        BY <4>2, <4>3
      <4>5. Afresh(w) = [id |-> kid, settings |-> ks, lines |-> total, counts |-> c, rows |-> r, widest |-> d]
        BY <1>7, <1>9, <1>10, <1>17, <1>18, <1>19, <2>1, <4>1, Zenon
      <4> QED
        BY <4>1, <4>3, <4>4, <4>5, Zenon
    <3> QED
      BY <3>1 DEF WindowShape, Whole
  <2> QED
    BY <2>1, <2>2, <2>3 DEF Put
<1>21. CASE Matches(w)
  <2>1. Len(w.kept.counts) = n + m /\ dropped + (k + n) = dropped + k + (n + m)
    BY <1>7, <1>8, <1>9, <1>21 DEF Matches
  <2>2. m = 0 /\ k = 0
    <3>1. PICK len : len = Len(w.kept.counts)
      OBVIOUS
    <3>2. len = k + n /\ len = n + m
      BY <1>11, <2>1, <3>1, Zenon
    <3>3. k + n = n + m
      BY <3>2
    <3>4. \A i \in Nat, j \in Nat, l \in Nat, o \in Nat :
            i + j = j + l /\ o + (i + j) = o + i + (j + l) => l = 0 /\ i = 0
      OBVIOUS
    <3> QED
      BY <2>1, <3>3, <3>4, Zenon
  <2>3. new = <<>> /\ ca = <<>> /\ cn = <<>> /\ a = <<>>
    BY <1>2, <1>5, <2>2, EmptySeq
  <2>4. ra = <<>> /\ rn = <<>>
    <3>1. ASSUME NEW x \in Seq(LineSet), Len(x) = 0 PROVE Len(DrawnRows(w, x)) = 0
      <4>1. Len(DrawnRows(w, x)) \in Nat /\ \A j \in 1 .. Len(DrawnRows(w, x)) : \E i \in 1 .. Len(x) : TRUE
        BY <1>1, DrawnIs
      <4> QED
        BY <3>1, <4>1
    <3>2. Len(ra) = 0 /\ Len(rn) = 0
      BY <1>2, <1>4, <2>2, <3>1
    <3> QED
      BY <3>2, EmptySeq
  <2>5. Len(ra) = 0 /\ ra \o rb = rb \o rn /\ ca \o cb = cb \o cn
    BY <2>3, <2>4, ConcatEmptySeq
  <2>6. w.kept = Afresh(w)
    BY <1>3, <1>6, <1>10, <2>2, <2>5
  <2>7. Max({w.top - 0, 0}) = w.top /\ Max({w.at - 0, 0}) = w.at
    <3>1. ASSUME NEW x \in Nat PROVE Max({x - 0, 0}) = x
      <4>1. PICK y : y = x - 0
        OBVIOUS
      <4>2. y \in Int /\ 0 \in Int /\ y = x /\ y >= 0
        BY <4>1
      <4>3. (Max({y, 0}) = y /\ y >= 0) \/ (Max({y, 0}) = 0 /\ 0 >= y)
        BY <4>2, LargerOf
      <4>4. Max({y, 0}) = x
        BY <4>2, <4>3
      <4> QED
        BY <4>1, <4>4
    <3> QED
      BY <1>1, <3>1
  <2>8. Put(w, 0) = w
    BY <2>6, <2>7, PutShape DEF WindowShape, Whole
  <2> QED
    BY <1>4, <1>12, <1>21, <2>5, <2>8
<1> QED
  BY <1>4, <1>12, <1>13, <1>14, <1>20, <1>21

(* A window that is elsewhere on the same rows.                             *)
Elsewhere(w, top, at, shift, following, found) ==
  [text |-> w.text, top |-> top, at |-> at, shift |-> shift, width |-> w.width,
   following |-> following, wrap |-> w.wrap, times |-> w.times, filter |-> w.filter,
   found |-> found, kept |-> w.kept]

(* The text and the settings, which moving leaves alone.                    *)
SameText(w, o) ==
  /\ w.text = o.text /\ w.width = o.width /\ w.wrap = o.wrap /\ w.times = o.times
  /\ w.filter = o.filter

LEMMA SameAfresh ==
  ASSUME NEW w, NEW o, WindowShape(w), SameText(w, o)
  PROVE  Drawable(o) /\ Settings(o) = Settings(w) /\ Afresh(o) = Afresh(w)
<1>1. Drawable(w) /\ Drawable(o) /\ Settings(o) = Settings(w)
  BY DEF SameText, WindowShape, Drawable, Settings
<1>2. PICK x : x = w.text.lines
  OBVIOUS
<1>3. DrawnRows(o, x) = DrawnRows(w, x) /\ DrawnCounts(o, x) = DrawnCounts(w, x)
  BY <1>1, SameDrawn
<1>4. o.text = w.text
  BY DEF SameText
<1>5. Afresh(o) = Afresh(w)
  BY <1>1, <1>2, <1>3, <1>4, Zenon DEF Afresh
<1> QED
  BY <1>1, <1>5

Place(top, at, shift, following, found) ==
  top \in Nat /\ at \in Nat /\ shift \in Nat /\ following \in BOOLEAN /\ found \in BOOLEAN

IsElsewhere(o, w, top, at, shift, following, found) ==
  /\ WindowShape(o) /\ SameText(o, w) /\ o.kept = w.kept /\ (Fresh(w) => Fresh(o))
  /\ o.top = top /\ o.at = at /\ o.shift = shift /\ o.following = following /\ o.found = found

LEMMA ElsewhereIs ==
  ASSUME NEW w, WindowShape(w), NEW top, NEW at, NEW shift, NEW following, NEW found,
         Place(top, at, shift, following, found)
  PROVE  IsElsewhere(Elsewhere(w, top, at, shift, following, found), w, top, at, shift, following, found)
<1>1. PICK o : o = Elsewhere(w, top, at, shift, following, found)
  OBVIOUS
<1>2. o = [text |-> w.text, top |-> top, at |-> at, shift |-> shift, width |-> w.width,
           following |-> following, wrap |-> w.wrap, times |-> w.times, filter |-> w.filter,
           found |-> found, kept |-> w.kept]
  BY <1>1 DEF Elsewhere
<1>3. /\ o.text = w.text /\ o.shift = shift /\ o.width = w.width /\ o.following = following
      /\ o.wrap = w.wrap /\ o.times = w.times /\ o.filter = w.filter /\ o.found = found
      /\ o.top = top /\ o.at = at /\ o.kept = w.kept
  BY <1>2
<1>4. SameText(o, w) /\ SameText(w, o)
  BY <1>3 DEF SameText
<1>5. o = [text |-> o.text, top |-> o.top, at |-> o.at, shift |-> o.shift, width |-> o.width,
           following |-> o.following, wrap |-> o.wrap, times |-> o.times, filter |-> o.filter,
           found |-> o.found, kept |-> o.kept]
  BY <1>2
<1>6. WindowShape(o)
  BY <1>3, <1>5 DEF WindowShape, Whole, Drawable, Place
<1>7. Fresh(w) => Fresh(o)
  BY <1>3, <1>4, <1>6, SameAfresh DEF Fresh
<1> QED
  BY <1>1, <1>3, <1>4, <1>6, <1>7 DEF IsElsewhere

LEMMA ElsewhereBy ==
  ASSUME NEW w, WindowShape(w), NEW x, NEW y
  PROVE  /\ [w EXCEPT !.top = x] = Elsewhere(w, x, w.at, w.shift, w.following, w.found)
         /\ [w EXCEPT !.at = x] = Elsewhere(w, w.top, x, w.shift, w.following, w.found)
         /\ [w EXCEPT !.shift = x] = Elsewhere(w, w.top, w.at, x, w.following, w.found)
         /\ [w EXCEPT !.following = x] = Elsewhere(w, w.top, w.at, w.shift, x, w.found)
         /\ [w EXCEPT !.found = x] = Elsewhere(w, w.top, w.at, w.shift, w.following, x)
         /\ [w EXCEPT !.top = x, !.at = y] = Elsewhere(w, x, y, w.shift, w.following, w.found)
<1>1. Whole(w)
  BY DEF WindowShape
<1>2. [w EXCEPT !.top = x] = Elsewhere(w, x, w.at, w.shift, w.following, w.found)
  <2>1. PICK p : p = [w EXCEPT !.top = x]
    OBVIOUS
  <2>2. p = Elsewhere(w, x, w.at, w.shift, w.following, w.found)
    BY <1>1, <2>1 DEF Whole, Elsewhere
  <2> QED
    BY <2>1, <2>2
<1>3. [w EXCEPT !.at = x] = Elsewhere(w, w.top, x, w.shift, w.following, w.found)
  <2>1. PICK p : p = [w EXCEPT !.at = x]
    OBVIOUS
  <2>2. p = Elsewhere(w, w.top, x, w.shift, w.following, w.found)
    BY <1>1, <2>1 DEF Whole, Elsewhere
  <2> QED
    BY <2>1, <2>2
<1>4. [w EXCEPT !.shift = x] = Elsewhere(w, w.top, w.at, x, w.following, w.found)
  <2>1. PICK p : p = [w EXCEPT !.shift = x]
    OBVIOUS
  <2>2. p = Elsewhere(w, w.top, w.at, x, w.following, w.found)
    BY <1>1, <2>1 DEF Whole, Elsewhere
  <2> QED
    BY <2>1, <2>2
<1>5. [w EXCEPT !.following = x] = Elsewhere(w, w.top, w.at, w.shift, x, w.found)
  <2>1. PICK p : p = [w EXCEPT !.following = x]
    OBVIOUS
  <2>2. p = Elsewhere(w, w.top, w.at, w.shift, x, w.found)
    BY <1>1, <2>1 DEF Whole, Elsewhere
  <2> QED
    BY <2>1, <2>2
<1>6. [w EXCEPT !.found = x] = Elsewhere(w, w.top, w.at, w.shift, w.following, x)
  <2>1. PICK p : p = [w EXCEPT !.found = x]
    OBVIOUS
  <2>2. p = Elsewhere(w, w.top, w.at, w.shift, w.following, x)
    BY <1>1, <2>1 DEF Whole, Elsewhere
  <2> QED
    BY <2>1, <2>2
<1>7. [w EXCEPT !.top = x, !.at = y] = Elsewhere(w, x, y, w.shift, w.following, w.found)
  <2>1. PICK p : p = [w EXCEPT !.top = x, !.at = y]
    OBVIOUS
  <2>2. p = Elsewhere(w, x, y, w.shift, w.following, w.found)
    BY <1>1, <2>1 DEF Whole, Elsewhere
  <2> QED
    BY <2>1, <2>2
<1> QED
  BY <1>2, <1>3, <1>4, <1>5, <1>6, <1>7

LEMMA FreshMatches ==
  ASSUME NEW w, Fresh(w)
  PROVE  /\ Matches(w) /\ Refreshed(w) = w
         /\ w.kept.rows = DrawnRows(w, w.text.lines) /\ w.kept.rows \in Seq(RowSet) /\ Len(w.kept.rows) \in Nat
         /\ w.kept.counts = DrawnCounts(w, w.text.lines) /\ w.kept.counts \in Seq(Nat)
         /\ w.kept.widest = WidestOf(w.kept.rows) /\ w.kept.widest \in Nat
         /\ Rows(w) = w.kept.rows
<1>1. w.text.lines \in Seq(LineSet) /\ Drawable(w)
  BY DEF Fresh, WindowShape, Texts
<1>2. PICK rows, counts : rows = DrawnRows(w, w.text.lines) /\ counts = DrawnCounts(w, w.text.lines)
  OBVIOUS
<1>3. /\ rows \in Seq(RowSet) /\ Len(rows) \in Nat /\ counts \in Seq(Nat)
      /\ Len(counts) = Len(w.text.lines)
  BY <1>1, <1>2, DrawnIs
<1>4. w.kept = Afresh(w)
  BY DEF Fresh
<1>5. /\ w.kept.id = w.text.id /\ w.kept.settings = Settings(w) /\ w.kept.lines = Total(w.text)
      /\ w.kept.counts = counts /\ w.kept.rows = rows /\ w.kept.widest = WidestOf(rows)
  BY <1>2, <1>4 DEF Afresh
<1>6. Matches(w)
  BY <1>3, <1>5 DEF Matches
<1>7. Refreshed(w) = w
  BY <1>6 DEF Refreshed
<1>8. Rows(w) = w.kept.rows
  BY <1>6 DEF Rows
<1>9. WidestOf(rows) \in Nat
  BY <1>3, WidestIs DEF Widest
<1> QED
  BY <1>2, <1>3, <1>5, <1>6, <1>7, <1>8, <1>9

(* Where a number is put that is to be from 0 to most, as far as there is.  *)
Clipped(x, most) == Max({0, Min({x, most})})

LEMMA ClippedIs ==
  ASSUME NEW x \in Int, NEW most \in Int
  PROVE  /\ Clipped(x, most) \in Nat
         /\ x <= most /\ x >= 0 => Clipped(x, most) = x
         /\ x >= most /\ most >= 0 => Clipped(x, most) = most
         /\ x <= 0 \/ most <= 0 => Clipped(x, most) = 0
<1>1. PICK least : least = Min({x, most})
  OBVIOUS
<1>2. least \in Int /\ ((least = x /\ x <= most) \/ (least = most /\ most <= x))
  BY <1>1, SmallerOf
<1>3. PICK c : c = Max({0, least})
  OBVIOUS
<1>4. c \in Int /\ ((c = 0 /\ 0 >= least) \/ (c = least /\ least >= 0))
  BY <1>2, <1>3, LargerOf
<1>5. Clipped(x, most) = c
  BY <1>1, <1>3 DEF Clipped
<1> QED
  BY <1>2, <1>4, <1>5

LEMMA TopAtIs ==
  ASSUME NEW w, Fresh(w), NEW top \in Int
  PROVE  /\ Clipped(top, Len(w.kept.rows) - Height) \in Nat
         /\ TopAt(w, top) = Elsewhere(w, Clipped(top, Len(w.kept.rows) - Height), w.at, w.shift, w.following, w.found)
<1>1. Len(w.kept.rows) - Height \in Int
  BY FreshMatches, TextWindowAssumption
<1>2. Clipped(top, Len(w.kept.rows) - Height) \in Nat
  BY <1>1, ClippedIs
<1>3. WindowShape(w)
  BY DEF Fresh
<1>4. PICK x : x = Clipped(top, Len(w.kept.rows) - Height)
  OBVIOUS
<1>5. TopAt(w, top) = [w EXCEPT !.top = x]
  BY <1>4 DEF TopAt, Clipped
<1>6. [w EXCEPT !.top = x] = Elsewhere(w, x, w.at, w.shift, w.following, w.found)
  BY <1>3, ElsewhereBy, Zenon
<1> QED
  BY <1>2, <1>4, <1>5, <1>6

LEMMA ShiftAtIs ==
  ASSUME NEW w, Fresh(w), NEW shift \in Int
  PROVE  /\ Clipped(shift, w.kept.widest - w.width) \in Nat
         /\ ShiftAt(w, shift) = Elsewhere(w, w.top, w.at, Clipped(shift, w.kept.widest - w.width), w.following, w.found)
<1>1. WindowShape(w)
  BY DEF Fresh
<1>2. w.kept.widest - w.width \in Int
  <2>1. w.kept.widest \in Nat
    BY FreshMatches
  <2>2. w.width \in Int
    BY <1>1 DEF WindowShape, Drawable
  <2> QED
    BY <2>1, <2>2
<1>3. Clipped(shift, w.kept.widest - w.width) \in Nat
  BY <1>2, ClippedIs
<1>4. PICK x : x = Clipped(shift, w.kept.widest - w.width)
  OBVIOUS
<1>5. ShiftAt(w, shift) = [w EXCEPT !.shift = x]
  BY <1>4 DEF ShiftAt, Clipped
<1>6. [w EXCEPT !.shift = x] = Elsewhere(w, w.top, w.at, x, w.following, w.found)
  BY <1>1, ElsewhereBy, Zenon
<1> QED
  BY <1>3, <1>4, <1>5, <1>6

(* The text is another one, went on from the one before, or has none of its *)
(* lines any more.                                                          *)
WentOn(old, new, a, b, c) ==
  /\ a \in Seq(LineSet) /\ b \in Seq(LineSet) /\ c \in Seq(LineSet)
  /\ old.lines = a \o b /\ new = [id |-> old.id, lines |-> b \o c, dropped |-> old.dropped + Len(a)]

Goes(old, new) ==
  \/ new.id # old.id
  \/ \E a, b, c : WentOn(old, new, a, b, c)
  \/ new.dropped > Total(old)

(* A window whose text may have changed since its rows were drawn, or was   *)
(* not drawn yet.                                                           *)
Unbegun(w) == w.kept.id \notin {0, 1}
DrawnFor(o, w) == Drawable(o) /\ o.text \in Texts /\ Goes(o.text, w.text) /\ w.kept = Afresh(o)
Stale(w) == WindowShape(w) /\ (Unbegun(w) \/ \E o : DrawnFor(o, w))

LEMMA AfreshIs ==
  ASSUME NEW o, NEW kept, kept = Afresh(o)
  PROVE  /\ kept.id = o.text.id /\ kept.settings = Settings(o) /\ kept.lines = Total(o.text)
         /\ kept.counts = DrawnCounts(o, o.text.lines) /\ kept.rows = DrawnRows(o, o.text.lines)
         /\ kept.widest = WidestOf(DrawnRows(o, o.text.lines))
<1>1. PICK a, b, c, d, e, f :
        /\ a = o.text.id /\ b = Settings(o) /\ c = Total(o.text) /\ d = DrawnCounts(o, o.text.lines)
        /\ e = DrawnRows(o, o.text.lines) /\ f = WidestOf(DrawnRows(o, o.text.lines))
  OBVIOUS
<1>2. kept = [id |-> a, settings |-> b, lines |-> c, counts |-> d, rows |-> e, widest |-> f]
  BY <1>1, Zenon DEF Afresh
<1>3. kept.id = a /\ kept.settings = b /\ kept.lines = c /\ kept.counts = d /\ kept.rows = e /\ kept.widest = f
  BY <1>2
<1> QED
  BY <1>1, <1>3, Zenon

LEMMA RefreshedGone ==
  ASSUME NEW w, WindowShape(w), NEW o, Drawable(o), o.text \in Texts, w.kept = Afresh(o),
         Settings(o) = Settings(w), NEW a, NEW b, NEW c, WentOn(o.text, w.text, a, b, c)
  PROVE  Refreshed(w) = Put(w, Len(DrawnRows(w, a)))
<1>1. /\ a \in Seq(LineSet) /\ b \in Seq(LineSet) /\ c \in Seq(LineSet)
      /\ o.text.lines = a \o b
      /\ w.text = [id |-> o.text.id, lines |-> b \o c, dropped |-> o.text.dropped + Len(a)]
  BY Zenon DEF WentOn
<1>2. o.text.dropped \in Nat
  BY DEF Texts
<1>3. PICK x : x = a \o b
  OBVIOUS
<1>4. Drawable(w)
  BY DEF WindowShape
<1>5. DrawnRows(o, x) = DrawnRows(w, x) /\ DrawnCounts(o, x) = DrawnCounts(w, x)
  BY <1>4, SameDrawn
<1>6. o.text.lines = x /\ Total(o.text) = o.text.dropped + Len(x)
  BY <1>1, <1>3 DEF Total
<1>7. w.kept = [id |-> o.text.id, settings |-> Settings(w), lines |-> o.text.dropped + Len(x),
                counts |-> DrawnCounts(w, x), rows |-> DrawnRows(w, x), widest |-> WidestOf(DrawnRows(w, x))]
  BY <1>5, <1>6, Zenon DEF Afresh
<1> QED
  BY <1>1, <1>2, <1>3, <1>7, RefreshedOn

LEMMA RefreshedIs ==
  ASSUME NEW w, Stale(w)
  PROVE  \E gone \in Nat : Refreshed(w) = Put(w, gone)
<1>1. WindowShape(w) /\ w.text.id \in {0, 1} /\ w.text.dropped \in Nat
  BY DEF Stale, WindowShape, Texts
<1>2. CASE w.kept.id # w.text.id \/ w.kept.settings # Settings(w)
  <2>1. Refreshed(w) = Put(w, 0)
    BY <1>1, <1>2, RefreshedAfresh
  <2> QED
    BY <2>1
<1>3. CASE w.kept.id = w.text.id /\ w.kept.settings = Settings(w)
  <2>1. PICK o : DrawnFor(o, w)
    BY <1>1, <1>3 DEF Stale, Unbegun
  <2>2. Drawable(o) /\ o.text \in Texts /\ Goes(o.text, w.text) /\ w.kept = Afresh(o)
    BY <2>1 DEF DrawnFor
  <2>3. w.kept.id = o.text.id /\ w.kept.settings = Settings(o) /\ w.kept.lines = Total(o.text)
    BY <2>2, AfreshIs
  <2>4. Total(o.text) \in Nat
    <3>1. o.text.dropped \in Nat /\ Len(o.text.lines) \in Nat
      BY <2>2, LenProperties DEF Texts
    <3> QED
      BY <3>1 DEF Total
  <2>5. CASE \E a, b, c : WentOn(o.text, w.text, a, b, c)
    <3>1. PICK a, b, c : WentOn(o.text, w.text, a, b, c)
      BY <2>5
    <3>2. Refreshed(w) = Put(w, Len(DrawnRows(w, a)))
      BY <1>1, <1>3, <2>2, <2>3, <3>1, RefreshedGone
    <3>3. Len(DrawnRows(w, a)) \in Nat
      BY <1>1, <3>1, DrawnIs DEF WentOn, WindowShape
    <3> QED
      BY <3>2, <3>3
  <2>6. CASE w.text.dropped > Total(o.text)
    <3>1. Refreshed(w) = Put(w, 0)
      BY <1>1, <2>3, <2>4, <2>6, RefreshedAfresh
    <3> QED
      BY <3>1
  <2> QED
    BY <1>3, <2>2, <2>3, <2>5, <2>6 DEF Goes
<1> QED
  BY <1>2, <1>3

LEMMA FreshIsStale ==
  ASSUME NEW w, Fresh(w), NEW v, WindowShape(v), v.kept = w.kept, v.text = w.text
  PROVE  Stale(v)
<1>1. WindowShape(w) /\ w.kept = Afresh(w)
  BY DEF Fresh
<1>2. Drawable(w) /\ w.text \in Texts /\ w.text.lines \in Seq(LineSet)
  BY <1>1 DEF WindowShape, Texts
<1>3. WentOn(w.text, v.text, <<>>, w.text.lines, <<>>)
  <2>1. PICK t, x : t = w.text /\ x = w.text.lines
    OBVIOUS
  <2>2. <<>> \in Seq(LineSet) /\ Len(<<>>) = 0 /\ <<>> \o x = x /\ x \o <<>> = x
    BY <1>2, <2>1, EmptySeq, ConcatEmptySeq
  <2>3. t = [id |-> t.id, lines |-> x, dropped |-> t.dropped] /\ t.dropped + 0 = t.dropped
    BY <1>2, <2>1 DEF Texts
  <2> QED
    BY <1>2, <2>1, <2>2, <2>3, Zenon DEF WentOn
<1>4. Goes(w.text, v.text)
  BY <1>3 DEF Goes
<1>5. DrawnFor(w, v)
  BY <1>1, <1>2, <1>4 DEF DrawnFor
<1> QED
  BY <1>5 DEF Stale

(* What is on the screen, once it is brought up to date.                    *)
LEMMA RefreshedFresh ==
  ASSUME NEW w, Stale(w)
  PROVE  LET r == Refreshed(w)
         IN  /\ Fresh(r) /\ SameText(r, w)
             /\ r.shift = w.shift /\ r.following = w.following /\ r.found = w.found
<1>1. PICK gone \in Nat : Refreshed(w) = Put(w, gone)
  BY RefreshedIs
<1>2. WindowShape(w)
  BY DEF Stale
<1>3. PICK r : r = Put(w, gone)
  OBVIOUS
<1>4. /\ Fresh(r) /\ r.text = w.text /\ r.width = w.width /\ r.wrap = w.wrap /\ r.times = w.times
      /\ r.filter = w.filter /\ r.shift = w.shift /\ r.following = w.following /\ r.found = w.found
  BY <1>2, <1>3, PutIs, Zenon
<1>5. SameText(r, w)
  BY <1>4 DEF SameText
<1> QED
  BY <1>1, <1>3, <1>4, <1>5, Zenon

LEMMA MovedIs ==
  ASSUME NEW w, Stale(w), NEW by \in Int
  PROVE  LET r == Refreshed(w)
             m == Moved(w, by)
             top == Clipped(r.top + by, Len(r.kept.rows) - Height)
         IN  /\ m = Elsewhere(r, top, r.at, r.shift, r.following, r.found)
             /\ top \in Nat /\ Fresh(m) /\ SameText(m, w) /\ m.kept = r.kept
             /\ m.top = top /\ m.at = r.at /\ m.shift = w.shift /\ m.following = w.following /\ m.found = w.found
<1>1. PICK r : r = Refreshed(w)
  OBVIOUS
<1>2. Fresh(r) /\ SameText(r, w) /\ r.shift = w.shift /\ r.following = w.following /\ r.found = w.found
  BY <1>1, RefreshedFresh
<1>3. WindowShape(r) /\ r.top \in Nat /\ r.at \in Nat /\ r.shift \in Nat /\ r.following \in BOOLEAN /\ r.found \in BOOLEAN
  BY <1>2 DEF Fresh, WindowShape
<1>4. PICK x \in Int : x = r.top + by
  BY <1>3
<1>5. PICK top : top = Clipped(x, Len(r.kept.rows) - Height)
  OBVIOUS
<1>6. top \in Nat /\ TopAt(r, x) = Elsewhere(r, top, r.at, r.shift, r.following, r.found)
  BY <1>2, <1>5, TopAtIs
<1>7. PICK m : m = Elsewhere(r, top, r.at, r.shift, r.following, r.found)
  OBVIOUS
<1>8. /\ Fresh(m) /\ SameText(m, r) /\ m.kept = r.kept /\ m.top = top /\ m.at = r.at /\ m.shift = r.shift
      /\ m.following = r.following /\ m.found = r.found
  <2>1. Place(top, r.at, r.shift, r.following, r.found)
    BY <1>3, <1>6 DEF Place
  <2>2. IsElsewhere(m, r, top, r.at, r.shift, r.following, r.found)
    BY <1>3, <1>7, <2>1, ElsewhereIs
  <2> QED
    BY <1>2, <2>2 DEF IsElsewhere
<1>9. Moved(w, by) = m
  BY <1>1, <1>4, <1>6, <1>7, Zenon DEF Moved
<1>10. SameText(m, w)
  BY <1>2, <1>8 DEF SameText
<1> QED
  BY <1>1, <1>2, <1>4, <1>5, <1>6, <1>7, <1>8, <1>9, <1>10, Zenon

LEMMA InsideIs ==
  ASSUME NEW w, Stale(w)
  PROVE  LET r == Refreshed(w)
             i == Inside(w)
         IN  /\ Fresh(i) /\ SameText(i, w) /\ i.kept = r.kept /\ i.at = r.at
             /\ i.top = Clipped(r.top, Len(r.kept.rows) - Height)
             /\ i.following = w.following /\ i.found = w.found
<1>1. PICK r : r = Refreshed(w)
  OBVIOUS
<1>2. Fresh(r) /\ r.top \in Nat
  BY <1>1, RefreshedFresh DEF Fresh, WindowShape
<1>3. r.top + 0 = r.top
  BY <1>2
<1>4. PICK m : m = Moved(w, 0)
  OBVIOUS
<1>5. 0 \in Int
  OBVIOUS
<1>6. /\ Fresh(m) /\ SameText(m, w) /\ m.kept = r.kept /\ m.at = r.at
      /\ m.top = Clipped(r.top, Len(r.kept.rows) - Height) /\ m.following = w.following /\ m.found = w.found
  BY <1>1, <1>3, <1>4, <1>5, MovedIs, Zenon
<1>7. CASE w.wrap
  <2>1. Inside(w) = m
    BY <1>4, <1>7 DEF Inside
  <2> QED
    BY <1>1, <1>6, <2>1, Zenon
<1>8. CASE ~w.wrap
  <2>1. Inside(w) = ShiftAt(m, w.shift)
    BY <1>4, <1>8 DEF Inside
  <2>2. w.shift \in Int
    BY DEF Stale, WindowShape
  <2>3. PICK x : x = Clipped(w.shift, m.kept.widest - m.width)
    OBVIOUS
  <2>4. x \in Nat /\ ShiftAt(m, w.shift) = Elsewhere(m, m.top, m.at, x, m.following, m.found)
    BY <1>6, <2>2, <2>3, ShiftAtIs
  <2>5. WindowShape(m) /\ m.top \in Nat /\ m.at \in Nat /\ m.following \in BOOLEAN /\ m.found \in BOOLEAN
    BY <1>6 DEF Fresh, WindowShape
  <2>6. PICK i : i = Elsewhere(m, m.top, m.at, x, m.following, m.found)
    OBVIOUS
  <2>7. /\ Fresh(i) /\ SameText(i, m) /\ i.kept = m.kept /\ i.top = m.top /\ i.at = m.at
        /\ i.following = m.following /\ i.found = m.found
    <3>1. Place(m.top, m.at, x, m.following, m.found)
      BY <2>4, <2>5 DEF Place
    <3>2. IsElsewhere(i, m, m.top, m.at, x, m.following, m.found)
      BY <2>5, <2>6, <3>1, ElsewhereIs
    <3> QED
      BY <1>6, <3>2 DEF IsElsewhere
  <2>8. SameText(i, w)
    BY <1>6, <2>7 DEF SameText
  <2> QED
    BY <1>1, <1>6, <2>1, <2>4, <2>6, <2>7, <2>8, Zenon
<1> QED
  BY <1>7, <1>8

(* A window over another text, of another size or drawn in another way.     *)
Changed(w, content, width, shift, wrap, times, filter) ==
  [text |-> content, top |-> w.top, at |-> w.at, shift |-> shift, width |-> width,
   following |-> w.following, wrap |-> wrap, times |-> times, filter |-> filter,
   found |-> w.found, kept |-> w.kept]

Change(content, width, shift, wrap, times, filter) ==
  /\ content \in Texts /\ width \in Nat \ {0} /\ shift \in Nat
  /\ wrap \in BOOLEAN /\ times \in BOOLEAN /\ filter \in BOOLEAN

IsChanged(o, w, content, width, shift, wrap, times, filter) ==
  /\ WindowShape(o) /\ o.text = content /\ o.width = width /\ o.shift = shift
  /\ o.wrap = wrap /\ o.times = times /\ o.filter = filter
  /\ o.top = w.top /\ o.at = w.at /\ o.following = w.following /\ o.found = w.found /\ o.kept = w.kept

LEMMA ChangedIs ==
  ASSUME NEW w, WindowShape(w), NEW content, NEW width, NEW shift, NEW wrap, NEW times, NEW filter,
         Change(content, width, shift, wrap, times, filter)
  PROVE  IsChanged(Changed(w, content, width, shift, wrap, times, filter), w,
                   content, width, shift, wrap, times, filter)
<1>1. PICK o : o = Changed(w, content, width, shift, wrap, times, filter)
  OBVIOUS
<1>2. o = [text |-> content, top |-> w.top, at |-> w.at, shift |-> shift, width |-> width,
           following |-> w.following, wrap |-> wrap, times |-> times, filter |-> filter,
           found |-> w.found, kept |-> w.kept]
  BY <1>1 DEF Changed
<1>3. /\ o.text = content /\ o.shift = shift /\ o.width = width /\ o.following = w.following
      /\ o.wrap = wrap /\ o.times = times /\ o.filter = filter /\ o.found = w.found
      /\ o.top = w.top /\ o.at = w.at /\ o.kept = w.kept
  BY <1>2
<1>4. o = [text |-> o.text, top |-> o.top, at |-> o.at, shift |-> o.shift, width |-> o.width,
           following |-> o.following, wrap |-> o.wrap, times |-> o.times, filter |-> o.filter,
           found |-> o.found, kept |-> o.kept]
  BY <1>2
<1>5. WindowShape(o)
  BY <1>3, <1>4 DEF WindowShape, Whole, Drawable, Change
<1> QED
  BY <1>1, <1>3, <1>5 DEF IsChanged

LEMMA ChangedBy ==
  ASSUME NEW w, WindowShape(w), NEW x, NEW y
  PROVE  /\ [w EXCEPT !.text = x, !.width = y] = Changed(w, x, y, w.shift, w.wrap, w.times, w.filter)
         /\ [w EXCEPT !.filter = x] = Changed(w, w.text, w.width, w.shift, w.wrap, w.times, x)
         /\ [w EXCEPT !.wrap = x, !.shift = y] = Changed(w, w.text, w.width, y, x, w.times, w.filter)
         /\ [w EXCEPT !.times = x] = Changed(w, w.text, w.width, w.shift, w.wrap, x, w.filter)
<1>1. Whole(w)
  BY DEF WindowShape
<1>2. [w EXCEPT !.text = x, !.width = y] = Changed(w, x, y, w.shift, w.wrap, w.times, w.filter)
  <2>1. PICK p : p = [w EXCEPT !.text = x, !.width = y]
    OBVIOUS
  <2>2. p = Changed(w, x, y, w.shift, w.wrap, w.times, w.filter)
    BY <1>1, <2>1 DEF Whole, Changed
  <2> QED
    BY <2>1, <2>2
<1>3. [w EXCEPT !.filter = x] = Changed(w, w.text, w.width, w.shift, w.wrap, w.times, x)
  <2>1. PICK p : p = [w EXCEPT !.filter = x]
    OBVIOUS
  <2>2. p = Changed(w, w.text, w.width, w.shift, w.wrap, w.times, x)
    BY <1>1, <2>1 DEF Whole, Changed
  <2> QED
    BY <2>1, <2>2
<1>4. [w EXCEPT !.wrap = x, !.shift = y] = Changed(w, w.text, w.width, y, x, w.times, w.filter)
  <2>1. PICK p : p = [w EXCEPT !.wrap = x, !.shift = y]
    OBVIOUS
  <2>2. p = Changed(w, w.text, w.width, y, x, w.times, w.filter)
    BY <1>1, <2>1 DEF Whole, Changed
  <2> QED
    BY <2>1, <2>2
<1>5. [w EXCEPT !.times = x] = Changed(w, w.text, w.width, w.shift, w.wrap, x, w.filter)
  <2>1. PICK p : p = [w EXCEPT !.times = x]
    OBVIOUS
  <2>2. p = Changed(w, w.text, w.width, w.shift, w.wrap, x, w.filter)
    BY <1>1, <2>1 DEF Whole, Changed
  <2> QED
    BY <2>1, <2>2
<1> QED
  BY <1>2, <1>3, <1>4, <1>5

(* A window that was drawn for its text, or not drawn yet.                  *)
Settled(w) == WindowShape(w) /\ (Unbegun(w) \/ Fresh(w))

LEMMA ChangedIsStale ==
  ASSUME NEW w, Settled(w), NEW v, WindowShape(v), v.kept = w.kept, Goes(w.text, v.text) \/ v.text = w.text
  PROVE  Stale(v)
<1>1. CASE Unbegun(w)
  <2>1. Unbegun(v)
    BY <1>1 DEF Unbegun
  <2> QED
    BY <2>1 DEF Stale
<1>2. CASE Fresh(w) /\ v.text = w.text
  BY <1>2, FreshIsStale
<1>3. CASE Fresh(w) /\ Goes(w.text, v.text)
  <2>1. w.kept = Afresh(w) /\ Drawable(w) /\ w.text \in Texts
    BY <1>3 DEF Fresh, WindowShape
  <2>2. DrawnFor(w, v)
    BY <1>3, <2>1 DEF DrawnFor
  <2> QED
    BY <2>2 DEF Stale
<1> QED
  BY <1>1, <1>2, <1>3 DEF Settled

EndOf(w) == Max({0, Len(w.kept.rows) - Height})

LEMMA AtEndIs ==
  ASSUME NEW w, Fresh(w)
  PROVE  LET e == AtEnd(w)
         IN  /\ Fresh(e) /\ SameText(e, w) /\ e.kept = w.kept /\ e.top = EndOf(w) /\ e.at = w.at
             /\ e.following = w.following /\ e.found = w.found
<1>1. PICK n \in Nat : n = Len(w.kept.rows) /\ Rows(w) = w.kept.rows /\ Refreshed(w) = w
  BY FreshMatches
<1>2. WindowShape(w) /\ Stale(w) /\ w.top \in Nat
  <2>1. WindowShape(w) /\ w.top \in Nat
    BY DEF Fresh, WindowShape
  <2> QED
    BY <2>1, FreshIsStale
<1>3. PICK e : e = AtEnd(w)
  OBVIOUS
<1>4. e = Moved(w, n) /\ n \in Int
  <2>1. e = Moved(w, n)
    BY <1>1, <1>3, Zenon DEF AtEnd
  <2> QED
    BY <2>1
<1>5. /\ Fresh(e) /\ SameText(e, w) /\ e.kept = w.kept /\ e.at = w.at
      /\ e.top = Clipped(w.top + n, n - Height) /\ e.following = w.following /\ e.found = w.found
  BY <1>1, <1>2, <1>4, MovedIs, Zenon
<1>6. Clipped(w.top + n, n - Height) = Max({0, n - Height})
  <2>1. Height \in Nat /\ n - Height \in Int /\ w.top + n \in Int /\ w.top + n >= n - Height
    BY <1>2, TextWindowAssumption
  <2>2. Min({w.top + n, n - Height}) = n - Height
    <3>1. PICK x \in Int, y \in Int : x = w.top + n /\ y = n - Height /\ x >= y
      BY <2>1
    <3>2. Min({x, y}) = y
      BY <3>1, SmallerOf
    <3> QED
      BY <3>1, <3>2
  <2> QED
    BY <2>2 DEF Clipped
<1> QED
  BY <1>1, <1>3, <1>5, <1>6, Zenon DEF EndOf

(* The windows the layout goes through: with the text and the size, inside, *)
(* filtered, inside, and at the end.                                        *)
Laid(w, content, width, filter, v, s, u, i, x) ==
  /\ IsChanged(v, w, content, width, w.shift, w.wrap, w.times, w.filter) /\ Stale(v) /\ s = Inside(v)
  /\ IsChanged(u, s, s.text, s.width, s.shift, s.wrap, s.times, filter) /\ Stale(u) /\ i = Inside(u)
  /\ Fresh(s) /\ SameText(s, v) /\ s.following = w.following
  /\ Fresh(i) /\ SameText(i, u) /\ i.following = w.following
  /\ x = IF Total(content) > Total(w.text) /\ w.following THEN AtEnd(i) ELSE i

LEMMA LaysOutBy ==
  ASSUME NEW w, Settled(w), NEW content \in Texts, Goes(w.text, content) \/ content = w.text,
         NEW width \in Nat \ {0}, NEW filter \in BOOLEAN, NEW x \in LaysOut(w, content, width, filter)
  PROVE  \E v, s, u, i : Laid(w, content, width, filter, v, s, u, i, x)
<1>1. WindowShape(w)
  BY DEF Settled
<1>2. PICK v : v = [w EXCEPT !.text = content, !.width = width]
  OBVIOUS
<1>3. v = Changed(w, content, width, w.shift, w.wrap, w.times, w.filter)
  BY <1>1, <1>2, ChangedBy, Zenon
<1>4. Change(content, width, w.shift, w.wrap, w.times, w.filter)
  BY <1>1 DEF Change, WindowShape, Drawable
<1>5. IsChanged(v, w, content, width, w.shift, w.wrap, w.times, w.filter)
  BY <1>1, <1>3, <1>4, ChangedIs
<1>6. WindowShape(v) /\ v.kept = w.kept /\ v.text = content /\ v.following = w.following
  BY <1>5 DEF IsChanged
<1>7. Stale(v)
  BY <1>6, ChangedIsStale
<1>8. PICK s : s = Inside(v)
  OBVIOUS
<1>9. Fresh(s) /\ SameText(s, v) /\ s.following = w.following
  BY <1>6, <1>7, <1>8, InsideIs, Zenon
<1>10. WindowShape(s)
  BY <1>9 DEF Fresh
<1>11. PICK u : u = [s EXCEPT !.filter = filter]
  OBVIOUS
<1>12. u = Changed(s, s.text, s.width, s.shift, s.wrap, s.times, filter)
  BY <1>10, <1>11, ChangedBy, Zenon
<1>13. Change(s.text, s.width, s.shift, s.wrap, s.times, filter)
  BY <1>10 DEF Change, WindowShape, Drawable
<1>14. IsChanged(u, s, s.text, s.width, s.shift, s.wrap, s.times, filter)
  BY <1>10, <1>12, <1>13, ChangedIs
<1>15. WindowShape(u) /\ u.kept = s.kept /\ u.text = s.text /\ u.following = s.following
  BY <1>14 DEF IsChanged
<1>16. Stale(u)
  BY <1>9, <1>15, FreshIsStale
<1>17. PICK i : i = Inside(u)
  OBVIOUS
<1>18. Fresh(i) /\ SameText(i, u) /\ i.following = w.following
  BY <1>9, <1>15, <1>16, <1>17, InsideIs, Zenon
<1>19. x = IF Total(content) > Total(w.text) /\ w.following THEN AtEnd(i) ELSE i
  <2>1. LaysOut(w, content, width, filter) =
          {IF Total(content) > Total(w.text) /\ w.following THEN AtEnd(inside) ELSE inside :
             inside \in {Inside([sized EXCEPT !.filter = filter]) : sized \in {s}}}
    BY <1>2, <1>8, Zenon DEF LaysOut
  <2>2. PICK inside \in {Inside([sized EXCEPT !.filter = filter]) : sized \in {s}} :
          x = IF Total(content) > Total(w.text) /\ w.following THEN AtEnd(inside) ELSE inside
    BY <2>1, Zenon
  <2>3. inside = i
    BY <1>11, <1>17, <2>2, Zenon
  <2> QED
    BY <2>2, <2>3, Zenon
<1> QED
  BY <1>5, <1>7, <1>8, <1>9, <1>14, <1>16, <1>17, <1>18, <1>19, Zenon DEF Laid

LEMMA LaysOutIs ==
  ASSUME NEW w, Settled(w), NEW content \in Texts, Goes(w.text, content) \/ content = w.text,
         NEW width \in Nat \ {0}, NEW filter \in BOOLEAN, NEW x \in LaysOut(w, content, width, filter)
  PROVE  /\ Fresh(x) /\ x.text = content /\ x.width = width /\ x.filter = filter
         /\ x.wrap = w.wrap /\ x.times = w.times /\ x.following = w.following
<1>1. PICK v, s, u, i : Laid(w, content, width, filter, v, s, u, i, x)
  BY LaysOutBy
<1>2. /\ v.text = content /\ v.width = width /\ v.wrap = w.wrap /\ v.times = w.times
      /\ SameText(s, v) /\ u.text = s.text /\ u.width = s.width /\ u.wrap = s.wrap /\ u.times = s.times
      /\ u.filter = filter /\ SameText(i, u) /\ i.following = w.following /\ Fresh(i)
  BY <1>1 DEF Laid, IsChanged
<1>3. /\ i.text = content /\ i.width = width /\ i.filter = filter /\ i.wrap = w.wrap /\ i.times = w.times
  BY <1>2 DEF SameText
<1>4. x = IF Total(content) > Total(w.text) /\ w.following THEN AtEnd(i) ELSE i
  BY <1>1 DEF Laid
<1>5. CASE x = i
  BY <1>2, <1>3, <1>5
<1>6. CASE x = AtEnd(i)
  <2>1. Fresh(x) /\ SameText(x, i) /\ x.following = i.following
    BY <1>2, <1>6, AtEndIs, Zenon
  <2> QED
    BY <1>2, <1>3, <2>1 DEF SameText
<1> QED
  BY <1>4, <1>5, <1>6

(* Every line has a number of its own, of those given so far.               *)
Numbered(x, most) ==
  /\ \A i \in 1 .. Len(x) : x[i].n <= most
  /\ \A i, j \in 1 .. Len(x) : x[i].n = x[j].n => i = j

LEMMA NumberOf ==
  ASSUME NEW x \in Seq(LineSet), NEW i \in 1 .. Len(x)
  PROVE  x[i] \in LineSet /\ x[i].n \in Nat
<1>1. x[i] \in LineSet
  BY ElementOfSeq
<1> QED
  BY <1>1 DEF LineSet

LEMMA NumberedBoth ==
  ASSUME NEW x \in Seq(LineSet), NEW most \in Nat, Numbered(x, most),
         NEW y \in Seq(LineSet), \A i \in 1 .. Len(y) : y[i].n = most + i
  PROVE  Numbered(x \o y, most + Len(y)) /\ Numbered(y \o x, most + Len(y))
<1>1. PICK k \in Nat, l \in Nat : k = Len(x) /\ l = Len(y)
  BY LenProperties
<1>2. PICK z : z = x \o y
  OBVIOUS
<1>3. PICK u : u = y \o x
  OBVIOUS
<1>4. z \in Seq(LineSet) /\ Len(z) = k + l /\ \A i \in 1 .. k + l : z[i] = IF i <= k THEN x[i] ELSE y[i - k]
  BY <1>1, <1>2, ConcatProperties
<1>5. u \in Seq(LineSet) /\ Len(u) = k + l /\ \A i \in 1 .. k + l : u[i] = IF i <= l THEN y[i] ELSE x[i - l]
  BY <1>1, <1>3, ConcatProperties
<1>6. PICK p : p = [i \in 1 .. k |-> x[i].n]
  OBVIOUS
<1>7. p \in [1 .. k -> Nat] /\ (\A i \in 1 .. k : p[i] <= most) /\ (\A i, j \in 1 .. k : p[i] = p[j] => i = j)
      /\ \A i \in 1 .. k : x[i].n = p[i]
  <2>1. \A i \in 1 .. k : p[i] = x[i].n /\ x[i].n \in Nat
    BY <1>1, <1>6, NumberOf
  <2>2. p \in [1 .. k -> Nat]
    BY <1>6, <2>1
  <2> QED
    BY <1>1, <2>1, <2>2 DEF Numbered
<1>8. /\ \A i \in 1 .. k + l : z[i].n = IF i <= k THEN p[i] ELSE most + (i - k)
      /\ \A i \in 1 .. k + l : u[i].n = IF i <= l THEN most + i ELSE p[i - l]
  <2>1. ASSUME NEW i \in 1 .. k + l PROVE z[i].n = IF i <= k THEN p[i] ELSE most + (i - k)
    <3>1. CASE i <= k
      <4>1. i \in 1 .. k
        BY <3>1
      <4> QED
        BY <1>4, <1>7, <3>1, <4>1
    <3>2. CASE ~(i <= k)
      <4>1. i - k \in 1 .. l
        BY <3>2
      <4> QED
        BY <1>1, <1>4, <3>2, <4>1
    <3> QED
      BY <3>1, <3>2
  <2>2. ASSUME NEW i \in 1 .. k + l PROVE u[i].n = IF i <= l THEN most + i ELSE p[i - l]
    <3>1. CASE i <= l
      <4>1. i \in 1 .. l
        BY <3>1
      <4> QED
        BY <1>1, <1>5, <3>1, <4>1
    <3>2. CASE ~(i <= l)
      <4>1. i - l \in 1 .. k
        BY <3>2
      <4> QED
        BY <1>5, <1>7, <3>2, <4>1
    <3> QED
      BY <3>1, <3>2
  <2> QED
    BY <2>1, <2>2
<1>9. Numbered(z, most + l)
  <2>1. ASSUME NEW i \in 1 .. k + l PROVE z[i].n <= most + l
    BY <1>7, <1>8
  <2>2. ASSUME NEW i \in 1 .. k + l, NEW j \in 1 .. k + l, z[i].n = z[j].n PROVE i = j
    <3>1. (IF i <= k THEN p[i] ELSE most + (i - k)) = IF j <= k THEN p[j] ELSE most + (j - k)
      BY <1>8, <2>2
    <3>2. CASE i <= k /\ j <= k
      <4>1. i \in 1 .. k /\ j \in 1 .. k
        BY <3>2
      <4> QED
        BY <1>7, <3>1, <3>2, <4>1
    <3>3. CASE ~(i <= k) /\ ~(j <= k)
      BY <3>1, <3>3
    <3>4. CASE i <= k /\ ~(j <= k)
      <4>1. i \in 1 .. k
        BY <3>4
      <4>2. p[i] <= most /\ p[i] \in Nat
        BY <1>7, <4>1
      <4> QED
        BY <3>1, <3>4, <4>2
    <3>5. CASE ~(i <= k) /\ j <= k
      <4>1. j \in 1 .. k
        BY <3>5
      <4>2. p[j] <= most /\ p[j] \in Nat
        BY <1>7, <4>1
      <4> QED
        BY <3>1, <3>5, <4>2
    <3> QED
      BY <3>2, <3>3, <3>4, <3>5
  <2> QED
    BY <1>4, <2>1, <2>2 DEF Numbered
<1>10. Numbered(u, most + l)
  <2>1. ASSUME NEW i \in 1 .. k + l PROVE u[i].n <= most + l
    <3>1. CASE i <= l
      BY <1>8, <3>1
    <3>2. CASE ~(i <= l)
      <4>1. i - l \in 1 .. k
        BY <3>2
      <4>2. p[i - l] <= most /\ p[i - l] \in Nat
        BY <1>7, <4>1
      <4> QED
        BY <1>8, <3>2, <4>2
    <3> QED
      BY <3>1, <3>2
  <2>2. ASSUME NEW i \in 1 .. k + l, NEW j \in 1 .. k + l, u[i].n = u[j].n PROVE i = j
    <3>1. (IF i <= l THEN most + i ELSE p[i - l]) = IF j <= l THEN most + j ELSE p[j - l]
      BY <1>8, <2>2
    <3>2. CASE ~(i <= l) /\ ~(j <= l)
      <4>1. i - l \in 1 .. k /\ j - l \in 1 .. k
        BY <3>2
      <4>2. i - l = j - l
        BY <1>7, <3>1, <3>2, <4>1
      <4> QED
        BY <4>2
    <3>3. CASE i <= l /\ j <= l
      BY <3>1, <3>3
    <3>4. CASE i <= l /\ ~(j <= l)
      <4>1. j - l \in 1 .. k
        BY <3>4
      <4>2. p[j - l] <= most /\ p[j - l] \in Nat
        BY <1>7, <4>1
      <4> QED
        BY <3>1, <3>4, <4>2
    <3>5. CASE ~(i <= l) /\ j <= l
      <4>1. i - l \in 1 .. k
        BY <3>5
      <4>2. p[i - l] <= most /\ p[i - l] \in Nat
        BY <1>7, <4>1
      <4> QED
        BY <3>1, <3>5, <4>2
    <3> QED
      BY <3>2, <3>3, <3>4, <3>5
  <2> QED
    BY <1>5, <2>1, <2>2 DEF Numbered
<1> QED
  BY <1>1, <1>2, <1>3, <1>9, <1>10

LEMMA NumberedRest ==
  ASSUME NEW z \in Seq(LineSet), NEW most \in Nat, Numbered(z, most), NEW over \in 0 .. Len(z)
  PROVE  /\ SubSeq(z, over + 1, Len(z)) \in Seq(LineSet) /\ Len(SubSeq(z, over + 1, Len(z))) = Len(z) - over
         /\ \A i \in 1 .. Len(z) - over : SubSeq(z, over + 1, Len(z))[i] = z[over + i]
         /\ Numbered(SubSeq(z, over + 1, Len(z)), most)
<1>1. PICK n \in Nat : n = Len(z)
  BY LenProperties
<1>2. \A i \in 1 .. n : z[i] \in LineSet
  BY <1>1, ElementOfSeq
<1>3. PICK b : b = SubSeq(z, over + 1, n)
  OBVIOUS
<1>4. b \in Seq(LineSet) /\ Len(b) = n - over /\ \A i \in 1 .. n - over : b[i] = z[over + i] /\ over + i \in 1 .. n
  BY <1>1, <1>2, <1>3
<1>5. /\ \A i \in 1 .. n : z[i].n <= most
      /\ \A i, j \in 1 .. n : z[i].n = z[j].n => i = j
  BY <1>1 DEF Numbered
<1>6. \A i \in 1 .. n - over : b[i].n <= most
  BY <1>4, <1>5
<1>7. ASSUME NEW i \in 1 .. n - over, NEW j \in 1 .. n - over, b[i].n = b[j].n PROVE i = j
  <2>1. over + i \in 1 .. n /\ over + j \in 1 .. n /\ z[over + i].n = z[over + j].n
    BY <1>4, <1>7
  <2>2. over + i = over + j
    BY <1>5, <2>1, Zenon
  <2>3. over \in Int /\ i \in Int /\ j \in Int
    BY <1>1
  <2> QED
    BY <2>2, <2>3
<1>8. Numbered(b, most)
  BY <1>4, <1>6, <1>7 DEF Numbered
<1> QED
  BY <1>1, <1>3, <1>4, <1>8

(* What arrives: the text went on, or it has none but lines that arrived.   *)
Arrives(old, new, lines) ==
  \/ \E a, b : WentOn(old, new, a, b, lines)
  \/ /\ new.dropped > Total(old)
     /\ \A i \in 1 .. Len(new.lines) : \E j \in 1 .. Len(lines) : new.lines[i] = lines[j]

Arrival(old, new, lines, over) ==
  /\ over = Max({Len(old.lines \o lines) - MaxLines, 0})
  /\ new = [old EXCEPT !.lines = SubSeq(old.lines \o lines, over + 1, Len(old.lines \o lines)), !.dropped = @ + over]

NewOnes(lines, count, most) ==
  lines \in Seq(LineSet) /\ Len(lines) = count /\ \A i \in 1 .. count : lines[i].n = most + i

LEMMA LinesAssociate ==
  ASSUME NEW a \in Seq(LineSet), NEW b \in Seq(LineSet), NEW c \in Seq(LineSet)
  PROVE  (a \o b) \o c = a \o (b \o c)
<1>1. PICK R : R = LineSet
  OBVIOUS
<1>2. \A s, t, u \in Seq(R) : (s \o t) \o u = s \o (t \o u)
  BY ConcatAssociative
<1> QED
  BY <1>1, <1>2

LEMMA ArrivalIs ==
  ASSUME NEW old, old \in Texts, NEW most \in Nat, Numbered(old.lines, most), NEW count \in Nat,
         NEW lines, NewOnes(lines, count, most), NEW new, NEW over, Arrival(old, new, lines, over)
  PROVE  /\ new \in Texts /\ new.id = old.id /\ Numbered(new.lines, most + count) /\ Total(new) = Total(old) + count
         /\ Arrives(old, new, lines)
<1>1. PICK x \in Seq(LineSet), d \in Nat, id \in {0, 1} : x = old.lines /\ d = old.dropped /\ id = old.id
  BY DEF Texts
<1>2. old = [id |-> id, lines |-> x, dropped |-> d]
  BY <1>1 DEF Texts
<1>0. lines \in Seq(LineSet) /\ Len(lines) = count /\ \A i \in 1 .. count : lines[i].n = most + i
  BY DEF NewOnes
<1>3. PICK z : z = x \o lines
  OBVIOUS
<1>4. PICK k \in Nat : k = Len(x)
  BY LenProperties
<1>5. z \in Seq(LineSet) /\ Len(z) = k + count /\ \A i \in 1 .. k + count : z[i] = IF i <= k THEN x[i] ELSE lines[i - k]
  BY <1>0, <1>3, <1>4, ConcatProperties
<1>6. over \in 0 .. k + count
  <2>0. PICK len \in Nat : len = Len(z) /\ len = k + count
    BY <1>5
  <2>1. over = Max({len - MaxLines, 0})
    BY <1>1, <1>3, <2>0, Zenon DEF Arrival
  <2>2. MaxLines \in Nat
    BY TextWindowAssumption
  <2>3. PICK y \in Int : y = len - MaxLines /\ y <= k + count
    BY <2>0, <2>2
  <2>4. PICK o : o = Max({y, 0})
    OBVIOUS
  <2>5. o \in Int /\ ((o = y /\ y >= 0) \/ (o = 0 /\ 0 >= y))
    BY <2>4, LargerOf
  <2>6. over = o
    BY <2>1, <2>3, <2>4, Zenon
  <2>7. o \in 0 .. k + count
    BY <2>3, <2>5
  <2> QED
    BY <2>6, <2>7
<1>17. PICK o \in Nat : o = over /\ o <= k + count
  BY <1>6
<1>7. Numbered(z, most + count)
  BY <1>0, <1>1, <1>3, NumberedBoth
<1>8. PICK rest : rest = SubSeq(z, o + 1, Len(z))
  OBVIOUS
<1>9. /\ rest \in Seq(LineSet) /\ Len(rest) = k + count - o
      /\ \A i \in 1 .. k + count - o : rest[i] = z[o + i]
      /\ Numbered(rest, most + count)
  <2>1. PICK n \in Nat, m \in Nat : n = Len(z) /\ m = most + count /\ n = k + count
    BY <1>5
  <2>2. o \in 0 .. n
    BY <1>17, <2>1
  <2>3. /\ rest \in Seq(LineSet) /\ Len(rest) = n - o
        /\ (\A i \in 1 .. n - o : rest[i] = z[o + i]) /\ Numbered(rest, m)
    <3>1. z \in Seq(LineSet) /\ o \in 0 .. Len(z) /\ Numbered(z, m)
      <4>1. o \in 0 .. Len(z)
        BY <2>1, <2>2
      <4>2. Numbered(z, m)
        BY <1>7, <2>1
      <4> QED
        BY <1>5, <4>1, <4>2
    <3>2. rest = SubSeq(z, o + 1, n) /\ n = Len(z)
      BY <1>8, <2>1
    <3>3. /\ SubSeq(z, o + 1, Len(z)) \in Seq(LineSet) /\ Len(SubSeq(z, o + 1, Len(z))) = Len(z) - o
          /\ \A i \in 1 .. Len(z) - o : SubSeq(z, o + 1, Len(z))[i] = z[o + i]
          /\ Numbered(SubSeq(z, o + 1, Len(z)), m)
      BY <3>1, NumberedRest
    <3> QED
      BY <1>8, <2>1, <3>3
  <2> QED
    BY <2>1, <2>3
<1>10. new = [old EXCEPT !.lines = rest, !.dropped = d + over]
  BY <1>1, <1>3, <1>8, <1>17, Zenon DEF Arrival
<1>11. new = [id |-> id, lines |-> rest, dropped |-> d + over]
  BY <1>2, <1>10
<1>12. new.id = id /\ new.lines = rest /\ new.dropped = d + o /\ new \in Texts
  <2>1. PICK e \in Nat : e = d + o
    OBVIOUS
  <2>2. new = [id |-> id, lines |-> rest, dropped |-> e]
    BY <1>11, <1>17, <2>1
  <2> QED
    BY <1>9, <1>17, <2>1, <2>2 DEF Texts
<1>13. Total(new) = Total(old) + count
  <2>1. Total(new) = (d + o) + (k + count - o)
    BY <1>9, <1>12, <1>17 DEF Total
  <2>2. Total(old) = d + k
    BY <1>1, <1>4 DEF Total
  <2> QED
    BY <2>1, <2>2
<1>14. CASE o <= k
  <2>1. PICK a \in Seq(LineSet), b \in Seq(LineSet) : x = a \o b /\ Len(a) = o
    <3>1. o \in 0 .. Len(x)
      BY <1>4, <1>17, <1>14
    <3>2. /\ SubSeq(x, 1, o) \in Seq(LineSet) /\ Len(SubSeq(x, 1, o)) = o
          /\ SubSeq(x, o + 1, Len(x)) \in Seq(LineSet)
          /\ x = SubSeq(x, 1, o) \o SubSeq(x, o + 1, Len(x))
      BY <3>1, Parted, Zenon
    <3> QED
      BY <3>2, Zenon
  <2>2. PICK y : y = b \o lines
    OBVIOUS
  <2>3. z = a \o y /\ y \in Seq(LineSet)
    <3>0. PICK c \in Seq(LineSet) : c = lines
      BY <1>0
    <3>1. (a \o b) \o c = a \o (b \o c)
      BY LinesAssociate, Zenon
    <3>2. b \o lines \in Seq(LineSet)
      BY <1>0, ConcatProperties
    <3> QED
      BY <1>3, <2>1, <2>2, <3>0, <3>1, <3>2, Zenon
  <2>4. SubSeq(z, Len(a) + 1, Len(z)) = y
    BY <2>3, Behind
  <2>5. rest = y
    BY <1>8, <2>1, <2>4
  <2>6. WentOn(old, new, a, b, lines)
    <3>1. PICK e : e = d + o
      OBVIOUS
    <3>2. new = [id |-> id, lines |-> y, dropped |-> e]
      BY <1>11, <1>17, <2>5, <3>1
    <3>3. new = [id |-> old.id, lines |-> b \o lines, dropped |-> old.dropped + Len(a)]
      BY <1>1, <2>1, <2>2, <3>1, <3>2
    <3>4. old.lines = a \o b
      BY <1>1, <2>1
    <3> QED
      BY <1>0, <3>3, <3>4 DEF WentOn
  <2> QED
    BY <1>1, <1>9, <1>12, <1>13, <2>6 DEF Arrives
<1>15. CASE o > k
  <2>1. Total(old) = d + k
    BY <1>1, <1>4 DEF Total
  <2>2. new.dropped > Total(old)
    BY <1>17, <1>12, <1>15, <2>1
  <2>3. ASSUME NEW i \in 1 .. Len(new.lines) PROVE \E j \in 1 .. Len(lines) : new.lines[i] = lines[j]
    <3>1. i \in 1 .. k + count - o
      BY <1>9, <1>12
    <3>2. o + i \in 1 .. k + count /\ ~(o + i <= k) /\ (o + i) - k \in 1 .. count
      BY <1>17, <1>15, <3>1
    <3>3. new.lines[i] = lines[(o + i) - k]
      BY <1>5, <1>9, <1>12, <3>1, <3>2
    <3> QED
      BY <1>0, <3>2, <3>3
  <2> QED
    BY <1>1, <1>9, <1>12, <1>13, <2>2, <2>3 DEF Arrives
<1> QED
  BY <1>14, <1>15

LEMMA SummedIs ==
  ASSUME NEW f \in Seq(Nat)
  PROVE  Summed(f) \in Nat
<1>1. PICK p : Added(f, p, Len(f)) /\ Summed(f) = p[Len(f)]
  BY SumIs
<1>2. Len(f) \in 0 .. Len(f)
  BY LenProperties
<1> QED
  BY <1>1, <1>2 DEF Added

(* How far the window goes on when so many lines are put in front.          *)
RowsInFront(w, count) == Summed(SubSeq(w.kept.counts, 1, Min({count, Len(w.kept.counts)})))

LEMMA FrontIs ==
  ASSUME NEW w, Fresh(w), NEW count \in Nat
  PROVE  RowsInFront(w, count) \in Nat
<1>1. PICK f \in Seq(Nat) : f = w.kept.counts
  BY FreshMatches
<1>2. PICK n \in Nat : n = Len(f)
  BY LenProperties
<1>3. PICK m : m = Min({count, n})
  OBVIOUS
<1>4. m \in 0 .. n
  BY <1>3, SmallerOf
<1>5. SubSeq(f, 1, m) \in Seq(Nat)
  <2>1. m \in 0 .. Len(f)
    BY <1>2, <1>4
  <2> QED
    BY <2>1, Parted
<1>6. RowsInFront(w, count) = Summed(SubSeq(f, 1, m))
  BY <1>1, <1>2, <1>3, Zenon DEF RowsInFront
<1> QED
  BY <1>5, <1>6, SummedIs

LEMMA KeptPlaceIs ==
  ASSUME NEW w, Fresh(w), NEW count \in Nat
  PROVE  LET k == KeptPlace(w, count)
         IN  /\ Fresh(k) /\ SameText(k, w) /\ k.kept = w.kept /\ k.at = w.at + RowsInFront(w, count)
             /\ k.top = Clipped(w.top + RowsInFront(w, count), Len(w.kept.rows) - Height)
             /\ k.following = w.following /\ k.found = w.found
<1>1. PICK by \in Nat : by = RowsInFront(w, count)
  BY FrontIs
<1>2. WindowShape(w) /\ w.top \in Nat /\ w.at \in Nat /\ w.shift \in Nat /\ w.following \in BOOLEAN /\ w.found \in BOOLEAN
  BY DEF Fresh, WindowShape
<1>3. PICK v : v = [w EXCEPT !.top = w.top + by, !.at = w.at + by]
  OBVIOUS
<1>4. v = Elsewhere(w, w.top + by, w.at + by, w.shift, w.following, w.found)
  BY <1>2, <1>3, ElsewhereBy, Zenon
<1>5. Place(w.top + by, w.at + by, w.shift, w.following, w.found)
  BY <1>2 DEF Place
<1>6. IsElsewhere(v, w, w.top + by, w.at + by, w.shift, w.following, w.found)
  BY <1>2, <1>4, <1>5, ElsewhereIs
<1>7. /\ WindowShape(v) /\ SameText(v, w) /\ v.kept = w.kept /\ Fresh(v) /\ v.top = w.top + by /\ v.at = w.at + by
      /\ v.following = w.following /\ v.found = w.found
  BY <1>6 DEF IsElsewhere
<1>8. Stale(v) /\ Refreshed(v) = v
  <2>1. v.text = w.text
    BY <1>7 DEF SameText
  <2> QED
    BY <1>7, <2>1, FreshIsStale, FreshMatches
<1>9. PICK k : k = Inside(v)
  OBVIOUS
<1>10. /\ Fresh(k) /\ SameText(k, v) /\ k.kept = v.kept /\ k.at = v.at
       /\ k.top = Clipped(v.top, Len(v.kept.rows) - Height) /\ k.following = v.following /\ k.found = v.found
  BY <1>8, <1>9, InsideIs, Zenon
<1>11. KeptPlace(w, count) = k
  BY <1>1, <1>3, <1>9, Zenon DEF KeptPlace, RowsInFront, Summed
<1>12. SameText(k, w)
  BY <1>7, <1>10 DEF SameText
<1> QED
  BY <1>1, <1>7, <1>10, <1>11, <1>12, Zenon

-------------------------------------------------------------------------------
(* Going to a match.                                                        *)
LEMMA RevealedIs ==
  ASSUME NEW w, Fresh(w), w.at + 1 \in 1 .. Len(w.kept.rows)
  PROVE  LET r == Revealed(w)
         IN  /\ Fresh(r) /\ SameText(r, w) /\ r.kept = w.kept /\ r.top = w.top /\ r.at = w.at
             /\ r.following = FALSE /\ r.found = w.found
<1> DEFINE cell == w.kept.rows[w.at + 1].width
           seen == w.wrap \/ (cell - 1 >= w.shift /\ cell <= w.shift + w.width)
           to == Max({cell - 1 - w.width \div 4, 0})
           s == IF seen THEN w ELSE ShiftAt(w, to)
<1>1. WindowShape(w) /\ w.top \in Nat /\ w.at \in Nat /\ w.shift \in Nat /\ w.following \in BOOLEAN /\ w.found \in BOOLEAN
      /\ w.width \in Nat \ {0}
  BY DEF Fresh, WindowShape, Drawable
<1>2. Revealed(w) = [s EXCEPT !.following = FALSE]
  BY DEF Revealed
<1>3. cell \in Int
  <2>1. w.kept.rows \in Seq(RowSet)
    BY FreshMatches
  <2>2. w.kept.rows[w.at + 1] \in RowSet
    BY <2>1, ElementOfSeq
  <2> QED
    BY <2>2 DEF RowSet
<1>4. to \in Int
  <2> HIDE DEF cell
  <2>1. PICK x \in Int : x = cell - 1 - w.width \div 4
    BY <1>1, <1>3
  <2>2. Max({x, 0}) \in Int
    BY LargerOf
  <2> QED
    BY <2>1, <2>2
<1> HIDE DEF seen, to
<1>5. /\ Fresh(s) /\ SameText(s, w) /\ s.kept = w.kept /\ s.top = w.top /\ s.at = w.at /\ s.found = w.found
  <2>1. CASE seen
    <3>1. s = w
      BY <2>1
    <3> QED
      BY <3>1 DEF SameText
  <2>2. CASE ~seen
    <3>1. PICK x : x = Clipped(to, w.kept.widest - w.width)
      OBVIOUS
    <3>2. x \in Nat /\ s = Elsewhere(w, w.top, w.at, x, w.following, w.found)
      BY <1>4, <2>2, <3>1, ShiftAtIs
    <3>3. Place(w.top, w.at, x, w.following, w.found)
      BY <1>1, <3>2 DEF Place
    <3> HIDE DEF s
    <3>4. IsElsewhere(s, w, w.top, w.at, x, w.following, w.found)
      BY <1>1, <3>2, <3>3, ElsewhereIs
    <3> QED
      BY <3>4 DEF IsElsewhere
  <2> QED
    BY <2>1, <2>2
<1> HIDE DEF s
<1>6. WindowShape(s) /\ s.top \in Nat /\ s.at \in Nat /\ s.shift \in Nat /\ s.found \in BOOLEAN
  BY <1>5 DEF Fresh, WindowShape
<1>7. PICK r : r = [s EXCEPT !.following = FALSE]
  OBVIOUS
<1>8. r = Elsewhere(s, s.top, s.at, s.shift, FALSE, s.found)
  BY <1>6, <1>7, ElsewhereBy, Zenon
<1>9. Place(s.top, s.at, s.shift, FALSE, s.found)
  BY <1>6 DEF Place
<1>10. IsElsewhere(r, s, s.top, s.at, s.shift, FALSE, s.found)
  BY <1>6, <1>8, <1>9, ElsewhereIs
<1>11. /\ Fresh(r) /\ SameText(r, s) /\ r.kept = s.kept /\ r.top = s.top /\ r.at = s.at
       /\ r.following = FALSE /\ r.found = s.found
  BY <1>5, <1>10 DEF IsElsewhere
<1>12. SameText(r, w)
  BY <1>5, <1>11 DEF SameText
<1> QED
  BY <1>2, <1>5, <1>7, <1>11, <1>12, Zenon

InView(w) == w.top <= w.at /\ w.at < w.top + Height

(* A window that shows a match and no other rows than those it had.         *)
IsAt(s, w, at) ==
  /\ Fresh(s) /\ SameText(s, w) /\ s.kept = w.kept /\ s.at = at /\ InView(s) /\ s.found = w.found

LEMMA ShownIs ==
  ASSUME NEW w, Fresh(w), NEW at \in 0 .. Len(w.kept.rows) - 1
  PROVE  IsAt(Revealed(Moved([w EXCEPT !.at = at], Max({at - Height \div 3, 0}) - w.top)), w, at)
<1>1. WindowShape(w) /\ w.top \in Nat /\ w.at \in Nat /\ w.shift \in Nat /\ w.following \in BOOLEAN /\ w.found \in BOOLEAN
  BY DEF Fresh, WindowShape
<1>2. PICK n \in Nat : n = Len(w.kept.rows)
  BY FreshMatches
<1>3. at \in Nat /\ at < n
  BY <1>2
<1>4. PICK v : v = [w EXCEPT !.at = at]
  OBVIOUS
<1>5. v = Elsewhere(w, w.top, at, w.shift, w.following, w.found)
  BY <1>1, <1>4, ElsewhereBy, Zenon
<1>6. Place(w.top, at, w.shift, w.following, w.found)
  BY <1>1, <1>3 DEF Place
<1>7. IsElsewhere(v, w, w.top, at, w.shift, w.following, w.found)
  BY <1>1, <1>5, <1>6, ElsewhereIs
<1>8. WindowShape(v) /\ SameText(v, w) /\ v.kept = w.kept /\ Fresh(v) /\ v.top = w.top /\ v.at = at /\ v.found = w.found
  BY <1>7 DEF IsElsewhere
<1>9. Stale(v) /\ Refreshed(v) = v
  <2>1. v.text = w.text
    BY <1>8 DEF SameText
  <2> QED
    BY <1>8, <2>1, FreshIsStale, FreshMatches
<1>10. Height \in Nat \ {0} /\ Height \div 3 \in Nat /\ Height \div 3 < Height
  BY TextWindowAssumption
<1>11. PICK third \in Nat : third = Height \div 3
  BY <1>10
<1>12. PICK most : most = Max({at - third, 0})
  OBVIOUS
<1>13. most \in Nat /\ most <= at /\ at < most + Height
  <2>1. at - third \in Int
    BY <1>3
  <2>2. most \in Int /\ ((most = at - third /\ at - third >= 0) \/ (most = 0 /\ 0 >= at - third))
    BY <1>12, <2>1, LargerOf
  <2> QED
    BY <1>3, <1>10, <1>11, <2>2
<1>14. PICK by \in Int : by = most - w.top /\ w.top + by = most
  BY <1>1, <1>13
<1>15. PICK m : m = Moved(v, by)
  OBVIOUS
<1>16. /\ Fresh(m) /\ SameText(m, v) /\ m.kept = v.kept /\ m.at = v.at /\ m.found = v.found
       /\ m.top = Clipped(v.top + by, Len(v.kept.rows) - Height)
  BY <1>9, <1>15, MovedIs, Zenon
<1>17. m.top = Clipped(most, n - Height) /\ m.at = at
  BY <1>2, <1>8, <1>14, <1>16, Zenon
<1>18. m.top <= at /\ at < m.top + Height
  <2>1. PICK top : top = Clipped(most, n - Height)
    OBVIOUS
  <2>2. n - Height \in Int
    BY <1>10
  <2>3. /\ top \in Nat
        /\ most <= n - Height /\ most >= 0 => top = most
        /\ most >= n - Height /\ n - Height >= 0 => top = n - Height
        /\ most <= 0 \/ n - Height <= 0 => top = 0
    <3>1. PICK x \in Int, y \in Int : x = most /\ y = n - Height
      BY <1>13, <2>2
    <3>2. top = Clipped(x, y)
      BY <2>1, <3>1
    <3>3. /\ top \in Nat
          /\ x <= y /\ x >= 0 => top = x
          /\ x >= y /\ y >= 0 => top = y
          /\ x <= 0 \/ y <= 0 => top = 0
      BY <3>2, ClippedIs
    <3> QED
      BY <3>1, <3>3
  <2>4. top <= at /\ at < top + Height
    BY <1>3, <1>10, <1>13, <2>2, <2>3
  <2> QED
    BY <1>17, <2>1, <2>4
<1>19. m.at + 1 \in 1 .. Len(m.kept.rows)
  <2>1. Len(m.kept.rows) = n
    BY <1>2, <1>8, <1>16, Zenon
  <2> QED
    BY <1>3, <1>17, <2>1
<1>20. PICK r : r = Revealed(m)
  OBVIOUS
<1>21. Fresh(r) /\ SameText(r, m) /\ r.kept = m.kept /\ r.top = m.top /\ r.at = m.at /\ r.found = m.found
  BY <1>16, <1>19, <1>20, RevealedIs, Zenon
<1>22. SameText(r, w)
  BY <1>8, <1>16, <1>21 DEF SameText
<1>23. InView(r)
  BY <1>17, <1>18, <1>21 DEF InView
<1>24. IsAt(r, w, at)
  BY <1>8, <1>16, <1>17, <1>21, <1>22, <1>23, Zenon DEF IsAt
<1>25. r = Revealed(Moved([w EXCEPT !.at = at], Max({at - Height \div 3, 0}) - w.top))
  BY <1>4, <1>11, <1>12, <1>14, <1>15, <1>20, Zenon
<1> QED
  BY <1>24, <1>25

(* The match that is gone to.                                               *)
Chosen(w, from, backward) ==
  LET there == IF backward THEN {i \in Hits(w) : i <= from} ELSE {i \in Hits(w) : i >= from}
      around == IF there = {} THEN Hits(w) ELSE there
  IN  IF backward THEN Max(around) ELSE Min(around)

LEMMA HitsAre ==
  ASSUME NEW w, Fresh(w)
  PROVE  Hits(w) \in SUBSET (0 .. Len(w.kept.rows) - 1) /\ Hits(w) \in SUBSET (0 .. Len(w.kept.rows))
         /\ Hits(w) = {i \in 0 .. Len(w.kept.rows) - 1 : w.kept.rows[i + 1].word}
<1>1. Rows(w) = w.kept.rows
  BY FreshMatches
<1>2. Hits(w) = {i \in 0 .. Len(w.kept.rows) - 1 : w.kept.rows[i + 1].word}
  BY <1>1 DEF Hits
<1>3. PICK n \in Nat : n = Len(w.kept.rows)
  BY FreshMatches
<1>4. 0 .. n - 1 \in SUBSET (0 .. n)
  OBVIOUS
<1> QED
  BY <1>2, <1>3, <1>4

LEMMA ChosenIs ==
  ASSUME NEW w, Fresh(w), NEW from, NEW backward \in BOOLEAN, Hits(w) # {}
  PROVE  Chosen(w, from, backward) \in Hits(w)
<1> DEFINE there == IF backward THEN {i \in Hits(w) : i <= from} ELSE {i \in Hits(w) : i >= from}
           around == IF there = {} THEN Hits(w) ELSE there
<1>1. PICK n \in Nat : n = Len(w.kept.rows)
  BY FreshMatches
<1>2. Hits(w) \in SUBSET (0 .. n)
  BY <1>1, HitsAre
<1>3. around \in SUBSET (0 .. n) /\ around # {} /\ around \in SUBSET Hits(w) /\ around \in SUBSET Nat
  BY <1>2
<1>4. Chosen(w, from, backward) = IF backward THEN Max(around) ELSE Min(around)
  BY DEF Chosen
<1> HIDE DEF around
<1>5. Max(around) \in around
  BY <1>3, MaxIs
<1>6. Min(around) \in around
  BY <1>3, MinIs
<1> QED
  BY <1>3, <1>4, <1>5, <1>6

LEMMA SoughtIs ==
  ASSUME NEW w, Fresh(w), NEW from, NEW backward \in BOOLEAN
  PROVE  /\ Hits(w) = {} => Sought(w, from, backward) = w
         /\ Hits(w) # {} => /\ Chosen(w, from, backward) \in Hits(w)
                            /\ IsAt(Sought(w, from, backward), w, Chosen(w, from, backward))
<1> DEFINE hits == Hits(w)
           there == IF backward THEN {i \in hits : i <= from} ELSE {i \in hits : i >= from}
           around == IF there = {} THEN hits ELSE there
           Shown(at) == Moved([w EXCEPT !.at = at], Max({at - Height \div 3, 0}) - w.top)
           most == IF backward THEN Max(around) ELSE Min(around)
           found == {Shown(at) : at \in IF hits = {} THEN {} ELSE {most}}
<1>1. Sought(w, from, backward) = IF found = {} THEN w ELSE CHOOSE new \in {Revealed(moved) : moved \in found} : TRUE
  BY DEF Sought
<1>2. most = Chosen(w, from, backward)
  BY DEF Chosen
<1> HIDE DEF most, Shown
<1>3. CASE hits = {}
  <2>1. found = {}
    BY <1>3
  <2> QED
    BY <1>1, <1>3, <2>1
<1>4. CASE hits # {}
  <2>1. found = {Shown(most)}
    BY <1>4
  <2>2. {Revealed(moved) : moved \in found} = {Revealed(Shown(most))}
    BY <2>1
  <2>3. (CHOOSE new \in {Revealed(Shown(most))} : TRUE) = Revealed(Shown(most))
    OBVIOUS
  <2>4. Sought(w, from, backward) = Revealed(Shown(most))
    BY <1>1, <2>1, <2>2, <2>3
  <2>5. most \in Hits(w)
    BY <1>2, <1>4, ChosenIs
  <2>6. most \in 0 .. Len(w.kept.rows) - 1
    BY <2>5, HitsAre
  <2>7. IsAt(Revealed(Moved([w EXCEPT !.at = most], Max({most - Height \div 3, 0}) - w.top)), w, most)
    BY <2>6, ShownIs
  <2>8. IsAt(Revealed(Shown(most)), w, most)
    BY <2>7 DEF Shown
  <2> QED
    BY <1>2, <1>4, <2>4, <2>5, <2>8
<1> QED
  BY <1>3, <1>4

(* Where the search for the next match begins.                              *)
FromOf(w, by) ==
  IF w.top <= w.at /\ w.at < w.top + Height THEN w.at + by ELSE IF by < 0 THEN w.top + Height - 1 ELSE w.top

LEMMA NextMatchIs ==
  ASSUME NEW w, Fresh(w), NEW by \in {-1, 1}
  PROVE  /\ Hits(w) = {} => NextMatch(w, by) = w
         /\ Hits(w) # {} => /\ Chosen(w, FromOf(w, by), by < 0) \in Hits(w)
                            /\ IsAt(NextMatch(w, by), w, Chosen(w, FromOf(w, by), by < 0))
<1>1. PICK from : from = FromOf(w, by)
  OBVIOUS
<1>2. PICK backward \in BOOLEAN : backward = (by < 0)
  <2>1. (by < 0) = TRUE \/ (by < 0) = FALSE
    OBVIOUS
  <2> QED
    BY <2>1
<1>3. NextMatch(w, by) = Sought(w, from, backward)
  BY <1>1, <1>2 DEF NextMatch, FromOf
<1> QED
  BY <1>1, <1>2, <1>3, SoughtIs

-------------------------------------------------------------------------------
(* What is always so of the text and its window: every line there is has a  *)
(* number of its own, the window is over the text as it is, and what it     *)
(* keeps is what a drawing made afresh would give, unless nothing was drawn *)
(* yet and the text has no lines.                                           *)
TextInv ==
  /\ written \in Nat /\ text \in Texts /\ Numbered(text.lines, written) /\ window.text = text
  /\ (WindowShape(window) /\ Unbegun(window) /\ text.lines = <<>>) \/ Fresh(window)

LEMMA TextInvSettled ==
  ASSUME TextInv
  PROVE  Settled(window) /\ WindowShape(window) /\ window.text = text /\ text \in Texts /\ written \in Nat
         /\ window.width \in Nat \ {0} /\ window.filter \in BOOLEAN
<1>1. WindowShape(window)
  BY DEF TextInv, Fresh
<1> QED
  BY <1>1 DEF TextInv, Settled, WindowShape, Drawable

(* It is so at first, and after every action.                               *)
LEMMA TextInvInit == TextWindowInit => TextInv
<1> SUFFICES ASSUME TextWindowInit PROVE TextInv
  OBVIOUS
<1>1. text = [id |-> 1, lines |-> <<>>, dropped |-> 0] /\ written = 0
  BY DEF TextWindowInit
<1>2. text \in Texts /\ text.lines = <<>>
  BY <1>1, EmptySeq DEF Texts
<1>3. Numbered(text.lines, written)
  BY <1>2, EmptySeq DEF Numbered
<1>4. PICK width \in Widths :
        window = [text |-> text, top |-> 0, at |-> 0, shift |-> 0, width |-> width, following |-> TRUE,
                  wrap |-> FALSE, times |-> FALSE, filter |-> FALSE, found |-> FALSE, kept |-> NoRows]
  BY DEF TextWindowInit
<1>5. width \in Nat \ {0}
  BY TextWindowAssumption
<1>6. PICK none : none = NoRows
  OBVIOUS
<1>7. none = [id |-> none.id, settings |-> none.settings, lines |-> none.lines, counts |-> none.counts,
              rows |-> none.rows, widest |-> none.widest] /\ none.id = 2
  BY <1>6 DEF NoRows
<1>8. PICK t : t = text
  OBVIOUS
<1>9. PICK w : w = window
  OBVIOUS
<1>10. w = [text |-> t, top |-> 0, at |-> 0, shift |-> 0, width |-> width, following |-> TRUE,
            wrap |-> FALSE, times |-> FALSE, filter |-> FALSE, found |-> FALSE, kept |-> none]
  BY <1>4, <1>6, <1>8, <1>9
<1>11. /\ w.text = t /\ w.top = 0 /\ w.at = 0 /\ w.shift = 0 /\ w.width = width /\ w.following = TRUE
       /\ w.wrap = FALSE /\ w.times = FALSE /\ w.filter = FALSE /\ w.found = FALSE /\ w.kept = none
  BY <1>10
<1>12. WindowShape(w)
  BY <1>2, <1>5, <1>7, <1>8, <1>10, <1>11 DEF WindowShape, Whole, Drawable
<1>13. Unbegun(w)
  BY <1>7, <1>11 DEF Unbegun
<1> QED
  BY <1>1, <1>2, <1>3, <1>8, <1>9, <1>11, <1>12, <1>13 DEF TextInv

LEMMA ArrivedIs ==
  ASSUME TextInv, NEW count \in 1 .. 2, LinesArrive(count)
  PROVE  \E lines :
           /\ NewOnes(lines, count, written) /\ Arrives(text, text', lines)
           /\ text' \in Texts /\ text'.id = text.id /\ Numbered(text'.lines, written + count)
           /\ Total(text') = Total(text) + count /\ written' = written + count
<1>1. written \in Nat /\ text \in Texts /\ Numbered(text.lines, written)
  BY DEF TextInv
<1>2. PICK lines \in NewLines(count) :
        LET all == text.lines \o lines
            over == Max({Len(all) - MaxLines, 0})
        IN  text' = [text EXCEPT !.lines = SubSeq(all, over + 1, Len(all)), !.dropped = @ + over]
  BY DEF LinesArrive
<1>3. PICK over : over = Max({Len(text.lines \o lines) - MaxLines, 0})
  OBVIOUS
<1>4. text' = [text EXCEPT !.lines = SubSeq(text.lines \o lines, over + 1, Len(text.lines \o lines)), !.dropped = @ + over]
  BY <1>2, <1>3
<1>5. PICK old, new, most : old = text /\ new = text' /\ most = written
  OBVIOUS
<1>6. Arrival(old, new, lines, over)
  BY <1>3, <1>4, <1>5 DEF Arrival
<1>7. count \in Nat
  OBVIOUS
<1>8. NewOnes(lines, count, most)
  BY <1>1, <1>5, <1>7, LinesAre DEF NewOnes
<1>9. /\ new \in Texts /\ new.id = old.id /\ Numbered(new.lines, most + count) /\ Total(new) = Total(old) + count
      /\ Arrives(old, new, lines)
  BY <1>1, <1>5, <1>6, <1>7, <1>8, ArrivalIs
<1>10. written' = written + count
  BY DEF LinesArrive
<1> QED
  BY <1>5, <1>8, <1>9, <1>10, Zenon

LEMMA TextInvLinesArrive ==
  ASSUME TextInv, NEW count \in 1 .. 2, LinesArrive(count)
  PROVE  TextInv' /\ Fresh(window')
<1>1. PICK lines :
           /\ NewOnes(lines, count, written) /\ Arrives(text, text', lines)
           /\ text' \in Texts /\ text'.id = text.id /\ Numbered(text'.lines, written + count)
           /\ Total(text') = Total(text) + count /\ written' = written + count
  BY ArrivedIs
<1>2. Goes(text, text')
  BY <1>1 DEF Arrives, Goes
<1>3. window' \in LaysOut(window, text', window.width, window.filter)
  BY DEF LinesArrive
<1>4. Fresh(window') /\ window'.text = text'
  BY <1>1, <1>2, <1>3, TextInvSettled, LaysOutIs
<1>5. written' \in Nat
  BY <1>1, TextInvSettled
<1> QED
  BY <1>1, <1>4, <1>5, Zenon DEF TextInv

LEMMA BeforeIs ==
  ASSUME TextInv, NEW count \in 1 .. 2, LinesBefore(count)
  PROVE  \E lines, w :
           /\ NewOnes(lines, count, written) /\ text'.lines = lines \o text.lines
           /\ text' \in Texts /\ text'.id # text.id /\ text'.dropped = text.dropped
           /\ Numbered(text'.lines, written + count) /\ written' = written + count
           /\ w \in LaysOut(window, text', window.width, window.filter) /\ window' = KeptPlace(w, count)
<1>1. written \in Nat /\ text \in Texts /\ Numbered(text.lines, written)
  BY DEF TextInv
<1>2. PICK lines \in NewLines(count) : text' = [text EXCEPT !.id = 1 - @, !.lines = lines \o @]
  BY DEF LinesBefore
<1>3. PICK w \in LaysOut(window, text', window.width, window.filter) : window' = KeptPlace(w, count)
  BY DEF LinesBefore
<1>4. PICK old, new, most : old = text /\ new = text' /\ most = written
  OBVIOUS
<1>5. count \in Nat
  OBVIOUS
<1>6. NewOnes(lines, count, most)
  BY <1>1, <1>4, <1>5, LinesAre DEF NewOnes
<1>7. PICK c \in Seq(LineSet) : c = lines /\ Len(c) = count /\ \A i \in 1 .. count : c[i].n = most + i
  BY <1>6 DEF NewOnes
<1>8. PICK x \in Seq(LineSet), d \in Nat, id \in {0, 1} : x = old.lines /\ d = old.dropped /\ id = old.id
  BY <1>1, <1>4 DEF Texts
<1>9. old = [id |-> id, lines |-> x, dropped |-> d]
  BY <1>1, <1>4, <1>8 DEF Texts
<1>10. PICK y : y = c \o x
  OBVIOUS
<1>11. y \in Seq(LineSet) /\ Numbered(y, most + count)
  <2>1. Numbered(x, most)
    BY <1>1, <1>4, <1>8
  <2>2. most \in Nat
    BY <1>1, <1>4
  <2>3. Numbered(c \o x, most + Len(c))
    BY <1>7, <2>1, <2>2, NumberedBoth
  <2>4. c \o x \in Seq(LineSet)
    BY ConcatProperties
  <2> QED
    BY <1>7, <1>10, <2>3, <2>4, Zenon
<1>12. new = [old EXCEPT !.id = 1 - @, !.lines = y]
  BY <1>2, <1>4, <1>7, <1>8, <1>10
<1>13. new = [id |-> 1 - id, lines |-> y, dropped |-> d]
  BY <1>9, <1>12
<1>14. 1 - id \in {0, 1} /\ 1 - id # id
  OBVIOUS
<1>15. new.id # old.id /\ new.lines = y /\ new.dropped = old.dropped /\ new \in Texts
  BY <1>8, <1>11, <1>13, <1>14 DEF Texts
<1>16. written' = written + count
  BY DEF LinesBefore
<1>17. new.lines = lines \o old.lines
  BY <1>7, <1>8, <1>10, <1>15
<1> QED
  BY <1>3, <1>4, <1>6, <1>11, <1>15, <1>16, <1>17, Zenon

LEMMA TextInvLinesBefore ==
  ASSUME TextInv, NEW count \in 1 .. 2, LinesBefore(count)
  PROVE  TextInv' /\ Fresh(window')
<1>1. PICK lines, w :
           /\ NewOnes(lines, count, written) /\ text'.lines = lines \o text.lines
           /\ text' \in Texts /\ text'.id # text.id /\ text'.dropped = text.dropped
           /\ Numbered(text'.lines, written + count) /\ written' = written + count
           /\ w \in LaysOut(window, text', window.width, window.filter) /\ window' = KeptPlace(w, count)
  BY BeforeIs
<1>2. Goes(text, text')
  BY <1>1 DEF Goes
<1>3. Fresh(w) /\ w.text = text'
  BY <1>1, <1>2, TextInvSettled, LaysOutIs
<1>4. count \in Nat
  OBVIOUS
<1>5. PICK k : k = KeptPlace(w, count)
  OBVIOUS
<1>6. Fresh(k) /\ SameText(k, w)
  BY <1>3, <1>4, <1>5, KeptPlaceIs, Zenon
<1>7. k.text = text'
  BY <1>3, <1>6 DEF SameText
<1>8. written' \in Nat
  BY <1>1, TextInvSettled
<1> QED
  BY <1>1, <1>5, <1>6, <1>7, <1>8, Zenon DEF TextInv

LEMMA TextInvTextOpens ==
  ASSUME TextInv, TextOpens
  PROVE  TextInv'
<1>1. PICK old, new : old = text /\ new = text'
  OBVIOUS
<1>2. new = [id |-> 1 - old.id, lines |-> <<>>, dropped |-> 0]
  BY <1>1 DEF TextOpens
<1>3. old.id \in {0, 1}
  BY <1>1 DEF TextInv, Texts
<1>4. 1 - old.id \in {0, 1} /\ 1 - old.id # old.id
  <2>1. PICK id \in {0, 1} : id = old.id
    BY <1>3
  <2>2. 1 - id \in {0, 1} /\ 1 - id # id
    OBVIOUS
  <2> QED
    BY <2>1, <2>2
<1>5. new \in Texts /\ new.id # old.id /\ new.lines = <<>>
  BY <1>2, <1>4, EmptySeq DEF Texts
<1>6. Numbered(new.lines, written)
  BY <1>5, EmptySeq DEF Numbered
<1>7. Goes(text, text')
  BY <1>1, <1>5 DEF Goes
<1>8. window' \in LaysOut(window, text', window.width, window.filter) /\ written' = written
  BY DEF TextOpens
<1>9. Fresh(window') /\ window'.text = text'
  BY <1>1, <1>5, <1>7, <1>8, TextInvSettled, LaysOutIs
<1>10. written' \in Nat
  BY <1>8, TextInvSettled
<1> QED
  BY <1>1, <1>5, <1>6, <1>8, <1>9, <1>10, Zenon DEF TextInv

(* What the person does leaves the text alone.                              *)
LEMMA TextInvFresh ==
  ASSUME TextInv, NEW w, Shows(w), Fresh(w), w.text = text
  PROVE  TextInv'
<1>1. window' = w /\ text' = text /\ written' = written
  BY DEF Shows
<1> QED
  BY <1>1, Zenon DEF TextInv

LEMMA TextInvLaysOut ==
  ASSUME TextInv, NEW width \in Nat \ {0}, NEW filter \in BOOLEAN, NEW w \in LaysOut(window, text, width, filter), Shows(w)
  PROVE  TextInv'
<1>1. Fresh(w) /\ w.text = text
  BY TextInvSettled, LaysOutIs
<1> QED
  BY <1>1, TextInvFresh

(* A window that is moved on the rows it has, drawn or not.                 *)
LEMMA TextInvElsewhere ==
  ASSUME TextInv, NEW top, NEW at, NEW shift, NEW following, NEW found, Place(top, at, shift, following, found),
         Shows(Elsewhere(window, top, at, shift, following, found))
  PROVE  TextInv'
<1>1. PICK w : w = Elsewhere(window, top, at, shift, following, found)
  OBVIOUS
<1>2. IsElsewhere(w, window, top, at, shift, following, found)
  BY <1>1, TextInvSettled, ElsewhereIs
<1>3. WindowShape(w) /\ w.text = text /\ w.kept = window.kept /\ (Fresh(window) => Fresh(w))
  BY <1>2, TextInvSettled DEF IsElsewhere, SameText
<1>4. CASE Fresh(window)
  BY <1>1, <1>3, <1>4, TextInvFresh
<1>5. CASE Unbegun(window) /\ text.lines = <<>>
  <2>1. Unbegun(w)
    BY <1>3, <1>5 DEF Unbegun
  <2>2. window' = w /\ text' = text /\ written' = written
    BY <1>1 DEF Shows
  <2> QED
    BY <1>3, <1>5, <2>1, <2>2, Zenon DEF TextInv
<1> QED
  BY <1>4, <1>5 DEF TextInv

LEMMA TextInvStale ==
  ASSUME TextInv
  PROVE  Stale(window)
<1>1. Settled(window) /\ WindowShape(window)
  BY TextInvSettled
<1> QED
  BY <1>1, ChangedIsStale

LEMMA NotSought ==
  ASSUME NEW w, Hits(w) = {}
  PROVE  \A from, backward : Sought(w, from, backward) = w
<1> SUFFICES ASSUME NEW from, NEW backward PROVE Sought(w, from, backward) = w
  OBVIOUS
<1> QED
  BY DEF Sought

LEMMA NoHits ==
  ASSUME TextInv, ~Fresh(window)
  PROVE  Rows(window) = <<>> /\ Hits(window) = {}
<1>1. WindowShape(window) /\ Unbegun(window) /\ text.lines = <<>> /\ window.text = text /\ text \in Texts
  BY DEF TextInv
<1>2. ~Matches(window)
  BY <1>1 DEF Matches, Unbegun, Texts
<1>3. PICK x \in Seq(LineSet) : x = window.text.lines /\ Len(x) = 0
  BY <1>1, EmptySeq
<1>4. PICK rows : rows = DrawnRows(window, x)
  OBVIOUS
<1>5. Drawable(window)
  BY <1>1 DEF WindowShape
<1>6. rows \in Seq(RowSet) /\ Len(rows) \in Nat /\ \A k \in 1 .. Len(rows) : \E i \in 1 .. Len(x) : TRUE
  BY <1>4, <1>5, DrawnIs
<1>7. Len(rows) = 0
  BY <1>3, <1>6
<1>8. rows = <<>>
  BY <1>6, <1>7, EmptySeq
<1>9. Rows(window) = rows
  BY <1>2, <1>3, <1>4 DEF Rows
<1>10. Hits(window) = {}
  BY <1>7, <1>9 DEF Hits
<1> QED
  BY <1>8, <1>9, <1>10

LEMMA TextInvWrapLines ==
  ASSUME TextInv, WrapLines
  PROVE  TextInv'
<1>1. Settled(window) /\ WindowShape(window) /\ window.text = text
  BY TextInvSettled
<1>2. PICK wrap \in BOOLEAN : wrap = ~window.wrap
  OBVIOUS
<1>3. PICK v : v = [window EXCEPT !.wrap = wrap, !.shift = 0]
  OBVIOUS
<1>4. v = Changed(window, window.text, window.width, 0, wrap, window.times, window.filter)
  BY <1>1, <1>3 DEF WindowShape, Whole, Changed
<1>5. Change(window.text, window.width, 0, wrap, window.times, window.filter)
  BY <1>1, <1>2 DEF Change, WindowShape, Drawable
<1>6. IsChanged(v, window, window.text, window.width, 0, wrap, window.times, window.filter)
  BY <1>1, <1>4, <1>5, ChangedIs
<1>7. WindowShape(v) /\ v.kept = window.kept /\ v.text = window.text
  BY <1>6 DEF IsChanged
<1>8. Stale(v)
  BY <1>1, <1>7, ChangedIsStale
<1>9. PICK i : i = Inside(v)
  OBVIOUS
<1>10. Fresh(i) /\ SameText(i, v)
  BY <1>8, <1>9, InsideIs, Zenon
<1>11. i.text = text
  BY <1>1, <1>7, <1>10 DEF SameText
<1>12. Shows(i)
  BY <1>2, <1>3, <1>9 DEF WrapLines
<1> QED
  BY <1>10, <1>11, <1>12, TextInvFresh

LEMMA TextInvShowTimes ==
  ASSUME TextInv, ShowTimes
  PROVE  TextInv'
<1>1. Settled(window) /\ WindowShape(window) /\ window.text = text
  BY TextInvSettled
<1>2. PICK times \in BOOLEAN : times = ~window.times
  OBVIOUS
<1>3. PICK v : v = [window EXCEPT !.times = times]
  OBVIOUS
<1>4. v = Changed(window, window.text, window.width, window.shift, window.wrap, times, window.filter)
  BY <1>1, <1>3, ChangedBy, Zenon
<1>5. Change(window.text, window.width, window.shift, window.wrap, times, window.filter)
  BY <1>1, <1>2 DEF Change, WindowShape, Drawable
<1>6. IsChanged(v, window, window.text, window.width, window.shift, window.wrap, times, window.filter)
  BY <1>1, <1>4, <1>5, ChangedIs
<1>7. WindowShape(v) /\ v.kept = window.kept /\ v.text = window.text
  BY <1>6 DEF IsChanged
<1>8. Stale(v)
  BY <1>1, <1>7, ChangedIsStale
<1>9. PICK r : r = Refreshed(v)
  OBVIOUS
<1>10. Fresh(r) /\ SameText(r, v)
  BY <1>8, <1>9, RefreshedFresh, Zenon
<1>11. r.text = text
  BY <1>1, <1>7, <1>10 DEF SameText
<1>12. Shows(r)
  BY <1>2, <1>3, <1>9 DEF ShowTimes
<1> QED
  BY <1>10, <1>11, <1>12, TextInvFresh

LEMMA TextInvScroll ==
  ASSUME TextInv, NEW by \in {-1, 1}, Scroll(by)
  PROVE  TextInv'
<1>1. window.text = text /\ Stale(window)
  BY TextInvSettled, TextInvStale
<1>2. PICK m : m = Moved(window, by)
  OBVIOUS
<1>3. by \in Int
  OBVIOUS
<1>4. Fresh(m) /\ SameText(m, window)
  BY <1>1, <1>2, <1>3, MovedIs, Zenon
<1>5. WindowShape(m) /\ Place(m.top, m.at, m.shift, FALSE, m.found)
  BY <1>4 DEF Fresh, WindowShape, Place
<1>6. PICK s : s = [m EXCEPT !.following = FALSE]
  OBVIOUS
<1>7. s = Elsewhere(m, m.top, m.at, m.shift, FALSE, m.found)
  BY <1>5, <1>6, ElsewhereBy, Zenon
<1>8. IsElsewhere(s, m, m.top, m.at, m.shift, FALSE, m.found)
  BY <1>5, <1>7, ElsewhereIs
<1>9. Fresh(s) /\ s.text = text
  BY <1>1, <1>4, <1>8 DEF IsElsewhere, SameText
<1>10. Shows(s)
  BY <1>2, <1>6 DEF Scroll
<1> QED
  BY <1>9, <1>10, TextInvFresh

LEMMA TextInvSlideBy ==
  ASSUME TextInv, NEW by \in {-1, 1}, SlideBy(by)
  PROVE  TextInv'
<1>1. window.text = text /\ Stale(window) /\ WindowShape(window) /\ ~window.wrap
  BY TextInvSettled, TextInvStale DEF SlideBy
<1>2. PICK r : r = Refreshed(window)
  OBVIOUS
<1>3. Fresh(r) /\ SameText(r, window)
  BY <1>1, <1>2, RefreshedFresh, Zenon
<1>4. PICK step \in Int : step = by * Max({window.width \div 4, 1})
  <2>1. window.width \in Nat
    BY <1>1 DEF WindowShape, Drawable
  <2>2. window.width \div 4 \in Int
    BY <2>1
  <2>3. PICK x \in Int : x = Max({window.width \div 4, 1})
    BY <2>2, LargerOf
  <2>4. by * x \in Int
    <3>1. CASE by = 1
      BY <3>1
    <3>2. CASE by = -1
      BY <3>2
    <3> QED
      BY <3>1, <3>2
  <2> QED
    BY <2>3, <2>4
<1>5. PICK x \in Int : x = window.shift + step
  BY <1>1 DEF WindowShape
<1>6. PICK shift : shift = Clipped(x, r.kept.widest - r.width)
  OBVIOUS
<1>7. shift \in Nat /\ ShiftAt(r, x) = Elsewhere(r, r.top, r.at, shift, r.following, r.found)
  BY <1>3, <1>6, ShiftAtIs
<1>8. WindowShape(r) /\ Place(r.top, r.at, shift, r.following, r.found)
  BY <1>3, <1>7 DEF Fresh, WindowShape, Place
<1>9. PICK s : s = ShiftAt(r, x)
  OBVIOUS
<1>10. IsElsewhere(s, r, r.top, r.at, shift, r.following, r.found)
  BY <1>7, <1>8, <1>9, ElsewhereIs
<1>11. Fresh(s) /\ s.text = text
  BY <1>1, <1>3, <1>10 DEF IsElsewhere, SameText
<1>12. Shows(s)
  BY <1>1, <1>2, <1>4, <1>5, <1>9 DEF SlideBy, Slid
<1> QED
  BY <1>11, <1>12, TextInvFresh

LEMMA TextInvHome ==
  ASSUME TextInv, Home
  PROVE  TextInv'
<1>1. WindowShape(window)
  BY TextInvSettled
<1>2. [window EXCEPT !.shift = 0] = Elsewhere(window, window.top, window.at, 0, window.following, window.found)
  BY <1>1, ElsewhereBy, Zenon
<1>3. Place(window.top, window.at, 0, window.following, window.found)
  BY <1>1 DEF WindowShape, Place
<1>4. Shows(Elsewhere(window, window.top, window.at, 0, window.following, window.found))
  BY <1>2 DEF Home
<1> QED
  BY <1>3, <1>4, TextInvElsewhere

LEMMA TextInvToggleAutoscroll ==
  ASSUME TextInv, ToggleAutoscroll
  PROVE  TextInv'
<1>1. WindowShape(window) /\ Settled(window) /\ window.text = text
  BY TextInvSettled
<1>2. PICK following \in BOOLEAN : following = ~window.following
  OBVIOUS
<1>3. PICK w : w = [window EXCEPT !.following = following]
  OBVIOUS
<1>4. w = Elsewhere(window, window.top, window.at, window.shift, following, window.found)
  BY <1>1, <1>3, ElsewhereBy, Zenon
<1>5. Place(window.top, window.at, window.shift, following, window.found)
  BY <1>1 DEF WindowShape, Place
<1>6. IsElsewhere(w, window, window.top, window.at, window.shift, following, window.found)
  BY <1>1, <1>4, <1>5, ElsewhereIs
<1>7. WindowShape(w) /\ w.kept = window.kept /\ w.text = window.text /\ w.following = following
  BY <1>6 DEF IsElsewhere, SameText
<1>8. Shows(IF w.following THEN AtEnd(w) ELSE w)
  BY <1>2, <1>3 DEF ToggleAutoscroll
<1>9. CASE following
  <2>1. Stale(w)
    BY <1>1, <1>7, ChangedIsStale
  <2>2. Len(Rows(w)) \in Int
    <3>1. w.text.lines \in Seq(LineSet) /\ Drawable(w)
      BY <1>7 DEF WindowShape, Texts
    <3>2. Len(DrawnRows(w, w.text.lines)) \in Int
      BY <3>1, DrawnIs
    <3>3. Matches(w) => Len(w.kept.rows) \in Int
      <4>1. CASE Unbegun(window)
        <5>1. ~Matches(w)
          BY <1>7, <4>1 DEF Unbegun, Matches, WindowShape, Texts
        <5> QED
          BY <5>1
      <4>2. CASE Fresh(window)
        BY <1>7, <4>2, FreshMatches
      <4> QED
        BY <1>1, <4>1, <4>2 DEF Settled
    <3> QED
      BY <3>2, <3>3 DEF Rows
  <2>3. PICK n \in Int : n = Len(Rows(w))
    BY <2>2
  <2>4. PICK e : e = Moved(w, n)
    OBVIOUS
  <2>5. Fresh(e) /\ SameText(e, w)
    BY <2>1, <2>4, MovedIs, Zenon
  <2>6. e.text = text
    BY <1>1, <1>7, <2>5 DEF SameText
  <2>7. Shows(e)
    BY <1>7, <1>8, <1>9, <2>3, <2>4 DEF AtEnd
  <2> QED
    BY <2>5, <2>6, <2>7, TextInvFresh
<1>10. CASE ~following
  <2>1. Shows(w)
    BY <1>7, <1>8, <1>10
  <2> QED
    BY <1>4, <1>5, <2>1, TextInvElsewhere
<1> QED
  BY <1>9, <1>10

LEMMA FoundIs ==
  ASSUME TextInv, NEW found \in BOOLEAN
  PROVE  LET w == [window EXCEPT !.found = found]
         IN  /\ w = Elsewhere(window, window.top, window.at, window.shift, window.following, found)
             /\ Place(window.top, window.at, window.shift, window.following, found)
             /\ IsElsewhere(w, window, window.top, window.at, window.shift, window.following, found)
             /\ w.text = text /\ (Fresh(window) => Fresh(w))
<1>1. WindowShape(window) /\ window.text = text
  BY TextInvSettled
<1>2. PICK w : w = [window EXCEPT !.found = found]
  OBVIOUS
<1>3. w = Elsewhere(window, window.top, window.at, window.shift, window.following, found)
  BY <1>1, <1>2, ElsewhereBy, Zenon
<1>4. Place(window.top, window.at, window.shift, window.following, found)
  BY <1>1 DEF WindowShape, Place
<1>5. IsElsewhere(w, window, window.top, window.at, window.shift, window.following, found)
  BY <1>1, <1>3, <1>4, ElsewhereIs
<1>6. w.text = text /\ (Fresh(window) => Fresh(w))
  BY <1>1, <1>5 DEF IsElsewhere, SameText
<1> QED
  BY <1>2, <1>3, <1>4, <1>5, <1>6, Zenon

LEMMA TextInvFindWord ==
  ASSUME TextInv, FindWord
  PROVE  TextInv'
<1>1. PICK w : w = [window EXCEPT !.found = TRUE]
  OBVIOUS
<1>2. Hits(window) # {} /\ Shows(Sought(w, window.top, FALSE))
  BY <1>1 DEF FindWord
<1>3. Fresh(window)
  BY <1>2, NoHits
<1>4. Fresh(w) /\ w.text = text
  BY <1>1, <1>3, FoundIs, Zenon
<1>5. PICK s : s = Sought(w, window.top, FALSE)
  OBVIOUS
<1>6. Fresh(s) /\ s.text = text
  <2>1. CASE Hits(w) = {}
    BY <1>4, <1>5, <2>1, SoughtIs
  <2>2. CASE Hits(w) # {}
    <3>1. IsAt(s, w, Chosen(w, window.top, FALSE))
      BY <1>4, <1>5, <2>2, SoughtIs
    <3> QED
      BY <1>4, <3>1 DEF IsAt, SameText
  <2> QED
    BY <2>1, <2>2
<1> QED
  BY <1>2, <1>5, <1>6, TextInvFresh

LEMMA TextInvDropWord ==
  ASSUME TextInv, DropWord
  PROVE  TextInv'
<1>1. PICK w : w = [window EXCEPT !.found = FALSE]
  OBVIOUS
<1>2. Shows(w)
  BY <1>1 DEF DropWord
<1>3. /\ w = Elsewhere(window, window.top, window.at, window.shift, window.following, FALSE)
      /\ Place(window.top, window.at, window.shift, window.following, FALSE)
  BY <1>1, FoundIs, Zenon
<1> QED
  BY <1>2, <1>3, TextInvElsewhere

LEMMA TextInvGoToMatch ==
  ASSUME TextInv, NEW by \in {-1, 1}, GoToMatch(by)
  PROVE  TextInv'
<1>1. PICK s : s = NextMatch(window, by)
  OBVIOUS
<1>2. Shows(s) /\ window.text = text
  BY <1>1, TextInvSettled DEF GoToMatch
<1>3. CASE Hits(window) = {}
  <2>1. s = window
    BY <1>1, <1>3, NotSought DEF NextMatch
  <2>2. window' = window /\ text' = text /\ written' = written
    BY <1>2, <2>1 DEF Shows
  <2> QED
    BY <2>2, Zenon DEF TextInv
<1>4. CASE Hits(window) # {}
  <2>1. Fresh(window)
    BY <1>4, NoHits
  <2>2. IsAt(s, window, Chosen(window, FromOf(window, by), by < 0))
    BY <1>1, <1>4, <2>1, NextMatchIs
  <2>3. Fresh(s) /\ s.text = text
    BY <1>2, <2>2 DEF IsAt, SameText
  <2> QED
    BY <1>2, <2>3, TextInvFresh
<1> QED
  BY <1>3, <1>4

LEMMA TextInvNext == TextInv /\ [TextWindowNext]_textVars => TextInv'
<1> SUFFICES ASSUME TextInv, [TextWindowNext]_textVars PROVE TextInv'
  OBVIOUS
<1>0. /\ WindowShape(window) /\ window.width \in Nat \ {0} /\ window.filter \in BOOLEAN
  BY TextInvSettled
<1>1. ASSUME NEW count \in 1 .. 2, LinesArrive(count) PROVE TextInv'
  BY <1>1, TextInvLinesArrive
<1>2. ASSUME NEW count \in 1 .. 2, LinesBefore(count) PROVE TextInv'
  BY <1>2, TextInvLinesBefore
<1>3. ASSUME NEW width \in Widths, Resize(width) PROVE TextInv'
  <2>1. PICK w \in LaysOut(window, text, width, window.filter) : Shows(w)
    BY <1>3 DEF Resize
  <2>2. width \in Nat \ {0}
    BY TextWindowAssumption
  <2> QED
    BY <1>0, <2>1, <2>2, TextInvLaysOut
<1>4. CASE FilterTyped
  <2>1. PICK filter \in BOOLEAN : filter = ~window.filter
    OBVIOUS
  <2>2. PICK w \in LaysOut(window, text, window.width, filter) : Shows(w)
    BY <1>4, <2>1 DEF FilterTyped
  <2> QED
    BY <1>0, <2>2, TextInvLaysOut
<1>5. CASE UNCHANGED textVars
  <2>1. window' = window /\ text' = text /\ written' = written
    BY <1>5 DEF textVars
  <2> QED
    BY <2>1, Zenon DEF TextInv
<1> QED
  BY <1>1, <1>2, <1>3, <1>4, <1>5, TextInvTextOpens, TextInvWrapLines, TextInvShowTimes, TextInvHome,
     TextInvToggleAutoscroll, TextInvFindWord, TextInvDropWord, TextInvScroll, TextInvSlideBy, TextInvGoToMatch
     DEF TextWindowNext

TextWindowSpec == TextWindowInit /\ [][TextWindowNext]_textVars

(* Through every arrival, opening, key and size of the window, what is kept *)
(* of the rows fits the text they are of (src/internal/ui/text.go, refresh, *)
(* and what calls it).                                                      *)
THEOREM TextInvAlways == TextWindowSpec => []TextInv
<1> QED
  BY TextInvInit, TextInvNext, PTL DEF TextWindowSpec

(* The rows a window keeps, the rows it counts of each line and the widest  *)
(* of them are those of a drawing made afresh: whatever came at the end or  *)
(* the front, was dropped, wrapped, filtered or narrowed before, and however*)
(* often (src/internal/ui/text.go, refresh, measure); for any heights,      *)
(* widths and limits of a text.                                             *)
THEOREM TextDrawn == TextWindowSpec => []DrawnAsAfresh
<1>1. TextInv => DrawnAsAfresh
  <2> SUFFICES ASSUME TextInv, Matches(window)
               PROVE  /\ window.kept.rows = DrawnRows(window, text.lines)
                      /\ window.kept.counts = DrawnCounts(window, text.lines)
                      /\ window.kept.widest = WidestOf(window.kept.rows)
    BY DEF DrawnAsAfresh
  <2>1. Fresh(window)
    <3>1. CASE Unbegun(window)
      <4>1. window.kept.id = window.text.id /\ window.text.id \in {0, 1}
        BY TextInvSettled DEF Matches, Texts
      <4> QED
        BY <3>1, <4>1 DEF Unbegun
    <3> QED
      BY <3>1 DEF TextInv
  <2>2. window.text = text
    BY DEF TextInv
  <2> QED
    BY <2>1, <2>2, FreshMatches
<1> QED
  BY <1>1, TextInvAlways, PTL

(* The row of a place stays where the text has it.                          *)
PlaceStays(old, new, before, places) ==
  before + 1 \in DOMAIN old /\ old[before + 1] \in ToSet(new) =>
    \E now \in places : now + 1 \in DOMAIN new /\ new[now + 1] = old[before + 1]

EndPlaces(new, top) ==
  LET end == Max({0, Len(new) - Height})
  IN  {top} \cup IF top = end THEN end .. end + Height - 1 ELSE {}

(* Rows that left the front, or came to it, and the place of one that is    *)
(* still there.                                                             *)
LEMMA TopStays ==
  ASSUME NEW new \in Seq(RowSet), NEW now \in Nat, now < Len(new), NEW top, top = Clipped(now, Len(new) - Height)
  PROVE  now \in EndPlaces(new, top)
<1>1. PICK n \in Nat : n = Len(new)
  BY LenProperties
<1>2. Height \in Nat \ {0}
  BY TextWindowAssumption
<1>3. PICK most \in Int : most = n - Height
  BY <1>2
<1>4. PICK end : end = Max({0, most})
  OBVIOUS
<1>5. end \in Nat /\ ((end = 0 /\ 0 >= most) \/ (end = most /\ most >= 0))
  BY <1>4, LargerOf
<1>6. PICK c : c = Clipped(now, most)
  OBVIOUS
<1>7. /\ c \in Nat
      /\ now <= most /\ now >= 0 => c = now
      /\ now >= most /\ most >= 0 => c = most
      /\ now <= 0 \/ most <= 0 => c = 0
  <2>1. PICK x \in Int : x = now
    OBVIOUS
  <2>2. c = Clipped(x, most)
    BY <1>6, <2>1
  <2> QED
    BY <2>1, <2>2, ClippedIs
<1>8. c = now \/ (c = end /\ now \in end .. end + Height - 1)
  BY <1>1, <1>2, <1>3, <1>5, <1>7
<1>9. EndPlaces(new, top) = {c} \cup IF c = end THEN end .. end + Height - 1 ELSE {}
  BY <1>1, <1>3, <1>4, <1>6 DEF EndPlaces
<1> QED
  BY <1>8, <1>9

(* Two rows are of one line only when they are alike.                       *)
OtherLines(x, y) == \A i \in 1 .. Len(x) : \A j \in 1 .. Len(y) : x[i].n # y[j].n

RowsOfLines(rows, x) == \A i \in 1 .. Len(rows) : \E k \in 1 .. Len(x) : rows[i].line = x[k].n

LEMMA DrawnOfLines ==
  ASSUME NEW w, Drawable(w), NEW x \in Seq(LineSet)
  PROVE  DrawnRows(w, x) \in Seq(RowSet) /\ RowsOfLines(DrawnRows(w, x), x)
<1>1. DrawnRows(w, x) \in Seq(RowSet)
  BY DrawnIs
<1>2. ASSUME NEW i \in 1 .. Len(DrawnRows(w, x)) PROVE \E k \in 1 .. Len(x) : DrawnRows(w, x)[i].line = x[k].n
  BY DrawnIs
<1> QED
  BY <1>1, <1>2, Zenon DEF RowsOfLines

LEMMA GoneRows ==
  ASSUME NEW w, Drawable(w), NEW x \in Seq(LineSet), NEW y \in Seq(LineSet), OtherLines(x, y)
  PROVE  \A i \in 1 .. Len(DrawnRows(w, x)) : DrawnRows(w, x)[i] \notin ToSet(DrawnRows(w, y))
<1>1. PICK r, q : r = DrawnRows(w, x) /\ q = DrawnRows(w, y)
  OBVIOUS
<1>2. q \in Seq(RowSet)
  BY <1>1, DrawnIs
<1>6. RowsOfLines(r, x) /\ RowsOfLines(q, y)
  BY <1>1, DrawnOfLines
<1>3. \A i \in 1 .. Len(r) : \E k \in 1 .. Len(x) : r[i].line = x[k].n
  BY <1>6 DEF RowsOfLines
<1>4. \A i \in 1 .. Len(q) : \E k \in 1 .. Len(y) : q[i].line = y[k].n
  BY <1>6 DEF RowsOfLines
<1>5. ASSUME NEW i \in 1 .. Len(r), r[i] \in ToSet(q) PROVE FALSE
  <2>1. PICK j \in 1 .. Len(q) : r[i] = q[j]
    BY <1>2, <1>5, LenProperties DEF ToSet
  <2>2. PICK k \in 1 .. Len(x) : r[i].line = x[k].n
    BY <1>3
  <2>3. PICK l \in 1 .. Len(y) : q[j].line = y[l].n
    BY <1>4
  <2> QED
    BY <2>1, <2>2, <2>3 DEF OtherLines
<1> QED
  BY <1>1, <1>5

(* The rows before go from the front of what is drawn.                      *)
LEMMA StaysAsGone ==
  ASSUME NEW a \in Seq(RowSet), NEW b \in Seq(RowSet), NEW c \in Seq(RowSet), NEW before \in Nat,
         \A i \in 1 .. Len(a) : a[i] \notin ToSet(b \o c),
         before + 1 \in DOMAIN (a \o b), (a \o b)[before + 1] \in ToSet(b \o c)
  PROVE  /\ before >= Len(a) /\ before - Len(a) < Len(b \o c)
         /\ (b \o c)[before - Len(a) + 1] = (a \o b)[before + 1]
<1>1. PICK n \in Nat, m \in Nat, k \in Nat : n = Len(a) /\ m = Len(b) /\ k = Len(c)
  BY LenProperties
<1>2. PICK x : x = a \o b
  OBVIOUS
<1>3. PICK y : y = b \o c
  OBVIOUS
<1>4. x \in Seq(RowSet) /\ Len(x) = n + m /\ \A i \in 1 .. n + m : x[i] = IF i <= n THEN a[i] ELSE b[i - n]
  BY <1>1, <1>2, ConcatProperties
<1>5. y \in Seq(RowSet) /\ Len(y) = m + k /\ \A i \in 1 .. m + k : y[i] = IF i <= m THEN b[i] ELSE c[i - m]
  BY <1>1, <1>3, ConcatProperties
<1>6. DOMAIN x = 1 .. n + m
  BY <1>4, LenProperties
<1>7. before + 1 \in 1 .. n + m /\ x[before + 1] \in ToSet(y)
  BY <1>2, <1>3, <1>6
<1>8. before >= n
  <2> SUFFICES ASSUME before < n PROVE FALSE
    OBVIOUS
  <2>1. before + 1 \in 1 .. n /\ before + 1 <= n
    OBVIOUS
  <2>2. x[before + 1] = a[before + 1]
    BY <1>4, <1>7, <2>1
  <2> QED
    BY <1>1, <1>3, <1>7, <2>1, <2>2
<1>9. PICK d \in Nat : d = before - n /\ d + 1 = before + 1 - n
  BY <1>8
<1>10. d + 1 \in 1 .. m /\ d + 1 \in 1 .. m + k /\ d + 1 <= m /\ ~(before + 1 <= n)
  BY <1>7, <1>9
<1>11. y[d + 1] = b[d + 1] /\ x[before + 1] = b[d + 1]
  BY <1>4, <1>5, <1>7, <1>9, <1>10
<1>12. d < m + k
  BY <1>10
<1> QED
  BY <1>1, <1>2, <1>3, <1>5, <1>8, <1>9, <1>11, <1>12

(* The rows before stay behind those that are put in front.                 *)
LEMMA StaysBehind ==
  ASSUME NEW a \in Seq(RowSet), NEW b \in Seq(RowSet), NEW before \in Nat, before + 1 \in DOMAIN b
  PROVE  before + Len(a) < Len(a \o b) /\ (a \o b)[before + Len(a) + 1] = b[before + 1]
<1>1. PICK n \in Nat, m \in Nat : n = Len(a) /\ m = Len(b)
  BY LenProperties
<1>2. PICK x : x = a \o b
  OBVIOUS
<1>3. x \in Seq(RowSet) /\ Len(x) = n + m /\ \A i \in 1 .. n + m : x[i] = IF i <= n THEN a[i] ELSE b[i - n]
  BY <1>1, <1>2, ConcatProperties
<1>4. before + 1 \in 1 .. m
  BY <1>1, LenProperties
<1>5. before + n + 1 \in 1 .. n + m /\ ~(before + n + 1 <= n) /\ before + n + 1 - n = before + 1 /\ before + n < n + m
  BY <1>4
<1>6. x[before + n + 1] = b[before + 1]
  BY <1>3, <1>5
<1> QED
  BY <1>1, <1>2, <1>3, <1>5, <1>6

(* A window that follows is at the end once it is laid out.                 *)
EndOfRows(w) == Max({0, Len(Rows(w)) - Height})

LEMMA LaidAtEnd ==
  ASSUME NEW w, NEW content, NEW width, NEW filter, NEW v, NEW s, NEW u, NEW i, NEW x,
         Laid(w, content, width, filter, v, s, u, i, x), Total(content) > Total(w.text), w.following
  PROVE  Fresh(x) /\ x.top = EndOf(x)
<1>1. Fresh(i) /\ x = AtEnd(i)
  BY DEF Laid
<1>2. Fresh(x) /\ x.kept = i.kept /\ x.top = EndOf(i)
  BY <1>1, AtEndIs, Zenon
<1> QED
  BY <1>2 DEF EndOf

LEMMA ArrivingFollows ==
  ASSUME TextInv, NEW count \in 1 .. 2, LinesArrive(count), window.following
  PROVE  window'.top = EndOfRows(window')
<1>1. PICK lines :
           /\ NewOnes(lines, count, written) /\ Arrives(text, text', lines)
           /\ text' \in Texts /\ text'.id = text.id /\ Numbered(text'.lines, written + count)
           /\ Total(text') = Total(text) + count /\ written' = written + count
  BY ArrivedIs
<1>2. Goes(text, text')
  BY <1>1 DEF Arrives, Goes
<1>3. window' \in LaysOut(window, text', window.width, window.filter)
  BY DEF LinesArrive
<1>4. PICK v, s, u, i : Laid(window, text', window.width, window.filter, v, s, u, i, window')
  BY <1>1, <1>2, <1>3, TextInvSettled, LaysOutBy
<1>5. Total(text) \in Nat
  BY TextInvSettled, LenProperties DEF Total, Texts
<1>6. Total(text') > Total(window.text)
  BY <1>1, <1>5, TextInvSettled
<1>7. Fresh(window') /\ window'.top = EndOf(window')
  BY <1>4, <1>6, LaidAtEnd
<1>8. Rows(window') = window'.kept.rows
  BY <1>7, FreshMatches
<1> QED
  BY <1>7, <1>8 DEF EndOf, EndOfRows

LEMMA BeforeGrows ==
  ASSUME NEW old, old \in Texts, NEW new, new \in Texts, NEW lines \in Seq(LineSet), NEW count \in 1 .. 2, Len(lines) = count,
         new.lines = lines \o old.lines, new.dropped = old.dropped
  PROVE  Total(new) > Total(old)
<1>1. PICK x \in Seq(LineSet), d \in Nat : x = old.lines /\ d = old.dropped
  BY DEF Texts
<1>2. PICK n \in Nat, m \in Nat : n = Len(x) /\ m = Len(lines)
  BY LenProperties
<1>3. Len(lines \o x) = m + n
  BY <1>2, ConcatProperties
<1>4. d + (m + n) > d + n
  BY <1>2
<1>5. Total(old) = d + n /\ Total(new) = d + (m + n)
  BY <1>1, <1>2, <1>3 DEF Total
<1> QED
  BY <1>4, <1>5

LEMMA EndStays ==
  ASSUME NEW w, Fresh(w), w.top = EndOf(w), NEW more \in Nat
  PROVE  Clipped(w.top + more, Len(w.kept.rows) - Height) = EndOf(w)
<1>1. PICK n \in Nat : n = Len(w.kept.rows)
  BY FreshMatches
<1>2. PICK most \in Int : most = n - Height
  BY TextWindowAssumption
<1>3. PICK top : top = Max({0, most})
  OBVIOUS
<1>4. top \in Nat /\ ((top = 0 /\ 0 >= most) \/ (top = most /\ most >= 0))
  BY <1>3, LargerOf
<1>5. PICK x \in Int : x = top + more
  BY <1>4
<1>6. Clipped(x, most) = top
  <2>1. CASE most <= 0
    BY <1>4, <2>1, ClippedIs
  <2>2. CASE most > 0
    <3>1. x >= most /\ most >= 0
      BY <1>4, <1>5, <2>2
    <3>2. Clipped(x, most) = most
      BY <3>1, ClippedIs
    <3> QED
      BY <1>4, <2>2, <3>2
  <2> QED
    BY <2>1, <2>2
<1> QED
  BY <1>1, <1>2, <1>3, <1>5, <1>6 DEF EndOf

LEMMA BeforeFollows ==
  ASSUME TextInv, NEW count \in 1 .. 2, LinesBefore(count), window.following
  PROVE  window'.top = EndOfRows(window')
<1>1. PICK lines, w :
           /\ NewOnes(lines, count, written) /\ text'.lines = lines \o text.lines
           /\ text' \in Texts /\ text'.id # text.id /\ text'.dropped = text.dropped
           /\ Numbered(text'.lines, written + count) /\ written' = written + count
           /\ w \in LaysOut(window, text', window.width, window.filter) /\ window' = KeptPlace(w, count)
  BY BeforeIs
<1>2. Goes(text, text')
  BY <1>1 DEF Goes
<1>3. PICK v, s, u, i : Laid(window, text', window.width, window.filter, v, s, u, i, w)
  BY <1>1, <1>2, TextInvSettled, LaysOutBy
<1>4. lines \in Seq(LineSet) /\ Len(lines) = count
  BY <1>1 DEF NewOnes
<1>5. Total(text') > Total(window.text)
  BY <1>1, <1>4, TextInvSettled, BeforeGrows
<1>6. Fresh(w) /\ w.top = EndOf(w)
  BY <1>3, <1>5, LaidAtEnd
<1>7. count \in Nat
  OBVIOUS
<1>8. PICK more \in Nat : more = RowsInFront(w, count)
  BY <1>6, <1>7, FrontIs
<1>9. PICK k : k = KeptPlace(w, count)
  OBVIOUS
<1>10. Fresh(k) /\ k.kept = w.kept /\ k.top = Clipped(w.top + more, Len(w.kept.rows) - Height)
  BY <1>6, <1>7, <1>8, <1>9, KeptPlaceIs
<1>11. k.top = EndOf(w)
  BY <1>6, <1>10, EndStays
<1>12. Rows(k) = w.kept.rows
  BY <1>10, FreshMatches
<1> QED
  BY <1>1, <1>9, <1>11, <1>12 DEF EndOf, EndOfRows

(* Moving inside twice is moving inside.                                    *)
LEMMA ClippedAgain ==
  ASSUME NEW x \in Nat, NEW more \in Nat, NEW most \in Int
  PROVE  Clipped(Clipped(x, most) + more, most) = Clipped(x + more, most)
<1>0. PICK c : c = Clipped(x, most)
  OBVIOUS
<1>1. /\ c \in Nat
      /\ x <= most /\ x >= 0 => c = x
      /\ x >= most /\ most >= 0 => c = most
      /\ x <= 0 \/ most <= 0 => c = 0
  <2>1. x \in Int
    OBVIOUS
  <2> QED
    BY <1>0, <2>1, ClippedIs
<1>2. PICK y \in Nat, z \in Nat : y = c + more /\ z = x + more
  BY <1>1
<1>3. CASE most <= 0
  <2>1. Clipped(y, most) = 0 /\ Clipped(z, most) = 0
    BY <1>3, ClippedIs
  <2> QED
    BY <1>0, <1>1, <1>2, <2>1
<1>4. CASE most > 0 /\ x <= most
  BY <1>0, <1>1, <1>2, <1>4
<1>5. CASE most > 0 /\ x > most
  <2>1. y >= most /\ z >= most /\ most >= 0
    BY <1>1, <1>2, <1>5
  <2>2. Clipped(y, most) = most /\ Clipped(z, most) = most
    BY <2>1, ClippedIs
  <2> QED
    BY <1>0, <1>1, <1>2, <2>2
<1> QED
  BY <1>3, <1>4, <1>5

(* A window that does not follow is laid out where it is once its rows are  *)
(* brought up to date.                                                      *)
LaidStill(x, v) ==
  /\ Fresh(x) /\ SameText(x, v) /\ x.kept = Refreshed(v).kept /\ x.at = Refreshed(v).at
  /\ x.top = Clipped(Refreshed(v).top, Len(x.kept.rows) - Height)

LEMMA LaidStillIs ==
  ASSUME NEW w, NEW content, NEW v, NEW s, NEW u, NEW i, NEW x,
         Laid(w, content, w.width, w.filter, v, s, u, i, x), ~w.following
  PROVE  LaidStill(x, v)
<1>1. IsChanged(v, w, content, w.width, w.shift, w.wrap, w.times, w.filter) /\ Stale(v) /\ s = Inside(v)
  BY DEF Laid
<1>2. IsChanged(u, s, s.text, s.width, s.shift, s.wrap, s.times, w.filter) /\ Stale(u) /\ i = Inside(u)
  BY DEF Laid
<1>3. x = i
  BY DEF Laid
<1>4. PICK r : r = Refreshed(v)
  OBVIOUS
<1>5. Fresh(r) /\ SameText(r, v)
  BY <1>1, <1>4, RefreshedFresh, Zenon
<1>6. /\ Fresh(s) /\ SameText(s, v) /\ s.kept = r.kept /\ s.at = r.at
      /\ s.top = Clipped(r.top, Len(r.kept.rows) - Height)
  BY <1>1, <1>4, InsideIs, Zenon
<1>7. v.filter = w.filter
  BY <1>1 DEF IsChanged
<1>8. SameText(u, s) /\ SameText(s, u) /\ WindowShape(u) /\ u.kept = s.kept /\ u.top = s.top /\ u.at = s.at
  BY <1>2, <1>6, <1>7 DEF IsChanged, SameText
<1>9. WindowShape(s) /\ s.kept = Afresh(s)
  BY <1>6 DEF Fresh
<1>10. Afresh(u) = Afresh(s)
  BY <1>8, <1>9, SameAfresh
<1>11. Fresh(u)
  BY <1>8, <1>9, <1>10 DEF Fresh
<1>12. Refreshed(u) = u
  BY <1>11, FreshMatches
<1>13. /\ Fresh(i) /\ SameText(i, u) /\ i.kept = u.kept /\ i.at = u.at
       /\ i.top = Clipped(u.top, Len(u.kept.rows) - Height)
  BY <1>2, <1>12, InsideIs, Zenon
<1>14. PICK n \in Nat : n = Len(r.kept.rows)
  BY <1>5, FreshMatches
<1>15. PICK most \in Int : most = n - Height
  BY TextWindowAssumption
<1>16. PICK top \in Nat : top = r.top
  BY <1>5 DEF Fresh, WindowShape
<1>17. Clipped(Clipped(top, most), most) = Clipped(top, most)
  <2>1. PICK c \in Nat : c = Clipped(top, most)
    BY ClippedIs
  <2>2. c + 0 = c /\ top + 0 = top
    OBVIOUS
  <2> QED
    BY <2>1, <2>2, ClippedAgain
<1>18. i.top = Clipped(top, most)
  BY <1>6, <1>8, <1>13, <1>14, <1>15, <1>16, <1>17
<1>19. i.kept = r.kept /\ i.at = r.at
  BY <1>6, <1>8, <1>13
<1>20. SameText(i, v)
  BY <1>6, <1>8, <1>13 DEF SameText
<1> QED
  BY <1>3, <1>4, <1>13, <1>14, <1>15, <1>16, <1>18, <1>19, <1>20 DEF LaidStill

(* A window stays where it is when its rows do.                             *)
Stays(old, new, x, w) ==
  /\ PlaceStays(old, new, w.at, {x.at})
  /\ PlaceStays(old, new, w.top, EndPlaces(new, x.top))

StillAt(old, new, before, now) ==
  /\ now \in Nat
  /\ before + 1 \in DOMAIN old /\ old[before + 1] \in ToSet(new) => now < Len(new) /\ new[now + 1] = old[before + 1]

LEMMA PlaceStaysAt ==
  ASSUME NEW old, NEW new \in Seq(RowSet), NEW before \in Nat, NEW places, NEW now, now \in places,
         StillAt(old, new, before, now)
  PROVE  PlaceStays(old, new, before, places)
<1> SUFFICES ASSUME before + 1 \in DOMAIN old, old[before + 1] \in ToSet(new)
             PROVE  \E n \in places : n + 1 \in DOMAIN new /\ new[n + 1] = old[before + 1]
  BY DEF PlaceStays
<1>1. PICK m \in Nat : m = Len(new) /\ DOMAIN new = 1 .. m
  BY LenProperties
<1>2. now \in Nat /\ now < m /\ new[now + 1] = old[before + 1]
  BY <1>1 DEF StillAt
<1>3. now + 1 \in 1 .. m
  BY <1>2
<1> QED
  BY <1>1, <1>2, <1>3

LEMMA NoneStays ==
  ASSUME NEW old \in Seq(RowSet), NEW new \in Seq(RowSet), NEW x, NEW w,
         \A i \in 1 .. Len(old) : old[i] \notin ToSet(new)
  PROVE  Stays(old, new, x, w)
<1>1. DOMAIN old = 1 .. Len(old)
  BY LenProperties
<1>2. \A before, places : PlaceStays(old, new, before, places)
  BY <1>1 DEF PlaceStays
<1> QED
  BY <1>2 DEF Stays

LEMMA TopPlaceStays ==
  ASSUME NEW old, NEW new \in Seq(RowSet), NEW before \in Nat, NEW now, NEW top,
         top = Clipped(now, Len(new) - Height), StillAt(old, new, before, now)
  PROVE  PlaceStays(old, new, before, EndPlaces(new, top))
<1>1. CASE now < Len(new)
  <2>1. now \in EndPlaces(new, top)
    BY <1>1, TopStays DEF StillAt
  <2> QED
    BY <2>1, PlaceStaysAt
<1>2. CASE ~(now < Len(new))
  BY <1>2 DEF PlaceStays, StillAt
<1> QED
  BY <1>1, <1>2

(* When rows left the front.                                                *)
NoneIn(a, new) == \A i \in 1 .. Len(a) : a[i] \notin ToSet(new)

LEMMA BackBy ==
  ASSUME NEW x \in Nat, NEW n \in Nat
  PROVE  Max({x - n, 0}) \in Nat /\ (x >= n => Max({x - n, 0}) = x - n)
<1>1. PICK y \in Int : y = x - n
  OBVIOUS
<1>2. PICK z : z = Max({y, 0})
  OBVIOUS
<1>3. z \in Nat /\ (y >= 0 => z = y)
  BY <1>2, LargerOf
<1> QED
  BY <1>1, <1>2, <1>3

LEMMA StayWhenGone ==
  ASSUME NEW a \in Seq(RowSet), NEW b \in Seq(RowSet), NEW c \in Seq(RowSet), NEW before \in Nat, NEW now,
         NoneIn(a, b \o c), now = Max({before - Len(a), 0})
  PROVE  StillAt(a \o b, b \o c, before, now)
<1>1. PICK n \in Nat : n = Len(a)
  BY LenProperties
<1>4. now \in Nat /\ (before >= n => now = before - n)
  BY <1>1, BackBy
<1>5. ASSUME before + 1 \in DOMAIN (a \o b), (a \o b)[before + 1] \in ToSet(b \o c)
      PROVE  now < Len(b \o c) /\ (b \o c)[now + 1] = (a \o b)[before + 1]
  <2>1. /\ before >= Len(a) /\ before - Len(a) < Len(b \o c)
        /\ (b \o c)[before - Len(a) + 1] = (a \o b)[before + 1]
    BY <1>5, StaysAsGone DEF NoneIn
  <2> QED
    BY <1>1, <1>4, <2>1
<1> QED
  BY <1>4, <1>5 DEF StillAt

(* The lines that left the front are not among those that are left and      *)
(* those that arrived.                                                      *)
LEMMA LeftAreOthers ==
  ASSUME NEW a \in Seq(LineSet), NEW b \in Seq(LineSet), NEW most \in Nat, Numbered(a \o b, most),
         NEW count \in 1 .. 2, NEW lines, NewOnes(lines, count, most)
  PROVE  OtherLines(a, b \o lines)
<1>1. PICK n \in Nat, m \in Nat : n = Len(a) /\ m = Len(b)
  BY LenProperties
<1>2. PICK c \in Seq(LineSet) : c = lines /\ Len(c) = count /\ \A i \in 1 .. count : c[i].n = most + i
  BY DEF NewOnes
<1>3. PICK x : x = a \o b
  OBVIOUS
<1>4. PICK y : y = b \o c
  OBVIOUS
<1>5. Len(x) = n + m /\ \A i \in 1 .. n + m : x[i] = IF i <= n THEN a[i] ELSE b[i - n]
  BY <1>1, <1>3, ConcatProperties
<1>6. Len(y) = m + count /\ \A i \in 1 .. m + count : y[i] = IF i <= m THEN b[i] ELSE c[i - m]
  BY <1>1, <1>2, <1>4, ConcatProperties
<1>7. /\ \A i \in 1 .. n + m : x[i].n <= most
      /\ \A i, j \in 1 .. n + m : x[i].n = x[j].n => i = j
  BY <1>3, <1>5 DEF Numbered
<1>8. ASSUME NEW i \in 1 .. n, NEW j \in 1 .. m + count PROVE a[i].n # y[j].n
  <2>1. i \in 1 .. n + m /\ i <= n
    OBVIOUS
  <2>2. a[i] = x[i]
    BY <1>5, <2>1
  <2>3. CASE j <= m
    <3>1. n + j \in 1 .. n + m /\ ~(n + j <= n) /\ n + j - n = j /\ n + j # i
      BY <2>3, <2>1
    <3>2. x[n + j] = b[j]
      BY <1>5, <3>1
    <3>3. y[j] = b[j]
      BY <1>6, <2>3
    <3> QED
      BY <1>7, <2>1, <2>2, <3>1, <3>2, <3>3
  <2>4. CASE j > m
    <3>1. j - m \in 1 .. count /\ ~(j <= m)
      BY <2>4
    <3>2. y[j] = c[j - m]
      BY <1>6, <3>1
    <3>3. y[j].n = most + (j - m)
      BY <1>2, <3>1, <3>2
    <3>4. a[i].n <= most
      BY <1>7, <2>1, <2>2
    <3>5. most + (j - m) > most
      BY <3>1
    <3>6. a[i].n \in Nat
      BY <1>1, NumberOf
    <3> QED
      BY <3>1, <3>3, <3>4, <3>5, <3>6
  <2> QED
    BY <2>3, <2>4
<1> QED
  BY <1>1, <1>2, <1>4, <1>6, <1>8 DEF OtherLines

(* The rows of a window that is up to date, and those it was put to.        *)
LEMMA RowsAre ==
  ASSUME NEW w, Fresh(w)
  PROVE  Rows(w) = DrawnRows(w, w.text.lines) /\ Rows(w) = w.kept.rows /\ Rows(w) \in Seq(RowSet)
BY FreshMatches

(* As lines arrive at the end, others may leave the front.                  *)
WentOnStays(w, x, v, a, b, lines) ==
  /\ WindowShape(v) /\ v.kept = w.kept /\ Settings(v) = Settings(w) /\ v.top = w.top /\ v.at = w.at
  /\ LaidStill(x, v) /\ WentOn(w.text, v.text, a, b, lines)

LEMMA WentOnStaysIs ==
  ASSUME NEW w, Fresh(w), NEW x, NEW v, NEW a, NEW b, NEW lines, WentOnStays(w, x, v, a, b, lines),
         OtherLines(a, b \o lines)
  PROVE  Stays(Rows(w), Rows(x), x, w)
<1>1. /\ WindowShape(v) /\ v.kept = w.kept /\ Settings(v) = Settings(w) /\ v.top = w.top /\ v.at = w.at
      /\ LaidStill(x, v) /\ WentOn(w.text, v.text, a, b, lines)
  BY DEF WentOnStays
<1>2. WindowShape(w) /\ w.kept = Afresh(w)
  BY DEF Fresh
<1>3. Drawable(w) /\ Drawable(v) /\ w.text \in Texts
  BY <1>1, <1>2 DEF WindowShape
<1>4. /\ a \in Seq(LineSet) /\ b \in Seq(LineSet) /\ lines \in Seq(LineSet)
      /\ w.text.lines = a \o b /\ v.text.lines = b \o lines
  BY <1>1 DEF WentOn
<1>5. PICK ra, rb, rc : ra = DrawnRows(v, a) /\ rb = DrawnRows(v, b) /\ rc = DrawnRows(v, lines)
  OBVIOUS
<1>6. ra \in Seq(RowSet) /\ rb \in Seq(RowSet) /\ rc \in Seq(RowSet)
  BY <1>3, <1>4, <1>5, DrawnIs
<1>7. PICK gone \in Nat : gone = Len(ra)
  BY <1>6, LenProperties
<1>8. Refreshed(v) = Put(v, gone)
  BY <1>1, <1>2, <1>3, <1>5, <1>7, RefreshedGone
<1>9. PICK r : r = Refreshed(v)
  OBVIOUS
<1>10. r.top = Max({w.top - gone, 0}) /\ r.at = Max({w.at - gone, 0})
  BY <1>1, <1>8, <1>9, PutIs
<1>11. /\ Fresh(x) /\ SameText(x, v) /\ x.at = r.at /\ x.top = Clipped(r.top, Len(x.kept.rows) - Height)
  BY <1>1, <1>9 DEF LaidStill
<1>12. Settings(x) = Settings(v) /\ x.text = v.text /\ Drawable(x)
  <2>1. SameText(v, x) /\ x.text = v.text
    BY <1>11 DEF SameText
  <2> QED
    BY <1>1, <2>1, SameAfresh
<1>13. DrawnRows(v, b \o lines) = rb \o rc /\ DrawnRows(v, a \o b) = ra \o rb
  BY <1>3, <1>4, <1>5, DrawnBoth
<1>14. Rows(x) = rb \o rc /\ Rows(x) = x.kept.rows /\ Rows(x) \in Seq(RowSet)
  <2>1. Rows(x) = DrawnRows(x, b \o lines) /\ Rows(x) = x.kept.rows /\ Rows(x) \in Seq(RowSet)
    BY <1>4, <1>11, <1>12, RowsAre
  <2>2. DrawnRows(x, b \o lines) = DrawnRows(v, b \o lines)
    BY <1>3, <1>12, SameDrawn
  <2> QED
    BY <1>13, <2>1, <2>2
<1>15. Rows(w) = ra \o rb
  <2>1. Rows(w) = DrawnRows(w, a \o b)
    BY <1>4, RowsAre
  <2>2. DrawnRows(w, a \o b) = DrawnRows(v, a \o b)
    BY <1>1, <1>3, SameDrawn
  <2> QED
    BY <1>13, <2>1, <2>2
<1>16. NoneIn(ra, rb \o rc)
  <2>1. b \o lines \in Seq(LineSet)
    BY <1>4, ConcatProperties
  <2>2. \A i \in 1 .. Len(DrawnRows(v, a)) : DrawnRows(v, a)[i] \notin ToSet(DrawnRows(v, b \o lines))
    BY <1>3, <1>4, <2>1, GoneRows
  <2> QED
    BY <1>5, <1>13, <2>2 DEF NoneIn
<1>17. PICK top \in Nat, at \in Nat : top = w.top /\ at = w.at
  BY <1>2 DEF WindowShape
<1>18. PICK nt, na : nt = r.top /\ na = r.at
  OBVIOUS
<1>27. nt = Max({top - Len(ra), 0}) /\ na = Max({at - Len(ra), 0})
  BY <1>7, <1>10, <1>17, <1>18
<1>19. StillAt(ra \o rb, rb \o rc, top, nt)
  BY <1>6, <1>16, <1>27, StayWhenGone, Zenon
<1>20. StillAt(ra \o rb, rb \o rc, at, na)
  BY <1>6, <1>16, <1>27, StayWhenGone, Zenon
<1>21. PICK old, new : old = ra \o rb /\ new = rb \o rc
  OBVIOUS
<1>22. new \in Seq(RowSet)
  BY <1>14, <1>21
<1>23. PlaceStays(old, new, at, {na})
  BY <1>20, <1>21, <1>22, PlaceStaysAt
<1>24. PICK xt : xt = Clipped(nt, Len(new) - Height)
  OBVIOUS
<1>25. PlaceStays(old, new, top, EndPlaces(new, xt))
  BY <1>19, <1>21, <1>22, <1>24, TopPlaceStays
<1>26. x.top = xt /\ x.at = na
  BY <1>11, <1>14, <1>18, <1>21, <1>24
<1> QED
  BY <1>14, <1>15, <1>17, <1>21, <1>23, <1>25, <1>26 DEF Stays

(* All the lines there were have left, and what is there are others.        *)
LEMMA OtherTextStays ==
  ASSUME NEW w, Fresh(w), NEW x, Fresh(x), Settings(x) = Settings(w), OtherLines(w.text.lines, x.text.lines)
  PROVE  Stays(Rows(w), Rows(x), x, w)
<1>1. Rows(w) = DrawnRows(w, w.text.lines) /\ Rows(w) \in Seq(RowSet)
  BY RowsAre
<1>2. Rows(x) = DrawnRows(x, x.text.lines) /\ Rows(x) \in Seq(RowSet)
  BY RowsAre
<1>3. Drawable(w) /\ Drawable(x) /\ w.text.lines \in Seq(LineSet) /\ x.text.lines \in Seq(LineSet)
  BY DEF Fresh, WindowShape, Texts
<1>4. DrawnRows(x, x.text.lines) = DrawnRows(w, x.text.lines)
  BY <1>3, SameDrawn
<1>5. \A i \in 1 .. Len(DrawnRows(w, w.text.lines)) :
        DrawnRows(w, w.text.lines)[i] \notin ToSet(DrawnRows(w, x.text.lines))
  BY <1>3, GoneRows
<1>6. PICK old, new : old = Rows(w) /\ new = Rows(x)
  OBVIOUS
<1>7. \A i \in 1 .. Len(old) : old[i] \notin ToSet(new)
  BY <1>1, <1>2, <1>4, <1>5, <1>6
<1>8. Stays(old, new, x, w)
  BY <1>1, <1>2, <1>6, <1>7, NoneStays
<1> QED
  BY <1>6, <1>8

LEMMA ArrivedAreOthers ==
  ASSUME NEW x \in Seq(LineSet), NEW most \in Nat, Numbered(x, most), NEW count \in 1 .. 2,
         NEW lines, NewOnes(lines, count, most), NEW y \in Seq(LineSet),
         \A i \in 1 .. Len(y) : \E j \in 1 .. Len(lines) : y[i] = lines[j]
  PROVE  OtherLines(x, y)
<1>1. Len(lines) = count /\ \A i \in 1 .. count : lines[i].n = most + i
  BY DEF NewOnes
<1>2. \A i \in 1 .. Len(x) : x[i].n <= most
  BY DEF Numbered
<1>3. ASSUME NEW i \in 1 .. Len(x), NEW k \in 1 .. Len(y) PROVE x[i].n # y[k].n
  <2>1. PICK j \in 1 .. count : y[k] = lines[j]
    BY <1>1
  <2>2. PICK n \in Nat : n = x[i].n
    BY NumberOf
  <2>3. n <= most
    BY <1>2, <2>2
  <2>4. n # most + j
    BY <2>3
  <2>5. y[k].n = most + j
    BY <1>1, <2>1
  <2> QED
    BY <2>2, <2>4, <2>5
<1> QED
  BY <1>3 DEF OtherLines

LEMMA ArrivingStays ==
  ASSUME TextInv, Fresh(window), ~window.following, NEW count \in 1 .. 2, LinesArrive(count)
  PROVE  Stays(Rows(window), Rows(window'), window', window)
<1>1. PICK lines :
           /\ NewOnes(lines, count, written) /\ Arrives(text, text', lines)
           /\ text' \in Texts /\ text'.id = text.id /\ Numbered(text'.lines, written + count)
           /\ Total(text') = Total(text) + count /\ written' = written + count
  BY ArrivedIs
<1>2. Goes(text, text')
  BY <1>1 DEF Arrives, Goes
<1>3. window' \in LaysOut(window, text', window.width, window.filter)
  BY DEF LinesArrive
<1>4. PICK v, s, u, i : Laid(window, text', window.width, window.filter, v, s, u, i, window')
  BY <1>1, <1>2, <1>3, TextInvSettled, LaysOutBy
<1>5. PICK w, x, new : w = window /\ x = window' /\ new = text'
  OBVIOUS
<1>6. LaidStill(x, v)
  BY <1>4, <1>5, LaidStillIs
<1>7. IsChanged(v, w, new, w.width, w.shift, w.wrap, w.times, w.filter)
  BY <1>4, <1>5 DEF Laid
<1>8. /\ WindowShape(v) /\ v.kept = w.kept /\ Settings(v) = Settings(w) /\ v.top = w.top /\ v.at = w.at /\ v.text = new
  BY <1>7 DEF IsChanged, Settings
<1>9. written \in Nat /\ w.text = text /\ text \in Texts /\ Numbered(text.lines, written)
  BY <1>5 DEF TextInv
<1>10. PICK most \in Nat : most = written
  BY <1>9
<1>11. CASE \E a, b : WentOn(text, text', a, b, lines)
  <2>1. PICK a, b : WentOn(w.text, new, a, b, lines)
    BY <1>5, <1>9, <1>11
  <2>2. WentOnStays(w, x, v, a, b, lines)
    BY <1>6, <1>8, <2>1 DEF WentOnStays
  <2>3. a \in Seq(LineSet) /\ b \in Seq(LineSet) /\ w.text.lines = a \o b
    BY <2>1 DEF WentOn
  <2>4. NewOnes(lines, count, most) /\ Numbered(a \o b, most)
    BY <1>1, <1>9, <1>10, <2>3
  <2>5. OtherLines(a, b \o lines)
    BY <2>3, <2>4, LeftAreOthers
  <2>6. Stays(Rows(w), Rows(x), x, w)
    BY <1>5, <2>2, <2>5, WentOnStaysIs
  <2> QED
    BY <1>5, <2>6
<1>12. CASE \A k \in 1 .. Len(new.lines) : \E j \in 1 .. Len(lines) : new.lines[k] = lines[j]
  <2>1. Fresh(x) /\ SameText(v, x) /\ x.text = new
    BY <1>6, <1>8 DEF LaidStill, SameText
  <2>2. Settings(x) = Settings(w)
    BY <1>8, <2>1, SameAfresh
  <2>3. PICK old \in Seq(LineSet), y \in Seq(LineSet) : old = text.lines /\ y = new.lines
    BY <1>1, <1>5, <1>9 DEF Texts
  <2>4. OtherLines(old, y)
    <3>1. NewOnes(lines, count, most) /\ Numbered(old, most)
      BY <1>1, <1>9, <1>10, <2>3
    <3>2. \A k \in 1 .. Len(y) : \E j \in 1 .. Len(lines) : y[k] = lines[j]
      BY <1>12, <2>3
    <3> QED
      BY <3>1, <3>2, ArrivedAreOthers
  <2>5. Stays(Rows(w), Rows(x), x, w)
    BY <1>5, <1>9, <2>1, <2>2, <2>3, <2>4, OtherTextStays
  <2> QED
    BY <1>5, <2>5
<1> QED
  BY <1>1, <1>5, <1>11, <1>12 DEF Arrives

LEMMA SmallerOfBoth ==
  ASSUME NEW n \in Nat, NEW m \in Nat
  PROVE  Min({n, n + m}) = n
<1>1. PICK all \in Int : all = n + m
  OBVIOUS
<1>2. n \in Int /\ n <= all
  BY <1>1
<1>3. Min({n, all}) = n
  BY <1>2, SmallerOf
<1> QED
  BY <1>1, <1>3

LEMMA BackByNone ==
  ASSUME NEW x \in Nat
  PROVE  Max({x - 0, 0}) = x
<1>1. 0 \in Nat /\ x >= 0 /\ x - 0 = x
  OBVIOUS
<1> QED
  BY <1>1, BackBy

LEMMA CountsBehind ==
  ASSUME NEW a \in Seq(Nat), NEW b \in Seq(Nat)
  PROVE  Len(a \o b) = Len(a) + Len(b) /\ SubSeq(a \o b, 1, Len(a)) = a
<1>1. Len(a \o b) = Len(a) + Len(b)
  BY ConcatProperties
<1>2. SubSeq(a \o b, 1, Len(a)) = a
  BY Behind
<1> QED
  BY <1>1, <1>2

(* The rows put in front are those of the lines put in front.               *)
LEMMA FrontOfLines ==
  ASSUME NEW x, Fresh(x), NEW lines \in Seq(LineSet), NEW rest \in Seq(LineSet), x.text.lines = lines \o rest
  PROVE  RowsInFront(x, Len(lines)) = Len(DrawnRows(x, lines))
<1>1. Drawable(x)
  BY DEF Fresh, WindowShape
<1>2. PICK cl, cr : cl = DrawnCounts(x, lines) /\ cr = DrawnCounts(x, rest)
  OBVIOUS
<1>3. cl \in Seq(Nat) /\ cr \in Seq(Nat) /\ Len(cl) = Len(lines) /\ Summed(cl) = Len(DrawnRows(x, lines))
  BY <1>1, <1>2, DrawnIs
<1>4. x.kept.counts = cl \o cr
  <2>1. x.kept.counts = DrawnCounts(x, lines \o rest)
    BY FreshMatches
  <2> QED
    BY <1>1, <1>2, <2>1, DrawnBoth
<1>5. PICK count \in Nat, m \in Nat : count = Len(cl) /\ m = Len(cr)
  BY <1>3, LenProperties
<1>6. Len(cl \o cr) = count + m /\ SubSeq(cl \o cr, 1, count) = cl
  <2>1. Len(cl \o cr) = Len(cl) + Len(cr) /\ SubSeq(cl \o cr, 1, Len(cl)) = cl
    BY <1>3, CountsBehind, Zenon
  <2> QED
    BY <1>5, <2>1, Zenon
<1>7. Min({count, count + m}) = count
  BY SmallerOfBoth
<1>8. PICK all : all = x.kept.counts /\ all = cl \o cr
  BY <1>4
<1>9. RowsInFront(x, count) = Summed(cl)
  BY <1>6, <1>7, <1>8, Zenon DEF RowsInFront
<1> QED
  BY <1>3, <1>5, <1>9

(* Lines are put in front of those there are.                               *)
BeforeStaysBy(w, x, k, v, lines, count) ==
  /\ WindowShape(v) /\ v.kept = w.kept /\ Settings(v) = Settings(w) /\ v.top = w.top /\ v.at = w.at
  /\ LaidStill(x, v) /\ v.text.id # w.text.id /\ v.text.lines = lines \o w.text.lines
  /\ lines \in Seq(LineSet) /\ Len(lines) = count /\ count \in Nat /\ k = KeptPlace(x, count)

LEMMA BeforeStaysIs ==
  ASSUME NEW w, Fresh(w), NEW x, NEW k, NEW v, NEW lines, NEW count, BeforeStaysBy(w, x, k, v, lines, count)
  PROVE  Stays(Rows(w), Rows(k), k, w)
<1>1. /\ WindowShape(v) /\ v.kept = w.kept /\ Settings(v) = Settings(w) /\ v.top = w.top /\ v.at = w.at
      /\ LaidStill(x, v) /\ v.text.id # w.text.id /\ v.text.lines = lines \o w.text.lines
      /\ lines \in Seq(LineSet) /\ Len(lines) = count /\ count \in Nat /\ k = KeptPlace(x, count)
  BY DEF BeforeStaysBy
<1>2. WindowShape(w) /\ w.kept = Afresh(w)
  BY DEF Fresh
<1>3. Drawable(w) /\ Drawable(v) /\ w.text.lines \in Seq(LineSet)
  BY <1>1, <1>2 DEF WindowShape, Texts
<1>4. Refreshed(v) = Put(v, 0)
  <2>1. v.kept.id = w.text.id
    BY <1>1, <1>2, AfreshIs
  <2> QED
    BY <1>1, <2>1, RefreshedAfresh
<1>5. PICK top \in Nat, at \in Nat : top = w.top /\ at = w.at
  BY <1>2 DEF WindowShape
<1>6. Max({top - 0, 0}) = top /\ Max({at - 0, 0}) = at
  BY <1>5, BackByNone
<1>7. PICK r : r = Refreshed(v)
  OBVIOUS
<1>8. r.top = top /\ r.at = at
  <2>1. r.top = Max({w.top - 0, 0}) /\ r.at = Max({w.at - 0, 0})
    <3>1. PICK none \in Nat : none = 0
      OBVIOUS
    <3>2. r = Put(v, none)
      BY <1>4, <1>7, <3>1
    <3>3. Put(v, none).top = Max({v.top - none, 0}) /\ Put(v, none).at = Max({v.at - none, 0})
      BY <1>1, PutIs, Zenon
    <3> QED
      BY <1>1, <3>1, <3>2, <3>3
  <2> QED
    BY <1>5, <1>6, <2>1
<1>9. Fresh(x) /\ SameText(x, v) /\ x.at = at /\ x.top = Clipped(top, Len(x.kept.rows) - Height)
  BY <1>1, <1>7, <1>8 DEF LaidStill
<1>10. x.text = v.text /\ x.text.lines = lines \o w.text.lines
  BY <1>1, <1>9 DEF SameText
<1>11. Settings(x) = Settings(w) /\ Drawable(x)
  <2>1. SameText(v, x)
    BY <1>9 DEF SameText
  <2> QED
    BY <1>1, <2>1, SameAfresh
<1>12. PICK ra, rb : ra = DrawnRows(x, lines) /\ rb = DrawnRows(x, w.text.lines)
  OBVIOUS
<1>13. ra \in Seq(RowSet) /\ rb \in Seq(RowSet)
  BY <1>1, <1>3, <1>11, <1>12, DrawnIs
<1>14. PICK more \in Nat : more = Len(ra)
  BY <1>13, LenProperties
<1>15. RowsInFront(x, count) = more
  BY <1>1, <1>3, <1>9, <1>10, <1>12, <1>14, FrontOfLines
<1>16. Rows(w) = rb
  <2>1. Rows(w) = DrawnRows(w, w.text.lines)
    BY RowsAre
  <2> QED
    BY <1>3, <1>11, <1>12, <2>1, SameDrawn
<1>17. Fresh(k) /\ k.kept = x.kept /\ k.at = at + more /\ k.top = Clipped(x.top + more, Len(x.kept.rows) - Height)
  BY <1>1, <1>9, <1>15, KeptPlaceIs
<1>18. x.kept.rows = ra \o rb /\ Rows(k) = ra \o rb /\ Rows(k) \in Seq(RowSet)
  <2>1. Rows(k) = k.kept.rows /\ Rows(k) \in Seq(RowSet)
    BY <1>17, RowsAre
  <2>2. x.kept.rows = DrawnRows(x, lines \o w.text.lines)
    BY <1>9, <1>10, FreshMatches
  <2>3. DrawnRows(x, lines \o w.text.lines) = ra \o rb
    BY <1>1, <1>3, <1>11, <1>12, DrawnBoth
  <2> QED
    BY <1>17, <2>1, <2>2, <2>3
<1>19. PICK new \in Seq(RowSet) : new = ra \o rb
  BY <1>18
<1>20. PICK nt \in Nat, na \in Nat : nt = top + more /\ na = at + more
  OBVIOUS
<1>21. StillAt(rb, new, top, nt)
  <2>1. ASSUME top + 1 \in DOMAIN rb PROVE nt < Len(new) /\ new[nt + 1] = rb[top + 1]
    BY <1>13, <1>14, <1>19, <1>20, <2>1, StaysBehind
  <2> QED
    BY <2>1 DEF StillAt
<1>22. StillAt(rb, new, at, na)
  <2>1. ASSUME at + 1 \in DOMAIN rb PROVE na < Len(new) /\ new[na + 1] = rb[at + 1]
    BY <1>13, <1>14, <1>19, <1>20, <2>1, StaysBehind
  <2> QED
    BY <2>1 DEF StillAt
<1>23. PICK most \in Int : most = Len(new) - Height
  <2>1. PICK n \in Nat : n = Len(new)
    BY <1>19, LenProperties
  <2>2. n - Height \in Int
    BY TextWindowAssumption
  <2> QED
    BY <2>1, <2>2
<1>24. k.top = Clipped(nt, most) /\ k.at = na
  <2>1. k.top = Clipped(Clipped(top, most) + more, most)
    BY <1>9, <1>17, <1>18, <1>19, <1>23
  <2>2. Clipped(Clipped(top, most) + more, most) = Clipped(top + more, most)
    BY <1>23, ClippedAgain
  <2> QED
    BY <1>17, <1>20, <2>1, <2>2
<1>25. PlaceStays(rb, new, at, {na})
  BY <1>19, <1>22, PlaceStaysAt
<1>26. PICK xt : xt = Clipped(nt, Len(new) - Height)
  OBVIOUS
<1>27. PlaceStays(rb, new, top, EndPlaces(new, xt))
  BY <1>19, <1>21, <1>26, TopPlaceStays
<1>28. k.top = xt
  BY <1>23, <1>24, <1>26
<1> QED
  BY <1>5, <1>16, <1>18, <1>19, <1>24, <1>25, <1>27, <1>28 DEF Stays

LEMMA BeforeStays ==
  ASSUME TextInv, Fresh(window), ~window.following, NEW count \in 1 .. 2, LinesBefore(count)
  PROVE  Stays(Rows(window), Rows(window'), window', window)
<1>1. PICK lines, x :
           /\ NewOnes(lines, count, written) /\ text'.lines = lines \o text.lines
           /\ text' \in Texts /\ text'.id # text.id /\ text'.dropped = text.dropped
           /\ Numbered(text'.lines, written + count) /\ written' = written + count
           /\ x \in LaysOut(window, text', window.width, window.filter) /\ window' = KeptPlace(x, count)
  BY BeforeIs
<1>2. Goes(text, text')
  BY <1>1 DEF Goes
<1>3. PICK v, s, u, i : Laid(window, text', window.width, window.filter, v, s, u, i, x)
  BY <1>1, <1>2, TextInvSettled, LaysOutBy
<1>4. LaidStill(x, v)
  BY <1>3, LaidStillIs
<1>5. PICK w, k, new : w = window /\ k = window' /\ new = text'
  OBVIOUS
<1>6. IsChanged(v, w, new, w.width, w.shift, w.wrap, w.times, w.filter)
  BY <1>3, <1>5 DEF Laid
<1>7. /\ WindowShape(v) /\ v.kept = w.kept /\ Settings(v) = Settings(w) /\ v.top = w.top /\ v.at = w.at /\ v.text = new
  BY <1>6 DEF IsChanged, Settings
<1>8. new.id # w.text.id /\ new.lines = lines \o w.text.lines /\ k = KeptPlace(x, count)
  BY <1>1, <1>5, TextInvSettled
<1>9. lines \in Seq(LineSet) /\ Len(lines) = count /\ count \in Nat
  BY <1>1 DEF NewOnes
<1>10. BeforeStaysBy(w, x, k, v, lines, count)
  BY <1>4, <1>7, <1>8, <1>9 DEF BeforeStaysBy
<1>11. Stays(Rows(w), Rows(k), k, w)
  BY <1>5, <1>10, BeforeStaysIs
<1> QED
  BY <1>5, <1>11

-------------------------------------------------------------------------------
(* One step of KeepsItsPlace, with its parts by their names.                *)
StepKeepsPlace ==
  written' > written =>
    IF window.following THEN window'.top = EndOfRows(window')
    ELSE Stays(Rows(window), Rows(window'), window', window)

LEMMA StepKeepsPlaceIs == TextInv /\ [TextWindowNext]_textVars => StepKeepsPlace
<1> SUFFICES ASSUME TextInv, [TextWindowNext]_textVars, written' > written
             PROVE  IF window.following THEN window'.top = EndOfRows(window')
                    ELSE Stays(Rows(window), Rows(window'), window', window)
  BY DEF StepKeepsPlace
<1>1. \E count \in 1 .. 2 : LinesArrive(count) \/ LinesBefore(count)
  <2>1. written' # written
    <3>1. written \in Nat
      BY TextInvSettled
    <3> QED
      BY <3>1
  <2>2. \A w : Shows(w) => written' = written
    BY DEF Shows
  <2>3. TextOpens => written' = written
    BY DEF TextOpens
  <2>4. UNCHANGED textVars => written' = written
    BY DEF textVars
  <2> QED
    BY <2>1, <2>2, <2>3, <2>4 DEF TextWindowNext, Resize, FilterTyped, WrapLines, ShowTimes, Home, ToggleAutoscroll,
       FindWord, DropWord, Scroll, SlideBy, GoToMatch
<1>2. PICK count \in 1 .. 2 : LinesArrive(count) \/ LinesBefore(count)
  BY <1>1
<1>3. CASE window.following
  BY <1>2, <1>3, ArrivingFollows, BeforeFollows
<1>4. CASE ~window.following /\ Fresh(window)
  BY <1>2, <1>4, ArrivingStays, BeforeStays
<1>5. CASE ~window.following /\ ~Fresh(window)
  <2>1. Rows(window) = <<>>
    BY <1>5, NoHits
  <2>2. PICK old : old = Rows(window) /\ DOMAIN old = {}
    BY <2>1
  <2>3. \A new, before, places : PlaceStays(old, new, before, places)
    BY <2>2 DEF PlaceStays
  <2>4. Stays(old, Rows(window'), window', window)
    BY <2>3 DEF Stays
  <2> QED
    BY <1>5, <2>2, <2>4
<1> QED
  BY <1>3, <1>4, <1>5

(* As lines arrive at the end or in front, and the oldest are dropped, a    *)
(* window that follows is at the end, and one that does not shows the same  *)
(* row at its top and stays at the same match, unless that row went or the  *)
(* text ends before it (src/internal/ui/text.go, layout, keepPlace).        *)
THEOREM TextKeepsPlace == TextWindowSpec => KeepsItsPlace
<1>1. TextInv /\ [TextWindowNext]_textVars => [StepKeepsPlace]_textVars
  BY StepKeepsPlaceIs
<1>2. TextWindowSpec => [][StepKeepsPlace]_textVars
  BY <1>1, TextInvAlways, PTL DEF TextWindowSpec
<1> QED
  BY <1>2, PTL DEF KeepsItsPlace, StepKeepsPlace, Stays, PlaceStays, EndPlaces, EndOfRows

Directions == {-1, 1}

(* Where a match is from another, in the direction that is gone.            *)
Beyond(by, x, y) == IF by < 0 THEN y < x ELSE x < y

(* From a match to the next one, which is the first one when it is the last.*)
GoesTo(hits, by, x, y) ==
  /\ y \in hits
  /\ \/ Beyond(by, x, y) /\ \A i \in hits : Beyond(by, x, i) => ~Beyond(by, i, y)
     \/ (\A i \in hits : ~Beyond(by, x, i)) /\ \A i \in hits : ~Beyond(by, i, y)

(* The matches that were gone to, from the first one on to the last one: it *)
(* may be that it went round between.                                       *)
Onward(hits, by, first, last, seen) ==
  /\ ~Beyond(by, last, first)
  /\ \A i \in hits : i \in seen <=> ~Beyond(by, i, first) /\ ~Beyond(by, last, i)
Around(hits, by, first, last, seen) ==
  /\ Beyond(by, last, first)
  /\ \A i \in hits : i \in seen <=> ~Beyond(by, i, first) \/ ~Beyond(by, last, i)
Span(hits, by, first, last, seen) ==
  first \in seen /\ (Onward(hits, by, first, last, seen) \/ Around(hits, by, first, last, seen))

LEMMA SpanGrows ==
  ASSUME NEW hits \in SUBSET Nat, NEW seen, seen \subseteq hits, seen # hits, NEW by \in Directions,
         NEW first \in hits, NEW x \in hits, NEW y, GoesTo(hits, by, x, y), Span(hits, by, first, x, seen)
  PROVE  y \in hits /\ y \notin seen /\ Span(hits, by, first, y, seen \cup {y})
<1>0. by \in {-1, 1}
  BY DEF Directions
<1>1. PICK other \in hits : other \notin seen
  OBVIOUS
<1>2. y \in hits
  BY DEF GoesTo
<1>3. first \in Nat /\ x \in Nat /\ y \in Nat /\ other \in Nat /\ \A i \in hits : i \in Nat
  BY <1>2
<1>4. CASE Onward(hits, by, first, x, seen) /\ Beyond(by, x, y) /\ \A i \in hits : Beyond(by, x, i) => ~Beyond(by, i, y)
  <2>1. y \notin seen
    BY <1>2, <1>3, <1>4 DEF Onward, Beyond
  <2>2. Onward(hits, by, first, y, seen \cup {y})
    BY <1>2, <1>3, <1>4 DEF Onward, Beyond
  <2> QED
    BY <1>2, <2>1, <2>2 DEF Span
<1>5. CASE Onward(hits, by, first, x, seen) /\ (\A i \in hits : ~Beyond(by, x, i)) /\ \A i \in hits : ~Beyond(by, i, y)
  <2>1. Beyond(by, y, first)
    BY <1>0, <1>1, <1>2, <1>3, <1>5 DEF Onward, Beyond
  <2>2. y \notin seen
    BY <1>2, <1>3, <1>5, <2>1 DEF Onward, Beyond
  <2>3. Around(hits, by, first, y, seen \cup {y})
    BY <1>2, <1>3, <1>5, <2>1 DEF Onward, Around, Beyond
  <2> QED
    BY <1>2, <2>2, <2>3 DEF Span
<1>6. CASE Around(hits, by, first, x, seen) /\ Beyond(by, x, y) /\ \A i \in hits : Beyond(by, x, i) => ~Beyond(by, i, y)
  <2>1. Beyond(by, x, other) /\ Beyond(by, other, first)
    BY <1>1, <1>3, <1>6 DEF Around, Beyond
  <2>2. Beyond(by, y, first)
    BY <1>3, <1>6, <2>1 DEF Beyond
  <2>3. y \notin seen
    BY <1>2, <1>3, <1>6, <2>2 DEF Around, Beyond
  <2>4. Around(hits, by, first, y, seen \cup {y})
    BY <1>2, <1>3, <1>6, <2>2 DEF Around, Beyond
  <2> QED
    BY <1>2, <2>3, <2>4 DEF Span
<1>7. CASE Around(hits, by, first, x, seen) /\ (\A i \in hits : ~Beyond(by, x, i))
  BY <1>3, <1>7 DEF Around, Beyond
<1> QED
  BY <1>4, <1>5, <1>6, <1>7 DEF Span, GoesTo

(* The matches of the first presses.                                        *)
Goals(hits, n, a) == hits \in SUBSET Nat /\ n \in Nat \ {0} /\ a \in [1 .. n -> hits]
SeenBy(a, k) == {a[j] : j \in 1 .. k}
Spans(hits, by, a, k) ==
  Cardinality(SeenBy(a, k)) = k /\ Span(hits, by, a[1], a[k], SeenBy(a, k))

LEMMA SeenByIs ==
  ASSUME NEW hits, NEW n, NEW a, Goals(hits, n, a), NEW k \in 0 .. n
  PROVE  /\ SeenBy(a, k) \subseteq hits
         /\ k < n => SeenBy(a, k + 1) = SeenBy(a, k) \cup {a[k + 1]} /\ a[k + 1] \in hits
<1>0. n \in Nat /\ a \in [1 .. n -> hits]
  BY DEF Goals
<1>1. SeenBy(a, k) \subseteq hits
  BY <1>0 DEF SeenBy
<1>2. ASSUME k < n PROVE SeenBy(a, k + 1) = SeenBy(a, k) \cup {a[k + 1]} /\ a[k + 1] \in hits
  <2>1. k + 1 \in 1 .. n /\ 1 .. k + 1 = (1 .. k) \cup {k + 1}
    BY <1>0, <1>2
  <2> QED
    BY <1>0, <2>1 DEF SeenBy
<1> QED
  BY <1>1, <1>2

LEMMA SeenByMore ==
  ASSUME NEW hits, NEW n, NEW a, Goals(hits, n, a), NEW k \in 1 .. n, k < n
  PROVE  SeenBy(a, k) \subseteq hits /\ SeenBy(a, k + 1) = SeenBy(a, k) \cup {a[k + 1]}
<1>1. k \in 0 .. n
  BY DEF Goals
<1> QED
  BY <1>1, SeenByIs

LEMMA SpansFirst ==
  ASSUME NEW hits, NEW n, NEW a, Goals(hits, n, a), NEW by \in Directions
  PROVE  Spans(hits, by, a, 1)
<1>0. hits \in SUBSET Nat /\ n \in Nat \ {0} /\ a \in [1 .. n -> hits] /\ by \in {-1, 1}
  BY DEF Goals, Directions
<1>1. 1 \in 1 .. n /\ 1 .. 1 = {1}
  BY <1>0
<1>2. PICK x \in hits : x = a[1]
  BY <1>0, <1>1
<1>3. SeenBy(a, 1) = {x}
  BY <1>1, <1>2 DEF SeenBy
<1>4. Cardinality({x}) = 1
  BY FS_Singleton
<1>5. Onward(hits, by, x, x, {x})
  <2>1. x \in Nat /\ \A i \in hits : i \in Nat
    BY <1>0
  <2> QED
    BY <1>0, <2>1 DEF Onward, Beyond
<1>6. Span(hits, by, x, x, {x})
  BY <1>5 DEF Span
<1> QED
  BY <1>2, <1>3, <1>4, <1>6 DEF Spans

LEMMA SpansNext ==
  ASSUME NEW hits, NEW n, NEW a, Goals(hits, n, a), IsFiniteSet(hits), n = Cardinality(hits), NEW by \in Directions,
         NEW k \in 1 .. n, k < n, GoesTo(hits, by, a[k], a[k + 1]), Spans(hits, by, a, k)
  PROVE  Spans(hits, by, a, k + 1)
<1>0. hits \in SUBSET Nat /\ n \in Nat \ {0} /\ a \in [1 .. n -> hits]
  BY DEF Goals
<1>1. PICK seen, x, y, first : seen = SeenBy(a, k) /\ x = a[k] /\ y = a[k + 1] /\ first = a[1]
  OBVIOUS
<1>2. seen \subseteq hits /\ SeenBy(a, k + 1) = seen \cup {y} /\ x \in hits /\ first \in hits
  <2>1. k \in 0 .. n /\ 1 \in 1 .. n
    BY <1>0
  <2>2. SeenBy(a, k) \subseteq hits /\ SeenBy(a, k + 1) = SeenBy(a, k) \cup {a[k + 1]}
    BY SeenByMore
  <2>3. a[k] \in hits /\ a[1] \in hits
    BY <1>0, <2>1
  <2> QED
    BY <1>1, <2>2, <2>3, Zenon
<1>3. Cardinality(seen) = k /\ Span(hits, by, first, x, seen) /\ GoesTo(hits, by, x, y)
  BY <1>1 DEF Spans
<1>4. IsFiniteSet(seen)
  BY <1>2, FS_Subset
<1>5. seen # hits
  BY <1>0, <1>3
<1>6. y \in hits /\ y \notin seen /\ Span(hits, by, first, y, seen \cup {y})
  BY <1>0, <1>2, <1>3, <1>5, SpanGrows, Zenon
<1>7. Cardinality(seen \cup {y}) = k + 1
  BY <1>3, <1>4, <1>6, FS_AddElement
<1> QED
  BY <1>1, <1>2, <1>6, <1>7 DEF Spans

LEMMA AllGoneTo ==
  ASSUME NEW hits, NEW n, NEW a, Goals(hits, n, a), IsFiniteSet(hits), n = Cardinality(hits), NEW by \in Directions,
         \A k \in 1 .. n - 1 : GoesTo(hits, by, a[k], a[k + 1])
  PROVE  SeenBy(a, n) = hits
<1> DEFINE Spanned == {k \in Nat : k + 1 <= n => Spans(hits, by, a, k + 1)}
<1>0. n \in Nat \ {0}
  BY DEF Goals
<1>1. 0 \in Spanned
  <2>1. Spans(hits, by, a, 1)
    BY SpansFirst, Zenon
  <2> QED
    BY <2>1
<1>2. ASSUME NEW k \in Nat, k \in Spanned PROVE k + 1 \in Spanned
  <2>1. ASSUME (k + 1) + 1 <= n PROVE Spans(hits, by, a, (k + 1) + 1)
    <3>1. k + 1 \in 1 .. n /\ k + 1 < n /\ k + 1 \in 1 .. n - 1 /\ k + 1 <= n
      BY <1>0, <2>1
    <3>2. Spans(hits, by, a, k + 1)
      BY <1>2, <3>1
    <3>3. GoesTo(hits, by, a[k + 1], a[(k + 1) + 1])
      BY <3>1
    <3> QED
      BY <3>1, <3>2, <3>3, SpansNext, Zenon
  <2> QED
    BY <2>1
<1>3. n - 1 \in Spanned
  <2>1. n - 1 \in Nat
    BY <1>0
  <2> HIDE DEF Spanned
  <2> QED
    BY <1>1, <1>2, <2>1, Inducts
<1>4. Spans(hits, by, a, n)
  <2>1. (n - 1) + 1 = n /\ n <= n
    BY <1>0
  <2> QED
    BY <1>3, <2>1
<1>5. PICK seen : seen = SeenBy(a, n)
  OBVIOUS
<1>6. Cardinality(seen) = n
  BY <1>4, <1>5 DEF Spans
<1>7. seen \subseteq hits
  <2>1. n \in 0 .. n
    BY <1>0
  <2> QED
    BY <1>5, <2>1, SeenByIs, Zenon
<1>8. seen = hits
  BY <1>6, <1>7, FS_Subset
<1> QED
  BY <1>5, <1>8

(* The next match from one that is in view.                                 *)
LEMMA NextHitIs ==
  ASSUME NEW w, Fresh(w), Hits(w) # {}, InView(w), NEW by \in Directions
  PROVE  GoesTo(Hits(w), by, w.at, Chosen(w, FromOf(w, by), by < 0))
<1>0. w.at \in Nat
  BY DEF Fresh, WindowShape
<1>1. PICK hits, x : hits = Hits(w) /\ x = w.at /\ x \in Nat
  BY <1>0
<1>2. PICK n \in Nat : n = Len(w.kept.rows)
  BY FreshMatches
<1>3. hits \in SUBSET (0 .. n) /\ hits # {} /\ \A i \in hits : i \in Nat
  BY <1>1, <1>2, HitsAre
<1>4. FromOf(w, by) = x + by
  BY <1>1 DEF FromOf, InView
<1>5. PICK y : y = Chosen(w, x + by, by < 0)
  OBVIOUS
<1>6. CASE by = 1
  <2> DEFINE there == {i \in hits : i >= x + 1}
             around == IF there = {} THEN hits ELSE there
  <2>1. y = Min(around)
    <3>1. ~(by < 0) /\ x + by = x + 1
      BY <1>6
    <3> QED
      BY <1>1, <1>5, <3>1 DEF Chosen
  <2>2. around \in SUBSET Nat /\ around # {}
    BY <1>3
  <2>3. y \in around /\ \A i \in around : y <= i
    <3> HIDE DEF around
    <3> QED
      BY <2>1, <2>2, MinIs
  <2>4. \A i \in hits : Beyond(by, x, i) <=> i \in there
    BY <1>1, <1>3, <1>6 DEF Beyond
  <2>5. \A i \in around : ~Beyond(by, i, y)
    <3>1. \A i \in around : i \in Nat
      BY <2>2
    <3> HIDE DEF around
    <3> QED
      BY <1>6, <2>3, <3>1 DEF Beyond
  <2>6. there = {} => around = hits
    OBVIOUS
  <2>7. there # {} => around = there /\ \A i \in there : i \in hits
    OBVIOUS
  <2> HIDE DEF around, there
  <2>8. GoesTo(hits, by, x, y)
    <3>1. CASE there = {}
      BY <2>3, <2>4, <2>5, <2>6, <3>1 DEF GoesTo
    <3>2. CASE there # {}
      BY <2>3, <2>4, <2>5, <2>7, <3>2 DEF GoesTo
    <3> QED
      BY <3>1, <3>2
  <2> QED
    BY <1>1, <1>4, <1>5, <2>8
<1>7. CASE by = -1
  <2> DEFINE there == {i \in hits : i <= x - 1}
             around == IF there = {} THEN hits ELSE there
  <2>1. y = Max(around)
    <3>1. by < 0 /\ x + by = x - 1
      BY <1>1, <1>7
    <3> QED
      BY <1>1, <1>5, <3>1 DEF Chosen
  <2>2. around \in SUBSET (0 .. n) /\ around # {} /\ \A i \in around : i \in Nat
    BY <1>3
  <2>3. y \in around /\ \A i \in around : i <= y
    <3> HIDE DEF around
    <3> QED
      BY <2>1, <2>2, MaxIs
  <2>4. \A i \in hits : Beyond(by, x, i) <=> i \in there
    BY <1>1, <1>3, <1>7 DEF Beyond
  <2>5. \A i \in around : ~Beyond(by, i, y)
    <3> HIDE DEF around
    <3> QED
      BY <1>7, <2>2, <2>3 DEF Beyond
  <2>6. there = {} => around = hits
    OBVIOUS
  <2>7. there # {} => around = there /\ \A i \in there : i \in hits
    OBVIOUS
  <2> HIDE DEF around, there
  <2>8. GoesTo(hits, by, x, y)
    <3>1. CASE there = {}
      BY <2>3, <2>4, <2>5, <2>6, <3>1 DEF GoesTo
    <3>2. CASE there # {}
      BY <2>3, <2>4, <2>5, <2>7, <3>2 DEF GoesTo
    <3> QED
      BY <3>1, <3>2
  <2> QED
    BY <1>1, <1>4, <1>5, <2>8
<1> QED
  BY <1>6, <1>7 DEF Directions

-------------------------------------------------------------------------------
(* The windows after each press.                                            *)
Pressed(p, w, by, n) ==
  DOMAIN p = 0 .. n /\ p[0] = w /\ \A k \in 0 .. n - 1 : p[k + 1] = NextMatch(p[k], by)

LEMMA PressedExists ==
  ASSUME NEW w, NEW by, NEW n \in Nat
  PROVE  \E p : Pressed(p, w, by, n)
<1> DEFINE Reached == {m \in Nat : \E p : Pressed(p, w, by, m)}
<1>1. 0 \in Reached
  <2>1. Pressed([k \in 0 .. 0 |-> w], w, by, 0)
    BY DEF Pressed
  <2> QED
    BY <2>1
<1>2. ASSUME NEW m \in Nat, m \in Reached PROVE m + 1 \in Reached
  <2>1. PICK p : Pressed(p, w, by, m)
    BY <1>2
  <2>2. PICK last : last = NextMatch(p[m], by)
    OBVIOUS
  <2>3. PICK q : q = [k \in 0 .. m + 1 |-> IF k = m + 1 THEN last ELSE p[k]]
    OBVIOUS
  <2>4. DOMAIN q = 0 .. m + 1 /\ q[m + 1] = last /\ \A k \in 0 .. m : q[k] = p[k]
    BY <2>3
  <2>5. q[0] = w
    BY <2>1, <2>4 DEF Pressed
  <2>6. ASSUME NEW k \in 0 .. m PROVE q[k + 1] = NextMatch(q[k], by)
    <3>1. CASE k = m
      BY <2>2, <2>4, <3>1
    <3>2. CASE k # m
      <4>1. k \in 0 .. m - 1 /\ k + 1 \in 0 .. m
        BY <3>2
      <4>2. p[k + 1] = NextMatch(p[k], by)
        BY <2>1, <4>1 DEF Pressed
      <4> QED
        BY <2>4, <4>1, <4>2
    <3> QED
      BY <3>1, <3>2
  <2>7. (m + 1) - 1 = m
    OBVIOUS
  <2>8. Pressed(q, w, by, m + 1)
    BY <2>4, <2>5, <2>6, <2>7 DEF Pressed
  <2> QED
    BY <2>8
<1>3. n \in Reached
  <2> HIDE DEF Reached
  <2> QED
    BY <1>1, <1>2, Inducts
<1> QED
  BY <1>3

PressedRest(w, by, h, s) == IF s = {} THEN w ELSE NextMatch(h[s \ {Max(s)}], by)
After(w, by, n) == FoldLeft(LAMBDA v, press : NextMatch(v, by), w, [i \in 1 .. n |-> i])

LEMMA LastOf ==
  ASSUME NEW n \in Nat, NEW s \in SUBSET (1 .. n), s # {}
  PROVE  Max(s) \in s
<1>1. s \in SUBSET (0 .. n)
  OBVIOUS
<1> QED
  BY <1>1, MaxIs

LEMMA AfterIs ==
  ASSUME NEW w, NEW by, NEW m \in Nat, NEW p, Pressed(p, w, by, m), NEW n \in 0 .. m
  PROVE  After(w, by, n) = p[n]
<1>1. DOMAIN [i \in 1 .. n |-> i] = 1 .. n
  OBVIOUS
<1>2. PICK g : g = (CHOOSE h : h = [s \in SUBSET (1 .. n) |-> PressedRest(w, by, h, s)])
  OBVIOUS
<1>3. After(w, by, n) = g[1 .. n]
  BY <1>1, <1>2 DEF After, FoldLeft, MapThenFoldSet, PressedRest
<1>4. PICK q : q = [s \in SUBSET (1 .. n) |-> p[Cardinality(s)]]
  OBVIOUS
<1>5. ASSUME NEW s \in SUBSET (1 .. n) PROVE q[s] = PressedRest(w, by, q, s)
  <2>1. IsFiniteSet(s) /\ Cardinality(s) \in 0 .. n
    <3>1. IsFiniteSet(1 .. n) /\ Cardinality(1 .. n) = n
      BY FS_Interval
    <3>2. IsFiniteSet(s) /\ Cardinality(s) <= n
      BY <3>1, FS_Subset
    <3>3. Cardinality(s) \in Nat
      BY <3>2, FS_CardinalityType
    <3> QED
      BY <3>2, <3>3
  <2>2. CASE s = {}
    <3>1. q[s] = p[0]
      BY <1>4, <2>2, FS_EmptySet
    <3> QED
      BY <2>2, <3>1 DEF PressedRest, Pressed
  <2>3. CASE s # {}
    <3>1. PICK x : x = Max(s) /\ x \in s
      BY <2>3, LastOf
    <3>2. PICK k \in Nat : k = Cardinality(s)
      BY <2>1
    <3>3. Cardinality(s \ {x}) = k - 1 /\ k # 0
      BY <2>1, <2>3, <3>1, <3>2, FS_RemoveElement, FS_EmptySet
    <3>4. k - 1 \in 0 .. m - 1 /\ (k - 1) + 1 = k
      BY <2>1, <3>2, <3>3
    <3>5. p[k] = NextMatch(p[k - 1], by)
      BY <3>4 DEF Pressed
    <3>6. q[s] = p[k] /\ q[s \ {x}] = p[k - 1]
      BY <1>4, <3>2, <3>3
    <3> QED
      BY <2>3, <3>1, <3>5, <3>6 DEF PressedRest
  <2> QED
    BY <2>2, <2>3
<1>6. q = [s \in SUBSET (1 .. n) |-> PressedRest(w, by, q, s)]
  BY <1>4, <1>5
<1>7. g = [s \in SUBSET (1 .. n) |-> PressedRest(w, by, g, s)]
  BY <1>2, <1>6
<1> DEFINE Same == {k \in Nat : k <= n => g[1 .. k] = p[k]}
<1>8. 0 \in Same
  <2>1. 1 .. 0 = {} /\ {} \in SUBSET (1 .. n)
    OBVIOUS
  <2>2. g[{}] = w
    BY <1>7, <2>1 DEF PressedRest
  <2> QED
    BY <2>1, <2>2 DEF Pressed
<1>9. ASSUME NEW k \in Nat, k \in Same PROVE k + 1 \in Same
  <2>1. ASSUME k + 1 <= n PROVE g[1 .. k + 1] = p[k + 1]
    <3>1. k \in 0 .. m - 1 /\ k <= n /\ (1 .. k + 1) \ {k + 1} = 1 .. k
      BY <2>1
    <3>2. PICK s : s = 1 .. k + 1 /\ s \in SUBSET (1 .. n) /\ s # {}
      <4>1. \A i \in 1 .. k + 1 : i \in 1 .. n
        BY <2>1
      <4>2. k + 1 \in 1 .. k + 1
        OBVIOUS
      <4> QED
        BY <4>1, <4>2
    <3>3. Max(s) = k + 1
      <4>1. s \in SUBSET (0 .. k + 1) /\ k + 1 \in s /\ k + 1 \in Nat
        BY <3>2
      <4>2. Max(s) \in s /\ \A x \in s : x <= Max(s)
        BY <4>1, <3>2, MaxIs
      <4> QED
        BY <3>2, <4>1, <4>2
    <3>4. g[s] = NextMatch(g[s \ {Max(s)}], by)
      BY <1>7, <3>2 DEF PressedRest
    <3>5. g[1 .. k] = p[k]
      BY <1>9, <3>1
    <3>6. p[k + 1] = NextMatch(p[k], by)
      BY <3>1 DEF Pressed
    <3> QED
      BY <3>1, <3>2, <3>3, <3>4, <3>5, <3>6
  <2> QED
    BY <2>1
<1>10. n \in Same
  <2> HIDE DEF Same
  <2> QED
    BY <1>8, <1>9, Inducts
<1> QED
  BY <1>3, <1>10

(* Every press leaves the rows and the matches as they are, and the window  *)
(* at one of them.                                                          *)
Pressing(v, hits) == Fresh(v) /\ Hits(v) = hits /\ hits # {}

LEMMA SameHits ==
  ASSUME NEW w, Fresh(w), NEW s, NEW at, IsAt(s, w, at)
  PROVE  Fresh(s) /\ Hits(s) = Hits(w) /\ InView(s) /\ s.at = at
<1>1. Fresh(s) /\ s.kept = w.kept /\ InView(s) /\ s.at = at
  BY DEF IsAt
<1>2. Rows(s) = Rows(w)
  BY <1>1, FreshMatches
<1> QED
  BY <1>1, <1>2 DEF Hits

LEMMA PressIs ==
  ASSUME NEW v, NEW hits, Pressing(v, hits), NEW by \in Directions
  PROVE  LET next == NextMatch(v, by)
         IN  /\ Pressing(next, hits) /\ InView(next) /\ next.at \in hits
             /\ InView(v) => GoesTo(hits, by, v.at, next.at)
<1>1. Fresh(v) /\ Hits(v) = hits /\ Hits(v) # {}
  BY DEF Pressing
<1>2. PICK at, next : at = Chosen(v, FromOf(v, by), by < 0) /\ next = NextMatch(v, by)
  OBVIOUS
<1>3. at \in hits /\ IsAt(next, v, at)
  BY <1>1, <1>2, NextMatchIs DEF Directions
<1>4. Fresh(next) /\ Hits(next) = hits /\ InView(next) /\ next.at = at
  BY <1>1, <1>3, SameHits
<1>5. InView(v) => GoesTo(hits, by, v.at, at)
  BY <1>1, <1>2, NextHitIs
<1> QED
  BY <1>1, <1>2, <1>3, <1>4, <1>5 DEF Pressing

LEMMA PressesReach ==
  ASSUME NEW w, Fresh(w), Hits(w) # {}, NEW by \in Directions
  PROVE  {After(w, by, n).at : n \in 1 .. Cardinality(Hits(w))} = Hits(w)
<1>1. PICK hits, presses : hits = Hits(w) /\ presses = Cardinality(hits)
  OBVIOUS
<1>2. hits \in SUBSET Nat /\ IsFiniteSet(hits) /\ presses \in Nat \ {0}
  <2>1. PICK n \in Nat : n = Len(w.kept.rows)
    BY FreshMatches
  <2>2. hits \in SUBSET (0 .. n)
    BY <1>1, <2>1, HitsAre
  <2>3. IsFiniteSet(0 .. n)
    BY FS_Interval
  <2>4. IsFiniteSet(hits)
    BY <2>2, <2>3, FS_Subset
  <2>5. presses \in Nat /\ presses # 0
    BY <1>1, <2>4, FS_CardinalityType, FS_EmptySet
  <2> QED
    BY <2>2, <2>4, <2>5
<1>3. PICK p : Pressed(p, w, by, presses)
  BY <1>2, PressedExists
<1>4. p[0] = w /\ \A k \in 0 .. presses - 1 : p[k + 1] = NextMatch(p[k], by)
  BY <1>3 DEF Pressed
<1> DEFINE Reached == {k \in Nat : k <= presses => Pressing(p[k], hits)}
<1>5. 0 \in Reached
  BY <1>1, <1>4 DEF Pressing
<1>6. ASSUME NEW k \in Nat, k \in Reached PROVE k + 1 \in Reached
  <2>1. ASSUME k + 1 <= presses PROVE Pressing(p[k + 1], hits)
    <3>1. k \in 0 .. presses - 1 /\ k <= presses
      BY <1>2, <2>1
    <3>2. Pressing(p[k], hits) /\ p[k + 1] = NextMatch(p[k], by)
      BY <1>4, <1>6, <3>1
    <3>3. PICK v, next : v = p[k] /\ next = p[k + 1]
      OBVIOUS
    <3>4. Pressing(v, hits) /\ next = NextMatch(v, by)
      BY <3>2, <3>3
    <3>5. Pressing(next, hits)
      BY <3>4, PressIs, Zenon
    <3> QED
      BY <3>3, <3>5
  <2> QED
    BY <2>1
<1>7. \A k \in Nat : k \in Reached
  <2> HIDE DEF Reached
  <2> QED
    BY <1>5, <1>6, Inducts
<1>8. ASSUME NEW k \in 0 .. presses - 1
      PROVE  /\ Pressing(p[k + 1], hits) /\ InView(p[k + 1]) /\ p[k + 1].at \in hits
             /\ InView(p[k]) => GoesTo(hits, by, p[k].at, p[k + 1].at)
  <2>1. k \in Nat /\ k <= presses
    BY <1>2
  <2>2. Pressing(p[k], hits) /\ p[k + 1] = NextMatch(p[k], by)
    BY <1>4, <1>7, <2>1
  <2>3. PICK v, next : v = p[k] /\ next = p[k + 1]
    OBVIOUS
  <2>4. Pressing(v, hits) /\ next = NextMatch(v, by)
    BY <2>2, <2>3
  <2>5. Pressing(next, hits) /\ InView(next) /\ next.at \in hits /\ (InView(v) => GoesTo(hits, by, v.at, next.at))
    BY <2>4, PressIs, Zenon
  <2> QED
    BY <2>3, <2>5
<1>9. ASSUME NEW k \in 1 .. presses PROVE InView(p[k]) /\ p[k].at \in hits
  <2>1. k - 1 \in 0 .. presses - 1 /\ (k - 1) + 1 = k
    BY <1>2
  <2>2. InView(p[(k - 1) + 1]) /\ p[(k - 1) + 1].at \in hits
    BY <1>8, <2>1
  <2> QED
    BY <2>1, <2>2
<1>10. PICK a : a = [k \in 1 .. presses |-> p[k].at]
  OBVIOUS
<1>11. a \in [1 .. presses -> hits]
  BY <1>9, <1>10
<1>12. Goals(hits, presses, a)
  BY <1>2, <1>11 DEF Goals
<1>13. \A k \in 1 .. presses - 1 : GoesTo(hits, by, a[k], a[k + 1])
  <2> SUFFICES ASSUME NEW k \in 1 .. presses - 1 PROVE GoesTo(hits, by, a[k], a[k + 1])
    OBVIOUS
  <2>1. k \in 1 .. presses /\ k + 1 \in 1 .. presses /\ k \in 0 .. presses - 1
    BY <1>2
  <2>2. GoesTo(hits, by, p[k].at, p[k + 1].at)
    BY <1>8, <1>9, <2>1
  <2> QED
    BY <1>10, <2>1, <2>2
<1>14. SeenBy(a, presses) = hits
  BY <1>1, <1>2, <1>12, <1>13, AllGoneTo
<1>15. ASSUME NEW n \in 1 .. presses PROVE After(w, by, n) = p[n]
  <2>1. n \in 0 .. presses /\ presses \in Nat
    BY <1>2
  <2> QED
    BY <1>3, <2>1, AfterIs
<1>16. {After(w, by, n).at : n \in 1 .. presses} = {a[n] : n \in 1 .. presses}
  BY <1>10, <1>15
<1> QED
  BY <1>1, <1>14, <1>16 DEF SeenBy

(* Going from match to match, on or back, comes to every row with the word  *)
(* in as many presses as there are matches, from wherever the window is     *)
(* (src/internal/ui/text.go, goToMatch, seek).                              *)
THEOREM TextReachesMatches == TextWindowSpec => []EveryMatchIsReached
<1>1. TextInv => EveryMatchIsReached
  <2> SUFFICES ASSUME TextInv, NEW by \in {-1, 1}
               PROVE  {After(window, by, n).at : n \in 1 .. Cardinality(Hits(window))} = Hits(window)
    BY DEF EveryMatchIsReached, After
  <2>1. by \in Directions
    BY DEF Directions
  <2>2. CASE Hits(window) = {}
    <3>1. Cardinality(Hits(window)) = 0 /\ 1 .. 0 = {}
      BY <2>2, FS_EmptySet
    <3> QED
      BY <2>2, <3>1
  <2>3. CASE Hits(window) # {}
    <3>1. Fresh(window)
      BY <2>3, NoHits
    <3> QED
      BY <2>1, <2>3, <3>1, PressesReach
  <2> QED
    BY <2>2, <2>3
<1> QED
  BY <1>1, TextInvAlways, PTL
==============================================================================
