------------------------------- MODULE Places ------------------------------
(***************************************************************************)
(* Places in a finite ordered set and in a sequence, as the code takes     *)
(* them.  An element's place in an order is the number of elements before  *)
(* it: the planner keeps the first questions by place, review_usage and    *)
(* query_assessment_graph cut pages out of a range of places.  A filter    *)
(* takes the elements of an array at some of its places, a spread puts     *)
(* arrays together, map and flatMap make new ones; the lemmas say what     *)
(* these leave.                                                            *)
(*                                                                         *)
(* An order of S is given as a function: before[x] is the set of the       *)
(* elements before x.                                                      *)
(***************************************************************************)
EXTENDS Integers, SequencesExt, Subsequences, FiniteSetTheorems, FunctionTheorems,
        WellFoundedInduction, TLAPS

\* A strict total order of the elements of S.
IsOrder(S, before) ==
  /\ before \in [S -> SUBSET S]
  /\ \A x \in S : x \notin before[x]
  /\ \A x, y \in S : x \in before[y] => before[x] \subseteq before[y]
  /\ \A x, y \in S : x # y => x \in before[y] \/ y \in before[x]

Place(before, x) == Cardinality(before[x])

\* The elements at the places from a on and before b.
Cut(S, before, a, b) == {x \in S : Place(before, x) \in a..(b - 1)}

\* A place is a number below the number of elements.
LEMMA PlaceType ==
  ASSUME NEW S, IsFiniteSet(S), NEW before, IsOrder(S, before), NEW x \in S
  PROVE  /\ Place(before, x) \in Nat
         /\ Place(before, x) < Cardinality(S)
         /\ IsFiniteSet(before[x])
<1>1. before[x] \in SUBSET S /\ x \notin before[x]
  BY DEF IsOrder
<1>2. IsFiniteSet(before[x]) /\ Cardinality(before[x]) <= Cardinality(S)
  BY <1>1, FS_Subset
<1>3. Cardinality(S) # Cardinality(before[x])
  BY <1>1, FS_Subset
<1>4. Cardinality(before[x]) \in Nat /\ Cardinality(S) \in Nat
  BY <1>2, FS_CardinalityType
<1> QED
  BY <1>2, <1>3, <1>4 DEF Place

\* What comes first has the lower place.
LEMMA PlaceOrdered ==
  ASSUME NEW S, IsFiniteSet(S), NEW before, IsOrder(S, before),
         NEW x \in S, NEW y \in S
  PROVE  x \in before[y] <=> Place(before, x) < Place(before, y)
<1>1. ASSUME NEW u \in S, NEW v \in S, u \in before[v]
      PROVE  Place(before, u) < Place(before, v)
  <2>1. before[u] \in SUBSET before[v] /\ u \notin before[u]
    BY <1>1 DEF IsOrder
  <2>2. IsFiniteSet(before[v])
    BY PlaceType
  <2>3. /\ Cardinality(before[u]) <= Cardinality(before[v])
        /\ Cardinality(before[v]) = Cardinality(before[u]) => before[v] = before[u]
    BY <2>1, <2>2, FS_Subset
  <2>4. Cardinality(before[u]) # Cardinality(before[v])
    BY <1>1, <2>1, <2>3
  <2>5. Place(before, u) \in Nat /\ Place(before, v) \in Nat
    BY PlaceType
  <2> QED
    BY <2>3, <2>4, <2>5 DEF Place
<1>2. Place(before, x) \in Nat /\ Place(before, y) \in Nat
  BY PlaceType
<1>3. CASE x = y
  BY <1>2, <1>3 DEF IsOrder
<1>4. CASE x # y
  <2>1. x \in before[y] \/ y \in before[x]
    BY <1>4 DEF IsOrder
  <2> QED
    BY <1>1, <1>2, <2>1
<1> QED
  BY <1>3, <1>4

\* No two elements share a place.
LEMMA PlaceInjective ==
  ASSUME NEW S, IsFiniteSet(S), NEW before, IsOrder(S, before),
         NEW x \in S, NEW y \in S, Place(before, x) = Place(before, y)
  PROVE  x = y
<1>1. Place(before, x) \in Nat
  BY PlaceType
<1>2. x \notin before[y] /\ y \notin before[x]
  BY <1>1, PlaceOrdered
<1> QED
  BY <1>2 DEF IsOrder

\* The elements whose places lie in a range are at most as many as it is long.
LEMMA PlacesInRange ==
  ASSUME NEW S, IsFiniteSet(S), NEW before, IsOrder(S, before),
         NEW a \in Nat, NEW b \in Nat
  PROVE  /\ IsFiniteSet(Cut(S, before, a, b))
         /\ Cardinality(Cut(S, before, a, b)) \in Nat
         /\ Cardinality(Cut(S, before, a, b)) <= IF a > b THEN 0 ELSE b - a
<1> DEFINE cut == Cut(S, before, a, b)
           f == [x \in cut |-> Place(before, x)]
<1>1. f \in Injection(cut, a..(b - 1))
  BY PlaceInjective DEF Injection, IsInjective, Cut
<1>2. /\ IsFiniteSet(a..(b - 1))
      /\ Cardinality(a..(b - 1)) = IF a > b - 1 THEN 0 ELSE b - a
  BY FS_Interval
<1> HIDE DEF f
<1>3. IsFiniteSet(cut) /\ Cardinality(cut) <= Cardinality(a..(b - 1))
  BY <1>1, <1>2, FS_Injection
<1>4. Cardinality(cut) \in Nat
  BY <1>3, FS_CardinalityType
<1> QED
  BY <1>2, <1>3, <1>4
\* In particular, the first n places hold at most n elements.
LEMMA FirstPlaces ==
  ASSUME NEW S, IsFiniteSet(S), NEW before, IsOrder(S, before), NEW n \in Nat
  PROVE  /\ IsFiniteSet({x \in S : Place(before, x) < n})
         /\ Cardinality({x \in S : Place(before, x) < n}) <= n
<1>1. {x \in S : Place(before, x) < n} = Cut(S, before, 0, n)
  <2>1. \A x \in S : Place(before, x) \in Nat
    BY PlaceType
  <2> QED
    BY <2>1 DEF Cut
<1>2. /\ IsFiniteSet(Cut(S, before, 0, n))
      /\ Cardinality(Cut(S, before, 0, n)) <= IF 0 > n THEN 0 ELSE n - 0
  BY PlacesInRange
<1> QED
  BY <1>1, <1>2

\* Every number below the number of elements is the place of one.
LEMMA PlacesTaken ==
  ASSUME NEW S, IsFiniteSet(S), NEW before, IsOrder(S, before),
         NEW k \in Nat, k < Cardinality(S)
  PROVE  \E x \in S : Place(before, x) = k
<1> DEFINE T == 0..(Cardinality(S) - 1)
           f == [x \in S |-> Place(before, x)]
<1>1. Cardinality(S) \in Nat
  BY FS_CardinalityType
<1>2. \A x \in S : Place(before, x) \in T
  BY <1>1, PlaceType
<1>3. f \in Injection(S, T)
  BY <1>2, PlaceInjective DEF Injection, IsInjective
<1>4. IsFiniteSet(T) /\ Cardinality(T) = Cardinality(S)
  <2> DEFINE n == Cardinality(S) - 1
  <2>1. n \in Int /\ 0 \in Int
    BY <1>1
  <2> HIDE DEF n
  <2>2. IsFiniteSet(0..n) /\ Cardinality(0..n) = IF 0 > n THEN 0 ELSE n - 0 + 1
    BY <2>1, FS_Interval
  <2> QED
    BY <1>1, <2>2 DEF n
<1> HIDE DEF f
<1>5. f \in Surjection(S, T)
  BY <1>3, <1>4, FS_Injection
<1>6. k \in T
  BY <1>1
<1>7. PICK x \in S : f[x] = k
  BY <1>5, <1>6 DEF Surjection
<1> QED
  BY <1>7 DEF f

\* So a range of places that are all taken holds as many elements.
LEMMA FullRange ==
  ASSUME NEW S, IsFiniteSet(S), NEW before, IsOrder(S, before),
         NEW a \in Nat, NEW b \in Nat, a <= b, b <= Cardinality(S)
  PROVE  Cardinality(Cut(S, before, a, b)) = b - a
<1> DEFINE cut == Cut(S, before, a, b)
           f == [x \in cut |-> Place(before, x)]
<1>1. f \in Injection(cut, a..(b - 1))
  BY PlaceInjective DEF Injection, IsInjective, Cut
<1>2. IsFiniteSet(a..(b - 1)) /\ Cardinality(a..(b - 1)) = b - a
  <2> DEFINE n == b - 1
  <2>1. n \in Int /\ a \in Int
    OBVIOUS
  <2> HIDE DEF n
  <2>2. IsFiniteSet(a..n) /\ Cardinality(a..n) = IF a > n THEN 0 ELSE n - a + 1
    BY <2>1, FS_Interval
  <2> QED
    BY <2>2 DEF n
<1>3. Cardinality(S) \in Nat
  BY FS_CardinalityType
<1>4. ASSUME NEW k \in a..(b - 1) PROVE \E x \in cut : f[x] = k
  <2>1. k \in Nat /\ k < Cardinality(S)
    BY <1>3
  <2>2. PICK x \in S : Place(before, x) = k
    BY <2>1, PlacesTaken
  <2> QED
    BY <2>2 DEF Cut
<1>5. f \in Surjection(cut, a..(b - 1))
  BY <1>1, <1>4 DEF Surjection, Injection
<1> HIDE DEF f, cut
<1>6. Cardinality(cut) = Cardinality(a..(b - 1))
  BY <1>1, <1>2, <1>5, FS_Injection
<1> QED
  BY <1>2, <1>6 DEF cut

\* Elements that join the set leave the places before theirs alone, and never
\* lower a place.
LEMMA PlaceGrows ==
  ASSUME NEW S, IsFiniteSet(S), NEW before, IsOrder(S, before),
         NEW T, IsFiniteSet(T), NEW after, IsOrder(T, after),
         S \subseteq T, NEW x \in S, before[x] \subseteq after[x]
  PROVE  /\ Place(before, x) <= Place(after, x)
         /\ after[x] = before[x] => Place(before, x) = Place(after, x)
<1>1. IsFiniteSet(after[x])
  BY PlaceType
<1> QED
  BY <1>1, FS_Subset DEF Place

-----------------------------------------------------------------------------
(****************************************************************************)
(* Numbers.                                                                 *)
(****************************************************************************)
\* A set of numbers that has 0, and the next of each, has them all.
LEMMA Induction ==
  ASSUME NEW T, 0 \in T, \A n \in T : n \in Nat => n + 1 \in T
  PROVE  Nat \subseteq T
<1> DEFINE less == OpToRel(<, Nat)
           rest == Nat \ T
<1>1. SUFFICES ASSUME rest # {} PROVE FALSE
  OBVIOUS
<1>2. IsWellFoundedOn(less, Nat)
  BY NatLessThanWellFounded
<1>3. \A m, n \in Nat : m < n => <<m, n>> \in less
  BY DEF OpToRel
<1>4. PICK n \in rest : \A m \in rest : <<m, n>> \notin less
  <2> HIDE DEF less
  <2> QED
    BY <1>1, <1>2, WFMin
<1> HIDE DEF less
<1>5. PICK k \in Nat : k + 1 = n /\ k < n
  <2>1. n \in Nat /\ n # 0
    OBVIOUS
  <2>2. n - 1 \in Nat /\ (n - 1) + 1 = n /\ n - 1 < n
    BY <2>1
  <2> QED
    BY <2>2
<1>6. k \in T
  BY <1>3, <1>4, <1>5
<1> QED
  BY <1>4, <1>5, <1>6

-----------------------------------------------------------------------------
(****************************************************************************)
(* The places of a sequence, and what a filter and flat() leave.            *)
(****************************************************************************)
\* (Named, so that the provers do not take the places for numbers too early.)
ArePlaces(I, len) == len \in Nat /\ I \subseteq 1..len

\* Places of a sequence are finitely many.
LEMMA PlacesFinite ==
  ASSUME NEW len, NEW I, ArePlaces(I, len)
  PROVE  IsFiniteSet(I) /\ Cardinality(I) \in Nat
<1>1. len \in Int /\ 1 \in Int
  BY DEF ArePlaces
<1>2. IsFiniteSet(1..len)
  BY <1>1, FS_Interval
<1>3. IsFiniteSet(I)
  BY <1>2, FS_Subset DEF ArePlaces
<1> QED
  BY <1>3, FS_CardinalityType

\* The places of a sequence are an order: the smaller before the larger.
LEMMA PlacesOrdered ==
  ASSUME NEW I, I \subseteq Nat
  PROVE  IsOrder(I, [i \in I |-> {j \in I : j < i}])
<1> DEFINE before == [i \in I |-> {j \in I : j < i}]
<1>1. before \in [I -> SUBSET I]
  OBVIOUS
<1>2. \A i \in I : i \notin before[i]
  OBVIOUS
<1>3. ASSUME NEW i \in I, NEW h \in I, i \in before[h], NEW x \in before[i]
      PROVE  x \in before[h]
  <2>1. x \in I /\ x < i /\ i < h
    BY <1>3
  <2>2. x \in Int /\ i \in Int /\ h \in Int
    BY <2>1
  <2> QED
    BY <2>1, <2>2
<1>4. \A i, h \in I : i # h => i \in before[h] \/ h \in before[i]
  OBVIOUS
<1> HIDE DEF before
<1>5. IsOrder(I, before)
  BY <1>1, <1>2, <1>3, <1>4 DEF IsOrder
<1> QED
  BY <1>5 DEF before

\* Of a finite set of places, exactly one has k of them before it.
LEMMA NthPlace ==
  ASSUME NEW len, NEW I, ArePlaces(I, len), NEW k \in Nat, k < Cardinality(I)
  PROVE  /\ \E i \in I : Cardinality({j \in I : j < i}) = k
         /\ \A i, h \in I : Cardinality({j \in I : j < i}) = Cardinality({j \in I : j < h})
                            => i = h
<1> DEFINE before == [i \in I |-> {j \in I : j < i}]
<1>1. IsFiniteSet(I)
  BY PlacesFinite
<1>2. IsOrder(I, before)
  <2>1. I \subseteq Nat
    BY DEF ArePlaces
  <2> QED
    BY <2>1, PlacesOrdered
<1>3. \A i \in I : Place(before, i) = Cardinality({j \in I : j < i})
  BY DEF Place
<1> HIDE DEF before
<1>4. \E i \in I : Place(before, i) = k
  <2> QED
    BY <1>1, <1>2, PlacesTaken
<1>5. \A i, h \in I : Place(before, i) = Place(before, h) => i = h
  BY <1>1, <1>2, PlaceInjective
<1> QED
  BY <1>3, <1>4, <1>5

\* The number of places before a place tells which one it is.
LEMMA PlaceOfOne ==
  ASSUME NEW len, NEW I, ArePlaces(I, len), NEW i \in I
  PROVE  /\ Cardinality({j \in I : j < i}) \in Nat
         /\ Cardinality({j \in I : j < i}) < Cardinality(I)
         /\ Cardinality(I) \in Nat
<1> DEFINE before == [h \in I |-> {j \in I : j < h}]
<1>1. IsFiniteSet(I)
  BY PlacesFinite
<1>2. IsOrder(I, before)
  <2>1. I \subseteq Nat
    BY DEF ArePlaces
  <2> QED
    BY <2>1, PlacesOrdered
<1>3. Place(before, i) = Cardinality({j \in I : j < i})
  BY DEF Place
<1> HIDE DEF before
<1> QED
  BY <1>1, <1>2, <1>3, PlaceType, FS_CardinalityType

\* A filter takes one element from each of the places and no other.
LEMMA AtPlacesElements ==
  ASSUME NEW s, NEW len, NEW I, ArePlaces(I, len)
  PROVE  /\ AtPlaces(s, I) \in Seq({s[i] : i \in I})
         /\ Len(AtPlaces(s, I)) = Cardinality(I)
         /\ ToSet(AtPlaces(s, I)) = {s[i] : i \in I}
<1> DEFINE nth(n) == CHOOSE i \in I : Cardinality({j \in I : j < i}) = n - 1
<1>1. Cardinality(I) \in Nat
  BY PlacesFinite
<1>2. ASSUME NEW n \in 1..Cardinality(I)
      PROVE  nth(n) \in I /\ Cardinality({j \in I : j < nth(n)}) = n - 1
  <2>1. n - 1 \in Nat /\ n - 1 < Cardinality(I)
    BY <1>1
  <2>2. \E i \in I : Cardinality({j \in I : j < i}) = n - 1
    BY <2>1, NthPlace
  <2> QED
    BY <2>2
<1>3. AtPlaces(s, I) = [n \in 1..Cardinality(I) |-> s[nth(n)]]
  BY DEF AtPlaces
<1> HIDE DEF nth
<1>4. AtPlaces(s, I) \in Seq({s[i] : i \in I}) /\ Len(AtPlaces(s, I)) = Cardinality(I)
  <2> DEFINE c == Cardinality(I)
  <2>1. \A n \in 1..c : s[nth(n)] \in {s[i] : i \in I}
    BY <1>2
  <2>2. c \in Nat
    BY <1>1
  <2> HIDE DEF c
  <2>3. AtPlaces(s, I) = [n \in 1..c |-> s[nth(n)]]
    BY <1>3 DEF c
  <2> QED
    BY <2>1, <2>2, <2>3 DEF c
<1>5. ASSUME NEW i \in I PROVE \E n \in DOMAIN AtPlaces(s, I) : AtPlaces(s, I)[n] = s[i]
  <2> DEFINE k == Cardinality({j \in I : j < i})
  <2>1. k \in Nat /\ k < Cardinality(I)
    BY PlaceOfOne
  <2>2. k + 1 \in 1..Cardinality(I)
    BY <1>1, <2>1
  <2>3. nth(k + 1) \in I /\ Cardinality({j \in I : j < nth(k + 1)}) = k
    <3> HIDE DEF k
    <3>1. (k + 1) - 1 = k
      BY <2>1
    <3> QED
      BY <1>2, <2>2, <3>1
  <2>4. nth(k + 1) = i
    <3>1. \A h \in I : Cardinality({j \in I : j < i}) = Cardinality({j \in I : j < h})
                         => i = h
      BY <2>1, NthPlace
    <3> QED
      BY <2>3, <3>1
  <2> HIDE DEF k
  <2> QED
    BY <1>3, <2>2, <2>4
<1>6. ToSet(AtPlaces(s, I)) = {s[i] : i \in I}
  <2> DEFINE t == AtPlaces(s, I)
  <2>1. \A i \in I : \E n \in DOMAIN t : t[n] = s[i]
    BY <1>5
  <2>2. \A n \in DOMAIN t : \E i \in I : t[n] = s[i]
    BY <1>4
  <2> HIDE DEF t
  <2>3. ToSet(t) = {s[i] : i \in I}
    BY <2>1, <2>2 DEF ToSet
  <2> QED
    BY <2>3 DEF t
<1> QED
  BY <1>4, <1>6

\* What a filter leaves is a sequence of the same kind.
LEMMA FilterElements ==
  ASSUME NEW S, NEW s \in Seq(S), NEW I, I \subseteq DOMAIN s
  PROVE  /\ AtPlaces(s, I) \in Seq(S)
         /\ ToSet(AtPlaces(s, I)) = {s[i] : i \in I}
         /\ Len(AtPlaces(s, I)) = Cardinality(I)
<1>1. ArePlaces(I, Len(s))
  BY DEF ArePlaces
<1> DEFINE t == AtPlaces(s, I)
<1>2. t \in Seq({s[i] : i \in I})
  BY <1>1, AtPlacesElements
<1>3. ToSet(t) = {s[i] : i \in I}
  BY <1>1, AtPlacesElements
<1>4. Len(t) = Cardinality(I)
  BY <1>1, AtPlacesElements
<1> HIDE DEF t
<1>5. \A n \in DOMAIN t : \E i \in I : t[n] = s[i]
  BY <1>2
<1>7. \A n \in 1..Len(t) : t[n] \in S
  <2>1. \A i \in I : s[i] \in S
    OBVIOUS
  <2> QED
    BY <1>2, <1>5, <2>1
<1>8. t \in Seq(S)
  BY <1>2, <1>7
<1> QED
  BY <1>3, <1>4, <1>8 DEF t

\* f[n] is what the first n sequences of ss make when they are put together.
IsFlat(f, ss, m) == f = [i \in 1..m |-> IF i = 1 THEN ss[i] ELSE f[i - 1] \o ss[i]]

\* The sequence of what the first m arrays leave exists, for every m.
LEMMA FlatExists ==
  ASSUME NEW S, NEW ss \in Seq(Seq(S)), Len(ss) # 0
  PROVE  \E f : IsFlat(f, ss, Len(ss))
<1> DEFINE n == Len(ss)
           T == {m \in Nat : m \in 1..n => \E f \in [1..m -> Seq(S)] : IsFlat(f, ss, m)}
<1>1. 0 \in T
  OBVIOUS
<1>2. ASSUME NEW m \in T, m \in Nat PROVE m + 1 \in T
  <2>1. SUFFICES ASSUME m + 1 \in 1..n
                 PROVE  \E f \in [1..(m + 1) -> Seq(S)] : IsFlat(f, ss, m + 1)
    OBVIOUS
  <2>2. ss[m + 1] \in Seq(S)
    BY <2>1
  <2>3. CASE m = 0
    <3> DEFINE f == [i \in 1..1 |-> ss[1]]
    <3>1. f \in [1..1 -> Seq(S)]
      BY <2>2, <2>3
    <3>2. IsFlat(f, ss, 1)
      BY DEF IsFlat
    <3> QED
      BY <2>3, <3>1, <3>2
  <2>4. CASE m # 0
    <3>1. m \in 1..n
      BY <2>1, <2>4
    <3>2. PICK f \in [1..m -> Seq(S)] : IsFlat(f, ss, m)
      BY <3>1
    <3> DEFINE g == [i \in 1..(m + 1) |-> IF i = m + 1 THEN f[m] \o ss[m + 1] ELSE f[i]]
    <3>3. f[m] \in Seq(S)
      BY <3>1
    <3>4. f[m] \o ss[m + 1] \in Seq(S)
      BY <2>2, <3>3
    <3>5. g \in [1..(m + 1) -> Seq(S)]
      BY <3>4
    <3>6. \A i \in 1..m : f[i] = IF i = 1 THEN ss[i] ELSE f[i - 1] \o ss[i]
      BY <3>2 DEF IsFlat
    <3>7. ASSUME NEW i \in 1..(m + 1)
          PROVE  g[i] = IF i = 1 THEN ss[i] ELSE g[i - 1] \o ss[i]
      <4>1. CASE i = m + 1
        <5>1. i # 1 /\ i - 1 = m /\ m # m + 1 /\ m \in 1..(m + 1)
          BY <2>4, <4>1
        <5>2. g[m] = f[m] /\ g[i] = f[m] \o ss[i]
          BY <4>1, <5>1
        <5> QED
          BY <5>1, <5>2
      <4>2. CASE i # m + 1
        <5>1. i \in 1..m
          BY <4>2
        <5>2. g[i] = f[i]
          BY <4>2
        <5>3. i # 1 => i - 1 \in 1..(m + 1) /\ i - 1 # m + 1
          BY <5>1
        <5>4. i # 1 => g[i - 1] = f[i - 1]
          BY <5>3
        <5> QED
          BY <3>6, <5>1, <5>2, <5>4
      <4> QED
        BY <4>1, <4>2
    <3>8. IsFlat(g, ss, m + 1)
      <4>1. g = [i \in 1..(m + 1) |-> g[i]]
        OBVIOUS
      <4> HIDE DEF g
      <4> QED
        BY <3>7, <4>1 DEF IsFlat
    <3> QED
      BY <3>5, <3>8
  <2> QED
    BY <2>3, <2>4
<1> HIDE DEF T
<1>3. Nat \subseteq T
  BY <1>1, <1>2, Induction
<1>4. n \in Nat /\ n \in 1..n
  OBVIOUS
<1> QED
  BY <1>3, <1>4 DEF T

\* A spread of two arrays has the elements of both.
LEMMA ToSetOfConcat ==
  ASSUME NEW S, NEW s \in Seq(S), NEW t \in Seq(S)
  PROVE  ToSet(s \o t) = ToSet(s) \cup ToSet(t)
<1>1. /\ DOMAIN (s \o t) = 1..(Len(s) + Len(t))
      /\ \A i \in 1..Len(s) : (s \o t)[i] = s[i]
      /\ \A i \in 1..Len(t) : (s \o t)[Len(s) + i] = t[i]
  OBVIOUS
<1>2. \A k \in 1..(Len(s) + Len(t)) :
        k \in 1..Len(s) \/ \E i \in 1..Len(t) : k = Len(s) + i
  <2>1. ASSUME NEW k \in 1..(Len(s) + Len(t)), k \notin 1..Len(s)
        PROVE  k - Len(s) \in 1..Len(t) /\ k = Len(s) + (k - Len(s))
    BY <2>1
  <2> QED
    BY <2>1
<1>3. \A i \in 1..Len(t) : Len(s) + i \in 1..(Len(s) + Len(t))
  OBVIOUS
<1>4. \A i \in 1..Len(s) : i \in 1..(Len(s) + Len(t))
  OBVIOUS
<1> DEFINE u == s \o t
<1>5. /\ \A k \in DOMAIN u : u[k] \in ToSet(s) \cup ToSet(t)
      /\ \A i \in DOMAIN s : \E k \in DOMAIN u : u[k] = s[i]
  BY <1>1, <1>2, <1>4 DEF ToSet
<1>7. ASSUME NEW i \in DOMAIN t PROVE \E k \in DOMAIN u : u[k] = t[i]
  <2>1. i \in 1..Len(t)
    OBVIOUS
  <2>2. Len(s) + i \in DOMAIN u /\ u[Len(s) + i] = t[i]
    BY <1>1, <1>3, <2>1
  <2> QED
    BY <2>2
<1> HIDE DEF u
<1>6. ToSet(u) = ToSet(s) \cup ToSet(t)
  BY <1>5, <1>7 DEF ToSet
<1> QED
  BY <1>6 DEF u

\* flat() leaves the elements of all the arrays.
LEMMA FlattenElements ==
  ASSUME NEW S, NEW ss \in Seq(Seq(S))
  PROVE  /\ FlattenSeq(ss) \in Seq(S)
         /\ ToSet(FlattenSeq(ss)) = UNION {ToSet(ss[i]) : i \in DOMAIN ss}
<1>1. CASE Len(ss) = 0
  <2>1. FlattenSeq(ss) = <<>> /\ DOMAIN ss = {}
    BY <1>1 DEF FlattenSeq
  <2> QED
    BY <2>1 DEF ToSet
<1>2. CASE Len(ss) # 0
  <2> DEFINE n == Len(ss)
             f == CHOOSE g : IsFlat(g, ss, n)
             T == {m \in Nat : m \in 1..n =>
                     /\ f[m] \in Seq(S)
                     /\ ToSet(f[m]) = UNION {ToSet(ss[i]) : i \in 1..m}}
  <2>1. FlattenSeq(ss) = f[n]
    BY <1>2 DEF FlattenSeq, IsFlat
  <2>2. IsFlat(f, ss, n)
    BY <1>2, FlatExists
  <2>3. \A i \in 1..n : f[i] = IF i = 1 THEN ss[i] ELSE f[i - 1] \o ss[i]
    <3> HIDE DEF f
    <3> QED
      BY <2>2 DEF IsFlat
  <2> HIDE DEF f
  <2>4. 0 \in T
    OBVIOUS
  <2>5. ASSUME NEW m \in T, m \in Nat PROVE m + 1 \in T
    <3>1. SUFFICES ASSUME m + 1 \in 1..n
                   PROVE  /\ f[m + 1] \in Seq(S)
                          /\ ToSet(f[m + 1]) = UNION {ToSet(ss[i]) : i \in 1..(m + 1)}
      OBVIOUS
    <3>2. ss[m + 1] \in Seq(S)
      BY <3>1
    <3>3. CASE m = 0
      <4>1. f[1] = ss[1] /\ 1..1 = {1}
        BY <2>3, <3>1, <3>3
      <4> QED
        BY <3>2, <3>3, <4>1
    <3>4. CASE m # 0
      <4>1. m \in 1..n /\ m + 1 # 1 /\ (m + 1) - 1 = m
        <5>1. n \in Nat
          OBVIOUS
        <5> HIDE DEF n, T
        <5> QED
          BY <2>5, <3>1, <3>4, <5>1
      <4>2. f[m + 1] = f[m] \o ss[m + 1]
        BY <2>3, <3>1, <4>1
      <4>3. f[m] \in Seq(S) /\ ToSet(f[m]) = UNION {ToSet(ss[i]) : i \in 1..m}
        BY <4>1
      <4>4. ToSet(f[m + 1]) = ToSet(f[m]) \cup ToSet(ss[m + 1])
        BY <3>2, <4>2, <4>3, ToSetOfConcat
      <4>5. 1..(m + 1) = (1..m) \cup {m + 1}
        OBVIOUS
      <4> QED
        BY <3>2, <4>2, <4>3, <4>4, <4>5
    <3> QED
      BY <3>3, <3>4
  <2> HIDE DEF T
  <2>6. Nat \subseteq T
    BY <2>4, <2>5, Induction
  <2>7. n \in Nat /\ n \in 1..n /\ DOMAIN ss = 1..n
    BY <1>2
  <2> QED
    BY <2>1, <2>6, <2>7 DEF T
<1> QED
  BY <1>1, <1>2

-----------------------------------------------------------------------------
(***************************************************************************)
(* Sequences, whatever their elements.                                     *)
(***************************************************************************)
IsSequence(s) == s \in Seq(ToSet(s))

\* A sequence of elements of S is a sequence, and its elements are in S.
LEMMA SequencesAre ==
  ASSUME NEW S, NEW s \in Seq(S)
  PROVE  IsSequence(s) /\ ToSet(s) \subseteq S
<1>1. \A i \in 1..Len(s) : s[i] \in ToSet(s)
  BY DEF ToSet
<1>2. s \in Seq(ToSet(s))
  BY <1>1
<1> QED
  BY <1>2 DEF IsSequence, ToSet

\* What is put together, filtered, mapped or flattened is a sequence of what
\* was there.
LEMMA Concatenated ==
  ASSUME NEW s, NEW t, IsSequence(s), IsSequence(t)
  PROVE  IsSequence(s \o t) /\ ToSet(s \o t) = ToSet(s) \cup ToSet(t)
<1> DEFINE S == ToSet(s) \cup ToSet(t)
<1>1. s \in Seq(S) /\ t \in Seq(S)
  <2>1. s \in Seq(ToSet(s)) /\ t \in Seq(ToSet(t))
    BY DEF IsSequence
  <2>2. \A A, B : A \subseteq B => Seq(A) \subseteq Seq(B)
    OBVIOUS
  <2>3. ToSet(s) \subseteq S /\ ToSet(t) \subseteq S
    OBVIOUS
  <2> HIDE DEF S
  <2> QED
    BY <2>1, <2>2, <2>3
<1> HIDE DEF S
<1>2. s \o t \in Seq(S)
  BY <1>1
<1>3. IsSequence(s \o t)
  BY <1>2, SequencesAre
<1>4. ToSet(s \o t) = ToSet(s) \cup ToSet(t)
  BY <1>1, ToSetOfConcat
<1> QED
  BY <1>3, <1>4

LEMMA FilteredSequence ==
  ASSUME NEW s, IsSequence(s), NEW I, I \subseteq DOMAIN s
  PROVE  /\ IsSequence(AtPlaces(s, I))
         /\ ToSet(AtPlaces(s, I)) = {s[i] : i \in I}
         /\ Len(AtPlaces(s, I)) = Cardinality(I)
<1> DEFINE S == ToSet(s)
<1>1. s \in Seq(S)
  BY DEF IsSequence
<1> HIDE DEF S
<1>2. AtPlaces(s, I) \in Seq(S)
  BY <1>1, FilterElements
<1>3. ToSet(AtPlaces(s, I)) = {s[i] : i \in I} /\ Len(AtPlaces(s, I)) = Cardinality(I)
  BY <1>1, FilterElements
<1> QED
  BY <1>2, <1>3, SequencesAre

LEMMA Tabulated ==
  ASSUME NEW n \in Nat, NEW f, f = [i \in 1..n |-> f[i]]
  PROVE  IsSequence(f) /\ ToSet(f) = {f[i] : i \in 1..n} /\ DOMAIN f = 1..n /\ Len(f) = n
<1>1. ToSet(f) = {f[i] : i \in 1..n}
  BY DEF ToSet
<1>2. f \in Seq({f[i] : i \in 1..n}) /\ Len(f) = n
  OBVIOUS
<1> QED
  BY <1>1, <1>2 DEF IsSequence

LEMMA Flattened ==
  ASSUME NEW n \in Nat, NEW ss, ss = [i \in 1..n |-> ss[i]], \A i \in 1..n : IsSequence(ss[i])
  PROVE  IsSequence(FlattenSeq(ss)) /\ ToSet(FlattenSeq(ss)) = UNION {ToSet(ss[i]) : i \in 1..n}
<1> DEFINE S == UNION {ToSet(ss[i]) : i \in 1..n}
<1>1. ASSUME NEW i \in 1..n PROVE ss[i] \in Seq(S)
  <2>1. ss[i] \in Seq(ToSet(ss[i])) /\ ToSet(ss[i]) \subseteq S
    BY DEF IsSequence
  <2>2. \A A, B : A \subseteq B => Seq(A) \subseteq Seq(B)
    OBVIOUS
  <2> HIDE DEF S
  <2> QED
    BY <2>1, <2>2
<1> HIDE DEF S
<1>2. ss \in Seq(Seq(S)) /\ DOMAIN ss = 1..n
  BY <1>1
<1>3. FlattenSeq(ss) \in Seq(S)
  BY <1>2, FlattenElements
<1>4. ToSet(FlattenSeq(ss)) = UNION {ToSet(ss[i]) : i \in 1..n}
  BY <1>2, FlattenElements
<1> QED
  BY <1>3, <1>4, SequencesAre

LEMMA DomainOfSequence ==
  ASSUME NEW s, IsSequence(s)
  PROVE  DOMAIN s = 1..Len(s) /\ Len(s) \in Nat
BY DEF IsSequence

LEMMA EmptySequence == IsSequence(<<>>) /\ ToSet(<<>>) = {}
BY DEF IsSequence, ToSet

LEMMA OneElement ==
  ASSUME NEW x
  PROVE  IsSequence(<<x>>) /\ ToSet(<<x>>) = {x}
<1>1. ToSet(<<x>>) = {x}
  BY DEF ToSet
<1> QED
  BY <1>1 DEF IsSequence

-----------------------------------------------------------------------------
(***************************************************************************)
(* Filters put together.  Keep(s, V) are the elements of s that are in V,  *)
(* in order, and Map(g, s) the images of the elements.                     *)
(***************************************************************************)
Keep(s, V) == AtPlaces(s, {i \in DOMAIN s : s[i] \in V})
Map(g, s) == [i \in 1..Len(s) |-> g[s[i]]]

\* What <<>> has, and what an element more keeps, every sequence has.
LEMMA SequenceInduction ==
  ASSUME NEW S, NEW T, <<>> \in T,
         \A s \in Seq(S) : \A x \in S : s \in T => Append(s, x) \in T
  PROVE  Seq(S) \subseteq T
<1> DEFINE N == {n \in Nat : \A s \in Seq(S) : Len(s) = n => s \in T}
<1>1. 0 \in N
  <2>1. \A s \in Seq(S) : Len(s) = 0 => s = <<>>
    OBVIOUS
  <2> QED
    BY <2>1
<1>2. ASSUME NEW n \in N, n \in Nat PROVE n + 1 \in N
  <2>1. ASSUME NEW s \in Seq(S), Len(s) = n + 1 PROVE s \in T
    <3> DEFINE front == [i \in 1..n |-> s[i]]
               x == s[n + 1]
    <3>1. x \in S
      BY <1>2, <2>1
    <3>2. \A i \in 1..n : s[i] \in S
      BY <1>2, <2>1
    <3>3. front \in Seq(S) /\ Len(front) = n
      BY <1>2, <3>2
    <3>4. Append(front, x) = s
      <4>1. Append(front, x) = [i \in 1..(n + 1) |-> IF i = n + 1 THEN x ELSE front[i]]
        BY <1>2, <3>3
      <4>2. s = [i \in 1..(n + 1) |-> s[i]]
        BY <2>1
      <4>3. \A i \in 1..(n + 1) : s[i] = IF i = n + 1 THEN x ELSE front[i]
        BY <1>2
      <4> HIDE DEF front, x
      <4> QED
        BY <4>1, <4>2, <4>3
    <3> HIDE DEF front, x
    <3>5. front \in T
      BY <1>2, <3>3
    <3> QED
      BY <3>1, <3>3, <3>4, <3>5
  <2> QED
    BY <1>2, <2>1
<1> HIDE DEF N
<1>3. Nat \subseteq N
  BY <1>1, <1>2, Induction
<1>4. ASSUME NEW s \in Seq(S) PROVE s \in T
  <2>1. Len(s) \in Nat
    OBVIOUS
  <2> QED
    BY <1>3, <2>1 DEF N
<1> QED
  BY <1>4

\* Nothing before the place that is added changes the order of the others.
LEMMA OnePlaceMore ==
  ASSUME NEW n \in Nat, NEW I, ArePlaces(I, n), NEW u
  PROVE  AtPlaces(u, I \cup {n + 1}) = Append(AtPlaces(u, I), u[n + 1])
<1> DEFINE J == I \cup {n + 1}
           B(P, i) == Cardinality({j \in P : j < i})
           c == Cardinality(I)
           old == AtPlaces(u, I)
           new == AtPlaces(u, J)
<1>1. ArePlaces(J, n + 1)
  BY DEF ArePlaces
<1>2. IsFiniteSet(I) /\ c \in Nat
  BY PlacesFinite
<1>3. Cardinality(J) = c + 1
  <2>1. n + 1 \notin I
    BY DEF ArePlaces
  <2> QED
    BY <1>2, <2>1, FS_AddElement
<1>4. \A i \in I : {j \in J : j < i} = {j \in I : j < i}
  BY DEF ArePlaces
<1>5. {j \in J : j < n + 1} = I
  <2>1. \A j \in I : j < n + 1
    <3>1. \A j \in 1..n : j < n + 1
      OBVIOUS
    <3> QED
      BY <3>1, Zenon DEF ArePlaces
  <2>2. ~(n + 1 < n + 1)
    OBVIOUS
  <2> QED
    BY <2>1, <2>2, Zenon
<1>6. ASSUME NEW k \in 1..c
      PROVE  (CHOOSE i \in J : B(J, i) = k - 1) = (CHOOSE i \in I : B(I, i) = k - 1)
  <2> DEFINE i1 == CHOOSE i \in I : B(I, i) = k - 1
             j1 == CHOOSE i \in J : B(J, i) = k - 1
  <2>1. k - 1 \in Nat /\ k - 1 < c /\ k - 1 < Cardinality(J)
    BY <1>2, <1>3
  <2>2. \E i \in I : B(I, i) = k - 1
    <3> DEFINE m == k - 1
    <3> HIDE DEF m
    <3>1. m \in Nat /\ m < Cardinality(I)
      BY <2>1 DEF m
    <3>2. \E i \in I : Cardinality({j \in I : j < i}) = m
      BY <3>1, NthPlace
    <3> QED
      BY <3>2 DEF m
  <2>3. i1 \in I /\ B(I, i1) = k - 1
    BY <2>2
  <2> HIDE DEF i1
  <2>4. i1 \in J /\ B(J, i1) = k - 1
    BY <1>4, <2>3
  <2>5. j1 \in J /\ B(J, j1) = k - 1
    BY <2>4
  <2>6. \A i, h \in J : B(J, i) = B(J, h) => i = h
    <3> DEFINE m == k - 1
    <3> HIDE DEF m, J
    <3>1. m \in Nat /\ m < Cardinality(J)
      BY <2>1 DEF m
    <3> QED
      BY <1>1, <3>1, NthPlace
  <2> HIDE DEF j1, J, B
  <2>7. i1 = j1
    BY <2>4, <2>5, <2>6
  <2> QED
    BY <2>7 DEF i1, j1
<1>7. (CHOOSE i \in J : B(J, i) = (c + 1) - 1) = n + 1
  <2> DEFINE j1 == CHOOSE i \in J : B(J, i) = (c + 1) - 1
  <2>1. n + 1 \in J /\ B(J, n + 1) = (c + 1) - 1
    BY <1>2, <1>5
  <2>2. j1 \in J /\ B(J, j1) = (c + 1) - 1
    BY <2>1
  <2>3. \A i, h \in J : B(J, i) = B(J, h) => i = h
    <3> HIDE DEF J
    <3>1. c \in Nat /\ c < Cardinality(J)
      BY <1>2, <1>3
    <3> QED
      BY <1>1, <3>1, NthPlace
  <2> HIDE DEF j1, J, B
  <2> QED
    BY <2>1, <2>2, <2>3 DEF j1
<1>8. new = [k \in 1..(c + 1) |-> u[CHOOSE i \in J : B(J, i) = k - 1]]
  BY <1>3 DEF AtPlaces
<1>9. old = [k \in 1..c |-> u[CHOOSE i \in I : B(I, i) = k - 1]]
  BY DEF AtPlaces
<1> DEFINE nj(k) == CHOOSE i \in J : B(J, i) = k - 1
           ni(k) == CHOOSE i \in I : B(I, i) = k - 1
<1>10. /\ new = [k \in 1..(c + 1) |-> u[nj(k)]] /\ old = [k \in 1..c |-> u[ni(k)]]
       /\ \A k \in 1..c : nj(k) = ni(k)
       /\ nj(c + 1) = n + 1
  BY <1>6, <1>7, <1>8, <1>9
<1> HIDE DEF nj, ni, old, new, c
<1>11. \A k \in 1..(c + 1) : u[nj(k)] = IF k = c + 1 THEN u[n + 1] ELSE old[k]
  <2>1. ASSUME NEW k \in 1..(c + 1) PROVE u[nj(k)] = IF k = c + 1 THEN u[n + 1] ELSE old[k]
    <3>1. CASE k = c + 1
      BY <1>10, <3>1
    <3>2. CASE k # c + 1
      <4>1. k \in 1..c
        BY <1>2, <3>2
      <4> QED
        BY <1>10, <3>2, <4>1
    <3> QED
      BY <3>1, <3>2
  <2> QED
    BY <2>1
<1>12. Append(old, u[n + 1]) = [k \in 1..(c + 1) |-> IF k = c + 1 THEN u[n + 1] ELSE old[k]]
  <2>1. old \in Seq({old[k] : k \in 1..c}) /\ Len(old) = c /\ DOMAIN old = 1..c
    BY <1>2, <1>10
  <2>2. \A k \in 1..(c + 1) : k # c + 1 => k \in 1..c
    BY <1>2
  <2> QED
    BY <1>2, <2>1, <2>2
<1>13. new = Append(old, u[n + 1])
  BY <1>10, <1>11, <1>12
<1> QED
  BY <1>13 DEF new, old

LEMMA KeepType ==
  ASSUME NEW S, NEW s \in Seq(S), NEW V
  PROVE  Keep(s, V) \in Seq(S)
<1> DEFINE I == {i \in DOMAIN s : s[i] \in V}
<1>1. I \subseteq DOMAIN s
  OBVIOUS
<1> HIDE DEF I
<1>2. AtPlaces(s, I) \in Seq(S)
  BY <1>1, FilterElements
<1> QED
  BY <1>2 DEF Keep, I

LEMMA KeepOfNone ==
  ASSUME NEW V
  PROVE  Keep(<<>>, V) = <<>>
<1>1. {i \in DOMAIN <<>> : <<>>[i] \in V} = {}
  OBVIOUS
<1>2. Cardinality({}) = 0
  BY FS_EmptySet
<1>3. AtPlaces(<<>>, {}) = <<>>
  BY <1>2 DEF AtPlaces
<1> QED
  BY <1>1, <1>3 DEF Keep

\* An element more is kept when it is in V.
LEMMA KeepAppend ==
  ASSUME NEW S, NEW s \in Seq(S), NEW x \in S, NEW V
  PROVE  Keep(Append(s, x), V) = IF x \in V THEN Append(Keep(s, V), x) ELSE Keep(s, V)
<1> DEFINE u == Append(s, x)
           n == Len(s)
           I == {i \in DOMAIN s : s[i] \in V}
           J == {i \in DOMAIN u : u[i] \in V}
<1>1. /\ n \in Nat /\ DOMAIN s = 1..n /\ DOMAIN u = 1..(n + 1)
      /\ u[n + 1] = x /\ \A i \in 1..n : u[i] = s[i]
  OBVIOUS
<1>2. ArePlaces(I, n)
  BY <1>1 DEF ArePlaces
<1>3. AtPlaces(u, I) = AtPlaces(s, I)
  <2> DEFINE c == Cardinality(I)
             nth(k) == CHOOSE i \in I : Cardinality({j \in I : j < i}) = k - 1
  <2>1. c \in Nat
    BY <1>2, PlacesFinite
  <2>2. ASSUME NEW k \in 1..c PROVE u[nth(k)] = s[nth(k)]
    <3> DEFINE m == k - 1
    <3>1. m \in Nat /\ m < Cardinality(I)
      BY <2>1
    <3>2. \E i \in I : Cardinality({j \in I : j < i}) = k - 1
      <4> HIDE DEF m, I
      <4>1. \E i \in I : Cardinality({j \in I : j < i}) = m
        BY <1>2, <3>1, NthPlace
      <4> QED
        BY <4>1 DEF m
    <3>3. nth(k) \in I
      BY <3>2
    <3>4. nth(k) \in 1..n
      BY <1>1, <3>3
    <3> HIDE DEF u, nth
    <3> QED
      BY <1>1, <3>4
  <2>3. /\ AtPlaces(u, I) = [k \in 1..c |-> u[nth(k)]]
        /\ AtPlaces(s, I) = [k \in 1..c |-> s[nth(k)]]
    BY DEF AtPlaces
  <2> HIDE DEF u, nth, c, I
  <2> QED
    BY <2>2, <2>3
<1> HIDE DEF u
<1>4. CASE x \in V
  <2>1. J = I \cup {n + 1}
    <3>1. DOMAIN u = DOMAIN s \cup {n + 1} /\ \A i \in DOMAIN s : u[i] = s[i]
      BY <1>1
    <3> QED
      BY <1>1, <1>4, <3>1
  <2> HIDE DEF I, J
  <2>2. AtPlaces(u, I \cup {n + 1}) = Append(AtPlaces(u, I), u[n + 1])
    BY <1>1, <1>2, OnePlaceMore
  <2> QED
    BY <1>1, <1>3, <1>4, <2>1, <2>2 DEF Keep, I, J, u
<1>5. CASE x \notin V
  <2>1. J = I
    <3>1. DOMAIN u = DOMAIN s \cup {n + 1} /\ \A i \in DOMAIN s : u[i] = s[i]
      BY <1>1
    <3> QED
      BY <1>1, <1>5, <3>1
  <2> QED
    BY <1>3, <1>5, <2>1 DEF Keep, u
<1> QED
  BY <1>4, <1>5

\* A filter of two sequences put together.
LEMMA KeepConcat ==
  ASSUME NEW S, NEW s \in Seq(S), NEW t \in Seq(S), NEW V
  PROVE  Keep(s \o t, V) = Keep(s, V) \o Keep(t, V)
<1> DEFINE T == {r \in Seq(S) : Keep(s \o r, V) = Keep(s, V) \o Keep(r, V)}
<1>1. <<>> \in T
  <2>1. Keep(s, V) \in Seq(S)
    BY KeepType
  <2>2. s \o <<>> = s /\ Keep(s, V) \o <<>> = Keep(s, V)
    BY <2>1
  <2>3. Keep(<<>>, V) = <<>>
    BY KeepOfNone
  <2>4. Keep(s \o <<>>, V) = Keep(s, V) \o Keep(<<>>, V)
    BY <2>2, <2>3, Zenon
  <2>5. <<>> \in Seq(S)
    OBVIOUS
  <2> QED
    BY <2>4, <2>5, Zenon
<1>2. ASSUME NEW r \in Seq(S), NEW x \in S, r \in T PROVE Append(r, x) \in T
  <2> DEFINE k == Keep(s, V)
             l == Keep(r, V)
             z == s \o r
  <2>1. k \in Seq(S) /\ l \in Seq(S) /\ z \in Seq(S)
    BY KeepType
  <2>2. Keep(z, V) = k \o l
    BY <1>2
  <2>3. s \o Append(r, x) = Append(z, x)
    OBVIOUS
  <2>4. Keep(Append(z, x), V) = IF x \in V THEN Append(Keep(z, V), x) ELSE Keep(z, V)
    BY <2>1, KeepAppend
  <2>5. Keep(Append(r, x), V) = IF x \in V THEN Append(l, x) ELSE l
    BY KeepAppend
  <2> HIDE DEF k, l, z
  <2>6. k \o Append(l, x) = Append(k \o l, x)
    BY <2>1
  <2>7. Keep(s \o Append(r, x), V) = k \o Keep(Append(r, x), V)
    BY <2>2, <2>3, <2>4, <2>5, <2>6
  <2>8. Append(r, x) \in Seq(S)
    OBVIOUS
  <2> QED
    BY <2>7, <2>8 DEF k
<1> HIDE DEF T
<1>3. Seq(S) \subseteq T
  BY <1>1, <1>2, SequenceInduction
<1> QED
  BY <1>3 DEF T

\* A filter of what a filter left.
LEMMA KeepTwice ==
  ASSUME NEW S, NEW s \in Seq(S), NEW V, NEW W
  PROVE  Keep(Keep(s, V), W) = Keep(s, V \cap W)
<1> DEFINE T == {r \in Seq(S) : Keep(Keep(r, V), W) = Keep(r, V \cap W)}
<1>1. <<>> \in T
  BY KeepOfNone
<1>2. ASSUME NEW r \in Seq(S), NEW x \in S, r \in T PROVE Append(r, x) \in T
  <2>1. Keep(r, V) \in Seq(S)
    BY KeepType
  <2>2. Keep(Append(r, x), V) = IF x \in V THEN Append(Keep(r, V), x) ELSE Keep(r, V)
    BY KeepAppend
  <2>3. Keep(Append(r, x), V \cap W)
          = IF x \in V \cap W THEN Append(Keep(r, V \cap W), x) ELSE Keep(r, V \cap W)
    BY KeepAppend
  <2>4. Keep(Append(Keep(r, V), x), W)
          = IF x \in W THEN Append(Keep(Keep(r, V), W), x) ELSE Keep(Keep(r, V), W)
    BY <2>1, KeepAppend
  <2>5. Keep(Keep(r, V), W) = Keep(r, V \cap W)
    BY <1>2
  <2>6. Keep(Keep(Append(r, x), V), W) = Keep(Append(r, x), V \cap W)
    <3>1. CASE x \notin V
      BY <2>2, <2>3, <2>5, <3>1, Zenon
    <3>2. CASE x \in V /\ x \notin W
      BY <2>2, <2>3, <2>4, <2>5, <3>2, Zenon
    <3>3. CASE x \in V /\ x \in W
      BY <2>2, <2>3, <2>4, <2>5, <3>3, Zenon
    <3> QED
      BY <3>1, <3>2, <3>3
  <2> QED
    BY <2>6
<1> HIDE DEF T
<1>3. Seq(S) \subseteq T
  BY <1>1, <1>2, SequenceInduction
<1> QED
  BY <1>3 DEF T

LEMMA MapType ==
  ASSUME NEW S, NEW R, NEW g \in [S -> R], NEW s \in Seq(S)
  PROVE  Map(g, s) \in Seq(R) /\ Len(Map(g, s)) = Len(s)
<1>1. \A i \in 1..Len(s) : g[s[i]] \in R
  OBVIOUS
<1> QED
  BY <1>1 DEF Map

\* An element more is an image more.
LEMMA MapAppend ==
  ASSUME NEW S, NEW R, NEW g \in [S -> R], NEW s \in Seq(S), NEW x \in S
  PROVE  Map(g, Append(s, x)) = Append(Map(g, s), g[x])
<1> DEFINE n == Len(s)
           u == Append(s, x)
           m == Map(g, s)
<1>1. /\ n \in Nat /\ Len(u) = n + 1 /\ u[n + 1] = x /\ \A i \in 1..n : u[i] = s[i]
  OBVIOUS
<1>2. m \in Seq(R) /\ Len(m) = n /\ \A i \in 1..n : m[i] = g[s[i]]
  BY MapType DEF Map
<1>3. Map(g, u) = [i \in 1..(n + 1) |-> g[u[i]]]
  BY <1>1 DEF Map
<1> HIDE DEF u, m, n
<1>4. Append(m, g[x]) = [i \in 1..(n + 1) |-> IF i = n + 1 THEN g[x] ELSE m[i]]
  BY <1>2
<1>5. \A i \in 1..(n + 1) : g[u[i]] = IF i = n + 1 THEN g[x] ELSE m[i]
  <2>1. \A i \in 1..(n + 1) : i # n + 1 => i \in 1..n
    BY <1>1
  <2> QED
    BY <1>1, <1>2, <2>1
<1> QED
  BY <1>3, <1>4, <1>5 DEF u, m

\* A filter of the images is the image of a filter.
MapKept(S, R, g, s, V, W) == Keep(Map(g, s), V) = Map(g, Keep(s, W))

LEMMA KeepOfMap ==
  ASSUME NEW S, NEW R, NEW g \in [S -> R], NEW s \in Seq(S), NEW V,
         NEW W, \A x \in S : x \in W <=> g[x] \in V
  PROVE  MapKept(S, R, g, s, V, W)
<1> DEFINE T == {r \in Seq(S) : Keep(Map(g, r), V) = Map(g, Keep(r, W))}
<1>1. <<>> \in T
  <2>1. Map(g, <<>>) = <<>>
    BY DEF Map
  <2> QED
    BY <2>1, KeepOfNone
<1>2. ASSUME NEW r \in Seq(S), NEW x \in S, r \in T PROVE Append(r, x) \in T
  <2>1. x \in W <=> g[x] \in V
    OBVIOUS
  <2>2. Map(g, Append(r, x)) = Append(Map(g, r), g[x])
    BY MapAppend
  <2>3. Map(g, r) \in Seq(R) /\ g[x] \in R
    BY MapType
  <2>4. Keep(Append(Map(g, r), g[x]), V)
          = IF g[x] \in V THEN Append(Keep(Map(g, r), V), g[x]) ELSE Keep(Map(g, r), V)
    BY <2>3, KeepAppend
  <2>5. Keep(Append(r, x), W) = IF x \in W THEN Append(Keep(r, W), x) ELSE Keep(r, W)
    BY KeepAppend
  <2>6. Keep(r, W) \in Seq(S)
    BY KeepType
  <2>7. Map(g, Append(Keep(r, W), x)) = Append(Map(g, Keep(r, W)), g[x])
    BY <2>6, MapAppend
  <2>8. Keep(Map(g, r), V) = Map(g, Keep(r, W))
    BY <1>2
  <2>9. Keep(Map(g, Append(r, x)), V) = Map(g, Keep(Append(r, x), W))
    BY <2>1, <2>2, <2>4, <2>5, <2>7, <2>8
  <2> QED
    BY <2>9
<1> HIDE DEF T
<1>3. Seq(S) \subseteq T
  BY <1>1, <1>2, SequenceInduction
<1> QED
  BY <1>3 DEF T, MapKept

-----------------------------------------------------------------------------
(***************************************************************************)
(* The same elements in another order: whatever is looked for, the two     *)
(* sequences have equally many of it.                                      *)
(***************************************************************************)
HowMany(s, V) == Len(Keep(s, V))
Rearranged(s, t) == \A V : HowMany(s, V) = HowMany(t, V)

\* The number of elements looked for.
LEMMA CountIs ==
  ASSUME NEW S, NEW s \in Seq(S), NEW V
  PROVE  /\ HowMany(s, V) \in Nat
         /\ HowMany(s, V) = Cardinality({i \in DOMAIN s : s[i] \in V})
<1> DEFINE I == {i \in DOMAIN s : s[i] \in V}
<1>1. I \subseteq DOMAIN s
  OBVIOUS
<1> HIDE DEF I
<1>2. Len(AtPlaces(s, I)) = Cardinality(I) /\ AtPlaces(s, I) \in Seq(S)
  BY <1>1, FilterElements
<1>3. Len(AtPlaces(s, I)) \in Nat
  <2> DEFINE a == AtPlaces(s, I)
  <2> HIDE DEF a
  <2>1. a \in Seq(S) => Len(a) \in Nat
    OBVIOUS
  <2> QED
    BY <1>2, <2>1 DEF a
<1> QED
  BY <1>2, <1>3 DEF HowMany, Keep, I

\* The numbers of two sequences put together add up.
CountsAdd(s, t, V) == HowMany(s \o t, V) = HowMany(s, V) + HowMany(t, V)

LEMMA CountConcat ==
  ASSUME NEW S, NEW s \in Seq(S), NEW t \in Seq(S), NEW V
  PROVE  CountsAdd(s, t, V)
<1> DEFINE k == Keep(s, V)
           l == Keep(t, V)
<1>1. k \in Seq(S) /\ l \in Seq(S)
  BY KeepType
<1>2. Keep(s \o t, V) = k \o l
  BY KeepConcat
<1> HIDE DEF k, l
<1>3. Len(k \o l) = Len(k) + Len(l)
  BY <1>1
<1> QED
  BY <1>2, <1>3 DEF CountsAdd, HowMany, k, l

\* A rearrangement has the same elements, and equally many.
LEMMA RearrangedElements ==
  ASSUME NEW S, NEW s \in Seq(S), NEW R, NEW t \in Seq(R), Rearranged(s, t)
  PROVE  /\ ToSet(s) = ToSet(t)
         /\ Len(s) = Len(t)
<1>1. ASSUME NEW Q, NEW u \in Seq(Q), NEW x
      PROVE  x \in ToSet(u) <=> HowMany(u, {x}) # 0
  <2> DEFINE I == {i \in DOMAIN u : u[i] \in {x}}
  <2>1. HowMany(u, {x}) = Cardinality(I)
    BY CountIs
  <2>2. IsFiniteSet(I)
    <3>1. ArePlaces(I, Len(u))
      BY DEF ArePlaces
    <3> HIDE DEF I
    <3> QED
      BY <3>1, PlacesFinite
  <2>3. I = {} <=> x \notin ToSet(u)
    BY DEF ToSet
  <2> HIDE DEF I
  <2>4. Cardinality(I) = 0 <=> I = {}
    BY <2>2, FS_EmptySet
  <2> QED
    BY <2>1, <2>3, <2>4
<1>2. \A x : HowMany(s, {x}) = HowMany(t, {x})
  BY DEF Rearranged
<1>3. \A x : x \in ToSet(s) <=> x \in ToSet(t)
  BY <1>1, <1>2
<1>4. ToSet(s) = ToSet(t)
  BY <1>3
<1>5. ASSUME NEW Q, NEW u \in Seq(Q), NEW V, ToSet(u) \subseteq V
      PROVE  HowMany(u, V) = Len(u)
  <2>1. {i \in DOMAIN u : u[i] \in V} = 1..Len(u)
    BY <1>5 DEF ToSet
  <2>2. Len(u) \in Nat
    OBVIOUS
  <2>3. Cardinality(1..Len(u)) = Len(u)
    <3> DEFINE n == Len(u)
    <3> HIDE DEF n
    <3>1. n \in Nat => Cardinality(1..n) = n
      <4>1. ASSUME n \in Nat PROVE Cardinality(1..n) = n
        <5>1. Cardinality(1..n) = IF 1 <= n THEN n - 1 + 1 ELSE 0
          BY <4>1, FS_Interval
        <5> QED
          BY <4>1, <5>1
      <4> QED
        BY <4>1
    <3> QED
      BY <2>2, <3>1 DEF n
  <2>4. HowMany(u, V) = Cardinality({i \in DOMAIN u : u[i] \in V})
    BY CountIs
  <2> QED
    BY <2>1, <2>3, <2>4
<1> DEFINE all == ToSet(s) \cup ToSet(t)
<1>6. HowMany(s, all) = Len(s) /\ HowMany(t, all) = Len(t)
  BY <1>5
<1> QED
  BY <1>4, <1>6 DEF Rearranged

\* Rearrangements put together make a rearrangement,
RearrangedOfConcat(s, t, u, v) == Rearranged(s \o u, t \o v)

LEMMA RearrangedConcat ==
  ASSUME NEW S, NEW s \in Seq(S), NEW t \in Seq(S), NEW u \in Seq(S), NEW v \in Seq(S),
         Rearranged(s, t), Rearranged(u, v)
  PROVE  RearrangedOfConcat(s, t, u, v)
<1>1. ASSUME NEW V PROVE HowMany(s \o u, V) = HowMany(t \o v, V)
  <2>1. CountsAdd(s, u, V) /\ CountsAdd(t, v, V)
    BY CountConcat
  <2>2. HowMany(s, V) = HowMany(t, V) /\ HowMany(u, V) = HowMany(v, V)
    BY DEF Rearranged
  <2> QED
    BY <2>1, <2>2, Zenon DEF CountsAdd
<1> QED
  BY <1>1 DEF Rearranged, RearrangedOfConcat

\* what is not moved is one,
LEMMA RearrangedSame ==
  ASSUME NEW s
  PROVE  Rearranged(s, s)
BY DEF Rearranged

\* what is kept of one is one,
LEMMA RearrangedKeep ==
  ASSUME NEW S, NEW s \in Seq(S), NEW t \in Seq(S), NEW W, Rearranged(s, t)
  PROVE  Rearranged(Keep(s, W), Keep(t, W))
<1>1. ASSUME NEW V PROVE HowMany(Keep(s, W), V) = HowMany(Keep(t, W), V)
  <2>1. Keep(Keep(s, W), V) = Keep(s, W \cap V) /\ Keep(Keep(t, W), V) = Keep(t, W \cap V)
    BY KeepTwice
  <2>2. HowMany(s, W \cap V) = HowMany(t, W \cap V)
    BY DEF Rearranged
  <2> QED
    BY <2>1, <2>2 DEF HowMany
<1> QED
  BY <1>1 DEF Rearranged

\* and so are its images.
RearrangedImages(S, R, g, s, t) == Rearranged(Map(g, s), Map(g, t))

LEMMA RearrangedMap ==
  ASSUME NEW S, NEW R, NEW g \in [S -> R], NEW s \in Seq(S), NEW t \in Seq(S),
         Rearranged(s, t)
  PROVE  RearrangedImages(S, R, g, s, t)
<1>1. ASSUME NEW V PROVE HowMany(Map(g, s), V) = HowMany(Map(g, t), V)
  <2> DEFINE W == {x \in S : g[x] \in V}
  <2>1. \A x \in S : x \in W <=> g[x] \in V
    OBVIOUS
  <2> HIDE DEF W
  <2>2. MapKept(S, R, g, s, V, W) /\ MapKept(S, R, g, t, V, W)
    BY <2>1, KeepOfMap
  <2>3. Keep(s, W) \in Seq(S) /\ Keep(t, W) \in Seq(S)
    BY KeepType
  <2>4. \A u \in Seq(S) : Len(Map(g, u)) = Len(u)
    BY DEF Map
  <2>5. HowMany(s, W) = HowMany(t, W)
    BY DEF Rearranged
  <2> QED
    BY <2>2, <2>3, <2>4, <2>5 DEF MapKept, HowMany
<1> QED
  BY <1>1 DEF Rearranged, RearrangedImages

\* The elements in the places a permutation puts them.
Permuted(s, p) == [i \in DOMAIN s |-> s[p[i]]]

\* Moved by a permutation, a sequence is rearranged.
LEMMA PermutedIsRearranged ==
  ASSUME NEW s, IsSequence(s), NEW p \in Bijection(DOMAIN s, DOMAIN s)
  PROVE  IsSequence(Permuted(s, p)) /\ Rearranged(s, Permuted(s, p))
<1> DEFINE t == Permuted(s, p)
           S == ToSet(s)
           D == DOMAIN s
           P(u, V) == {i \in D : u[i] \in V}
<1>1. s \in Seq(S) /\ D = 1..Len(s) /\ Len(s) \in Nat
  BY DomainOfSequence DEF IsSequence
<1>2. /\ \A i \in D : p[i] \in D
      /\ \A i, j \in D : p[i] = p[j] => i = j
      /\ \A j \in D : \E i \in D : p[i] = j
  BY DEF Bijection, Injection, Surjection, IsInjective
<1>3. DOMAIN t = D /\ \A i \in D : t[i] = s[p[i]] /\ t[i] \in S
  BY <1>2 DEF ToSet, Permuted
<1>4. t \in Seq(S)
  <2>1. t = [i \in 1..Len(s) |-> s[p[i]]] /\ \A i \in 1..Len(s) : s[p[i]] \in S
    BY <1>1, <1>3 DEF Permuted
  <2> HIDE DEF t, S, D
  <2> QED
    BY <1>1, <2>1
<1> HIDE DEF t, S
<1>5. ASSUME NEW V PROVE Cardinality(P(s, V)) = Cardinality(P(t, V))
  <2> DEFINE f == [i \in P(t, V) |-> p[i]]
  <2>1. f \in Bijection(P(t, V), P(s, V))
    <3>1. f \in [P(t, V) -> P(s, V)]
      BY <1>2, <1>3
    <3>2. \A i, j \in P(t, V) : f[i] = f[j] => i = j
      BY <1>2
    <3>3. \A j \in P(s, V) : \E i \in P(t, V) : f[i] = j
      BY <1>2, <1>3
    <3> QED
      BY <3>1, <3>2, <3>3 DEF Bijection, Injection, Surjection, IsInjective
  <2>2. IsFiniteSet(P(t, V))
    <3>1. ArePlaces(P(t, V), Len(s))
      BY <1>1 DEF ArePlaces
    <3> QED
      BY <3>1, PlacesFinite
  <2>3. ExistsBijection(P(t, V), P(s, V))
    BY <2>1 DEF ExistsBijection
  <2> QED
    BY <2>2, <2>3, FS_Bijection
<1>6. ASSUME NEW V PROVE HowMany(s, V) = HowMany(t, V)
  <2>1. HowMany(s, V) = Cardinality({i \in DOMAIN s : s[i] \in V})
    BY <1>1, CountIs
  <2>2. HowMany(t, V) = Cardinality({i \in DOMAIN t : t[i] \in V})
    BY <1>4, CountIs
  <2> QED
    BY <1>3, <1>5, <2>1, <2>2
<1>7. IsSequence(t)
  BY <1>4, SequencesAre
<1> QED
  BY <1>6, <1>7 DEF Rearranged, t

\* One array more is put at the end.
LEMMA FlattenAppend ==
  ASSUME NEW S, NEW ss \in Seq(Seq(S)), NEW x \in Seq(S)
  PROVE  FlattenSeq(Append(ss, x)) = FlattenSeq(ss) \o x
<1> DEFINE n == Len(ss)
           us == Append(ss, x)
           F == CHOOSE g : IsFlat(g, us, n + 1)
           G == CHOOSE g : IsFlat(g, ss, n)
<1>1. /\ n \in Nat /\ Len(us) = n + 1 /\ us[n + 1] = x
      /\ \A i \in 1..n : us[i] = ss[i]
      /\ us \in Seq(Seq(S))
  OBVIOUS
<1>2. FlattenSeq(us) = F[n + 1]
  <2>1. Len(us) # 0
    BY <1>1
  <2> HIDE DEF us
  <2> QED
    BY <1>1, <2>1 DEF FlattenSeq, IsFlat
<1>3. IsFlat(F, us, n + 1)
  <2>1. Len(us) # 0
    BY <1>1
  <2> HIDE DEF us
  <2>2. \E f : IsFlat(f, us, n + 1)
    <3>1. \E f : IsFlat(f, us, Len(us))
      BY <1>1, <2>1, FlatExists
    <3> QED
      BY <1>1, <3>1
  <2> QED
    BY <2>2
<1> HIDE DEF us, F
<1>4. \A i \in 1..(n + 1) : F[i] = IF i = 1 THEN us[i] ELSE F[i - 1] \o us[i]
  BY <1>3 DEF IsFlat
<1>5. CASE n = 0
  <2>1. FlattenSeq(ss) = ss /\ ss = <<>>
    BY <1>5 DEF FlattenSeq
  <2>2. F[n + 1] = x
    BY <1>1, <1>4, <1>5
  <2> QED
    BY <1>2, <2>1, <2>2 DEF us
<1>6. CASE n # 0
  <2>1. FlattenSeq(ss) = G[n]
    BY <1>6 DEF FlattenSeq, IsFlat
  <2>2. IsFlat(G, ss, n)
    <3>1. \E f : IsFlat(f, ss, n)
      BY <1>6, FlatExists
    <3> QED
      BY <3>1
  <2> HIDE DEF G
  <2>3. \A i \in 1..n : G[i] = IF i = 1 THEN ss[i] ELSE G[i - 1] \o ss[i]
    BY <2>2 DEF IsFlat
  <2> DEFINE T == {m \in Nat : m \in 1..n => F[m] = G[m]}
  <2>4. 0 \in T
    OBVIOUS
  <2>5. ASSUME NEW m \in T, m \in Nat PROVE m + 1 \in T
    <3>1. SUFFICES ASSUME m + 1 \in 1..n PROVE F[m + 1] = G[m + 1]
      OBVIOUS
    <3>2. m + 1 \in 1..(n + 1) /\ us[m + 1] = ss[m + 1]
      BY <1>1, <3>1
    <3>3. CASE m = 0
      BY <1>4, <2>3, <3>1, <3>2, <3>3
    <3>4. CASE m # 0
      <4>1. m \in 1..n /\ (m + 1) - 1 = m /\ m + 1 # 1
        BY <1>1, <3>1, <3>4
      <4>2. F[m] = G[m]
        BY <4>1
      <4>3. F[m + 1] = F[m] \o us[m + 1]
        BY <1>4, <3>2, <4>1
      <4>4. G[m + 1] = G[m] \o ss[m + 1]
        BY <2>3, <3>1, <4>1
      <4> QED
        BY <3>2, <4>2, <4>3, <4>4
    <3> QED
      BY <3>3, <3>4
  <2> HIDE DEF T
  <2>6. Nat \subseteq T
    BY <2>4, <2>5, Induction
  <2>7. n \in 1..n /\ n + 1 \in 1..(n + 1) /\ (n + 1) - 1 = n /\ n + 1 # 1
    BY <1>1, <1>6
  <2>8. F[n] = G[n]
    BY <1>1, <2>6, <2>7 DEF T
  <2>9. F[n + 1] = F[n] \o x
    BY <1>1, <1>4, <2>7
  <2> QED
    BY <1>2, <2>1, <2>8, <2>9 DEF us
<1> QED
  BY <1>5, <1>6

\* The arrays that the elements of a sequence bring, put together.
FlatMap(h, s) == FlattenSeq(Map(h, s))

LEMMA FlatMapType ==
  ASSUME NEW S, NEW R, NEW h \in [S -> Seq(R)], NEW s \in Seq(S)
  PROVE  FlatMap(h, s) \in Seq(R)
<1>1. Map(h, s) \in Seq(Seq(R))
  BY MapType
<1> DEFINE m == Map(h, s)
<1> HIDE DEF m
<1>2. FlattenSeq(m) \in Seq(R)
  BY <1>1, FlattenElements DEF m
<1> QED
  BY <1>2 DEF FlatMap, m

\* An element more brings its array at the end.
FlatMapAppended(S, R, h, s, x) == FlatMap(h, Append(s, x)) = FlatMap(h, s) \o h[x]

LEMMA FlatMapAppend ==
  ASSUME NEW S, NEW R, NEW h \in [S -> Seq(R)], NEW s \in Seq(S), NEW x \in S
  PROVE  FlatMapAppended(S, R, h, s, x)
<1> DEFINE m == Map(h, s)
<1>1. m \in Seq(Seq(R)) /\ h[x] \in Seq(R)
  BY MapType
<1>2. Map(h, Append(s, x)) = Append(m, h[x])
  <2> DEFINE Q == Seq(R)
  <2>1. h \in [S -> Q]
    OBVIOUS
  <2> HIDE DEF Q
  <2> QED
    BY <2>1, MapAppend
<1> HIDE DEF m
<1>3. FlattenSeq(Append(m, h[x])) = FlattenSeq(m) \o h[x]
  <2> DEFINE y == h[x]
  <2>1. y \in Seq(R)
    BY <1>1
  <2> HIDE DEF y
  <2>2. FlattenSeq(Append(m, y)) = FlattenSeq(m) \o y
    BY <1>1, <2>1, FlattenAppend
  <2> QED
    BY <2>2 DEF y
<1> QED
  BY <1>2, <1>3 DEF FlatMap, FlatMapAppended, m

\* The arrays of two sequences put together.
FlatMapConcatenated(S, R, h, s, t) == FlatMap(h, s \o t) = FlatMap(h, s) \o FlatMap(h, t)

LEMMA FlatMapConcat ==
  ASSUME NEW S, NEW R, NEW h \in [S -> Seq(R)], NEW s \in Seq(S), NEW t \in Seq(S)
  PROVE  FlatMapConcatenated(S, R, h, s, t)
<1> DEFINE T == {r \in Seq(S) : FlatMap(h, s \o r) = FlatMap(h, s) \o FlatMap(h, r)}
<1>0. \A u \in Seq(S) : FlatMap(h, u) \in Seq(R)
  BY FlatMapType
<1>1. <<>> \in T
  <2>1. FlatMap(h, <<>>) = <<>>
    BY DEF FlatMap, Map, FlattenSeq
  <2>2. FlatMap(h, s) \in Seq(R)
    BY <1>0
  <2>3. s \o <<>> = s /\ FlatMap(h, s) \o <<>> = FlatMap(h, s) /\ <<>> \in Seq(S)
    BY <2>2
  <2> QED
    BY <2>1, <2>3
<1>2. ASSUME NEW r \in Seq(S), NEW x \in S, r \in T PROVE Append(r, x) \in T
  <2>1. s \o r \in Seq(S) /\ s \o Append(r, x) = Append(s \o r, x)
    OBVIOUS
  <2>2. \A u \in Seq(S) : FlatMapAppended(S, R, h, u, x)
    BY FlatMapAppend
  <2> DEFINE a == FlatMap(h, s)
             b == FlatMap(h, r)
  <2>3. a \in Seq(R) /\ b \in Seq(R) /\ h[x] \in Seq(R)
    BY <1>0
  <2>4. FlatMap(h, s \o r) = a \o b
    BY <1>2
  <2> DEFINE z == s \o r
  <2>5. FlatMap(h, Append(z, x)) = FlatMap(h, z) \o h[x] /\ FlatMap(h, Append(r, x)) = b \o h[x]
    BY <2>1, <2>2, Zenon DEF FlatMapAppended
  <2> HIDE DEF a, b, T
  <2>6. (a \o b) \o h[x] = a \o (b \o h[x])
    BY <2>3
  <2>7. FlatMap(h, s \o Append(r, x)) = a \o FlatMap(h, Append(r, x))
    BY <2>1, <2>4, <2>5, <2>6, Zenon
  <2>8. Append(r, x) \in Seq(S)
    OBVIOUS
  <2> QED
    BY <2>7, <2>8 DEF a, T
<1> HIDE DEF T
<1>3. Seq(S) \subseteq T
  BY <1>1, <1>2, SequenceInduction
<1> QED
  BY <1>3 DEF T, FlatMapConcatenated

\* A sequence is what comes before one of its places, what is there, and what
\* comes after.
SplitsAt(S, t, j) == \E a, b \in Seq(S) : t = Append(a, t[j]) \o b

LEMMA SplitAt ==
  ASSUME NEW S, NEW t \in Seq(S), NEW j \in DOMAIN t
  PROVE  SplitsAt(S, t, j)
<1> DEFINE n == Len(t)
           a == SubSeq(t, 1, j - 1)
           b == SubSeq(t, j + 1, n)
<1>1. n \in Nat /\ j \in 1..n
  OBVIOUS
<1>2. a \in Seq(S) /\ b \in Seq(S) /\ Len(a) = j - 1 /\ Len(b) = n - j
  BY <1>1
<1>3. /\ \A i \in 1..(j - 1) : a[i] = t[i]
      /\ \A i \in 1..(n - j) : b[i] = t[j + i]
  BY <1>1
<1> HIDE DEF a, b
<1> DEFINE c == Append(a, t[j])
<1>4. c \in Seq(S) /\ Len(c) = j /\ c[j] = t[j] /\ \A i \in 1..(j - 1) : c[i] = t[i]
  BY <1>1, <1>2, <1>3
<1> HIDE DEF c
<1> DEFINE d == c \o b
<1>5. ASSUME NEW u \in Seq(S), NEW v \in Seq(S)
      PROVE  /\ u \o v \in Seq(S) /\ Len(u \o v) = Len(u) + Len(v)
             /\ \A i \in 1..Len(u) : (u \o v)[i] = u[i]
             /\ \A i \in 1..Len(v) : (u \o v)[Len(u) + i] = v[i]
  OBVIOUS
<1>9. /\ d \in Seq(S) /\ Len(d) = j + Len(b)
      /\ \A i \in 1..j : d[i] = c[i]
      /\ \A i \in 1..(n - j) : d[j + i] = b[i]
  <2> HIDE DEF d
  <2>1. d = c \o b
    BY DEF d
  <2> DEFINE l == Len(b)
  <2>2. /\ d \in Seq(S) /\ Len(d) = Len(c) + Len(b)
        /\ \A i \in 1..Len(c) : d[i] = c[i]
        /\ \A i \in 1..Len(b) : d[Len(c) + i] = b[i]
    BY <1>2, <1>4, <1>5, <2>1, Zenon
  <2>3. Len(c) = j /\ Len(b) = n - j
    BY <1>2, <1>4
  <2> QED
    BY <2>2, <2>3
<1> HIDE DEF d
<1>6. ASSUME NEW i \in 1..n PROVE t[i] = d[i]
  <2>1. CASE i > j
    <3>1. i - j \in 1..(n - j) /\ j + (i - j) = i
      BY <1>1, <2>1
    <3> QED
      BY <1>3, <1>9, <3>1
  <2>2. CASE i <= j
    <3>1. i \in 1..j /\ (i = j \/ i \in 1..(j - 1))
      BY <1>1, <2>2
    <3> QED
      BY <1>4, <1>9, <3>1
  <2> QED
    BY <1>1, <2>1, <2>2
<1>7. Len(d) = n
  BY <1>1, <1>2, <1>9
<1>8. t = c \o b
  <2>1. t = [i \in 1..n |-> t[i]] /\ d = [i \in 1..n |-> d[i]]
    <3>1. \A u \in Seq(S) : u = [i \in 1..Len(u) |-> u[i]]
      OBVIOUS
    <3>2. d \in Seq(S)
      BY <1>9
    <3> QED
      BY <1>7, <3>1, <3>2
  <2>2. t = d
    BY <1>6, <2>1
  <2> QED
    BY <2>2 DEF d
<1> QED
  BY <1>2, <1>8 DEF c, SplitsAt

\* An element more counts when it is looked for.
LEMMA CountAppend ==
  ASSUME NEW S, NEW s \in Seq(S), NEW x \in S, NEW V
  PROVE  HowMany(Append(s, x), V) = HowMany(s, V) + (IF x \in V THEN 1 ELSE 0)
<1> DEFINE k == Keep(s, V)
<1>1. k \in Seq(S)
  BY KeepType
<1>2. Keep(Append(s, x), V) = IF x \in V THEN Append(k, x) ELSE k
  BY KeepAppend
<1> HIDE DEF k
<1>3. Len(Append(k, x)) = Len(k) + 1 /\ Len(k) \in Nat
  BY <1>1
<1> QED
  BY <1>2, <1>3 DEF HowMany, k

\* What each element brings does not depend on the order of the elements.
RearrangedArrays(S, R, h, s, t) == Rearranged(FlatMap(h, s), FlatMap(h, t))

LEMMA RearrangedFlatMap ==
  ASSUME NEW S, NEW R, NEW h \in [S -> Seq(R)], NEW s \in Seq(S), NEW t \in Seq(S),
         Rearranged(s, t)
  PROVE  RearrangedArrays(S, R, h, s, t)
<1> DEFINE T == {r \in Seq(S) : \A u \in Seq(S) : Rearranged(r, u) =>
                   Rearranged(FlatMap(h, r), FlatMap(h, u))}
<1>1. <<>> \in T
  <2>1. ASSUME NEW u \in Seq(S), Rearranged(<<>>, u) PROVE u = <<>>
    <3>1. <<>> \in Seq(S)
      OBVIOUS
    <3>2. Len(<<>>) = Len(u)
      BY <2>1, <3>1, RearrangedElements
    <3> QED
      BY <3>2
  <2>2. <<>> \in Seq(S)
    OBVIOUS
  <2>3. Rearranged(FlatMap(h, <<>>), FlatMap(h, <<>>))
    BY RearrangedSame
  <2> QED
    BY <2>1, <2>2, <2>3, Zenon
<1>2. ASSUME NEW r \in Seq(S), NEW x \in S, r \in T PROVE Append(r, x) \in T
  <2> DEFINE s1 == Append(r, x)
  <2>1. s1 \in Seq(S)
    OBVIOUS
  <2>2. ASSUME NEW u \in Seq(S), Rearranged(s1, u)
        PROVE  Rearranged(FlatMap(h, s1), FlatMap(h, u))
    <3>1. ToSet(s1) = ToSet(u)
      BY <2>1, <2>2, RearrangedElements
    <3>2. x \in ToSet(s1)
      <4>1. s1[Len(r) + 1] = x /\ Len(r) + 1 \in DOMAIN s1
        OBVIOUS
      <4> HIDE DEF s1
      <4> QED
        BY <4>1 DEF ToSet
    <3>3. PICK j \in DOMAIN u : u[j] = x
      BY <3>1, <3>2 DEF ToSet
    <3>4. PICK a \in Seq(S), b \in Seq(S) : u = Append(a, x) \o b
      <4>1. SplitsAt(S, u, j)
        BY SplitAt
      <4> QED
        BY <3>3, <4>1 DEF SplitsAt
    <3> DEFINE ax == Append(a, x)
               v == a \o b
    <3>5. ax \in Seq(S) /\ v \in Seq(S)
      OBVIOUS
    <3>6. Rearranged(r, v)
      <4>1. ASSUME NEW V PROVE HowMany(r, V) = HowMany(v, V)
        <5> DEFINE one == IF x \in V THEN 1 ELSE 0
        <5>1. HowMany(s1, V) = HowMany(r, V) + one /\ HowMany(ax, V) = HowMany(a, V) + one
          BY CountAppend
        <5> HIDE DEF s1, ax, v
        <5>2. CountsAdd(ax, b, V) /\ CountsAdd(a, b, V)
          BY <3>5, CountConcat
        <5>3. HowMany(s1, V) = HowMany(u, V)
          BY <2>2 DEF Rearranged
        <5>4. HowMany(r, V) \in Nat /\ HowMany(a, V) \in Nat /\ HowMany(b, V) \in Nat
          BY CountIs
        <5>5. one \in Nat
          OBVIOUS
        <5>6. HowMany(u, V) = HowMany(ax, V) + HowMany(b, V) /\ HowMany(v, V) = HowMany(a, V) + HowMany(b, V)
          BY <3>4, <5>2 DEF CountsAdd, ax, v
        <5> HIDE DEF one
        <5>7. HowMany(r, V) + one = (HowMany(a, V) + one) + HowMany(b, V)
          BY <5>1, <5>3, <5>6, Zenon
        <5>8. HowMany(r, V) = HowMany(a, V) + HowMany(b, V)
          <6> DEFINE k == HowMany(r, V)
                     l == HowMany(a, V)
                     m == HowMany(b, V)
          <6>1. k + one = (l + one) + m /\ k \in Nat /\ l \in Nat /\ m \in Nat
            BY <5>4, <5>7
          <6> HIDE DEF k, l, m
          <6>2. k = l + m
            BY <5>5, <6>1
          <6> QED
            BY <6>2 DEF k, l, m
        <5> QED
          BY <5>6, <5>8
      <4> QED
        BY <4>1 DEF Rearranged
    <3> DEFINE fr == FlatMap(h, r)
               fa == FlatMap(h, a)
               fb == FlatMap(h, b)
    <3>7. Rearranged(fr, FlatMap(h, v))
      BY <1>2, <3>5, <3>6
    <3>8. FlatMap(h, v) = fa \o fb
      <4>1. FlatMapConcatenated(S, R, h, a, b)
        BY FlatMapConcat
      <4> QED
        BY <4>1 DEF FlatMapConcatenated
    <3>9. FlatMap(h, s1) = fr \o h[x] /\ FlatMap(h, ax) = fa \o h[x]
      <4>1. FlatMapAppended(S, R, h, r, x) /\ FlatMapAppended(S, R, h, a, x)
        BY FlatMapAppend
      <4> QED
        BY <4>1 DEF FlatMapAppended
    <3> HIDE DEF ax
    <3>10. FlatMap(h, u) = (fa \o h[x]) \o fb
      <4>1. FlatMapConcatenated(S, R, h, ax, b)
        BY <3>5, FlatMapConcat
      <4> QED
        BY <3>4, <3>9, <4>1 DEF FlatMapConcatenated, ax
    <3>11. fr \in Seq(R) /\ fa \in Seq(R) /\ fb \in Seq(R) /\ h[x] \in Seq(R)
      <4>1. \A w \in Seq(S) : FlatMap(h, w) \in Seq(R)
        BY FlatMapType
      <4> QED
        BY <4>1
    <3> DEFINE y == h[x]
    <3> HIDE DEF s1, fr, fa, fb, v, y
    <3>12. ASSUME NEW V PROVE HowMany(FlatMap(h, s1), V) = HowMany(FlatMap(h, u), V)
      <4>1. fa \o y \in Seq(R)
        BY <3>11 DEF y
      <4>2. CountsAdd(fr, y, V) /\ CountsAdd(fa, y, V) /\ CountsAdd(fa, fb, V)
        BY <3>11, CountConcat DEF y
      <4>3. CountsAdd(fa \o y, fb, V)
        <5> DEFINE z == fa \o y
        <5> HIDE DEF z
        <5>1. z \in Seq(R)
          BY <4>1 DEF z
        <5>2. CountsAdd(z, fb, V)
          BY <3>11, <5>1, CountConcat
        <5> QED
          BY <5>2 DEF z
      <4>4. HowMany(fr, V) = HowMany(fa \o fb, V)
        BY <3>7, <3>8 DEF Rearranged
      <4>5. /\ HowMany(fr, V) \in Nat /\ HowMany(fa, V) \in Nat
            /\ HowMany(fb, V) \in Nat /\ HowMany(y, V) \in Nat
        BY <3>11, CountIs DEF y
      <4>6. /\ HowMany(FlatMap(h, s1), V) = HowMany(fr, V) + HowMany(y, V)
            /\ HowMany(FlatMap(h, u), V) = HowMany(fa \o y, V) + HowMany(fb, V)
        BY <3>9, <3>10, <4>2, <4>3 DEF CountsAdd, y
      <4>7. /\ HowMany(fa \o y, V) = HowMany(fa, V) + HowMany(y, V)
            /\ HowMany(fa \o fb, V) = HowMany(fa, V) + HowMany(fb, V)
        BY <4>2 DEF CountsAdd
      <4> QED
        BY <4>4, <4>5, <4>6, <4>7
    <3> QED
      BY <3>12 DEF Rearranged
  <2> HIDE DEF s1
  <2>3. s1 \in T
    BY <2>1, <2>2
  <2> QED
    BY <2>3 DEF s1
<1> HIDE DEF T
<1>3. Seq(S) \subseteq T
  BY <1>1, <1>2, SequenceInduction
<1> QED
  BY <1>3 DEF T, RearrangedArrays
=============================================================================
