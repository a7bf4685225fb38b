-------------------------- MODULE McpServer_proofs --------------------------
(***************************************************************************)
(* Proofs about McpServer, for any lines, any hooks and any query: a walk  *)
(* of the usage log omits nothing and repeats nothing but for what is      *)
(* recorded behind its back.                                               *)
(*                                                                         *)
(* The log knows an event by its time and key, and replaces an event by    *)
(* another of the same id.  So the argument is about ids: the set of ids   *)
(* only grows, an event's rank is the place of its id (Places), and a page *)
(* is a cut of the ids at the time it was read.                            *)
(***************************************************************************)
EXTENDS McpServer, Places, TLAPS

-----------------------------------------------------------------------------
(***************************************************************************)
(* Events and their ids.                                                   *)
(***************************************************************************)
EventType ==
  [at : Nat, key : Nat, session : {Query.session},
   engagement : [type : EngagementTypes, outcome : Outcomes, missed : BOOLEAN]]

Id(e) == <<e.at, e.key>>
Ids(l) == {Id(e) : e \in l}
Comes(p, q) == p[1] < q[1] \/ (p[1] = q[1] /\ p[2] < q[2])
Earlier(P) == [q \in P |-> {p \in P : Comes(p, q)}]

LogType(l) ==
  /\ l \in SUBSET EventType
  /\ IsFiniteSet(l)
  /\ \A e, f \in l : Id(e) = Id(f) => e = f

\* The ids the walk's query selects.
Listed(l) == Ids(Selected(l, Query))

\* Ids are ordered by time and then by key.
LEMMA IdsInOrder ==
  ASSUME NEW P \in SUBSET (Nat \X Nat)
  PROVE  IsOrder(P, Earlier(P))
<1>1. \A p \in P : p[1] \in Nat /\ p[2] \in Nat /\ p = <<p[1], p[2]>>
  OBVIOUS
<1>2. \A p \in P : ~Comes(p, p)
  BY <1>1 DEF Comes
<1>3. \A p, q, r \in P : Comes(p, q) /\ Comes(q, r) => Comes(p, r)
  BY <1>1 DEF Comes
<1>4. \A p, q \in P : p # q => Comes(p, q) \/ Comes(q, p)
  <2> SUFFICES ASSUME NEW p \in P, NEW q \in P, p # q PROVE Comes(p, q) \/ Comes(q, p)
    OBVIOUS
  <2>1. p[1] # q[1] \/ p[2] # q[2]
    BY <1>1
  <2> QED
    BY <1>1, <2>1 DEF Comes
<1> QED
  BY <1>2, <1>3, <1>4 DEF IsOrder, Earlier

\* The selected events are a log of their own.
LEMMA SelectedType ==
  ASSUME NEW l, LogType(l)
  PROVE  LogType(Selected(l, Query)) /\ Selected(l, Query) \subseteq l
<1>1. Selected(l, Query) \in SUBSET l
  BY DEF Selected
<1>2. IsFiniteSet(Selected(l, Query))
  BY <1>1, FS_Subset DEF LogType
<1> QED
  BY <1>1, <1>2 DEF LogType

\* There are as many ids as events, and an event's rank is the place of its id.
LEMMA RankIsPlace ==
  ASSUME NEW l, LogType(l)
  PROVE  /\ Ids(l) \in SUBSET (Nat \X Nat)
         /\ IsFiniteSet(Ids(l))
         /\ Cardinality(Ids(l)) = Cardinality(l)
         /\ \A e \in l : Rank(l, e) = Place(Earlier(Ids(l)), Id(e))
<1>1. ASSUME NEW m \in SUBSET l
      PROVE  IsFiniteSet(Ids(m)) /\ Cardinality(Ids(m)) = Cardinality(m)
  <2> DEFINE f == [e \in m |-> Id(e)]
  <2>1. IsFiniteSet(m)
    BY FS_Subset DEF LogType
  <2>2. f \in Surjection(m, Ids(m)) /\ f \in Injection(m, Ids(m))
    BY DEF Surjection, Injection, IsInjective, Ids, LogType
  <2> HIDE DEF f
  <2> QED
    BY <2>1, <2>2, FS_Surjection
<1>2. Ids(l) \in SUBSET (Nat \X Nat)
  BY DEF Ids, Id, LogType, EventType
<1>3. ASSUME NEW e \in l PROVE Rank(l, e) = Place(Earlier(Ids(l)), Id(e))
  <2> DEFINE m == {f \in l : SortsBefore(f, e)}
  <2>1. Cardinality(Ids(m)) = Cardinality(m)
    BY <1>1
  <2>2. \A f \in l : SortsBefore(f, e) <=> Comes(Id(f), Id(e))
    BY DEF SortsBefore, Comes, Id
  <2>3. Ids(m) = {p \in Ids(l) : Comes(p, Id(e))}
    BY <2>2 DEF Ids
  <2>4. Id(e) \in Ids(l)
    BY DEF Ids
  <2> QED
    BY <2>1, <2>3, <2>4 DEF Rank, Place, Earlier
<1> QED
  BY <1>1, <1>2, <1>3

\* An id is selected by its time alone, so more ids in the log are more ids
\* selected.
LEMMA ListedGrows ==
  ASSUME NEW l, LogType(l), NEW m, LogType(m), Ids(l) \subseteq Ids(m)
  PROVE  Listed(l) \subseteq Listed(m) /\ Listed(m) \cap Ids(l) \subseteq Listed(l)
<1>1. ASSUME NEW e \in l, NEW f \in m, Id(e) = Id(f)
      PROVE  e \in Selected(l, Query) <=> f \in Selected(m, Query)
  <2>1. e.at = f.at /\ e.session = f.session
    BY <1>1 DEF Id, LogType, EventType
  <2> QED
    BY <2>1 DEF Selected
<1>2. Selected(l, Query) \subseteq l /\ Selected(m, Query) \subseteq m
  BY DEF Selected
<1> QED
  BY <1>1, <1>2 DEF Listed, Ids

\* The selected ids are finitely many and in order.
LEMMA ListedType ==
  ASSUME NEW l, LogType(l)
  PROVE  /\ Listed(l) \in SUBSET (Nat \X Nat)
         /\ IsFiniteSet(Listed(l)) /\ Cardinality(Listed(l)) \in Nat
         /\ IsOrder(Listed(l), Earlier(Listed(l)))
         /\ Listed(l) \subseteq Ids(l)
<1>1. LogType(Selected(l, Query)) /\ Selected(l, Query) \subseteq l
  BY SelectedType
<1>2. Listed(l) \in SUBSET (Nat \X Nat) /\ IsFiniteSet(Listed(l))
  BY <1>1, RankIsPlace DEF Listed
<1>3. Listed(l) \subseteq Ids(l)
  BY <1>1 DEF Listed, Ids
<1> QED
  BY <1>2, <1>3, IdsInOrder, FS_CardinalityType

\* A page holds at least one event's worth of places.
LEMMA LimitType == BoundedLimit(Query.limit) \in Nat \ {0}
<1>1. CASE Query.limit = 0
  BY <1>1, PageAssumption DEF BoundedLimit
<1>2. CASE Query.limit # 0
  <2>1. \/ BoundedLimit(Query.limit) = Query.limit
        \/ BoundedLimit(Query.limit) = LargestPage
    BY <1>2, Zenon DEF BoundedLimit
  <2> QED
    BY <1>2, <2>1, McpAssumption, PageAssumption
<1> QED
  BY <1>1, <1>2

\* Where the page after the one at an offset begins.
End(o) == o + BoundedLimit(Query.limit)

\* A page is the cut of the ids at the places from its offset on.
LEMMA PageIsCut ==
  ASSUME NEW l, LogType(l), NEW o \in Nat
  PROVE  /\ Page(l, Query, o).events \in SUBSET l
         /\ Ids(Page(l, Query, o).events) = Cut(Listed(l), Earlier(Listed(l)), o, End(o))
         /\ Page(l, Query, o).more = (End(o) < Cardinality(Listed(l)))
         /\ Page(l, Query, o).next = End(o)
<1> DEFINE S == Selected(l, Query)
           end == o + BoundedLimit(Query.limit)
           events == {e \in S : Rank(S, e) \in o..(end - 1)}
<1>1. LogType(S) /\ S \subseteq l
  BY SelectedType
<1>2. /\ Cardinality(Ids(S)) = Cardinality(S)
      /\ \A e \in S : Rank(S, e) = Place(Earlier(Ids(S)), Id(e))
  BY <1>1, RankIsPlace
<1>3. /\ Page(l, Query, o).events = events
      /\ Page(l, Query, o).more = (end < Cardinality(S))
      /\ Page(l, Query, o).next = end
  BY DEF Page
<1> HIDE DEF S, end
<1>4. Ids(events) = Cut(Ids(S), Earlier(Ids(S)), o, end)
  BY <1>2 DEF Ids, Cut
<1> QED
  BY <1>1, <1>2, <1>3, <1>4 DEF S, end, Listed, End

-----------------------------------------------------------------------------
(***************************************************************************)
(* The walk's invariant, for the log l and the walk w: an id whose place   *)
(* in the log the last page saw lies before the offset was shown, or came  *)
(* late and before one that was; and the ids shown keep their places until *)
(* one is recorded before them.                                            *)
(***************************************************************************)
WalkType(w) ==
  w \in [state : {"idle", "walking", "done"}, offset : Nat,
         pages : Seq(SUBSET EventType), before : SUBSET EventType,
         last : SUBSET EventType]

ShownIds(w) == UNION {Ids(w.pages[i]) : i \in DOMAIN w.pages}

\* A page shows an id before which one has been recorded since the walk began.
Overtaken(l, w, i) ==
  \E p \in Ids(l) \ Ids(w.before), q \in Ids(w.pages[i]) : Comes(p, q)

\* Shown, or late.
Settled(w, p) ==
  p \in ShownIds(w) \/ (p \notin Ids(w.before) /\ \E q \in ShownIds(w) : Comes(p, q))

NothingPassedOver(w) ==
  \A p \in Listed(w.last) : Place(Earlier(Listed(w.last)), p) < w.offset => Settled(w, p)

InPlace(l, w, i) ==
  /\ Ids(w.pages[i]) \subseteq Listed(l)
  /\ \/ Overtaken(l, w, i)
     \/ \A p \in Ids(w.pages[i]) : Place(Earlier(Listed(l)), p) < w.offset

NoRepeats(l, w) ==
  \A i, j \in DOMAIN w.pages :
    i < j /\ Ids(w.pages[i]) \cap Ids(w.pages[j]) # {} => Overtaken(l, w, i)

WalkInv(l, w) ==
  /\ WalkType(w) /\ LogType(w.last)
  /\ Ids(w.before) \subseteq Ids(w.last) /\ Ids(w.last) \subseteq Ids(l)
  /\ w.state = "idle" => w.pages = <<>> /\ w.offset = 0
  /\ w.state = "walking" => w.offset <= Cardinality(Listed(w.last))
  /\ w.state = "done" => w.offset >= Cardinality(Listed(w.last))
  /\ NothingPassedOver(w)
  /\ \A i \in DOMAIN w.pages : InPlace(l, w, i)
  /\ NoRepeats(l, w)

\* An id recorded late takes its place among the ids the last page saw: if its
\* place lies before the offset, so does one of theirs that it comes before.
LEMMA LateComesBefore ==
  ASSUME NEW l, LogType(l), NEW m, LogType(m), Ids(l) \subseteq Ids(m),
         NEW o \in Nat, o <= Cardinality(Listed(l)),
         NEW p \in Listed(m), p \notin Listed(l), Place(Earlier(Listed(m)), p) < o
  PROVE  \E x \in Listed(l) : Place(Earlier(Listed(l)), x) < o /\ Comes(p, x)
<1> DEFINE L == Listed(l)
           M == Listed(m)
           first == Cut(L, Earlier(L), 0, o)
<1>1. /\ IsFiniteSet(L) /\ IsOrder(L, Earlier(L)) /\ Cardinality(L) \in Nat
      /\ IsFiniteSet(M) /\ IsOrder(M, Earlier(M)) /\ L \subseteq M
  BY ListedType, ListedGrows
<1> HIDE DEF L, M
<1>2. Cardinality(first) = o
  <2>1. 0 \in Nat /\ 0 <= o /\ o <= Cardinality(L)
    BY DEF L
  <2>2. Cardinality(Cut(L, Earlier(L), 0, o)) = o - 0
    BY <1>1, <2>1, FullRange
  <2> QED
    BY <2>2
<1> HIDE DEF first
<1>3. p \in M /\ Place(Earlier(M), p) < o /\ Place(Earlier(M), p) \in Nat
      /\ IsFiniteSet(Earlier(M)[p])
  BY <1>1, PlaceType DEF M
<1>4. ~(first \subseteq Earlier(M)[p])
  <2> SUFFICES ASSUME first \in SUBSET Earlier(M)[p] PROVE FALSE
    OBVIOUS
  <2>1. Cardinality(first) <= Cardinality(Earlier(M)[p])
    BY <1>3, FS_Subset
  <2> QED
    BY <1>2, <1>3, <2>1 DEF Place
<1>5. PICK x \in first : x \notin Earlier(M)[p]
  BY <1>4
<1>6. x \in L /\ Place(Earlier(L), x) \in 0..(o - 1)
  BY <1>5 DEF first, Cut
<1>7. x # p /\ x \in M
  BY <1>1, <1>6 DEF L
<1>8. p \in Earlier(M)[x]
  BY <1>1, <1>3, <1>5, <1>7 DEF IsOrder
<1>9. Comes(p, x)
  BY <1>7, <1>8 DEF Earlier
<1> QED
  BY <1>6, <1>9 DEF L

\* The next page: what lies before its end was settled before it, or is on it,
\* or has come late.
LEMMA PagePassesNothing ==
  ASSUME NEW l, LogType(l), NEW w, WalkInv(l, w), w.state \in {"idle", "walking"},
         NEW v, WalkType(v), v.last = l, v.offset = End(w.offset),
         v.before = IF w.state = "idle" THEN l ELSE w.before,
         ShownIds(v) = ShownIds(w) \cup Ids(Page(l, Query, w.offset).events)
  PROVE  NothingPassedOver(v)
<1> DEFINE M == Listed(l)
           L == Listed(w.last)
           o == w.offset
<1> SUFFICES ASSUME NEW p \in M, Place(Earlier(M), p) < v.offset
             PROVE  Settled(v, p)
  BY DEF NothingPassedOver
<1>1. /\ IsFiniteSet(M) /\ IsOrder(M, Earlier(M)) /\ M \in SUBSET (Nat \X Nat)
      /\ Place(Earlier(M), p) \in Nat /\ o \in Nat
  BY ListedType, PlaceType DEF WalkInv, WalkType
<1>2. CASE Place(Earlier(M), p) >= o
  <2>1. p \in Cut(M, Earlier(M), o, End(o))
    BY <1>1, <1>2, LimitType DEF Cut, End
  <2> QED
    BY <1>1, <2>1, PageIsCut DEF Settled
<1>3. CASE Place(Earlier(M), p) < o
  <2>1. /\ w.state = "walking" /\ v.before = w.before /\ LogType(w.last)
        /\ o <= Cardinality(L) /\ Ids(w.last) \subseteq Ids(l)
        /\ Ids(w.before) \subseteq Ids(w.last)
    BY <1>1, <1>3 DEF WalkInv
  <2>2. /\ IsFiniteSet(L) /\ IsOrder(L, Earlier(L)) /\ L \in SUBSET (Nat \X Nat)
        /\ L \subseteq M /\ M \cap Ids(w.last) \subseteq L
    BY <2>1, ListedType, ListedGrows
  <2>3. \A x \in L : Place(Earlier(L), x) < o => Settled(w, x)
    BY DEF WalkInv, NothingPassedOver
  <2>4. CASE p \in L
    <3>1. Earlier(L)[p] \subseteq Earlier(M)[p]
      BY <2>2, <2>4 DEF Earlier
    <3>2. Place(Earlier(L), p) <= Place(Earlier(M), p) /\ Place(Earlier(L), p) \in Nat
      <4> HIDE DEF L, M
      <4> QED
        BY <1>1, <2>2, <2>4, <3>1, PlaceGrows, PlaceType
    <3>3. Settled(w, p)
      BY <1>1, <1>3, <2>3, <2>4, <3>2
    <3> QED
      BY <2>1, <3>3 DEF Settled
  <2>5. CASE p \notin L
    <3>1. PICK x \in L : Place(Earlier(L), x) < o /\ Comes(p, x)
      BY <1>1, <1>3, <2>1, <2>5, LateComesBefore
    <3>2. x \in ShownIds(w) \/ \E q \in ShownIds(w) : Comes(x, q)
      BY <2>3, <3>1 DEF Settled
    <3>3. \A q \in ShownIds(w) : Comes(x, q) => Comes(p, q)
      <4>1. \A q \in ShownIds(w) : q \in Nat \X Nat
        <5>1. \A i \in DOMAIN w.pages : w.pages[i] \in SUBSET EventType
          BY DEF WalkInv, WalkType
        <5> QED
          BY <5>1 DEF ShownIds, Ids, Id, EventType
      <4>2. p \in Nat \X Nat /\ x \in Nat \X Nat
        BY <1>1, <2>2
      <4> QED
        BY <3>1, <4>1, <4>2 DEF Comes
    <3>4. p \notin Ids(w.before)
      BY <2>1, <2>2, <2>5
    <3> QED
      BY <2>1, <3>1, <3>2, <3>3, <3>4 DEF Settled
  <2> QED
    BY <2>4, <2>5
<1> QED
  BY <1>1, <1>2, <1>3

\* The walk after reading a page of the log l.
Turned(l, w) ==
  Walk(IF Page(l, Query, w.offset).more THEN "walking" ELSE "done",
       Page(l, Query, w.offset).next,
       Append(w.pages, Page(l, Query, w.offset).events),
       IF w.state = "idle" THEN l ELSE w.before, l)

\* Reading a page keeps the invariant: a page repeats an earlier one only if
\* that one was overtaken.
LEMMA PageKeepsWalkInv ==
  ASSUME NEW l, LogType(l), NEW w, WalkInv(l, w), w.state \in {"idle", "walking"}
  PROVE  WalkInv(l, Turned(l, w))
<1> DEFINE v == Turned(l, w)
           page == Page(l, Query, w.offset)
           o == w.offset
           n == Len(w.pages)
           M == Listed(l)
           more == End(o) < Cardinality(M)
<1>1. /\ WalkType(w) /\ o \in Nat /\ n \in Nat /\ w.pages \in Seq(SUBSET EventType)
      /\ End(o) \in Nat /\ o < End(o)
  BY LimitType DEF WalkInv, WalkType, End
<1>2. /\ page.events \in SUBSET l /\ page.events \in SUBSET EventType
      /\ Ids(page.events) = Cut(M, Earlier(M), o, End(o))
      /\ page.more = more /\ page.next = End(o)
  BY <1>1, PageIsCut DEF LogType
<1>3. /\ IsFiniteSet(M) /\ IsOrder(M, Earlier(M)) /\ Cardinality(M) \in Nat
  BY ListedType
<1>4. \A p \in M : Place(Earlier(M), p) \in Nat
  <2> HIDE DEF M
  <2> QED
    BY <1>3, PlaceType
<1> HIDE DEF page, more
<1>5. /\ v.state = IF more THEN "walking" ELSE "done"
      /\ v.offset = End(o) /\ v.pages = Append(w.pages, page.events)
      /\ v.before = IF w.state = "idle" THEN l ELSE w.before
      /\ v.last = l
  BY <1>2 DEF Turned, Walk, page
<1>6. v = [state |-> v.state, offset |-> v.offset, pages |-> v.pages,
           before |-> v.before, last |-> v.last]
  BY DEF Turned, Walk
<1> HIDE DEF v
<1>7. /\ Len(v.pages) = n + 1 /\ DOMAIN v.pages = 1..(n + 1)
      /\ \A i \in 1..n : v.pages[i] = w.pages[i]
      /\ v.pages[n + 1] = page.events
      /\ DOMAIN w.pages = 1..n
      /\ v.pages \in Seq(SUBSET EventType)
  BY <1>1, <1>2, <1>5
<1>8. WalkType(v)
  <2>1. v.state \in {"idle", "walking", "done"} /\ v.offset \in Nat
    BY <1>1, <1>5
  <2>2. v.before \in SUBSET EventType /\ v.last \in SUBSET EventType
    BY <1>1, <1>5 DEF WalkType, LogType
  <2> QED
    BY <1>6, <1>7, <2>1, <2>2 DEF WalkType
<1>9. /\ Ids(v.before) \subseteq Ids(v.last) /\ Ids(v.last) \subseteq Ids(l)
      /\ w.state = "walking" => v.before = w.before
      /\ w.state = "idle" => n = 0
  BY <1>5 DEF WalkInv
<1>10. ShownIds(v) = ShownIds(w) \cup Ids(page.events)
  <2>1. \A i \in 1..(n + 1) : i \in 1..n \/ i = n + 1
    BY <1>1
  <2> QED
    BY <1>1, <1>7, <2>1 DEF ShownIds
<1>11. NothingPassedOver(v)
  BY <1>5, <1>8, <1>10, PagePassesNothing DEF page
<1>12. \A i \in 1..n : Overtaken(l, w, i) => Overtaken(l, v, i)
  BY <1>1, <1>7, <1>9 DEF Overtaken
<1>13. ASSUME NEW i \in 1..(n + 1) PROVE InPlace(l, v, i)
  <2>1. CASE i \in 1..n
    <3>1. InPlace(l, w, i)
      BY <1>7, <2>1 DEF WalkInv
    <3> QED
      BY <1>1, <1>4, <1>5, <1>7, <1>12, <2>1, <3>1 DEF InPlace
  <2>2. CASE i = n + 1
    <3>1. \A p \in Cut(M, Earlier(M), o, End(o)) : p \in M /\ Place(Earlier(M), p) < End(o)
      BY <1>1, <1>4 DEF Cut
    <3> QED
      BY <1>2, <1>5, <1>7, <2>2, <3>1 DEF InPlace
  <2> QED
    BY <1>1, <2>1, <2>2
<1>14. NoRepeats(l, v)
  <2> SUFFICES ASSUME NEW i \in 1..(n + 1), NEW j \in 1..(n + 1), i < j,
                      NEW p \in Ids(v.pages[i]), p \in Ids(v.pages[j])
               PROVE  Overtaken(l, v, i)
    BY <1>7 DEF NoRepeats
  <2>1. i \in 1..n /\ InPlace(l, w, i)
    <3>1. i \in 1..n
      BY <1>1
    <3> QED
      BY <1>7, <3>1 DEF WalkInv
  <2>2. CASE j \in 1..n
    BY <1>7, <1>12, <2>1, <2>2 DEF WalkInv, NoRepeats
  <2>3. CASE j = n + 1
    <3>1. p \in Cut(M, Earlier(M), o, End(o))
      BY <1>2, <1>7, <2>3
    <3>2. ~(Place(Earlier(M), p) < o)
      BY <1>1, <1>4, <3>1 DEF Cut
    <3>3. Overtaken(l, w, i)
      BY <1>7, <2>1, <3>2 DEF InPlace
    <3> QED
      BY <1>12, <2>1, <3>3
  <2> QED
    BY <1>1, <2>2, <2>3
<1>15. /\ v.state # "idle"
       /\ v.state = "walking" => v.offset <= Cardinality(Listed(v.last))
       /\ v.state = "done" => v.offset >= Cardinality(Listed(v.last))
  BY <1>1, <1>3, <1>5 DEF more
<1> QED
  BY <1>5, <1>7, <1>8, <1>9, <1>11, <1>13, <1>14, <1>15 DEF WalkInv, v

\* So does recording an event: either its id was there, or it overtakes a page,
\* or it comes after all the page shows.
LEMMA InsertKeepsWalkInv ==
  ASSUME NEW l, LogType(l), NEW m, LogType(m), NEW e, Ids(m) = Ids(l) \cup {e},
         NEW w, WalkInv(l, w)
  PROVE  WalkInv(m, w)
<1>1. \A i \in DOMAIN w.pages : Overtaken(l, w, i) => Overtaken(m, w, i)
  BY DEF Overtaken
<1>2. ASSUME NEW i \in DOMAIN w.pages PROVE InPlace(m, w, i)
  <2> DEFINE L == Listed(l)
             M == Listed(m)
  <2>1. InPlace(l, w, i) /\ Ids(w.before) \subseteq Ids(l)
    BY DEF WalkInv
  <2>2. /\ L \subseteq M /\ M \cap Ids(l) \subseteq L /\ M \subseteq Ids(m)
    BY ListedType, ListedGrows
  <2>3. CASE e \notin Ids(l) /\ \E q \in Ids(w.pages[i]) : Comes(e, q)
    <3>1. Overtaken(m, w, i)
      BY <2>1, <2>3 DEF Overtaken
    <3> QED
      BY <2>1, <2>2, <3>1 DEF InPlace
  <2>4. CASE e \in Ids(l) \/ \A q \in Ids(w.pages[i]) : ~Comes(e, q)
    <3>1. ASSUME NEW q \in Ids(w.pages[i])
          PROVE  Place(Earlier(M), q) = Place(Earlier(L), q)
      <4>1. q \in L /\ q \in M
        BY <2>1, <2>2 DEF InPlace
      <4>2. {p \in M : Comes(p, q)} = {p \in L : Comes(p, q)}
        BY <2>2, <2>4
      <4> HIDE DEF L, M
      <4> QED
        BY <4>1, <4>2 DEF Place, Earlier
    <3> QED
      BY <1>1, <2>1, <2>2, <3>1 DEF InPlace
  <2> QED
    BY <2>3, <2>4
<1>3. NoRepeats(m, w)
  BY <1>1 DEF WalkInv, NoRepeats
<1> QED
  BY <1>2, <1>3 DEF WalkInv

-----------------------------------------------------------------------------
(***************************************************************************)
(* The inductive invariant of the server, its hooks and the walk.          *)
(***************************************************************************)

\* m is l, or l with an event recorded by the time t.
Grows(l, m, t) ==
  \/ m = l
  \/ \E e \in EventType : e.at <= t /\ e.key \in Keys /\ m = Insert(l, e)

LogUpTo(l, t) == LogType(l) /\ \A e \in l : e.at <= t /\ e.key \in Keys

SInv ==
  /\ TypeOK
  /\ LogUpTo(log, now)
  /\ sent \in Seq(Lines)
  /\ started \in [Hooks -> Nat] /\ \A h \in Hooks : started[h] <= now
  /\ WalkInv(log, walk)

\* Recording an event leaves a log, with its id among the ids.
LEMMA GrowsKeeps ==
  ASSUME NEW t \in Nat, NEW l, LogUpTo(l, t), NEW m, Grows(l, m, t)
  PROVE  /\ LogUpTo(m, t)
         /\ \A w : WalkInv(l, w) => WalkInv(m, w)
<1>1. CASE m = l
  BY <1>1
<1>2. ASSUME NEW e \in EventType, e.at <= t, e.key \in Keys, m = Insert(l, e)
      PROVE  /\ LogUpTo(m, t)
             /\ \A w : WalkInv(l, w) => WalkInv(m, w)
  <2> DEFINE others == {f \in l : Id(f) # Id(e)}
  <2>1. m = others \cup {e}
    BY <1>2 DEF Insert, Id
  <2>2. others \in SUBSET l /\ IsFiniteSet(l) /\ l \in SUBSET EventType
        /\ \A f, g \in l : Id(f) = Id(g) => f = g
    BY DEF LogUpTo, LogType
  <2>3. IsFiniteSet(m)
    <3>1. IsFiniteSet(others)
      BY <2>2, FS_Subset
    <3> HIDE DEF others
    <3> QED
      BY <2>1, <3>1, FS_AddElement
  <2>4. m \in SUBSET EventType
    BY <2>1, <2>2
  <2>5. \A f, g \in m : Id(f) = Id(g) => f = g
    BY <2>1, <2>2
  <2>6. \A f \in m : f.at <= t /\ f.key \in Keys
    BY <1>2, <2>1 DEF LogUpTo
  <2>7. LogUpTo(m, t)
    BY <2>3, <2>4, <2>5, <2>6 DEF LogUpTo, LogType
  <2>8. Ids(m) = Ids(l) \cup {Id(e)}
    BY <2>1 DEF Ids
  <2>9. LogType(l) /\ LogType(m)
    BY <2>7 DEF LogUpTo
  <2> QED
    BY <2>7, <2>8, <2>9, InsertKeepsWalkInv
<1> QED
  BY <1>1, <1>2 DEF Grows

\* An engagement is classified as one of the types and outcomes there are.
LEMMA EngagementType ==
  ASSUME NEW tool, NEW ok, NEW relevant \in BOOLEAN, NEW degraded \in BOOLEAN
  PROVE  /\ ClassifyMcp(tool, ok)
              \in [type : EngagementTypes, outcome : Outcomes, missed : BOOLEAN]
         /\ ClassifyHook("silence", relevant, TRUE, degraded)
              \in [type : EngagementTypes, outcome : Outcomes, missed : BOOLEAN]
<1> DEFINE E == [type : EngagementTypes, outcome : Outcomes, missed : BOOLEAN]
<1>1. /\ Engagement("error", "failed", FALSE) \in E
      /\ Engagement("baseline_capture", "engaged", FALSE) \in E
      /\ Engagement("graph_query", "engaged", FALSE) \in E
      /\ Engagement("user_visible_advice", "engaged", FALSE) \in E
      /\ \A missed \in BOOLEAN : Engagement("passive_silence", "quiet", missed) \in E
  BY DEF Engagement, EngagementTypes, Outcomes
<1>2. ClassifyHook("silence", relevant, TRUE, degraded) \in E
  <2>1. (relevant /\ TRUE) \in BOOLEAN
    OBVIOUS
  <2>2. \/ ClassifyHook("silence", relevant, TRUE, degraded)
             = Engagement("error", "failed", FALSE)
        \/ ClassifyHook("silence", relevant, TRUE, degraded)
             = Engagement("passive_silence", "quiet", relevant /\ TRUE)
    BY DEF ClassifyHook
  <2> HIDE DEF E
  <2> QED
    BY <1>1, <2>1, <2>2
<1>3. ClassifyMcp(tool, ok) \in E
  <2>1. \/ ClassifyMcp(tool, ok) = Engagement("error", "failed", FALSE)
        \/ ClassifyMcp(tool, ok) = Engagement("baseline_capture", "engaged", FALSE)
        \/ ClassifyMcp(tool, ok) = Engagement("graph_query", "engaged", FALSE)
        \/ ClassifyMcp(tool, ok) = Engagement("user_visible_advice", "engaged", FALSE)
    BY Zenon DEF ClassifyMcp
  <2> HIDE DEF E
  <2> QED
    BY <1>1, <2>1
<1> QED
  BY <1>2, <1>3

\* The event of a call carries the present time.
LEMMA LogCallGrows ==
  ASSUME SInv, NEW call, LogCall(call)
  PROVE  Grows(log, log', now)
<1>1. ASSUME NEW k \in Keys, log' = Insert(log, McpEvent(call, k))
      PROVE  Grows(log, log', now)
  <2> DEFINE e == McpEvent(call, k)
             g == ClassifyMcp(call.tool, Works(call))
  <2>1. e = [at |-> now, key |-> k, session |-> Query.session, engagement |-> g]
    BY DEF McpEvent
  <2>2. g \in [type : EngagementTypes, outcome : Outcomes, missed : BOOLEAN]
    BY EngagementType
  <2>3. now \in Nat /\ k \in Nat
    BY McpAssumption DEF SInv, TypeOK
  <2> HIDE DEF g, e
  <2>4. e \in EventType /\ e.at = now /\ e.key = k
    BY <2>1, <2>2, <2>3 DEF EventType
  <2> QED
    BY <1>1, <2>3, <2>4 DEF Grows, e
<1> QED
  BY <1>1 DEF LogCall, Grows

\* That of a hook, the time the hook started.
LEMMA EndHookGrows ==
  ASSUME SInv, NEW h \in Hooks, EndHook(h)
  PROVE  Grows(log, log', now)
<1>1. ASSUME NEW relevant \in BOOLEAN, NEW degraded \in BOOLEAN,
             log' = Insert(log,
               [at |-> started[h], key |-> HookKey[h], session |-> Query.session,
                engagement |-> ClassifyHook("silence", relevant, TRUE, degraded)])
      PROVE  Grows(log, log', now)
  <2> DEFINE g == ClassifyHook("silence", relevant, TRUE, degraded)
             e == [at |-> started[h], key |-> HookKey[h], session |-> Query.session,
                   engagement |-> g]
  <2>1. g \in [type : EngagementTypes, outcome : Outcomes, missed : BOOLEAN]
    BY EngagementType
  <2>2. started[h] \in Nat /\ started[h] <= now /\ HookKey[h] \in Keys /\ HookKey[h] \in Nat
    BY McpAssumption DEF SInv
  <2>3. log' = Insert(log, e)
    BY <1>1
  <2> HIDE DEF g
  <2>4. e \in EventType /\ e.at = started[h] /\ e.key = HookKey[h]
    BY <2>1, <2>2 DEF EventType
  <2> HIDE DEF e
  <2> QED
    BY <2>2, <2>3, <2>4 DEF Grows
<1> QED
  BY <1>1 DEF EndHook, Grows

\* Nothing is recorded, sent, started or shown at first.
LEMMA InitSInv == Init => SInv
<1> SUFFICES ASSUME Init PROVE SInv
  OBVIOUS
<1>1. LogUpTo(log, now) /\ LogType({})
  BY FS_EmptySet DEF Init, LogUpTo, LogType
<1>2. TypeOK
  BY McpAssumption DEF Init, TypeOK, Walk
<1>3. /\ sent = <<>> /\ started \in [Hooks -> Nat] /\ \A h \in Hooks : started[h] <= now
      /\ log = {}
  BY DEF Init
<1>4. sent \in Seq(Lines)
  BY <1>3
<1>5. /\ walk.state = "idle" /\ walk.offset = 0 /\ walk.pages = <<>>
      /\ walk.before = {} /\ walk.last = {}
      /\ walk = [state |-> "idle", offset |-> 0, pages |-> <<>>, before |-> {}, last |-> {}]
  BY DEF Init, Walk
<1>6. WalkType(walk)
  <2>1. <<>> \in Seq(SUBSET EventType)
    OBVIOUS
  <2> QED
    BY <1>5, <2>1 DEF WalkType
<1>7. Ids({}) = {} /\ Listed({}) = {} /\ DOMAIN walk.pages = {}
  BY <1>5 DEF Ids, Listed, Selected
<1>8. WalkInv(log, walk)
  BY <1>1, <1>3, <1>5, <1>6, <1>7 DEF WalkInv, NothingPassedOver, NoRepeats
<1> QED
  BY <1>1, <1>2, <1>3, <1>4, <1>8 DEF SInv

\* A log that grows under a walk that stays.
LEMMA GrowsSInv ==
  ASSUME SInv, Grows(log, log', now), UNCHANGED <<now, walk, started, sent>>,
         handled' \in 0..Len(sent)
  PROVE  SInv'
<1>1. now \in Nat /\ now \in 1..MaxTime
  BY McpAssumption DEF SInv, TypeOK
<1>2. LogUpTo(log', now) /\ WalkInv(log', walk)
  BY <1>1, GrowsKeeps DEF SInv
<1>3. TypeOK'
  BY <1>1, <1>2 DEF SInv, TypeOK, LogUpTo, LogType, Id
<1> QED
  BY <1>2, <1>3 DEF SInv

\* Every step preserves the invariant.
LEMMA NextSInv ==
  ASSUME SInv, [Next]_vars
  PROVE  SInv'
<1>1. /\ now \in Nat /\ Len(sent) \in Nat /\ handled \in 0..Len(sent) /\ sent \in Seq(Lines)
      /\ MaxTime \in Nat /\ Grows(log, log, now)
  BY McpAssumption DEF SInv, TypeOK, Grows
<1>2. CASE UNCHANGED vars
  BY <1>1, <1>2, GrowsSInv DEF vars
<1>3. CASE Tick
  <2>1. /\ now' = now + 1 /\ now' \in 1..MaxTime
        /\ UNCHANGED <<log, sent, handled, started, walk>>
    BY <1>1, <1>3 DEF Tick
  <2>2. LogUpTo(log, now')
    <3>1. \A e \in log : e.at \in Nat
      BY DEF SInv, LogUpTo, LogType, EventType
    <3> QED
      BY <1>1, <2>1, <3>1 DEF SInv, LogUpTo
  <2>3. \A h \in Hooks : started[h] <= now'
    BY <1>1, <2>1 DEF SInv
  <2>4. TypeOK'
    BY <2>1, <2>2 DEF SInv, TypeOK, LogUpTo
  <2> QED
    BY <2>1, <2>2, <2>3, <2>4 DEF SInv
<1>4. CASE Serve
  <2>1. handled < Len(sent) /\ handled' = handled + 1 /\ UNCHANGED <<now, walk, started, sent>>
    BY <1>4 DEF Serve, SkipBlank, LoopThrows, HandleRequest, Serves
  <2>2. Grows(log, log', now)
    <3>1. CASE UNCHANGED log
      BY <1>1, <3>1
    <3>2. CASE LogCall(Line)
      BY <3>2, LogCallGrows
    <3> QED
      BY <1>4, <3>1, <3>2 DEF Serve, SkipBlank, LoopThrows, HandleRequest
  <2>3. handled' \in 0..Len(sent)
    BY <1>1, <2>1
  <2> QED
    BY <2>1, <2>2, <2>3, GrowsSInv
<1>5. CASE ReviewPage
  <2>1. /\ walk.state \in {"idle", "walking"} /\ walk' = Turned(log, walk)
        /\ UNCHANGED <<now, sent, handled, started>>
    BY <1>5 DEF ReviewPage, Turned
  <2>2. Grows(log, log', now)
    BY <1>5, LogCallGrows DEF ReviewPage
  <2>3. WalkInv(log, walk')
    BY <2>1, PageKeepsWalkInv DEF SInv, LogUpTo
  <2>4. LogUpTo(log', now) /\ WalkInv(log', walk')
    BY <1>1, <2>2, <2>3, GrowsKeeps DEF SInv
  <2>5. walk'.state \in {"idle", "walking", "done"}
    BY <2>3 DEF WalkInv, WalkType
  <2>6. TypeOK'
    BY <2>1, <2>4, <2>5 DEF SInv, TypeOK, LogUpTo, LogType, Id
  <2> QED
    BY <2>1, <2>4, <2>6 DEF SInv
<1>6. ASSUME NEW line \in Lines, Send(line) PROVE SInv'
  <2>1. sent' = Append(sent, line) /\ UNCHANGED <<now, log, handled, started, walk>>
    BY <1>6 DEF Send
  <2>2. sent' \in Seq(Lines) /\ Len(sent') = Len(sent) + 1
    BY <1>1, <2>1
  <2>3. TypeOK'
    BY <1>1, <2>1, <2>2 DEF SInv, TypeOK
  <2> QED
    BY <2>1, <2>2, <2>3 DEF SInv
<1>7. ASSUME NEW h \in Hooks, StartHook(h) PROVE SInv'
  <2>1. started' = [started EXCEPT ![h] = now] /\ UNCHANGED <<now, log, sent, handled, walk>>
    BY <1>7 DEF StartHook
  <2>2. started' \in [Hooks -> Nat] /\ \A g \in Hooks : started'[g] <= now
    BY <1>1, <2>1 DEF SInv
  <2>3. TypeOK'
    BY <2>1 DEF SInv, TypeOK
  <2> QED
    BY <2>1, <2>2, <2>3 DEF SInv
<1>8. ASSUME NEW h \in Hooks, EndHook(h) PROVE SInv'
  <2>1. UNCHANGED <<now, sent, handled, started, walk>>
    BY <1>8 DEF EndHook
  <2> QED
    BY <1>1, <1>8, <2>1, EndHookGrows, GrowsSInv
<1> QED
  BY <1>2, <1>3, <1>4, <1>5, <1>6, <1>7, <1>8 DEF Next

-----------------------------------------------------------------------------
(***************************************************************************)
(* The theorems.                                                           *)
(***************************************************************************)

\* The inductive invariant holds in every reachable state.
THEOREM Invariance == Spec => []SInv
<1> QED
  BY InitSInv, NextSInv, PTL DEF Spec

\* The log holds one event per id, none from the future, and the server never
\* takes a line that was not written.
THEOREM TypeCorrect == Spec => []TypeOK
<1>1. SInv => TypeOK
  BY DEF SInv
<1> QED
  BY <1>1, Invariance, PTL

\* The shown ids are the ids of the shown events.
LEMMA ShownByIds ==
  ASSUME SInv
  PROVE  \A p : p \in ShownIds(walk) <=> \E f \in Shown : Id(f) = p
<1>1. walk.pages \in Seq(SUBSET EventType)
  BY DEF SInv, WalkInv, WalkType
<1> QED
  BY <1>1 DEF ShownIds, Shown, Ids

\* A walk that follows the cursors to the end has shown every event the log held
\* when it began, whatever hooks and calls have recorded meanwhile.
THEOREM WalkIsComplete == Spec => []WalkOmitsNothing
<1>1. SInv => WalkOmitsNothing
  <2> SUFFICES ASSUME SInv, walk.state = "done", NEW e \in Selected(walk.last, Query)
               PROVE  \/ IsShown(e)
                      \/ /\ \A b \in walk.before : <<b.at, b.key>> # <<e.at, e.key>>
                         /\ \E f \in Shown : SortsBefore(e, f)
    BY DEF WalkOmitsNothing
  <2> DEFINE L == Listed(walk.last)
  <2>1. /\ LogType(walk.last) /\ walk.offset >= Cardinality(L) /\ walk.offset \in Nat
        /\ NothingPassedOver(walk)
    BY DEF SInv, WalkInv, WalkType
  <2>2. Id(e) \in L
    BY DEF Listed, Ids
  <2>3. /\ Place(Earlier(L), Id(e)) \in Nat /\ Cardinality(L) \in Nat
        /\ Place(Earlier(L), Id(e)) < Cardinality(L)
    <3>1. IsFiniteSet(L) /\ IsOrder(L, Earlier(L)) /\ Cardinality(L) \in Nat
      BY <2>1, ListedType
    <3> HIDE DEF L
    <3> QED
      BY <2>2, <3>1, PlaceType
  <2>4. Settled(walk, Id(e))
    BY <2>1, <2>2, <2>3 DEF NothingPassedOver
  <2>5. CASE Id(e) \in ShownIds(walk)
    <3>1. PICK f \in Shown : Id(f) = Id(e)
      BY <2>5, ShownByIds
    <3> QED
      BY <3>1 DEF IsShown, Id
  <2>6. CASE Id(e) \notin Ids(walk.before) /\ \E q \in ShownIds(walk) : Comes(Id(e), q)
    <3>1. PICK f \in Shown : Comes(Id(e), Id(f))
      BY <2>6, ShownByIds
    <3>2. SortsBefore(e, f)
      BY <3>1 DEF Comes, Id, SortsBefore
    <3> QED
      BY <2>6, <3>2 DEF Ids, Id
  <2> QED
    BY <2>4, <2>5, <2>6 DEF Settled
<1> QED
  BY <1>1, Invariance, PTL

\* And it shows an event twice only after one was recorded before what it had
\* shown.
THEOREM RepeatsAreBackdated == Spec => []WalkRepeatsOnlyAfterBackdating
<1>1. SInv => WalkRepeatsOnlyAfterBackdating
  <2> SUFFICES ASSUME SInv, NEW i \in DOMAIN walk.pages, NEW j \in DOMAIN walk.pages,
                      i < j, NEW e \in walk.pages[i], NEW f \in walk.pages[j],
                      e.at = f.at, e.key = f.key
               PROVE  \E d \in log \ walk.before : \E g \in walk.pages[i] : SortsBefore(d, g)
    BY DEF WalkRepeatsOnlyAfterBackdating
  <2>1. Id(e) \in Ids(walk.pages[i]) /\ Id(e) \in Ids(walk.pages[j])
    BY DEF Ids, Id
  <2>2. Overtaken(log, walk, i)
    BY <2>1 DEF SInv, WalkInv, NoRepeats
  <2>3. PICK d \in log, g \in walk.pages[i] :
          Id(d) \notin Ids(walk.before) /\ Comes(Id(d), Id(g))
    BY <2>2 DEF Overtaken, Ids
  <2>4. d \notin walk.before /\ SortsBefore(d, g)
    BY <2>3 DEF Ids, Comes, Id, SortsBefore
  <2> QED
    BY <2>4
<1> QED
  BY <1>1, Invariance, PTL

-----------------------------------------------------------------------------
(***************************************************************************)
(* The replies.                                                            *)
(***************************************************************************)

ReplyKinds == {"result", "-32601", "-32602", "-32603"}

\* Nothing is replied to that has not been taken, and what has been taken
\* stays as it was written.
RInv ==
  /\ sent \in Seq(Lines) /\ handled \in 0..Len(sent)
  /\ replies \in Seq([line : Nat, kind : ReplyKinds, worked : BOOLEAN])
  /\ RepliesFollowRequests

\* The server's answer to the next line.
LEMMA AnswerIsOne ==
  ASSUME Answer(Line), Line.kind \notin FatalKinds \cup {"blank"}
  PROVE  \/ Line.kind = "notification" /\ replies' = replies
         \/ /\ Line.kind # "notification"
            /\ \E kind \in ReplyKinds, worked \in BOOLEAN :
                 replies' = Append(replies, Reply(kind, worked))
<1>1. Works(Line) \in BOOLEAN
  BY DEF Works
<1>2. CASE Line.kind = "notification"
  BY <1>2 DEF Answer
<1>3. CASE Line.kind = "ping"
  BY <1>3 DEF Answer, ReplyKinds
<1>4. CASE Line.kind = "unknown"
  BY <1>4 DEF Answer, ReplyKinds
<1>5. CASE Line.kind = "nameless"
  BY <1>5 DEF Answer, ReplyKinds
<1>6. CASE Line.kind \notin {"notification", "ping", "unknown", "nameless"}
  BY <1>1, <1>6 DEF Answer, ReplyKinds
<1> QED
  BY <1>2, <1>3, <1>4, <1>5, <1>6

\* A line taken without a reply is not a request, and leaves the replies as
\* they are.
LEMMA SilentKeepsRInv ==
  ASSUME RInv, UNCHANGED <<sent, replies>>, handled' \in 0..Len(sent),
         \/ handled' = handled
         \/ handled' = handled + 1 /\ ~IsRequest(handled + 1)
  PROVE  RInv'
<1>1. handled \in Nat /\ \A i \in 1..handled' : i \in 1..handled \/ ~IsRequest(i)
  BY DEF RInv
<1>2. \A i : IsRequest(i)' = IsRequest(i) /\ RepliesTo(i)' = RepliesTo(i)
  BY DEF IsRequest, RepliesTo
<1> QED
  BY <1>1, <1>2 DEF RInv, RepliesFollowRequests

\* A request taken with its reply.
LEMMA ReplyKeepsRInv ==
  ASSUME RInv, UNCHANGED sent, handled < Len(sent), handled' = handled + 1,
         IsRequest(handled + 1),
         NEW kind \in ReplyKinds, NEW worked \in BOOLEAN,
         replies' = Append(replies, Reply(kind, worked))
  PROVE  RInv'
<1> DEFINE n == Len(replies)
<1>1. /\ handled \in Nat /\ n \in Nat /\ DOMAIN replies = 1..n
      /\ Reply(kind, worked) \in [line : Nat, kind : ReplyKinds, worked : BOOLEAN]
      /\ Reply(kind, worked).line = handled + 1
  BY DEF RInv, Reply
<1>2. /\ replies' \in Seq([line : Nat, kind : ReplyKinds, worked : BOOLEAN])
      /\ DOMAIN replies' = 1..(n + 1)
      /\ \A r \in 1..n : replies'[r] = replies[r]
      /\ replies'[n + 1].line = handled + 1
  BY <1>1 DEF RInv
<1>3. \A i : IsRequest(i)' = IsRequest(i)
  BY DEF IsRequest
<1>4. \A r \in 1..n : replies[r].line \in 1..handled /\ IsRequest(replies[r].line)
  BY <1>1 DEF RInv, RepliesFollowRequests
<1>5. (\A r \in DOMAIN replies : replies[r].line \in 1..handled /\ IsRequest(replies[r].line))'
  <2>1. \A r \in 1..(n + 1) : r \in 1..n \/ r = n + 1
    BY <1>1
  <2>2. \A r \in 1..(n + 1) : LET i == replies'[r].line IN
          i \in 1..(handled + 1) /\ IsRequest(i)
    BY <1>1, <1>2, <1>4, <2>1
  <2> QED
    BY <1>2, <2>2 DEF IsRequest
<1>6. \A i \in 1..handled' : IsRequest(i)' => RepliesTo(i)' # {}
  <2> SUFFICES ASSUME NEW i \in 1..handled', IsRequest(i)' PROVE RepliesTo(i)' # {}
    OBVIOUS
  <2>1. CASE i = handled + 1
    <3>1. n + 1 \in RepliesTo(i)'
      BY <1>1, <1>2, <2>1 DEF RepliesTo
    <3> QED
      BY <3>1
  <2>2. CASE i \in 1..handled
    <3>1. RepliesTo(i) # {}
      BY <1>3, <2>2 DEF RInv, RepliesFollowRequests
    <3>2. RepliesTo(i) \subseteq RepliesTo(i)'
      BY <1>1, <1>2 DEF RepliesTo
    <3> QED
      BY <3>1, <3>2
  <2> QED
    BY <1>1, <2>1, <2>2
<1>7. \A q, r \in DOMAIN replies' : q < r => replies'[q].line < replies'[r].line
  <2> SUFFICES ASSUME NEW q \in 1..(n + 1), NEW r \in 1..(n + 1), q < r
               PROVE  replies'[q].line < replies'[r].line
    BY <1>2
  <2>1. q \in 1..n
    BY <1>1
  <2>2. CASE r = n + 1
    BY <1>1, <1>2, <1>4, <2>1, <2>2
  <2>3. CASE r \in 1..n
    BY <1>1, <1>2, <2>1, <2>3 DEF RInv, RepliesFollowRequests
  <2> QED
    BY <1>1, <2>2, <2>3
<1>8. handled' \in 0..Len(sent)
  BY <1>1 DEF RInv
<1> QED
  BY <1>2, <1>5, <1>6, <1>7, <1>8 DEF RInv, RepliesFollowRequests

\* Every step preserves it.
LEMMA NextRInv ==
  ASSUME RInv, [Next]_vars
  PROVE  RInv'
<1>1. handled \in Nat /\ Len(sent) \in Nat
  BY DEF RInv
<1>2. CASE UNCHANGED <<sent, handled, replies>>
  BY <1>2, SilentKeepsRInv DEF RInv
<1>3. ASSUME NEW line \in Lines, Send(line) PROVE RInv'
  <2>1. /\ sent' = Append(sent, line) /\ UNCHANGED <<handled, replies>>
        /\ sent' \in Seq(Lines) /\ Len(sent') = Len(sent) + 1
        /\ \A i \in 1..handled : sent'[i] = sent[i]
    BY <1>3 DEF Send, RInv
  <2>2. \A i \in 1..handled : IsRequest(i)' = IsRequest(i) /\ RepliesTo(i)' = RepliesTo(i)
    BY <2>1 DEF IsRequest, RepliesTo
  <2> QED
    BY <1>1, <2>1, <2>2 DEF RInv, RepliesFollowRequests
<1>4. CASE SkipBlank
  BY <1>1, <1>4, SilentKeepsRInv DEF SkipBlank, Serves, Line, IsRequest
<1>5. CASE LoopThrows
  BY <1>1, <1>5, SilentKeepsRInv DEF LoopThrows, Serves, Line, IsRequest
<1>6. CASE HandleRequest
  <2>1. /\ handled < Len(sent) /\ handled' = handled + 1 /\ UNCHANGED sent
        /\ Answer(Line) /\ Line.kind \notin FatalKinds \cup {"blank"}
        /\ IsRequest(handled + 1) <=> Line.kind # "notification"
    BY <1>6 DEF HandleRequest, Serves, Line, IsRequest
  <2>2. CASE Line.kind = "notification" /\ replies' = replies
    BY <1>1, <2>1, <2>2, SilentKeepsRInv
  <2>3. ASSUME Line.kind # "notification",
               NEW kind \in ReplyKinds, NEW worked \in BOOLEAN,
               replies' = Append(replies, Reply(kind, worked))
        PROVE  RInv'
    BY <2>1, <2>3, ReplyKeepsRInv
  <2> QED
    BY <2>1, <2>2, <2>3, AnswerIsOne
<1>7. CASE UNCHANGED vars \/ Tick \/ ReviewPage \/ \E h \in Hooks : StartHook(h) \/ EndHook(h)
  BY <1>2, <1>7 DEF vars, Tick, ReviewPage, StartHook, EndHook
<1> QED
  BY <1>3, <1>4, <1>5, <1>6, <1>7 DEF Next, Serve

\* Of the lines the server has taken each request has its reply, nothing else
\* has one, and the replies come in the order of the requests: so one to each.
THEOREM RepliesAreInOrder == Spec => []RepliesFollowRequests
<1>1. Init => RInv
  BY DEF Init, RInv, RepliesFollowRequests
<1>2. RInv => RepliesFollowRequests
  BY DEF RInv
<1> QED
  BY <1>1, <1>2, NextRInv, PTL DEF Spec
=============================================================================
