----------------------- MODULE AssessmentGraph_proofs -----------------------
(***************************************************************************)
(* Proofs about AssessmentGraph, for any history, assessments, filters and *)
(* limits.  First that cursors are bound to runs, in which what the nodes  *)
(* are plays no part.  Then what the nodes are: the filter of answers, the *)
(* order and the ids of nodes, how graphs grow, and what a page takes.     *)
(* Last the walk over pages of graphs that grow between one page and the   *)
(* next.                                                                   *)
(***************************************************************************)
EXTENDS AssessmentGraph, Places, WellFoundedInduction

\* A walk is a record; what its pages hold does not matter here.
WalkFields == {"status", "origin", "named", "types", "cursor", "shown",
               "repeats", "present", "answersThen", "decisionsThen"}

IsWalk(w) == w = [f \in WalkFields |-> w[f]]

\* The page a client is on belongs to the run it names, or to a run no younger
\* than the latest one; so does the call that fetches its next page, which never
\* reads an older run than the cursor's.
CursorsAreBound ==
  /\ \E S : runs \in Seq(S)
  /\ IsWalk(walk)
  /\ walk.named \in 0..Len(runs)
  /\ walk.cursor.run \in 0..Len(runs)
  /\ walk.named # 0 => walk.cursor = NoCursor \/ walk.cursor.run = walk.named
  /\ pc # "idle" =>
       /\ walk.status = "paging"
       /\ loaded.run \in 0..Len(runs)
       /\ walk.named # 0 => loaded.run = walk.named
       /\ walk.cursor.run <= loaded.run \/ walk.named # 0

IInv == CursorsAreBound /\ OnlyLatestIsRefused

\* A new walk has no cursor yet.
LEMMA NewWalkIsWalk ==
  ASSUME NEW origin, NEW named, NEW types
  PROVE  LET w == NewWalk(origin, named, types)
         IN /\ IsWalk(w) /\ w.status = "paging" /\ w.named = named
            /\ w.cursor = NoCursor
BY DEF NewWalk, IsWalk, WalkFields

\* A page leaves a walk with a cursor of the page's run.
LEMMA PageBindsCursor ==
  ASSUME NEW w, IsWalk(w), NEW result, NEW limit
  PROVE  LET v == WithPage(w, result, limit)
         IN /\ IsWalk(v) /\ v.named = w.named /\ v.status \in {"paging", "done"}
            /\ v.cursor.run = result.runId
BY DEF WithPage, IsWalk, WalkFields

\* The result a graph is built from names its run.
LEMMA ResultNamesRun ==
  ASSUME NEW r, NEW run, NEW open, NEW as, NEW ds
  PROVE  Result(r, run, open, as, ds).runId = r
BY DEF Result

\* A command, which adds a run or none, and leaves the client where it is or with
\* the first page of run r, keeps cursors bound.
LEMMA CommandKeepsCursors ==
  ASSUME IInv, \E S : runs' \in Seq(S), Len(runs') >= Len(runs), UNCHANGED <<pc, loaded>>,
         NEW r \in 1..Len(runs'),
         \/ UNCHANGED walk
         \/ /\ pc = "idle"
            /\ IsWalk(walk') /\ walk'.named \in {0, r}
            /\ walk'.status \in {"paging", "done"}
            /\ walk'.cursor.run = r
  PROVE  IInv'
<1>1. Len(runs) \in Nat /\ Len(runs') \in Nat
  BY DEF IInv, CursorsAreBound
<1>2. CASE UNCHANGED walk
  BY <1>1, <1>2 DEF IInv, CursorsAreBound, OnlyLatestIsRefused
<1>3. CASE walk' # walk
  BY <1>1, <1>3 DEF IInv, CursorsAreBound, OnlyLatestIsRefused
<1> QED
  BY <1>2, <1>3

LEMMA Initial ==
  ASSUME Init
  PROVE  IInv
<1>1. runs \in Seq(RunRecord) /\ pc = "idle"
  BY HistoryAssumption DEF Init
<1>2. /\ IsWalk(walk) /\ walk.named = 0 /\ walk.cursor = NoCursor
      /\ walk.status = "none"
  BY DEF Init, NewWalk, IsWalk, WalkFields
<1> QED
  BY <1>1, <1>2 DEF IInv, CursorsAreBound, OnlyLatestIsRefused, NoCursor

LEMMA Step ==
  ASSUME IInv, [Next]_vars
  PROVE  IInv'
<1>1. CASE Capture
  <2>1. PICK a \in Assessments, p \in Stale(Len(runs)),
             i \in Stale(Len(answers)), j \in Stale(Len(decisions)) :
          \E run, open, as, ds :
            /\ runs' = Append(runs, run)
            /\ InitialPage("capture", Result(Len(runs) + 1, run, open, as, ds))
    BY <1>1 DEF Capture
  <2>2. PICK run, open, as, ds :
          /\ runs' = Append(runs, run)
          /\ InitialPage("capture", Result(Len(runs) + 1, run, open, as, ds))
    BY <2>1
  <2>3. PICK S : runs \in Seq(S)
    BY DEF IInv, CursorsAreBound
  <2>4. runs \in Seq(S \cup {run})
    BY <2>3
  <2>5. runs' \in Seq(S \cup {run}) /\ Len(runs') = Len(runs) + 1 /\ Len(runs) \in Nat
    BY <2>2, <2>4
  <2>6. UNCHANGED <<pc, loaded>>
    BY <1>1 DEF Capture
  <2>7. ASSUME walk' # walk
        PROVE  /\ pc = "idle"
               /\ IsWalk(walk') /\ walk'.named \in {0, Len(runs')}
               /\ walk'.status \in {"paging", "done"}
               /\ walk'.cursor.run = Len(runs')
    <3>1. PICK result, named :
            /\ named \in {0, result.runId}
            /\ result = Result(Len(runs) + 1, run, open, as, ds)
            /\ walk' = WithPage(NewWalk("capture", named, {}), result, DefaultLimit)
      BY <2>2, <2>7 DEF InitialPage
    <3>2. result.runId = Len(runs')
      BY <2>5, <3>1 DEF Result
    <3>3. pc = "idle"
      BY <2>2, <2>7 DEF InitialPage
    <3>4. /\ IsWalk(NewWalk("capture", named, {}))
          /\ NewWalk("capture", named, {}).named = named
      BY NewWalkIsWalk
    <3>5. /\ IsWalk(walk') /\ walk'.named = named
          /\ walk'.status \in {"paging", "done"} /\ walk'.cursor.run = result.runId
      BY <3>1, <3>4, PageBindsCursor
    <3> QED
      BY <3>1, <3>2, <3>3, <3>5
  <2>8. Len(runs') \in 1..Len(runs')
    BY <2>5
  <2>9. (\E T : runs' \in Seq(T)) /\ Len(runs') >= Len(runs)
    BY <2>5
  <2> QED
    BY <2>6, <2>7, <2>8, <2>9, CommandKeepsCursors
<1>2. CASE RecordAnswer
  <2>1. PICK r \in Stale(Len(runs)) \ {0} :
          \E run, open, as, ds : InitialPage("answer", Result(r, run, open, as, ds))
    BY <1>2 DEF RecordAnswer
  <2>2. PICK run, open, as, ds : InitialPage("answer", Result(r, run, open, as, ds))
    BY <2>1
  <2>3. UNCHANGED <<runs, pc, loaded>>
    BY <1>2 DEF RecordAnswer
  <2>4. Len(runs) \in Nat /\ \E S : runs' \in Seq(S)
    BY <2>3 DEF IInv, CursorsAreBound
  <2>5. r \in 1..Len(runs') /\ Len(runs') >= Len(runs)
    BY <2>1, <2>3, <2>4 DEF Stale
  <2>7. ASSUME walk' # walk
        PROVE  /\ pc = "idle"
               /\ IsWalk(walk') /\ walk'.named \in {0, r}
               /\ walk'.status \in {"paging", "done"}
               /\ walk'.cursor.run = r
    <3>1. PICK result, named :
            /\ named \in {0, result.runId}
            /\ result = Result(r, run, open, as, ds)
            /\ walk' = WithPage(NewWalk("answer", named, {}), result, DefaultLimit)
      BY <2>2, <2>7 DEF InitialPage
    <3>2. result.runId = r
      BY <2>5, <3>1 DEF Result
    <3>3. pc = "idle"
      BY <2>2, <2>7 DEF InitialPage
    <3>4. /\ IsWalk(NewWalk("answer", named, {}))
          /\ NewWalk("answer", named, {}).named = named
      BY NewWalkIsWalk
    <3>5. /\ IsWalk(walk') /\ walk'.named = named
          /\ walk'.status \in {"paging", "done"} /\ walk'.cursor.run = result.runId
      BY <3>1, <3>4, PageBindsCursor
    <3> QED
      BY <3>1, <3>2, <3>3, <3>5
  <2> QED
    BY <2>3, <2>4, <2>5, <2>7, CommandKeepsCursors
<1>3. CASE RecordDecision
  <2>1. PICK r \in Stale(Len(runs)) \ {0} :
          \E run, open, as, ds : InitialPage("decide", Result(r, run, open, as, ds))
    BY <1>3 DEF RecordDecision
  <2>2. PICK run, open, as, ds : InitialPage("decide", Result(r, run, open, as, ds))
    BY <2>1
  <2>3. UNCHANGED <<runs, pc, loaded>>
    BY <1>3 DEF RecordDecision
  <2>4. Len(runs) \in Nat /\ \E S : runs' \in Seq(S)
    BY <2>3 DEF IInv, CursorsAreBound
  <2>5. r \in 1..Len(runs') /\ Len(runs') >= Len(runs)
    BY <2>1, <2>3, <2>4 DEF Stale
  <2>7. ASSUME walk' # walk
        PROVE  /\ pc = "idle"
               /\ IsWalk(walk') /\ walk'.named \in {0, r}
               /\ walk'.status \in {"paging", "done"}
               /\ walk'.cursor.run = r
    <3>1. PICK result, named :
            /\ named \in {0, result.runId}
            /\ result = Result(r, run, open, as, ds)
            /\ walk' = WithPage(NewWalk("decide", named, {}), result, DefaultLimit)
      BY <2>2, <2>7 DEF InitialPage
    <3>2. result.runId = r
      BY <2>5, <3>1 DEF Result
    <3>3. pc = "idle"
      BY <2>2, <2>7 DEF InitialPage
    <3>4. /\ IsWalk(NewWalk("decide", named, {}))
          /\ NewWalk("decide", named, {}).named = named
      BY NewWalkIsWalk
    <3>5. /\ IsWalk(walk') /\ walk'.named = named
          /\ walk'.status \in {"paging", "done"} /\ walk'.cursor.run = result.runId
      BY <3>1, <3>4, PageBindsCursor
    <3> QED
      BY <3>1, <3>2, <3>3, <3>5
  <2> QED
    BY <2>3, <2>4, <2>5, <2>7, CommandKeepsCursors
<1>4. CASE Ask
  <2>1. PICK named \in 0..Len(runs), types \in Filters :
          walk' = NewWalk("query", named, types)
    BY <1>4 DEF Ask
  <2>2. /\ IsWalk(walk') /\ walk'.status = "paging" /\ walk'.named = named
        /\ walk'.cursor = NoCursor
    BY <2>1, NewWalkIsWalk
  <2>3. pc = "idle" /\ UNCHANGED <<runs, pc>>
    BY <1>4 DEF Ask, ledgerVars
  <2> QED
    BY <2>2, <2>3 DEF IInv, CursorsAreBound, OnlyLatestIsRefused, NoCursor
<1>5. CASE ReadRun
  <2>1. walk.status = "paging" /\ UNCHANGED <<runs, walk>>
    BY <1>5 DEF ReadRun, ledgerVars
  <2> QED
    BY <1>5, <2>1 DEF ReadRun, IInv, CursorsAreBound, OnlyLatestIsRefused, NoCursor
<1>6. CASE ReadAnswers
  BY <1>6 DEF ReadAnswers, ledgerVars, IInv, CursorsAreBound, OnlyLatestIsRefused
<1>7. CASE ReadDecisions
  <2>1. pc # "idle" /\ pc' = "idle" /\ UNCHANGED runs
    BY <1>7 DEF ReadDecisions, ledgerVars
  <2>2. CASE CursorMatches(walk.cursor, loaded.run)
    <3>1. PICK limit \in Limits :
            walk' = WithPage(walk, Saved(loaded.run, loaded.answers, decisions), limit)
      BY <1>7, <2>2 DEF ReadDecisions
    <3>2. /\ IsWalk(walk') /\ walk'.named = walk.named
          /\ walk'.status \in {"paging", "done"} /\ walk'.cursor.run = loaded.run
      BY <3>1, PageBindsCursor, ResultNamesRun DEF Saved, IInv, CursorsAreBound
    <3> QED
      BY <2>1, <3>2 DEF IInv, CursorsAreBound, OnlyLatestIsRefused
  <2>3. CASE ~CursorMatches(walk.cursor, loaded.run)
    <3>1. walk' = [walk EXCEPT !.status = "refused"]
      BY <1>7, <2>3 DEF ReadDecisions
    <3>2. /\ IsWalk(walk') /\ walk'.named = walk.named /\ walk'.cursor = walk.cursor
      BY <3>1 DEF IInv, CursorsAreBound, IsWalk, WalkFields
    <3>3. walk.cursor # NoCursor /\ walk.cursor.run # loaded.run
      BY <2>3 DEF CursorMatches
    <3>4. walk.named = 0 /\ walk.cursor.run < loaded.run /\ loaded.run <= Len(runs)
      BY <2>1, <3>3 DEF IInv, CursorsAreBound
    <3> QED
      BY <2>1, <3>2, <3>4 DEF IInv, CursorsAreBound, OnlyLatestIsRefused
  <2> QED
    BY <2>2, <2>3
<1>8. CASE UNCHANGED vars
  BY <1>8 DEF vars, ledgerVars, IInv, CursorsAreBound, OnlyLatestIsRefused
<1> QED
  BY <1>1, <1>2, <1>3, <1>4, <1>5, <1>6, <1>7, <1>8 DEF Next

\* A client that names its run is never refused the cursor it was given, and one
\* that asks for the latest only when another run has been saved: decodeCursor,
\* with loadPersistedGraph, whatever is captured, answered and decided meanwhile.
THEOREM RefusalsAreForNewRuns == Spec => []OnlyLatestIsRefused
<1>1. Init => IInv
  BY Initial
<1>2. IInv /\ [Next]_vars => IInv'
  BY Step
<1>3. IInv => OnlyLatestIsRefused
  BY DEF IInv
<1> QED
  BY <1>1, <1>2, <1>3, PTL DEF Spec

-----------------------------------------------------------------------------
(***************************************************************************)
(* The filter of answers and of questions.                                 *)
(***************************************************************************)

\* The sequence f(n) of what the first n entries of s leave, as KeptUpTo.
KeptUpTo(s, K, n, f) ==
  f = [i \in 0..n |-> IF i = 0 THEN << >>
                      ELSE IF s[i] \in K THEN Append(f[i - 1], s[i]) ELSE f[i - 1]]

LEMMA KeptExists ==
  ASSUME NEW s, NEW K
  PROVE  \A n \in Nat : \E f : KeptUpTo(s, K, n, f)
<1> DEFINE T == {n \in Nat : \E f : KeptUpTo(s, K, n, f)}
<1>1. 0 \in T
  <2>1. KeptUpTo(s, K, 0, [i \in 0..0 |-> << >>])
    BY DEF KeptUpTo
  <2> QED
    BY <2>1
<1>2. ASSUME NEW n \in T, n \in Nat
      PROVE  n + 1 \in T
  <2>1. PICK f : KeptUpTo(s, K, n, f)
    BY <1>2
  <2> DEFINE g == [i \in 0..(n + 1) |->
                     IF i <= n THEN f[i]
                     ELSE IF s[i] \in K THEN Append(f[n], s[i]) ELSE f[n]]
  <2>2. KeptUpTo(s, K, n + 1, g)
    <3>1. \A i \in 0..n : f[i] = IF i = 0 THEN << >>
                      ELSE IF s[i] \in K THEN Append(f[i - 1], s[i]) ELSE f[i - 1]
      BY <2>1 DEF KeptUpTo
    <3>2. ASSUME NEW i \in 0..(n + 1)
          PROVE  g[i] = IF i = 0 THEN << >>
                      ELSE IF s[i] \in K THEN Append(g[i - 1], s[i]) ELSE g[i - 1]
      <4>1. CASE i <= n
        BY <3>1, <4>1
      <4>2. CASE i = n + 1
        BY <4>2
      <4> QED
        BY <4>1, <4>2
    <3>3. g = [i \in 0..(n + 1) |-> g[i]]
      OBVIOUS
    <3> HIDE DEF g
    <3> QED
      BY <3>2, <3>3 DEF KeptUpTo
  <2> QED
    BY <2>2
<1>3. Nat \subseteq T
  <2> HIDE DEF T
  <2> QED BY <1>1, <1>2, Induction
<1> QED
  BY <1>3

LEMMA KeptDef ==
  ASSUME NEW S, NEW s \in Seq(S), NEW K
  PROVE  \E f : KeptUpTo(s, K, Len(s), f) /\ Kept(s, K) = f[Len(s)]
<1>1. Len(s) \in Nat
  OBVIOUS
<1> DEFINE k == CHOOSE f : KeptUpTo(s, K, Len(s), f)
<1>2. KeptUpTo(s, K, Len(s), k)
  BY <1>1, KeptExists
<1>3. Kept(s, K) = k[Len(s)]
  BY DEF Kept, KeptUpTo
<1> QED
  BY <1>2, <1>3

\* What the first n entries leave.
LeftOf(s, K, n, t) ==
  /\ \A x : (\E j \in DOMAIN t : t[j] = x) <=> x \in K /\ \E i \in 1..n : s[i] = x
  /\ Len(t) = Cardinality({i \in 1..n : s[i] \in K})

LEMMA KeptFacts ==
  ASSUME NEW S, NEW s \in Seq(S), NEW K
  PROVE  Kept(s, K) \in Seq(S) /\ LeftOf(s, K, Len(s), Kept(s, K))
<1> DEFINE n == Len(s)
<1>1. n \in Nat
  OBVIOUS
<1>2. PICK f : KeptUpTo(s, K, n, f) /\ Kept(s, K) = f[n]
  BY KeptDef
<1>3. /\ f[0] = << >>
      /\ \A i \in 1..n : f[i] = IF s[i] \in K THEN Append(f[i - 1], s[i]) ELSE f[i - 1]
  <2>1. \A i \in 0..n : f[i] = IF i = 0 THEN << >>
                      ELSE IF s[i] \in K THEN Append(f[i - 1], s[i]) ELSE f[i - 1]
    BY <1>2 DEF KeptUpTo
  <2>2. 0 \in 0..n /\ \A i \in 1..n : i \in 0..n /\ i # 0
    BY <1>1
  <2> HIDE DEF n
  <2> QED
    BY <2>1, <2>2
<1> DEFINE T == {m \in Nat : m <= n => f[m] \in Seq(S) /\ LeftOf(s, K, m, f[m])}
<1>4. 0 \in T
  <2>1. {i \in 1..0 : s[i] \in K} = {}
    OBVIOUS
  <2>2. LeftOf(s, K, 0, << >>)
    BY <2>1, FS_EmptySet DEF LeftOf
  <2>3. << >> \in Seq(S)
    OBVIOUS
  <2> QED
    BY <1>3, <2>2, <2>3
<1>5. ASSUME NEW m \in T, m \in Nat
      PROVE  m + 1 \in T
  <2>1. SUFFICES ASSUME m + 1 <= n
                 PROVE  f[m + 1] \in Seq(S) /\ LeftOf(s, K, m + 1, f[m + 1])
    BY <1>5
  <2> DEFINE before == {i \in 1..m : s[i] \in K}
             upTo == {i \in 1..(m + 1) : s[i] \in K}
  <2>2. f[m] \in Seq(S) /\ LeftOf(s, K, m, f[m])
    BY <1>1, <1>5, <2>1
  <2>3. m + 1 \in 1..n /\ (m + 1) - 1 = m /\ s[m + 1] \in S
    BY <1>1, <1>5, <2>1
  <2>4. IsFiniteSet(before)
    BY <1>5, FS_Interval, FS_Subset, IsFiniteSet(1..m)
  <2>5. CASE s[m + 1] \in K
    <3>1. f[m + 1] = Append(f[m], s[m + 1])
      BY <1>3, <2>3, <2>5
    <3>2. upTo = before \cup {m + 1} /\ m + 1 \notin before
      BY <1>5, <2>5
    <3>3. Cardinality(upTo) = Cardinality(before) + 1
      BY <2>4, <3>2, FS_AddElement
    <3>4. Len(f[m + 1]) = Cardinality(upTo)
      BY <2>2, <2>3, <3>1, <3>3 DEF LeftOf
    <3>5. ASSUME NEW x
          PROVE  (\E j \in DOMAIN f[m + 1] : f[m + 1][j] = x)
                   <=> x \in K /\ \E i \in 1..(m + 1) : s[i] = x
      <4>1. (\E j \in DOMAIN f[m + 1] : f[m + 1][j] = x)
              <=> (\E j \in DOMAIN f[m] : f[m][j] = x) \/ x = s[m + 1]
        <5> DEFINE t == f[m]
        <5>1. t \in Seq(S) /\ Len(t) \in Nat
          BY <2>2
        <5> HIDE DEF t
        <5>2. /\ DOMAIN t = 1..Len(t)
              /\ DOMAIN Append(t, s[m + 1]) = 1..(Len(t) + 1)
              /\ Append(t, s[m + 1])[Len(t) + 1] = s[m + 1]
              /\ \A j \in 1..Len(t) : Append(t, s[m + 1])[j] = t[j]
          BY <2>3, <5>1
        <5>3. (\E j \in DOMAIN Append(t, s[m + 1]) : Append(t, s[m + 1])[j] = x)
                <=> (\E j \in DOMAIN t : t[j] = x) \/ x = s[m + 1]
          BY <5>1, <5>2
        <5> QED
          BY <3>1, <5>3 DEF t
      <4>2. (\E i \in 1..(m + 1) : s[i] = x) <=> (\E i \in 1..m : s[i] = x) \/ x = s[m + 1]
        BY <1>5
      <4> QED
        BY <2>2, <2>5, <4>1, <4>2 DEF LeftOf
    <3> QED
      BY <2>2, <2>3, <3>1, <3>4, <3>5 DEF LeftOf
  <2>6. CASE s[m + 1] \notin K
    <3>1. f[m + 1] = f[m]
      BY <1>3, <2>3, <2>6
    <3>2. upTo = before
      BY <1>5, <2>6
    <3>3. ASSUME NEW x \in K
          PROVE  (\E i \in 1..(m + 1) : s[i] = x) <=> (\E i \in 1..m : s[i] = x)
      BY <1>5, <2>6
    <3> QED
      BY <2>2, <3>1, <3>2, <3>3 DEF LeftOf
  <2> QED
    BY <2>5, <2>6
<1>6. n \in T
  <2>1. Nat \subseteq T
    <3> HIDE DEF T
    <3> QED
      BY <1>4, <1>5, Induction
  <2> QED
    BY <1>1, <2>1
<1> QED
  BY <1>2, <1>6

LEMMA KeptRange ==
  ASSUME NEW S, NEW s \in Seq(S), NEW K
  PROVE  Kept(s, K) \in Seq(S) /\ Range(Kept(s, K)) = Range(s) \cap K
<1> DEFINE t == Kept(s, K)
<1>1. t \in Seq(S) /\ LeftOf(s, K, Len(s), t)
  BY KeptFacts
<1> HIDE DEF t
<1>2. \A x : (\E j \in DOMAIN t : t[j] = x) <=> x \in K /\ \E i \in 1..Len(s) : s[i] = x
  BY <1>1, Zenon DEF LeftOf
<1>3. Range(t) = Range(s) \cap K
  BY <1>2 DEF Range
<1> QED
  BY <1>1, <1>3 DEF t

\* Two disjoint sets of entries that are all there is leave all.
LEMMA KeptOfTwo ==
  ASSUME NEW S, NEW s \in Seq(S), NEW K, NEW J, \A x \in S : x \in K <=> x \notin J
  PROVE  Len(Kept(s, K)) + Len(Kept(s, J)) = Len(s)
<1> DEFINE A == {i \in 1..Len(s) : s[i] \in K}
           B == {i \in 1..Len(s) : s[i] \in J}
<1>1. Len(s) \in Nat /\ \A i \in 1..Len(s) : s[i] \in S
  OBVIOUS
<1>2. A \cup B = 1..Len(s) /\ A \cap B = {}
  BY <1>1
<1>3. IsFiniteSet(1..Len(s)) /\ Cardinality(1..Len(s)) = Len(s)
  BY <1>1, FS_Interval
<1>4. IsFiniteSet(A) /\ IsFiniteSet(B)
  BY <1>2, <1>3, FS_Subset
<1>5. Cardinality(A \cup B) = Cardinality(A) + Cardinality(B) - Cardinality(A \cap B)
  BY <1>4, FS_Union
<1>6. Cardinality(A \cap B) = 0 /\ Cardinality(A) \in Nat /\ Cardinality(B) \in Nat
  BY <1>2, <1>4, FS_EmptySet, FS_CardinalityType
<1>7. Len(Kept(s, K)) = Cardinality(A) /\ Len(Kept(s, J)) = Cardinality(B)
  BY KeptFacts DEF LeftOf
<1> HIDE DEF A, B
<1>8. Cardinality(A \cup B) = Len(s)
  BY <1>2, <1>3
<1> QED
  BY <1>5, <1>6, <1>7, <1>8

-----------------------------------------------------------------------------
(***************************************************************************)
(* The nodes of a graph: finitely many, no two of one id, and in an order. *)
(***************************************************************************)
Ranked == {"claim", "diagnostic"}

Ordered(nodes) ==
  /\ IsFiniteSet(nodes)
  /\ \A n \in nodes :
       /\ n.priority \in Nat /\ n.id[1] \in NodeTypes
       /\ n.id[1] \in Ranked => KeyRank[n.id[2]] \in Nat
  /\ \A m \in nodes, n \in nodes :
       /\ m.id = n.id => m = n
       /\ m # n /\ m.priority = n.priority /\ m.id[1] = n.id[1] =>
            m.id[1] \in Ranked /\ KeyRank[m.id[2]] # KeyRank[n.id[2]]

\* A result the graph is built from, as the code makes them.
IsResult(result) ==
  /\ result.runId \in Nat \ {0} /\ result.previous \in Nat
  /\ result.previous < result.runId
  /\ result.findings \in SUBSET Findings /\ result.links \in SUBSET Links
  /\ WellMade(result)
  /\ result.open \in Seq(Questions)
  /\ result.answered \in Seq(AnswerRecord) /\ result.skipped \in Seq(AnswerRecord)
  /\ result.decisions \in Seq(DecisionRecord)
  /\ \A i, j \in DOMAIN result.decisions :
       result.decisions[i].id = result.decisions[j].id => i = j

LEMMA NodeFields ==
  ASSUME NEW type, NEW key, NEW priority
  PROVE  /\ Node(type, key, priority).id = <<type, key>>
         /\ Node(type, key, priority).id[1] = type
         /\ Node(type, key, priority).id[2] = key
         /\ Node(type, key, priority).priority = priority
BY DEF Node

LEMMA EveryNodeType ==
  NodeTypes = {"artifact", "claim", "concern", "decision", "diagnostic",
               "evidence", "fact", "question", "recommendation", "run"}
<1>1. DOMAIN TypeOrder = 1..10
  BY DEF TypeOrder
<1>2. \A i \in 1..10 : i = 1 \/ i = 2 \/ i = 3 \/ i = 4 \/ i = 5 \/ i = 6 \/ i = 7
                       \/ i = 8 \/ i = 9 \/ i = 10
  OBVIOUS
<1>3. /\ TypeOrder[1] = "artifact" /\ TypeOrder[2] = "claim" /\ TypeOrder[3] = "concern"
      /\ TypeOrder[4] = "decision" /\ TypeOrder[5] = "diagnostic"
      /\ TypeOrder[6] = "evidence" /\ TypeOrder[7] = "fact" /\ TypeOrder[8] = "question"
      /\ TypeOrder[9] = "recommendation" /\ TypeOrder[10] = "run"
  BY DEF TypeOrder
<1>4. \A x : x \in NodeTypes <=> \E i \in 1..10 : x = TypeOrder[i]
  BY <1>1 DEF NodeTypes
<1>5. 1 \in 1..10 /\ 2 \in 1..10 /\ 3 \in 1..10 /\ 4 \in 1..10 /\ 5 \in 1..10
      /\ 6 \in 1..10 /\ 7 \in 1..10 /\ 8 \in 1..10 /\ 9 \in 1..10 /\ 10 \in 1..10
  OBVIOUS
<1> QED
  BY <1>2, <1>3, <1>4, <1>5

\* Types are ranked, each differently.
LEMMA TypeRanks ==
  ASSUME NEW t \in NodeTypes
  PROVE  TypeRank(t) \in Nat /\ TypeOrder[TypeRank(t)] = t
<1>1. \E i \in DOMAIN TypeOrder : TypeOrder[i] = t
  BY DEF NodeTypes
<1>2. DOMAIN TypeOrder \subseteq Nat
  BY DEF TypeOrder
<1> QED
  BY <1>1, <1>2 DEF TypeRank

\* What two sets of nodes of different types make together.
LEMMA Together ==
  ASSUME NEW A, NEW B, Ordered(A), Ordered(B),
         \A a \in A, b \in B : a.id[1] # b.id[1]
  PROVE  Ordered(A \cup B)
<1>1. IsFiniteSet(A \cup B)
  BY FS_Union DEF Ordered
<1>2. ASSUME NEW n \in A \cup B
      PROVE  /\ n.priority \in Nat /\ n.id[1] \in NodeTypes
             /\ n.id[1] \in Ranked => KeyRank[n.id[2]] \in Nat
  BY DEF Ordered
<1>3. ASSUME NEW m \in A \cup B, NEW n \in A \cup B
      PROVE  /\ m.id = n.id => m = n
             /\ m # n /\ m.priority = n.priority /\ m.id[1] = n.id[1] =>
                  m.id[1] \in Ranked /\ KeyRank[m.id[2]] # KeyRank[n.id[2]]
  BY DEF Ordered
<1> QED
  BY <1>1, <1>2, <1>3 DEF Ordered

LEMMA Subsets ==
  ASSUME NEW A, NEW B \in SUBSET A, Ordered(A)
  PROVE  Ordered(B)
BY FS_Subset DEF Ordered

\* Nodes of one type that are numbered: the f[i] for i from 1 to n.
LEMMA Numbered ==
  ASSUME NEW type \in NodeTypes, NEW n \in Nat, NEW I, I \subseteq 1..n,
         NEW f, f = [i \in I |-> f[i]],
         \A i \in I : f[i].id[1] = type /\ f[i].priority \in Nat,
         \A i, j \in I : i # j => f[i].id # f[j].id /\ f[i].priority # f[j].priority,
         type \notin Ranked
  PROVE  Ordered({f[i] : i \in I})
<1> DEFINE nodes == {f[i] : i \in I}
<1>1. IsFiniteSet(I)
  <2>1. IsFiniteSet(1..n)
    BY FS_Interval
  <2> QED
    BY <2>1, FS_Subset
<1>2. f \in Surjection(I, nodes)
  <2>1. f \in [I -> nodes]
    OBVIOUS
  <2> QED
    BY <2>1 DEF Surjection
<1>3. IsFiniteSet(nodes)
  <2> HIDE DEF nodes
  <2> QED
    BY <1>1, <1>2, FS_Surjection
<1>4. ASSUME NEW m \in nodes, NEW k \in nodes
      PROVE  /\ m.priority \in Nat /\ m.id[1] = type
             /\ m.id = k.id => m = k
             /\ m # k => m.priority # k.priority
  BY <1>4
<1> QED
  <2> HIDE DEF nodes
  <2>1. Ordered(nodes)
    BY <1>3, <1>4 DEF Ordered
  <2> QED
    BY <2>1 DEF nodes

LEMMA RunNodesOrdered ==
  ASSUME NEW result, IsResult(result)
  PROVE  /\ Ordered(RunNodes(result))
         /\ \A n \in RunNodes(result) : n.id[1] \in {"run", "recommendation"}
<1> DEFINE now == Node("run", result.runId, 0)
           advice == Node("recommendation", result.runId, 1)
           past == Node("run", result.previous, 90)
<1>1. RunNodes(result) \subseteq {now, advice, past}
  BY DEF RunNodes
<1>2. /\ now.id = <<"run", result.runId>> /\ now.priority = 0
      /\ advice.id = <<"recommendation", result.runId>> /\ advice.priority = 1
      /\ past.id = <<"run", result.previous>> /\ past.priority = 90
      /\ now.id[1] = "run" /\ advice.id[1] = "recommendation" /\ past.id[1] = "run"
  BY NodeFields
<1>3. result.runId # result.previous
  BY DEF IsResult
<1>4. now.id # past.id /\ now.id # advice.id /\ advice.id # past.id
  BY <1>2, <1>3
<1>5. IsFiniteSet({now, advice, past})
  <2>1. IsFiniteSet({now}) /\ IsFiniteSet({advice}) /\ IsFiniteSet({past})
    BY FS_Singleton
  <2>2. IsFiniteSet({now} \cup {advice})
    BY <2>1, FS_Union
  <2>3. IsFiniteSet(({now} \cup {advice}) \cup {past})
    BY <2>1, <2>2, FS_Union
  <2>4. ({now} \cup {advice}) \cup {past} = {now, advice, past}
    OBVIOUS
  <2> QED
    BY <2>3, <2>4
<1>6. "run" \in NodeTypes /\ "recommendation" \in NodeTypes
  BY EveryNodeType
<1> HIDE DEF now, advice, past
<1>7. Ordered({now, advice, past})
  BY <1>2, <1>4, <1>5, <1>6 DEF Ordered, Ranked
<1>8. Ordered(RunNodes(result))
  BY <1>1, <1>7, Subsets
<1> QED
  BY <1>1, <1>2, <1>8

LEMMA ArtifactNodesOrdered ==
  /\ Ordered(ArtifactNodes)
  /\ \A n \in ArtifactNodes : n.id[1] = "artifact"
<1> DEFINE f == [i \in 1..7 |-> Node("artifact", Artifacts[i], 80 + i - 1)]
<1>1. DOMAIN Artifacts = 1..7
  BY DEF Artifacts
<1>2. ArtifactNodes = {f[i] : i \in 1..7}
  BY <1>1 DEF ArtifactNodes
<1>3. \A i \in 1..7 : i = 1 \/ i = 2 \/ i = 3 \/ i = 4 \/ i = 5 \/ i = 6 \/ i = 7
  OBVIOUS
<1>4. \A i, j \in 1..7 : i # j => Artifacts[i] # Artifacts[j]
  BY <1>3 DEF Artifacts
<1>5. \A i \in 1..7 : f[i].id = <<"artifact", Artifacts[i]>> /\ f[i].id[1] = "artifact"
                      /\ f[i].priority = 80 + i - 1
  BY NodeFields
<1>6. "artifact" \in NodeTypes /\ "artifact" \notin Ranked
  BY EveryNodeType DEF Ranked
<1>7. \A i, j \in 1..7 : i # j => f[i].id # f[j].id /\ f[i].priority # f[j].priority
  BY <1>4, <1>5
<1>8. \A i \in 1..7 : f[i].id[1] = "artifact" /\ f[i].priority \in Nat
  BY <1>5
<1>9. f = [i \in 1..7 |-> f[i]]
  OBVIOUS
<1> HIDE DEF f
<1>10. Ordered({f[i] : i \in 1..7})
  <2> DEFINE I == 1..7
             n == 7
  <2>1. I \subseteq 1..n /\ n \in Nat
    OBVIOUS
  <2>2. f = [i \in I |-> f[i]]
    BY <1>9
  <2>3. \A i, j \in I : i # j => f[i].id # f[j].id /\ f[i].priority # f[j].priority
    BY <1>7
  <2>4. \A i \in I : f[i].id[1] = "artifact" /\ f[i].priority \in Nat
    BY <1>8
  <2> HIDE DEF I, n
  <2>5. Ordered({f[i] : i \in I})
    BY <1>6, <2>1, <2>2, <2>3, <2>4, Numbered
  <2> QED
    BY <2>5 DEF I
<1> QED
  BY <1>2, <1>8, <1>10

LEMMA FindingsOrdered ==
  ASSUME NEW result, IsResult(result)
  PROVE  /\ Ordered(result.findings)
         /\ \A n \in result.findings :
              n.id[1] \in {"evidence", "fact", "concern", "claim", "diagnostic"}
<1>1. \A n \in result.findings :
        /\ n.id \in FindingIds /\ n.priority \in Nat
        /\ n.id[1] \in {"evidence", "fact", "concern", "claim", "diagnostic"}
  BY DEF IsResult, Findings, FindingIds
<1>2. {"evidence", "fact", "concern", "claim", "diagnostic"} \subseteq NodeTypes
  BY EveryNodeType
<1> QED
  BY <1>1, <1>2 DEF IsResult, WellMade, Ordered, Ranked

LEMMA DecisionNodesOrdered ==
  ASSUME NEW result, IsResult(result)
  PROVE  /\ Ordered(DecisionNodes(result))
         /\ \A n \in DecisionNodes(result) : n.id[1] = "decision"
<1> DEFINE ds == result.decisions
           f == [i \in DOMAIN ds |-> Node("decision", ds[i].id, 60 + i - 1)]
<1>1. ds \in Seq(DecisionRecord) /\ DOMAIN ds = 1..Len(ds) /\ Len(ds) \in Nat
  BY DEF IsResult
<1>2. \A i, j \in DOMAIN ds : i # j => ds[i].id # ds[j].id
  BY DEF IsResult
<1>3. DecisionNodes(result) = {f[i] : i \in DOMAIN ds}
  BY DEF DecisionNodes
<1>4. \A i \in DOMAIN ds : f[i].id = <<"decision", ds[i].id>> /\ f[i].id[1] = "decision"
                           /\ f[i].priority = 60 + i - 1
  BY NodeFields
<1>5. "decision" \in NodeTypes /\ "decision" \notin Ranked
  BY EveryNodeType DEF Ranked
<1>8. f = [i \in DOMAIN ds |-> f[i]]
  OBVIOUS
<1> HIDE DEF f, ds
<1>6. ASSUME NEW i \in DOMAIN ds, NEW j \in DOMAIN ds, i # j
      PROVE  f[i].id # f[j].id /\ f[i].priority # f[j].priority
  <2>1. i \in Nat /\ j \in Nat
    BY <1>1
  <2>2. <<"decision", ds[i].id>> # <<"decision", ds[j].id>>
    BY <1>2, <1>6
  <2> QED
    BY <1>4, <1>6, <2>1, <2>2
<1>7. ASSUME NEW i \in DOMAIN ds
      PROVE  f[i].id[1] = "decision" /\ f[i].priority \in Nat
  <2>1. i \in Nat /\ i >= 1
    BY <1>1
  <2> QED
    BY <1>4, <2>1
<1>9. Ordered({f[i] : i \in DOMAIN ds})
  <2> DEFINE I == DOMAIN ds
             n == Len(ds)
  <2>1. I \subseteq 1..n /\ n \in Nat /\ f = [i \in I |-> f[i]]
    BY <1>1, <1>8
  <2>2. \A i, j \in I : i # j => f[i].id # f[j].id /\ f[i].priority # f[j].priority
    BY <1>6
  <2>3. \A i \in I : f[i].id[1] = "decision" /\ f[i].priority \in Nat
    BY <1>7
  <2> HIDE DEF I, n
  <2>4. Ordered({f[i] : i \in I})
    BY <1>5, <2>1, <2>2, <2>3, Numbered
  <2> QED
    BY <2>4 DEF I
<1> QED
  BY <1>3, <1>7, <1>9

-----------------------------------------------------------------------------
(***************************************************************************)
(* Questions: first the open ones, then those of the answers.              *)
(***************************************************************************)
AllQuestions(result) ==
  result.open \o [i \in DOMAIN Settled(result) |-> Settled(result)[i].question]

\* What two sequences make together has the entries of both.
LEMMA Joined ==
  ASSUME NEW S, NEW s \in Seq(S), NEW t \in Seq(S)
  PROVE  /\ s \o t \in Seq(S) /\ Len(s \o t) = Len(s) + Len(t)
         /\ Range(s \o t) = Range(s) \cup Range(t)
<1>1. /\ s \o t \in Seq(S) /\ Len(s \o t) = Len(s) + Len(t)
      /\ DOMAIN s = 1..Len(s) /\ DOMAIN t = 1..Len(t) /\ DOMAIN (s \o t) = 1..(Len(s) + Len(t))
      /\ Len(s) \in Nat /\ Len(t) \in Nat
      /\ \A i \in 1..Len(s) : (s \o t)[i] = s[i]
  OBVIOUS
<1>2. \A i \in 1..Len(t) : i + Len(s) \in DOMAIN (s \o t) /\ (s \o t)[i + Len(s)] = t[i]
  BY <1>1
<1>3. \A i \in DOMAIN (s \o t) :
        i \notin DOMAIN s => i - Len(s) \in 1..Len(t) /\ (s \o t)[i] = t[i - Len(s)]
  BY <1>1
<1>4. ASSUME NEW i \in DOMAIN (s \o t)
      PROVE  (\E k \in DOMAIN s : s[k] = (s \o t)[i]) \/ (\E k \in DOMAIN t : t[k] = (s \o t)[i])
  BY <1>1, <1>3
<1>5. ASSUME NEW i \in DOMAIN s
      PROVE  \E k \in DOMAIN (s \o t) : (s \o t)[k] = s[i]
  BY <1>1
<1>6. ASSUME NEW i \in DOMAIN t
      PROVE  \E k \in DOMAIN (s \o t) : (s \o t)[k] = t[i]
  BY <1>1, <1>2
<1>7. Range(s \o t) = Range(s) \cup Range(t)
  BY <1>4, <1>5, <1>6 DEF Range
<1> QED
  BY <1>1, <1>7

LEMMA SettledType ==
  ASSUME NEW result, IsResult(result)
  PROVE  /\ Settled(result) \in Seq(AnswerRecord)
         /\ Len(Settled(result)) = Len(result.answered) + Len(result.skipped)
         /\ Range(Settled(result)) = Range(result.answered) \cup Range(result.skipped)
<1>1. result.answered \in Seq(AnswerRecord) /\ result.skipped \in Seq(AnswerRecord)
  BY DEF IsResult
<1> QED
  BY <1>1, Joined DEF Settled

LEMMA AllQuestionsType ==
  ASSUME NEW result, IsResult(result)
  PROVE  /\ AllQuestions(result) \in Seq(Questions)
         /\ Range(AllQuestions(result)) =
              Range(result.open) \cup {a.question : a \in Range(Settled(result))}
<1> DEFINE t == [i \in DOMAIN Settled(result) |-> Settled(result)[i].question]
<1>1. Settled(result) \in Seq(AnswerRecord)
  BY SettledType
<1>2. t \in Seq(Questions)
  <2>1. \A i \in DOMAIN Settled(result) : Settled(result)[i] \in AnswerRecord
    BY <1>1
  <2>2. DOMAIN Settled(result) = 1..Len(Settled(result)) /\ Len(Settled(result)) \in Nat
    BY <1>1
  <2>3. \A a \in AnswerRecord : a.question \in Questions
    BY DEF AnswerRecord, AnswersOf
  <2>4. \A i \in DOMAIN Settled(result) : Settled(result)[i].question \in Questions
    BY <2>1, <2>3
  <2> QED
    BY <2>2, <2>4
<1>3. Range(t) = {a.question : a \in Range(Settled(result))}
  BY DEF Range
<1>4. AllQuestions(result) = result.open \o t /\ result.open \in Seq(Questions)
  BY DEF AllQuestions, IsResult
<1> HIDE DEF t
<1> QED
  BY <1>2, <1>3, <1>4, Joined

\* The first place of an entry.
LEMMA FirstOf ==
  ASSUME NEW S, NEW s \in Seq(S), NEW k \in DOMAIN s
  PROVE  \E i \in DOMAIN s : s[i] = s[k] /\ \A j \in 1..(i - 1) : s[j] # s[i]
<1> DEFINE T == {n \in Nat : \A i \in DOMAIN s :
                               i <= n /\ s[i] = s[k] =>
                                 \E m \in DOMAIN s : s[m] = s[k] /\ \A j \in 1..(m - 1) : s[j] # s[m]}
<1>1. DOMAIN s = 1..Len(s) /\ Len(s) \in Nat
  OBVIOUS
<1>2. 0 \in T
  BY <1>1
<1>3. ASSUME NEW n \in T, n \in Nat
      PROVE  n + 1 \in T
  <2>1. SUFFICES ASSUME NEW i \in DOMAIN s, i <= n + 1, s[i] = s[k]
                 PROVE  \E m \in DOMAIN s : s[m] = s[k] /\ \A j \in 1..(m - 1) : s[j] # s[m]
    BY <1>3
  <2>2. CASE \E j \in 1..(i - 1) : s[j] = s[i]
    <3>1. PICK j \in 1..(i - 1) : s[j] = s[i]
      BY <2>2
    <3>2. j \in DOMAIN s /\ j <= n
      BY <1>1, <1>3, <2>1
    <3> QED
      BY <1>3, <2>1, <3>1, <3>2
  <2>3. CASE \A j \in 1..(i - 1) : s[j] # s[i]
    BY <2>1, <2>3
  <2> QED
    BY <2>2, <2>3
<1>4. k \in T
  <2>1. Nat \subseteq T
    <3> HIDE DEF T
    <3> QED
      BY <1>2, <1>3, Induction
  <2> QED
    BY <1>1, <2>1
<1> QED
  BY <1>1, <1>4

\* Every question has a node, and none has two.
LEMMA QuestionNodesOrdered ==
  ASSUME NEW result, IsResult(result)
  PROVE  /\ Ordered(QuestionNodes(result))
         /\ \A n \in QuestionNodes(result) : n.id[1] = "question"
         /\ Ids(QuestionNodes(result)) = {"question"} \X Range(AllQuestions(result))
<1> DEFINE all == AllQuestions(result)
           open == Len(result.open)
           firsts == {k \in DOMAIN all : \A j \in 1..(k - 1) : all[j] # all[k]}
           f == [i \in firsts |-> Node("question", all[i], (IF i <= open THEN 40 ELSE 55) + i - 1)]
<1>1. all \in Seq(Questions)
  BY AllQuestionsType
<1>2. QuestionNodes(result) = {f[i] : i \in firsts}
  BY DEF QuestionNodes, AllQuestions
<1> HIDE DEF all
<1>3. DOMAIN all = 1..Len(all) /\ Len(all) \in Nat
  BY <1>1
<1>4. \A i \in firsts : f[i].id = <<"question", all[i]>> /\ f[i].id[1] = "question"
                        /\ f[i].priority = (IF i <= open THEN 40 ELSE 55) + i - 1
  BY NodeFields
<1>5. open \in Nat
  BY DEF IsResult
<1>6. firsts \subseteq 1..Len(all)
  BY <1>3
<1>7. f = [i \in firsts |-> f[i]]
  OBVIOUS
<1> HIDE DEF f, open
<1>8. ASSUME NEW i \in firsts, NEW j \in firsts, i # j
      PROVE  f[i].id # f[j].id /\ f[i].priority # f[j].priority
  <2>1. i \in Nat /\ j \in Nat /\ i >= 1 /\ j >= 1
    BY <1>6, <1>3
  <2>2. all[i] # all[j]
    <3>1. CASE i < j
      BY <2>1, <3>1
    <3>2. CASE j < i
      BY <2>1, <3>2
    <3> QED
      BY <1>8, <2>1, <3>1, <3>2
  <2>3. <<"question", all[i]>> # <<"question", all[j]>>
    BY <2>2
  <2> HIDE DEF firsts
  <2>4. f[i].id # f[j].id
    BY <1>4, <2>3
  <2>5. f[i].priority # f[j].priority
    BY <1>4, <1>5, <1>8, <2>1
  <2> QED
    BY <2>4, <2>5
<1>9. ASSUME NEW i \in firsts
      PROVE  f[i].id[1] = "question" /\ f[i].priority \in Nat
  <2>1. i \in Nat /\ i >= 1
    BY <1>6, <1>3
  <2> HIDE DEF firsts
  <2> QED
    BY <1>4, <1>5, <2>1
<1>10. "question" \in NodeTypes /\ "question" \notin Ranked
  BY EveryNodeType DEF Ranked
<1>11. Ordered({f[i] : i \in firsts})
  <2> DEFINE n == Len(all)
  <2> HIDE DEF firsts, n
  <2> QED
    BY <1>3, <1>6, <1>7, <1>8, <1>9, <1>10, Numbered DEF n
<1>12. ASSUME NEW x
       PROVE  (\E i \in firsts : x = f[i].id) <=> \E i \in DOMAIN all : x = <<"question", all[i]>>
  <2>1. ASSUME NEW k \in DOMAIN all
        PROVE  \E i \in firsts : f[i].id = <<"question", all[k]>>
    <3>1. PICK i \in DOMAIN all : all[i] = all[k] /\ \A j \in 1..(i - 1) : all[j] # all[i]
      BY <1>1, FirstOf
    <3>2. i \in firsts
      BY <3>1
    <3> QED
      BY <1>4, <3>1, <3>2
  <2> QED
    BY <1>4, <2>1
<1>13. \A x : x \in Ids(QuestionNodes(result)) <=> \E i \in firsts : x = f[i].id
  BY <1>2 DEF Ids
<1>14. Ordered(QuestionNodes(result)) /\ \A n \in QuestionNodes(result) : n.id[1] = "question"
  BY <1>2, <1>9, <1>11
<1>15. \A x : x \in Ids(QuestionNodes(result)) <=> \E i \in DOMAIN all : x = <<"question", all[i]>>
  BY <1>12, <1>13, Zenon
<1>16. Ids(QuestionNodes(result)) = {"question"} \X Range(all)
  BY <1>15 DEF Range
<1> QED
  BY <1>14, <1>16 DEF all

-----------------------------------------------------------------------------
(***************************************************************************)
(* Graphs.                                                                 *)
(***************************************************************************)

\* Nodes of a graph are ordered, by their ids too.
LEMMA NodesOrdered ==
  ASSUME NEW result, IsResult(result)
  PROVE  Ordered(Nodes(result))
<1> DEFINE A == RunNodes(result)
           B == ArtifactNodes
           C == result.findings
           D == QuestionNodes(result)
           E == DecisionNodes(result)
<1>1. Ordered(A) /\ \A n \in A : n.id[1] \in {"run", "recommendation"}
  BY RunNodesOrdered
<1>2. Ordered(B) /\ \A n \in B : n.id[1] = "artifact"
  BY ArtifactNodesOrdered
<1>3. Ordered(C) /\ \A n \in C : n.id[1] \in {"evidence", "fact", "concern", "claim", "diagnostic"}
  BY FindingsOrdered
<1>4. Ordered(D) /\ \A n \in D : n.id[1] = "question"
  BY QuestionNodesOrdered
<1>5. Ordered(E) /\ \A n \in E : n.id[1] = "decision"
  BY DecisionNodesOrdered
<1>6. Nodes(result) = A \cup B \cup C \cup D \cup E
  BY DEF Nodes
<1> HIDE DEF A, B, C, D, E
<1>7. Ordered(A \cup B) /\ \A n \in A \cup B : n.id[1] \in {"run", "recommendation", "artifact"}
  BY <1>1, <1>2, Together
<1>8. Ordered(A \cup B \cup C) /\ \A n \in A \cup B \cup C : n.id[1] \notin {"question", "decision"}
  BY <1>3, <1>7, Together
<1>9. Ordered(A \cup B \cup C \cup D) /\ \A n \in A \cup B \cup C \cup D : n.id[1] # "decision"
  BY <1>4, <1>8, Together
<1> QED
  BY <1>5, <1>6, <1>9, Together

\* The place of a node in ordered nodes is the number of nodes before it.
Before(nodes) == [n \in nodes |-> {m \in nodes : ComesBefore(m, n)}]

LEMMA BeforeIsOrder ==
  ASSUME NEW nodes, Ordered(nodes)
  PROVE  /\ IsFiniteSet(nodes)
         /\ IsOrder(nodes, Before(nodes))
         /\ \A n \in nodes : Place(Before(nodes), n) = Offset(n, nodes)
         /\ \A o, l : Slice(nodes, o, l) = {n \in nodes : o <= Offset(n, nodes) /\ Offset(n, nodes) < o + l}
<1>1. \A n \in nodes : n.priority \in Nat /\ TypeRank(n.id[1]) \in Nat
                       /\ n.id[1] = TypeOrder[TypeRank(n.id[1])]
  BY TypeRanks DEF Ordered
<1>2. \A n \in nodes : n.id[1] \in {"claim", "diagnostic"} => KeyRank[n.id[2]] \in Nat
  BY DEF Ordered, Ranked
<1>3. \A m, n \in nodes :
        m # n /\ m.priority = n.priority /\ m.id[1] = n.id[1] =>
          m.id[1] \in {"claim", "diagnostic"} /\ KeyRank[m.id[2]] # KeyRank[n.id[2]]
  BY DEF Ordered, Ranked
<1>4. \A n \in nodes : ~ComesBefore(n, n)
  BY <1>1, <1>2 DEF ComesBefore
<1>5. ASSUME NEW k \in nodes, NEW m \in nodes, NEW n \in nodes,
             ComesBefore(k, m), ComesBefore(m, n)
      PROVE  ComesBefore(k, n)
  BY <1>1, <1>2, <1>5 DEF ComesBefore
<1>6. ASSUME NEW m \in nodes, NEW n \in nodes, m # n
      PROVE  ComesBefore(m, n) \/ ComesBefore(n, m)
  <2>1. CASE m.priority # n.priority
    BY <1>1, <2>1 DEF ComesBefore
  <2>2. CASE m.priority = n.priority /\ m.id[1] # n.id[1]
    <3>1. TypeRank(m.id[1]) # TypeRank(n.id[1])
      BY <1>1, <2>2
    <3> QED
      BY <1>1, <2>2, <3>1 DEF ComesBefore
  <2>3. CASE m.priority = n.priority /\ m.id[1] = n.id[1]
    BY <1>2, <1>3, <1>6, <2>3 DEF ComesBefore
  <2> QED
    BY <2>1, <2>2, <2>3
<1>7. \A m, n \in nodes : m \in Before(nodes)[n] <=> ComesBefore(m, n)
  BY DEF Before
<1>8. Before(nodes) \in [nodes -> SUBSET nodes]
  BY DEF Before
<1>9. \A m, n \in nodes : m \in Before(nodes)[n] => Before(nodes)[m] \subseteq Before(nodes)[n]
  BY <1>5, <1>7, <1>8
<1>10. IsOrder(nodes, Before(nodes))
  BY <1>4, <1>6, <1>7, <1>8, <1>9 DEF IsOrder
<1>11. \A n \in nodes : Place(Before(nodes), n) = Offset(n, nodes)
  BY DEF Place, Before, Offset
<1> QED
  BY <1>10, <1>11 DEF Ordered, Slice

\* A filter keeps the order.
LEMMA FilteredOrdered ==
  ASSUME NEW nodes, Ordered(nodes), NEW types
  PROVE  Ordered(Filtered(nodes, types))
BY Subsets DEF Filtered

\* As many ids as nodes.
LEMMA AsManyIds ==
  ASSUME NEW nodes, Ordered(nodes)
  PROVE  /\ IsFiniteSet(Ids(nodes)) /\ IsFiniteSet(nodes)
         /\ Cardinality(Ids(nodes)) = Cardinality(nodes)
         /\ Cardinality(nodes) \in Nat
<1> DEFINE f == [n \in nodes |-> n.id]
<1>1. f \in Bijection(nodes, Ids(nodes))
  <2>1. f \in [nodes -> Ids(nodes)]
    BY DEF Ids
  <2>2. \A m, n \in nodes : f[m] = f[n] => m = n
    BY DEF Ordered
  <2>3. \A i \in Ids(nodes) : \E n \in nodes : f[n] = i
    BY DEF Ids
  <2> QED
    BY <2>1, <2>2, <2>3 DEF Bijection, Injection, Surjection, IsInjective
<1>2. ExistsBijection(nodes, Ids(nodes))
  BY <1>1 DEF ExistsBijection
<1>3. IsFiniteSet(nodes)
  BY DEF Ordered
<1> QED
  BY <1>2, <1>3, FS_Bijection, FS_CardinalityType

\* A page, and how far it takes a walk: to its limit, or to the end.
LEMMA Page ==
  ASSUME NEW nodes, Ordered(nodes), NEW o \in Nat, NEW limit \in Nat
  PROVE  /\ Slice(nodes, o, limit) \subseteq nodes
         /\ IsFiniteSet(Slice(nodes, o, limit)) /\ Cardinality(Slice(nodes, o, limit)) \in Nat
         /\ o <= Cardinality(nodes) =>
              /\ o + Cardinality(Slice(nodes, o, limit)) <= Cardinality(nodes)
              /\ \A n \in nodes :
                   Offset(n, nodes) < o + Cardinality(Slice(nodes, o, limit)) =>
                     Offset(n, nodes) < o \/ n \in Slice(nodes, o, limit)
<1> DEFINE before == Before(nodes)
           items == Slice(nodes, o, limit)
<1>1. IsFiniteSet(nodes) /\ IsOrder(nodes, before)
  BY BeforeIsOrder
<1>2. items \subseteq nodes /\ IsFiniteSet(items) /\ Cardinality(items) \in Nat
  BY <1>1, FS_Subset, FS_CardinalityType DEF Slice
<1>3. \A n \in nodes : Offset(n, nodes) \in Nat /\ Offset(n, nodes) < Cardinality(nodes)
  BY <1>1, BeforeIsOrder, PlaceType
<1>4. Cardinality(nodes) \in Nat
  BY <1>1, FS_CardinalityType
<1>5. \A b \in Nat : Cut(nodes, before, o, b) = {n \in nodes : o <= Offset(n, nodes) /\ Offset(n, nodes) < b}
  BY <1>3, BeforeIsOrder DEF Cut
<1>6. ASSUME o <= Cardinality(nodes)
      PROVE  /\ o + Cardinality(items) <= Cardinality(nodes)
             /\ \A n \in nodes :
                  Offset(n, nodes) < o + Cardinality(items) =>
                    Offset(n, nodes) < o \/ n \in items
  <2>1. CASE o + limit <= Cardinality(nodes)
    <3> DEFINE b == o + limit
    <3>1. b \in Nat /\ o <= b /\ b <= Cardinality(nodes)
      BY <2>1
    <3>2. items = Cut(nodes, before, o, b)
      BY <1>5, <3>1 DEF Slice
    <3>3. Cardinality(Cut(nodes, before, o, b)) = b - o
      <4> HIDE DEF b, before
      <4> QED
        BY <1>1, <3>1, FullRange
    <3>4. Cardinality(items) = limit
      BY <3>2, <3>3
    <3> QED
      BY <1>3, <2>1, <3>4 DEF Slice
  <2>2. CASE ~(o + limit <= Cardinality(nodes))
    <3> DEFINE b == Cardinality(nodes)
    <3>1. items = Cut(nodes, before, o, b)
      BY <1>3, <1>4, <1>5, <2>2 DEF Slice
    <3>2. Cardinality(Cut(nodes, before, o, b)) = b - o
      <4>1. b \in Nat /\ b <= Cardinality(nodes)
        BY <1>4
      <4> HIDE DEF b, before
      <4> QED
        BY <1>1, <1>6, <4>1, FullRange DEF b
    <3>3. Cardinality(items) = Cardinality(nodes) - o
      BY <3>1, <3>2
    <3> QED
      BY <1>3, <1>4, <1>5, <1>6, <3>1, <3>3
  <2> QED
    BY <2>1, <2>2
<1> QED
  BY <1>2, <1>6

-----------------------------------------------------------------------------
(***************************************************************************)
(* How the graph of a run grows as answers and decisions are recorded.     *)
(***************************************************************************)
Begins(s, t) == Len(s) <= Len(t) /\ s = SubSeq(t, 1, Len(s))

\* No two entries of one id.
Distinct(ds) == \A i, j \in DOMAIN ds : ds[i].id = ds[j].id => i = j

LEMMA BeginsKeeps ==
  ASSUME NEW S, NEW s, NEW t \in Seq(S), Begins(s, t)
  PROVE  /\ s \in Seq(S) /\ Len(s) \in Nat /\ Len(t) \in Nat /\ Len(s) <= Len(t)
         /\ DOMAIN s \subseteq DOMAIN t /\ \A i \in DOMAIN s : s[i] = t[i]
         /\ Range(s) \subseteq Range(t)
<1> DEFINE n == Len(s)
<1>1. s = SubSeq(t, 1, n) /\ n <= Len(t)
  BY DEF Begins
<1>2. Len(t) \in Nat
  OBVIOUS
<1> QED
  BY <1>1, <1>2 DEF Range

LEMMA EntriesIn ==
  ASSUME NEW S, NEW s \in Seq(S)
  PROVE  Range(s) \subseteq S
BY DEF Range

\* What RunRecord a run is, as a result has it.
GoodRun(r, run) ==
  /\ r \in Nat \ {0} /\ run \in RunRecord /\ WellMade(run) /\ run.previous < r

QuestionIds(open, as) == {"question"} \X (Range(open) \cup {a.question : a \in Range(as)})

LEMMA ResultIsResult ==
  ASSUME NEW r, NEW run, GoodRun(r, run), NEW open \in Seq(Questions),
         NEW as \in Seq(AnswerRecord), NEW ds \in Seq(DecisionRecord), Distinct(ds)
  PROVE  /\ IsResult(Result(r, run, open, as, ds))
         /\ Range(Settled(Result(r, run, open, as, ds))) = Range(as)
         /\ Len(Settled(Result(r, run, open, as, ds))) = Len(as)
         /\ Ids(QuestionNodes(Result(r, run, open, as, ds))) =
              QuestionIds(open, as)
<1> DEFINE result == Result(r, run, open, as, ds)
           K == AnswersOf({"answered"})
           J == AnswersOf({"skipped"})
<1>1. /\ result.runId = r /\ result.previous = run.previous
      /\ result.findings = run.findings /\ result.links = run.links /\ result.open = open
      /\ result.answered = Kept(as, K) /\ result.skipped = Kept(as, J)
      /\ result.decisions = ds
  BY DEF Result
<1>2. run.previous \in Nat /\ run.findings \in SUBSET Findings /\ run.links \in SUBSET Links
  BY DEF GoodRun, RunRecord
<1>3. WellMade(result)
  BY <1>1 DEF GoodRun, WellMade
<1>4. /\ Kept(as, K) \in Seq(AnswerRecord) /\ Range(Kept(as, K)) = Range(as) \cap K
      /\ Kept(as, J) \in Seq(AnswerRecord) /\ Range(Kept(as, J)) = Range(as) \cap J
  <2> HIDE DEF K, J
  <2> QED
    BY KeptRange
<1> HIDE DEF result
<1>5. IsResult(result)
  BY <1>1, <1>2, <1>3, <1>4 DEF IsResult, GoodRun, Distinct
<1>6. \A a \in AnswerRecord : a \in K <=> a \notin J
  BY DEF AnswerRecord, AnswersOf
<1>7. Range(as) \subseteq AnswerRecord
  BY EntriesIn
<1> HIDE DEF K, J
<1>8. Len(Kept(as, K)) + Len(Kept(as, J)) = Len(as)
  BY <1>6, KeptOfTwo
<1>9. Range(Settled(result)) = Range(as) /\ Len(Settled(result)) = Len(as)
  BY <1>1, <1>4, <1>5, <1>6, <1>7, <1>8, SettledType
<1>10. Ids(QuestionNodes(result)) = QuestionIds(open, as)
  BY <1>1, <1>5, <1>9, AllQuestionsType, QuestionNodesOrdered DEF QuestionIds
<1> QED
  BY <1>1, <1>5, <1>9, <1>10 DEF result

LEMMA SameQuestions ==
  ASSUME NEW one, NEW two, one.open = two.open, one.answered = two.answered,
         one.skipped = two.skipped
  PROVE  QuestionNodes(one) = QuestionNodes(two)
<1> DEFINE NodesOf(open, settled) ==
             LET all == open \o [i \in DOMAIN settled |-> settled[i].question]
             IN {Node("question", all[i], (IF i <= Len(open) THEN 40 ELSE 55) + i - 1) :
                   i \in {k \in DOMAIN all : \A j \in 1..(k - 1) : all[j] # all[k]}}
<1>1. /\ QuestionNodes(one) = NodesOf(one.open, Settled(one))
      /\ QuestionNodes(two) = NodesOf(two.open, Settled(two))
  BY DEF QuestionNodes
<1>2. Settled(one) = Settled(two)
  BY DEF Settled
<1> HIDE DEF NodesOf
<1> QED
  BY <1>1, <1>2

\* Further answers and decisions take no id out of the graph; further decisions
\* change no node.
LEMMA GraphGrows ==
  ASSUME NEW r, NEW run, GoodRun(r, run), NEW open \in Seq(Questions),
         NEW as, NEW more \in Seq(AnswerRecord), Begins(as, more),
         NEW ds, NEW later \in Seq(DecisionRecord), Begins(ds, later), Distinct(later)
  PROVE  /\ IsResult(Result(r, run, open, as, ds))
         /\ IsResult(Result(r, run, open, more, later))
         /\ Ids(Nodes(Result(r, run, open, as, ds)))
              \subseteq Ids(Nodes(Result(r, run, open, more, later)))
         /\ as = more => Nodes(Result(r, run, open, as, ds))
                           \subseteq Nodes(Result(r, run, open, more, later))
<1> DEFINE one == Result(r, run, open, as, ds)
           two == Result(r, run, open, more, later)
<1>1. as \in Seq(AnswerRecord) /\ Range(as) \subseteq Range(more)
  BY BeginsKeeps
<1>2. /\ ds \in Seq(DecisionRecord)
      /\ DOMAIN ds \subseteq DOMAIN later /\ \A i \in DOMAIN ds : ds[i] = later[i]
  BY BeginsKeeps
<1>3. Distinct(ds)
  BY <1>2 DEF Distinct
<1>4. /\ IsResult(one)
      /\ Ids(QuestionNodes(one)) = QuestionIds(open, as)
  <2>1. as \in Seq(AnswerRecord)
    BY <1>1
  <2>2. ds \in Seq(DecisionRecord)
    BY <1>2
  <2> QED
    BY <1>3, <2>1, <2>2, ResultIsResult
<1>11. /\ IsResult(two)
       /\ Ids(QuestionNodes(two)) = QuestionIds(open, more)
  BY ResultIsResult
<1>5. Ids(QuestionNodes(one)) \subseteq Ids(QuestionNodes(two))
  <2>1. {a.question : a \in Range(as)} \subseteq {a.question : a \in Range(more)}
    BY <1>1
  <2> HIDE DEF one, two
  <2> QED
    BY <1>4, <1>11, <2>1 DEF QuestionIds
<1>6. RunNodes(one) = RunNodes(two) /\ one.findings = two.findings
  BY DEF RunNodes, Result
<1>7. DecisionNodes(one) \subseteq DecisionNodes(two)
  <2>1. one.decisions = ds /\ two.decisions = later
    BY DEF Result
  <2> QED
    BY <1>2, <2>1 DEF DecisionNodes
<1>8. as = more => QuestionNodes(one) = QuestionNodes(two)
  BY SameQuestions DEF Result
<1> HIDE DEF one, two
<1>9. as = more => Nodes(one) \subseteq Nodes(two)
  BY <1>6, <1>7, <1>8 DEF Nodes
<1>10. Ids(Nodes(one)) \subseteq Ids(Nodes(two))
  BY <1>5, <1>6, <1>7 DEF Nodes, Ids
<1> QED
  BY <1>4, <1>9, <1>10, <1>11 DEF one, two

\* The decisions from the first d to the first e of them add at most so many
\* nodes.
LEMMA NewDecisions ==
  ASSUME NEW r, NEW run, GoodRun(r, run), NEW open \in Seq(Questions),
         NEW as \in Seq(AnswerRecord), NEW ds \in Seq(DecisionRecord), Distinct(ds),
         NEW e \in 0..Len(ds), NEW d \in 0..e
  PROVE  /\ IsFiniteSet(Nodes(Result(r, run, open, as, SubSeq(ds, 1, e)))
                          \ Nodes(Result(r, run, open, as, SubSeq(ds, 1, d))))
         /\ Cardinality(Nodes(Result(r, run, open, as, SubSeq(ds, 1, e)))
                          \ Nodes(Result(r, run, open, as, SubSeq(ds, 1, d)))) <= e - d
<1> DEFINE one == Result(r, run, open, as, SubSeq(ds, 1, d))
           two == Result(r, run, open, as, SubSeq(ds, 1, e))
           f == [i \in (d + 1)..e |-> Node("decision", ds[i].id, 60 + i - 1)]
           new == {f[i] : i \in (d + 1)..e}
<1>1. RunNodes(one) = RunNodes(two) /\ one.findings = two.findings
      /\ QuestionNodes(one) = QuestionNodes(two)
  BY SameQuestions DEF RunNodes, Result
<1>2. one.decisions = SubSeq(ds, 1, d) /\ two.decisions = SubSeq(ds, 1, e)
  BY DEF Result
<1>3. /\ Len(ds) \in Nat /\ d \in Nat /\ e \in Nat /\ d <= e /\ e <= Len(ds)
      /\ DOMAIN SubSeq(ds, 1, d) = 1..d /\ \A i \in 1..d : SubSeq(ds, 1, d)[i] = ds[i]
      /\ DOMAIN SubSeq(ds, 1, e) = 1..e /\ \A i \in 1..e : SubSeq(ds, 1, e)[i] = ds[i]
  OBVIOUS
<1>4. DecisionNodes(one) = {Node("decision", ds[i].id, 60 + i - 1) : i \in 1..d}
  BY <1>2, <1>3 DEF DecisionNodes
<1>5. DecisionNodes(two) = {Node("decision", ds[i].id, 60 + i - 1) : i \in 1..e}
  BY <1>2, <1>3 DEF DecisionNodes
<1>6. DecisionNodes(two) \subseteq DecisionNodes(one) \cup new
  <2>1. SUFFICES ASSUME NEW i \in 1..e
                 PROVE  \/ \E k \in 1..d : Node("decision", ds[i].id, 60 + i - 1)
                                             = Node("decision", ds[k].id, 60 + k - 1)
                        \/ \E k \in (d + 1)..e : Node("decision", ds[i].id, 60 + i - 1) = f[k]
    BY <1>4, <1>5
  <2>2. i \in 1..d \/ i \in (d + 1)..e
    BY <1>3
  <2> QED
    BY <2>2
<1>7. Nodes(two) \ Nodes(one) \subseteq new
  <2> HIDE DEF one, two, new
  <2> QED
    BY <1>1, <1>6 DEF Nodes
<1>8. IsFiniteSet((d + 1)..e) /\ Cardinality((d + 1)..e) = e - d
  <2> DEFINE a == d + 1
  <2>1. a \in Int /\ e \in Int
    BY <1>3
  <2>2. IsFiniteSet(a..e) /\ Cardinality(a..e) = IF a > e THEN 0 ELSE e - a + 1
    <3> HIDE DEF a
    <3> QED
      BY <2>1, FS_Interval
  <2> QED
    BY <1>3, <2>2
<1>9. f \in Surjection((d + 1)..e, new)
  BY DEF Surjection
<1> HIDE DEF one, two, new, f
<1>10. IsFiniteSet(new) /\ Cardinality(new) <= e - d
  BY <1>8, <1>9, FS_Surjection
<1>11. IsFiniteSet(Nodes(two) \ Nodes(one)) /\ Cardinality(Nodes(two) \ Nodes(one)) <= Cardinality(new)
  BY <1>7, <1>10, FS_Subset
<1>12. Cardinality(Nodes(two) \ Nodes(one)) \in Nat /\ Cardinality(new) \in Nat
  BY <1>10, <1>11, FS_CardinalityType
<1>13. Cardinality(Nodes(two) \ Nodes(one)) <= e - d
  BY <1>3, <1>10, <1>11, <1>12
<1> QED
  BY <1>11, <1>13 DEF one, two

-----------------------------------------------------------------------------
(***************************************************************************)
(* Edges.                                                                  *)
(***************************************************************************)
LEMMA NodeIds ==
  ASSUME NEW result
  PROVE  /\ <<"run", result.runId>> \in Ids(Nodes(result))
         /\ <<"recommendation", result.runId>> \in Ids(Nodes(result))
         /\ result.previous # 0 => <<"run", result.previous>> \in Ids(Nodes(result))
         /\ Ids(ArtifactNodes) \subseteq Ids(Nodes(result))
         /\ Ids(result.findings) \subseteq Ids(Nodes(result))
         /\ Ids(QuestionNodes(result)) \subseteq Ids(Nodes(result))
         /\ Ids(DecisionNodes(result)) \subseteq Ids(Nodes(result))
<1>1. /\ RunNodes(result) \subseteq Nodes(result) /\ ArtifactNodes \subseteq Nodes(result)
      /\ result.findings \subseteq Nodes(result) /\ QuestionNodes(result) \subseteq Nodes(result)
      /\ DecisionNodes(result) \subseteq Nodes(result)
  BY DEF Nodes
<1>2. /\ Node("run", result.runId, 0) \in RunNodes(result)
      /\ Node("recommendation", result.runId, 1) \in RunNodes(result)
      /\ result.previous # 0 => Node("run", result.previous, 90) \in RunNodes(result)
  BY DEF RunNodes
<1>3. \A n \in Nodes(result) : n.id \in Ids(Nodes(result))
  BY DEF Ids
<1> QED
  BY <1>1, <1>2, <1>3, NodeFields DEF Ids

LEMMA ArtifactIds ==
  \A a \in {"questionsJson", "evidenceJson", "latestAssessmentJson", "decisionsJsonl"} :
    <<"artifact", a>> \in Ids(ArtifactNodes)
<1>1. DOMAIN Artifacts = 1..7 /\ Artifacts[2] = "latestAssessmentJson"
      /\ Artifacts[3] = "questionsJson" /\ Artifacts[4] = "evidenceJson"
      /\ Artifacts[6] = "decisionsJsonl"
  BY DEF Artifacts
<1>2. ASSUME NEW i \in DOMAIN Artifacts
      PROVE  <<"artifact", Artifacts[i]>> \in Ids(ArtifactNodes)
  <2>1. Node("artifact", Artifacts[i], 80 + i - 1) \in ArtifactNodes
    BY DEF ArtifactNodes
  <2> QED
    BY <2>1, NodeFields DEF Ids
<1>3. 2 \in 1..7 /\ 3 \in 1..7 /\ 4 \in 1..7 /\ 6 \in 1..7
  OBVIOUS
<1> QED
  BY <1>1, <1>2, <1>3

\* The ends of an edge have nodes, except for the run of a decision.
LEMMA EdgesJoin ==
  ASSUME NEW result, IsResult(result), NEW e \in Edges(result)
  PROVE  /\ e[1] \in Ids(Nodes(result))
         /\ \/ e[2] \in Ids(Nodes(result))
            \/ \E i \in DOMAIN result.decisions :
                 e = <<<<"decision", result.decisions[i].id>>, <<"run", result.decisions[i].run>>>>
<1> DEFINE ids == Ids(Nodes(result))
           ds == result.decisions
<1>1. /\ <<"run", result.runId>> \in ids /\ <<"recommendation", result.runId>> \in ids
      /\ result.previous # 0 => <<"run", result.previous>> \in ids
      /\ \A a \in {"questionsJson", "evidenceJson", "latestAssessmentJson", "decisionsJsonl"} :
           <<"artifact", a>> \in ids
      /\ Ids(ArtifactNodes) \subseteq ids /\ Ids(result.findings) \subseteq ids
      /\ Ids(QuestionNodes(result)) \subseteq ids /\ Ids(DecisionNodes(result)) \subseteq ids
  BY NodeIds, ArtifactIds
<1>2. Ids(QuestionNodes(result)) =
        QuestionIds(result.open, Settled(result))
  BY QuestionNodesOrdered, AllQuestionsType DEF QuestionIds
<1>3. \A i \in DOMAIN ds : <<"decision", ds[i].id>> \in ids
  <2>1. ASSUME NEW i \in DOMAIN ds
        PROVE  <<"decision", ds[i].id>> \in Ids(DecisionNodes(result))
    <3>1. Node("decision", ds[i].id, 60 + i - 1) \in DecisionNodes(result)
      BY DEF DecisionNodes
    <3> QED
      BY <3>1, NodeFields DEF Ids
  <2> QED
    BY <1>1, <2>1
<1>4. \A i \in DOMAIN Settled(result) : <<"question", Settled(result)[i].question>> \in ids
  BY <1>1, <1>2 DEF QuestionIds, Range
<1>5. \A i \in DOMAIN result.open : <<"question", result.open[i]>> \in ids
  BY <1>1, <1>2 DEF QuestionIds, Range
<1> HIDE DEF ids
<1>6. CASE e \in {<<<<"run", result.runId>>, <<"run", p>>>> : p \in {result.previous} \ {0}}
  BY <1>1, <1>6 DEF ids
<1>7. CASE e \in {<<<<"recommendation", result.runId>>, <<"run", result.runId>>>>}
                   \cup {<<a, <<"run", result.runId>>>> : a \in Ids(ArtifactNodes)}
  BY <1>1, <1>7 DEF ids
<1>8. CASE e \in FindingEdges(result)
  <2>1. CASE e \in {l \in result.links :
                      l[2][1] = "question" => \E i \in DOMAIN result.open : l[2][2] = result.open[i]}
    <3>1. e[1] \in FindingIds /\ e[2] \in FindingIds \cup {"question"} \X Questions
      BY <2>1 DEF IsResult, Links
    <3>2. e[1] \in Ids(result.findings) /\ e[2] \in Ids(result.findings) \cup {"question"} \X Questions
      BY <2>1, <3>1 DEF IsResult, WellMade, FindingIds
    <3>3. CASE e[2] \in {"question"} \X Questions
      <4>1. PICK i \in DOMAIN result.open : e[2][2] = result.open[i]
        BY <2>1, <3>3
      <4>2. e[2] = <<"question", result.open[i]>>
        BY <3>3, <4>1
      <4> QED
        BY <1>1, <1>5, <3>2, <4>2 DEF ids
    <3> QED
      BY <1>1, <3>2, <3>3 DEF ids
  <2>2. CASE e \notin result.links
    <3>1. \E f \in Ids(result.findings) :
            e \in {<<f, <<"recommendation", result.runId>>>>, <<f, <<"run", result.runId>>>>,
                   <<f, <<"artifact", "evidenceJson">>>>, <<f, <<"artifact", "latestAssessmentJson">>>>}
      BY <1>8, <2>2 DEF FindingEdges
    <3> QED
      BY <1>1, <3>1 DEF ids
  <2> QED
    BY <1>8, <2>1, <2>2 DEF FindingEdges
<1>9. CASE e \in QuestionEdges(result)
  <2>1. CASE e \in {<<q, <<"artifact", "questionsJson">>>> : q \in Ids(QuestionNodes(result))}
    BY <1>1, <2>1 DEF ids
  <2>2. CASE \E i \in DOMAIN Settled(result) :
               /\ <<"concern", "unknown">> \in Ids(result.findings)
               /\ e = <<<<"concern", "unknown">>, <<"question", Settled(result)[i].question>>>>
    BY <1>1, <1>4, <2>2 DEF ids
  <2>3. CASE \E i \in DOMAIN Settled(result), j \in DOMAIN ds :
               e = <<<<"question", Settled(result)[i].question>>, <<"decision", ds[j].id>>>>
    BY <1>3, <1>4, <2>3 DEF ids
  <2> QED
    BY <1>9, <2>1, <2>2, <2>3 DEF QuestionEdges
<1>10. CASE e \in DecisionEdges(result)
  <2>1. CASE e \in {<<d, <<"artifact", "decisionsJsonl">>>> : d \in Ids(DecisionNodes(result))}
    BY <1>1, <2>1 DEF ids
  <2>2. CASE \E i \in DOMAIN ds : e = <<<<"decision", ds[i].id>>, <<"run", ds[i].run>>>>
    BY <1>3, <2>2 DEF ids
  <2> QED
    BY <1>10, <2>1, <2>2 DEF DecisionEdges
<1> QED
  BY <1>6, <1>7, <1>8, <1>9, <1>10 DEF Edges, ids

-----------------------------------------------------------------------------
(***************************************************************************)
(* A walk over pages of graphs that grow.  The invariant says of a walk    *)
(* what its pages have in common, although each was cut out of a graph of  *)
(* its own: there is a number d of decisions, those recorded by the time   *)
(* of its last page, such that in the graph of the first d the nodes of    *)
(* the first page's graph that come before the cursor have all been shown. *)
(***************************************************************************)

\* The nodes a walk is paging through.
Match(r, types, run, as, ds) == Filtered(Nodes(Result(r, run, run.open, as, ds)), types)

\* The walk w has been shown the graph of its first page up to its cursor, in
\* the graph of the first d decisions.
Covered(w, run, as, ds, d) ==
  LET first == Match(w.cursor.run, w.types, run, as, SubSeq(ds, 1, w.decisionsThen))
      last == Match(w.cursor.run, w.types, run, as, SubSeq(ds, 1, d))
  IN /\ w.present = Ids(first)
     /\ w.cursor.offset <= Cardinality(last)
     /\ w.status = "done" => w.cursor.offset = Cardinality(last)
     /\ \A n \in first : Offset(n, last) < w.cursor.offset => n.id \in w.shown

\* A walk over the pages of run, when the answers are as and the decisions ds.
Walked(w, run, as, ds) ==
  /\ w.answersThen \in 0..Len(as) /\ w.decisionsThen \in 0..Len(ds)
  /\ w.shown \subseteq Ids(Match(w.cursor.run, w.types, run, as, ds))
  /\ w.status = "paging" =>
       w.cursor.offset < Cardinality(Match(w.cursor.run, w.types, run, as, ds))
  /\ Len(as) = w.answersThen =>
       \E d \in w.decisionsThen..Len(ds) : Covered(w, run, as, ds, d)

\* Each item of a page is new to the client or a repeat.
WalkType(w) ==
  /\ IsWalk(w)
  /\ w.cursor \in [run : Nat, offset : Nat]
  /\ IsFiniteSet(w.shown) /\ w.repeats \in Nat
  /\ w.cursor.offset = w.repeats + Cardinality(w.shown)
  /\ w.cursor = NoCursor => w.shown = {}

LedgerInv ==
  /\ runs \in Seq(RunRecord) /\ Len(runs) > 0
  /\ answers \in Seq(AnswerRecord)
  /\ decisions \in Seq(DecisionRecord) /\ Distinct(decisions)
  /\ \A r \in DOMAIN runs : GoodRun(r, runs[r])
  /\ \A i \in DOMAIN decisions : decisions[i].run \in DOMAIN runs

CallInv ==
  /\ pc \in {"idle", "readAnswers", "readDecisions"}
  /\ loaded = [run |-> loaded.run, answers |-> loaded.answers]
  /\ Begins(loaded.answers, answers)
  /\ pc # "idle" => loaded.run \in DOMAIN runs

WalkInv ==
  /\ WalkType(walk)
  /\ walk.status \in {"none", "paging", "done", "refused"}
  /\ walk.origin \in Origins /\ walk.named \in 0..Len(runs)
  /\ walk.cursor = NoCursor => walk.status # "done"
  /\ walk.cursor # NoCursor => walk.cursor.run \in DOMAIN runs
  /\ walk.cursor # NoCursor /\ walk.origin # "answer" =>
       /\ Walked(walk, runs[walk.cursor.run], answers, decisions)
       /\ pc = "readDecisions" => walk.answersThen <= Len(loaded.answers)

GInv == LedgerInv /\ CallInv /\ WalkInv

-----------------------------------------------------------------------------
\* What a filter leaves of a graph that grows.
LEMMA MatchGrows ==
  ASSUME NEW r, NEW types, NEW run, GoodRun(r, run),
         NEW as, NEW more \in Seq(AnswerRecord), Begins(as, more),
         NEW ds, NEW later \in Seq(DecisionRecord), Begins(ds, later), Distinct(later)
  PROVE  /\ Ordered(Match(r, types, run, as, ds))
         /\ Ordered(Match(r, types, run, more, later))
         /\ Ids(Match(r, types, run, as, ds)) \subseteq Ids(Match(r, types, run, more, later))
         /\ Cardinality(Match(r, types, run, as, ds)) \in Nat
         /\ Cardinality(Match(r, types, run, more, later)) \in Nat
         /\ Cardinality(Match(r, types, run, as, ds))
              <= Cardinality(Match(r, types, run, more, later))
         /\ as = more => Match(r, types, run, as, ds) \subseteq Match(r, types, run, more, later)
<1> DEFINE one == Result(r, run, run.open, as, ds)
           two == Result(r, run, run.open, more, later)
           A == Filtered(Nodes(one), types)
           B == Filtered(Nodes(two), types)
<1>1. run.open \in Seq(Questions)
  BY DEF GoodRun, RunRecord
<1>2. /\ IsResult(one) /\ IsResult(two)
      /\ Ids(Nodes(one)) \subseteq Ids(Nodes(two))
      /\ as = more => Nodes(one) \subseteq Nodes(two)
  BY <1>1, GraphGrows
<1> HIDE DEF one, two
<1>3. Ordered(A) /\ Ordered(B)
  BY <1>2, NodesOrdered, FilteredOrdered
<1>4. Ids(A) \subseteq Ids(B)
  BY <1>2 DEF Filtered, Ids
<1>5. as = more => A \subseteq B
  BY <1>2 DEF Filtered
<1> HIDE DEF A, B
<1>6. /\ IsFiniteSet(Ids(A)) /\ IsFiniteSet(Ids(B))
      /\ Cardinality(Ids(A)) = Cardinality(A) /\ Cardinality(Ids(B)) = Cardinality(B)
      /\ Cardinality(A) \in Nat /\ Cardinality(B) \in Nat
  BY <1>3, AsManyIds
<1>7. Cardinality(Ids(A)) <= Cardinality(Ids(B))
  BY <1>4, <1>6, FS_Subset
<1> QED
  BY <1>3, <1>4, <1>5, <1>6, <1>7 DEF A, B, one, two, Match

\* A walk stays one while answers and decisions are recorded.
LEMMA WalkedGrows ==
  ASSUME NEW w, NEW run, GoodRun(w.cursor.run, run), w.cursor.offset \in Nat,
         NEW as, NEW more \in Seq(AnswerRecord), Begins(as, more),
         NEW ds, NEW later \in Seq(DecisionRecord), Begins(ds, later), Distinct(later),
         Walked(w, run, as, ds)
  PROVE  Walked(w, run, more, later)
<1> DEFINE now == Match(w.cursor.run, w.types, run, as, ds)
           then == Match(w.cursor.run, w.types, run, more, later)
<1>1. /\ Ids(now) \subseteq Ids(then)
      /\ Cardinality(now) \in Nat /\ Cardinality(then) \in Nat
      /\ Cardinality(now) <= Cardinality(then)
  BY MatchGrows
<1>2. /\ Len(as) \in Nat /\ Len(more) \in Nat /\ Len(as) <= Len(more)
      /\ Len(ds) \in Nat /\ Len(later) \in Nat /\ Len(ds) <= Len(later)
  <2>1. Len(as) \in Nat /\ Len(more) \in Nat /\ Len(as) <= Len(more)
    BY BeginsKeeps
  <2>2. Len(ds) \in Nat /\ Len(later) \in Nat /\ Len(ds) <= Len(later)
    BY BeginsKeeps
  <2> QED
    BY <2>1, <2>2
<1>3. w.shown \subseteq Ids(then)
  BY <1>1 DEF Walked
<1>4. w.status = "paging" => w.cursor.offset < Cardinality(then)
  <2>1. w.status = "paging" => w.cursor.offset < Cardinality(now)
    BY DEF Walked
  <2> HIDE DEF now, then
  <2> QED
    BY <1>1, <2>1
<1>5. w.answersThen \in 0..Len(more) /\ w.decisionsThen \in 0..Len(later)
  <2>1. w.answersThen \in 0..Len(as) /\ w.decisionsThen \in 0..Len(ds)
    BY DEF Walked
  <2> DEFINE a == Len(as)
             b == Len(more)
             c == Len(ds)
             e == Len(later)
  <2> HIDE DEF a, b, c, e
  <2>2. a \in Nat /\ b \in Nat /\ c \in Nat /\ e \in Nat /\ a <= b /\ c <= e
    BY <1>2 DEF a, b, c, e
  <2>3. w.answersThen \in 0..a /\ w.decisionsThen \in 0..c
    BY <2>1 DEF a, c
  <2>4. w.answersThen \in 0..b /\ w.decisionsThen \in 0..e
    BY <2>2, <2>3
  <2> QED
    BY <2>4 DEF b, e
<1>6. ASSUME Len(more) = w.answersThen
      PROVE  \E d \in w.decisionsThen..Len(later) : Covered(w, run, more, later, d)
  <2>1. Len(as) = w.answersThen /\ as = more
    <3>1. Len(as) = Len(more)
      <4>1. w.answersThen \in 0..Len(as)
        BY DEF Walked
      <4>2. Len(as) >= Len(more)
        <5> DEFINE a == Len(as)
        <5>1. a \in Nat /\ w.answersThen \in 0..a
          BY <1>2, <4>1
        <5> HIDE DEF a
        <5>2. w.answersThen <= a
          BY <5>1
        <5> QED
          BY <1>6, <5>2 DEF a
      <4> DEFINE a == Len(as)
                 b == Len(more)
      <4>3. a \in Nat /\ b \in Nat /\ a <= b /\ a >= b
        BY <1>2, <4>2
      <4> HIDE DEF a, b
      <4>4. a = b
        BY <4>3
      <4> QED
        BY <4>4 DEF a, b
    <3>2. more = SubSeq(more, 1, Len(more))
      OBVIOUS
    <3> QED
      BY <1>6, <3>1, <3>2 DEF Begins
  <2>2. PICK d \in w.decisionsThen..Len(ds) : Covered(w, run, as, ds, d)
    BY <2>1 DEF Walked
  <2>3. w.decisionsThen \in 0..Len(ds)
    BY DEF Walked
  <2>4. \A k \in 0..Len(ds) : SubSeq(ds, 1, k) = SubSeq(later, 1, k)
    BY <1>2 DEF Begins
  <2>5. d \in 0..Len(ds) /\ d \in w.decisionsThen..Len(later)
    BY <1>2, <2>3
  <2>6. SubSeq(ds, 1, d) = SubSeq(later, 1, d)
        /\ SubSeq(ds, 1, w.decisionsThen) = SubSeq(later, 1, w.decisionsThen)
    BY <2>3, <2>4, <2>5
  <2>7. Covered(w, run, more, later, d)
    BY <2>1, <2>2, <2>6 DEF Covered
  <2> QED
    BY <2>5, <2>7
<1> QED
  BY <1>3, <1>4, <1>5, <1>6 DEF Walked

LEMMA Prefix ==
  ASSUME NEW S, NEW s \in Seq(S), NEW k \in 0..Len(s)
  PROVE  /\ SubSeq(s, 1, k) \in Seq(S) /\ Len(SubSeq(s, 1, k)) = k
         /\ Begins(SubSeq(s, 1, k), s)
<1>1. SubSeq(s, 1, k) \in Seq(S) /\ Len(SubSeq(s, 1, k)) = k
  OBVIOUS
<1>2. k <= Len(s)
  OBVIOUS
<1> QED
  BY <1>1, <1>2 DEF Begins

LEMMA BeginsAll ==
  ASSUME NEW S, NEW s \in Seq(S)
  PROVE  Begins(s, s) /\ SubSeq(s, 1, Len(s)) = s
<1>1. SubSeq(s, 1, Len(s)) = s
  OBVIOUS
<1> QED
  BY <1>1 DEF Begins

\* As long as each other, a sequence and one it begins are the same.
LEMMA AllOfIt ==
  ASSUME NEW S, NEW s, NEW t \in Seq(S), Begins(s, t), Len(s) >= Len(t)
  PROVE  s = t
<1> DEFINE a == Len(s)
           b == Len(t)
<1>1. a \in Nat /\ b \in Nat /\ a <= b /\ a >= b
  BY BeginsKeeps
<1> HIDE DEF a, b
<1>2. a = b
  BY <1>1
<1>3. s = SubSeq(t, 1, Len(t))
  BY <1>2 DEF Begins, a, b
<1> QED
  BY <1>3, BeginsAll

\* Further nodes move a node down, if anywhere.
LEMMA OffsetGrows ==
  ASSUME NEW more, IsFiniteSet(more), NEW nodes \in SUBSET more, NEW n
  PROVE  Offset(n, nodes) \in Nat /\ Offset(n, more) \in Nat /\ Offset(n, nodes) <= Offset(n, more)
<1> DEFINE A == {m \in nodes : ComesBefore(m, n)}
           B == {m \in more : ComesBefore(m, n)}
<1>1. A \subseteq B /\ B \subseteq more
  OBVIOUS
<1> HIDE DEF A, B
<1>2. IsFiniteSet(A) /\ IsFiniteSet(B) /\ Cardinality(A) <= Cardinality(B)
  BY <1>1, FS_Subset
<1>3. Cardinality(A) \in Nat /\ Cardinality(B) \in Nat
  BY <1>2, FS_CardinalityType
<1> QED
  BY <1>2, <1>3 DEF Offset, A, B

-----------------------------------------------------------------------------
(***************************************************************************)
(* What a page does to a walk.                                             *)
(***************************************************************************)
ItemsOf(w, result, limit) == Slice(Filtered(Nodes(result), w.types), w.cursor.offset, limit)

\* v is w after a page of at most limit nodes of the graph of result.
PageOf(v, w, result, limit) ==
  /\ IsWalk(v) /\ v.origin = w.origin /\ v.named = w.named /\ v.types = w.types
  /\ v.cursor = [run |-> result.runId,
                 offset |-> w.cursor.offset + Cardinality(ItemsOf(w, result, limit))]
  /\ v.status \in {"paging", "done"}
  /\ v.status = "paging" <=>
       w.cursor.offset + Cardinality(ItemsOf(w, result, limit))
         < Cardinality(Filtered(Nodes(result), w.types))
  /\ v.shown = w.shown \cup Ids(ItemsOf(w, result, limit))
  /\ v.repeats = w.repeats + Cardinality(w.shown \cap Ids(ItemsOf(w, result, limit)))
  /\ w.cursor = NoCursor =>
       /\ v.present = Ids(Filtered(Nodes(result), w.types))
       /\ v.answersThen = Len(Settled(result))
       /\ v.decisionsThen = Len(result.decisions)
  /\ w.cursor # NoCursor =>
       /\ v.present = w.present
       /\ v.answersThen = w.answersThen /\ v.decisionsThen = w.decisionsThen

LEMMA PageFields ==
  ASSUME NEW w, IsWalk(w), NEW result, NEW limit
  PROVE  PageOf(WithPage(w, result, limit), w, result, limit)
<1> DEFINE matching == Filtered(Nodes(result), w.types)
           items == ItemsOf(w, result, limit)
           v == WithPage(w, result, limit)
<1>1. v = [w EXCEPT
        !.status = IF HasNextPage(w.cursor.offset + Cardinality(items), Cardinality(matching))
                     THEN "paging" ELSE "done",
        !.cursor = [run |-> result.runId, offset |-> w.cursor.offset + Cardinality(items)],
        !.shown = @ \cup Ids(items),
        !.repeats = @ + Cardinality(w.shown \cap Ids(items)),
        !.present = IF w.cursor = NoCursor THEN Ids(matching) ELSE @,
        !.answersThen = IF w.cursor = NoCursor THEN Len(Settled(result)) ELSE @,
        !.decisionsThen = IF w.cursor = NoCursor THEN Len(result.decisions) ELSE @]
  BY DEF WithPage, ItemsOf
<1> HIDE DEF matching, items, v
<1>2. w = [f \in WalkFields |-> w[f]]
  BY DEF IsWalk
<1>3. /\ IsWalk(v) /\ v.origin = w.origin /\ v.named = w.named /\ v.types = w.types
      /\ v.cursor = [run |-> result.runId, offset |-> w.cursor.offset + Cardinality(items)]
      /\ v.status = IF HasNextPage(w.cursor.offset + Cardinality(items), Cardinality(matching))
                      THEN "paging" ELSE "done"
      /\ v.shown = w.shown \cup Ids(items)
      /\ v.repeats = w.repeats + Cardinality(w.shown \cap Ids(items))
  BY <1>1, <1>2 DEF IsWalk, WalkFields
<1>4. /\ v.present = IF w.cursor = NoCursor THEN Ids(matching) ELSE w.present
      /\ v.answersThen = IF w.cursor = NoCursor THEN Len(Settled(result)) ELSE w.answersThen
      /\ v.decisionsThen = IF w.cursor = NoCursor THEN Len(result.decisions) ELSE w.decisionsThen
  BY <1>1, <1>2 DEF WalkFields
<1> QED
  BY <1>3, <1>4 DEF matching, items, v, HasNextPage, PageOf

\* The items of a page are nodes of its graph, and as many as their ids.
LEMMA ItemsFacts ==
  ASSUME NEW w, w.cursor.offset \in Nat, NEW result, IsResult(result), NEW limit \in Nat
  PROVE  /\ ItemsOf(w, result, limit) \subseteq Filtered(Nodes(result), w.types)
         /\ IsFiniteSet(Ids(ItemsOf(w, result, limit)))
         /\ Cardinality(ItemsOf(w, result, limit)) \in Nat
         /\ Cardinality(Ids(ItemsOf(w, result, limit))) = Cardinality(ItemsOf(w, result, limit))
         /\ Ordered(Filtered(Nodes(result), w.types))
         /\ Cardinality(Filtered(Nodes(result), w.types)) \in Nat
         /\ w.cursor.offset <= Cardinality(Filtered(Nodes(result), w.types)) =>
              w.cursor.offset + Cardinality(ItemsOf(w, result, limit))
                <= Cardinality(Filtered(Nodes(result), w.types))
<1> DEFINE matching == Filtered(Nodes(result), w.types)
           items == ItemsOf(w, result, limit)
           o == w.cursor.offset
<1>1. Ordered(matching)
  BY NodesOrdered, FilteredOrdered
<1>2. o \in Nat
  OBVIOUS
<1>3. items = Slice(matching, o, limit)
  BY DEF ItemsOf
<1> HIDE DEF matching, items, o
<1>4. /\ items \subseteq matching
      /\ o <= Cardinality(matching) => o + Cardinality(items) <= Cardinality(matching)
  BY <1>1, <1>2, <1>3, Page
<1>5. Ordered(items)
  BY <1>1, <1>4, Subsets
<1>6. IsFiniteSet(Ids(items)) /\ Cardinality(Ids(items)) = Cardinality(items)
      /\ Cardinality(items) \in Nat
  BY <1>5, AsManyIds
<1>7. Cardinality(matching) \in Nat
  BY <1>1, AsManyIds
<1> QED
  BY <1>1, <1>4, <1>6, <1>7 DEF matching, items, o

LEMMA PageType ==
  ASSUME NEW w, WalkType(w), NEW result, IsResult(result), NEW limit \in Nat,
         NEW v, v = WithPage(w, result, limit)
  PROVE  WalkType(v) /\ v.cursor # NoCursor /\ v.cursor.run = result.runId
<1> DEFINE items == ItemsOf(w, result, limit)
           I == Ids(items)
           both == w.shown \cap I
           next == w.cursor.offset + Cardinality(items)
<1>1. /\ IsWalk(w) /\ w.cursor.offset \in Nat /\ IsFiniteSet(w.shown) /\ w.repeats \in Nat
      /\ w.cursor.offset = w.repeats + Cardinality(w.shown)
  BY DEF WalkType
<1>2. /\ IsWalk(v) /\ v.cursor = [run |-> result.runId, offset |-> next]
      /\ v.shown = w.shown \cup I /\ v.repeats = w.repeats + Cardinality(both)
  <2>1. PageOf(v, w, result, limit)
    BY <1>1, PageFields
  <2> QED
    BY <2>1 DEF PageOf
<1>3. IsFiniteSet(I) /\ Cardinality(items) \in Nat /\ Cardinality(I) = Cardinality(items)
  BY <1>1, ItemsFacts
<1>4. result.runId \in Nat \ {0}
  BY DEF IsResult
<1> HIDE DEF items, I
<1>5. /\ IsFiniteSet(w.shown \cup I)
      /\ Cardinality(w.shown \cup I) = Cardinality(w.shown) + Cardinality(I) - Cardinality(both)
  BY <1>1, <1>3, FS_Union
<1>6. IsFiniteSet(both) /\ Cardinality(both) \in Nat
  <2>1. IsFiniteSet(both)
    BY <1>3, FS_Intersection
  <2> QED
    BY <2>1, FS_CardinalityType
<1>7. Cardinality(w.shown) \in Nat
  BY <1>1, FS_CardinalityType
<1>8. next \in Nat /\ v.cursor.offset = next /\ v.cursor.run = result.runId
      /\ v.cursor \in [run : Nat, offset : Nat]
  BY <1>1, <1>2, <1>3, <1>4
<1>9. v.cursor # NoCursor
  BY <1>4, <1>8 DEF NoCursor
<1>10. next = v.repeats + Cardinality(v.shown) /\ v.repeats \in Nat
  <2> DEFINE a == Cardinality(w.shown)
             b == Cardinality(I)
             c == Cardinality(both)
             d == Cardinality(w.shown \cup I)
  <2>1. a \in Nat /\ b \in Nat /\ c \in Nat /\ d = a + b - c
    BY <1>3, <1>5, <1>6, <1>7
  <2>2. next = w.repeats + a + b /\ w.repeats \in Nat
    BY <1>1, <1>3
  <2>3. v.repeats = w.repeats + c /\ Cardinality(v.shown) = d
    BY <1>2
  <2> HIDE DEF a, b, c, d, next
  <2> QED
    BY <2>1, <2>2, <2>3
<1> QED
  BY <1>2, <1>5, <1>8, <1>9, <1>10 DEF WalkType

SettlesAll(result, as) == Len(Settled(result)) = Len(as)

\* The graph of some answers and decisions, as a walk over run pages through it.
LEMMA ResultOfRun ==
  ASSUME NEW r, NEW run, GoodRun(r, run), NEW as \in Seq(AnswerRecord),
         NEW ds \in Seq(DecisionRecord), Distinct(ds)
  PROVE  /\ IsResult(Result(r, run, run.open, as, ds))
         /\ Result(r, run, run.open, as, ds).runId = r
         /\ Result(r, run, run.open, as, ds).decisions = ds
         /\ SettlesAll(Result(r, run, run.open, as, ds), as)
<1> DEFINE open == run.open
<1>1. open \in Seq(Questions)
  BY DEF GoodRun, RunRecord
<1> HIDE DEF open
<1>2. /\ Result(r, run, open, as, ds).runId = r
      /\ Result(r, run, open, as, ds).decisions = ds
  BY DEF Result
<1>3. IsResult(Result(r, run, open, as, ds))
  BY <1>1, ResultIsResult
<1>4. Len(Settled(Result(r, run, open, as, ds))) = Len(as)
  BY <1>1, ResultIsResult
<1> QED
  BY <1>2, <1>3, <1>4 DEF open, SettlesAll

\* The first page: its answers and decisions may be fewer than there are.
LEMMA FirstPage ==
  ASSUME NEW w, WalkType(w), w.cursor = NoCursor,
         NEW r, NEW run, GoodRun(r, run),
         NEW as, NEW now \in Seq(AnswerRecord), Begins(as, now),
         NEW ds, NEW later \in Seq(DecisionRecord), Begins(ds, later), Distinct(later),
         NEW limit \in Nat,
         NEW v, v = WithPage(w, Result(r, run, run.open, as, ds), limit)
  PROVE  Walked(v, run, now, later) /\ v.answersThen = Len(as)
<1> DEFINE result == Result(r, run, run.open, as, ds)
           items == ItemsOf(w, result, limit)
           page == Match(r, w.types, run, as, ds)
           all == Match(r, w.types, run, now, later)
           next == Cardinality(items)
<1>1. /\ as \in Seq(AnswerRecord) /\ Len(as) \in Nat /\ Len(now) \in Nat /\ Len(as) <= Len(now)
  BY BeginsKeeps
<1>2. /\ ds \in Seq(DecisionRecord) /\ Len(ds) \in Nat /\ Len(later) \in Nat /\ Len(ds) <= Len(later)
      /\ DOMAIN ds \subseteq DOMAIN later /\ \A i \in DOMAIN ds : ds[i] = later[i]
  BY BeginsKeeps
<1>3. Distinct(ds)
  BY <1>2 DEF Distinct
<1>4. /\ IsResult(result) /\ result.runId = r /\ result.decisions = ds
      /\ Len(Settled(result)) = Len(as)
  <2>1. as \in Seq(AnswerRecord)
    BY <1>1
  <2>2. ds \in Seq(DecisionRecord)
    BY <1>2
  <2>3. IsResult(result)
    BY <1>3, <2>1, <2>2, ResultOfRun
  <2>4. SettlesAll(result, as)
    BY <1>3, <2>1, <2>2, ResultOfRun
  <2> QED
    BY <2>3, <2>4 DEF Result, SettlesAll
<1>5. /\ Ids(page) \subseteq Ids(all)
      /\ Cardinality(page) \in Nat /\ Cardinality(all) \in Nat
      /\ Cardinality(page) <= Cardinality(all)
  BY MatchGrows
<1>6. w.shown = {} /\ w.cursor.offset = 0 /\ IsWalk(w)
  BY DEF WalkType, NoCursor
<1>7. page = Filtered(Nodes(result), w.types)
  BY DEF Match
<1> HIDE DEF result
<1>8. /\ v.cursor = [run |-> result.runId, offset |-> w.cursor.offset + Cardinality(items)]
      /\ v.status \in {"paging", "done"}
      /\ v.status = "paging" <=> w.cursor.offset + Cardinality(items) < Cardinality(page)
      /\ v.shown = w.shown \cup Ids(items) /\ v.types = w.types
      /\ v.present = Ids(page)
      /\ v.answersThen = Len(Settled(result)) /\ v.decisionsThen = Len(result.decisions)
  <2>1. v = WithPage(w, result, limit)
    BY DEF result
  <2>2. PageOf(v, w, result, limit)
    BY <1>6, <2>1, PageFields
  <2> QED
    BY <1>7, <2>2 DEF PageOf
<1>9. /\ items \subseteq page /\ Cardinality(items) \in Nat /\ Ordered(page)
  <2>1. w.cursor.offset \in Nat
    BY <1>6
  <2> QED
    BY <1>4, <1>7, <2>1, ItemsFacts
<1>10. items = Slice(page, 0, limit)
  BY <1>6, <1>7 DEF ItemsOf
<1> HIDE DEF items, page, all
<1>11. next <= Cardinality(page) /\ \A n \in page : Offset(n, page) < next => n \in items
  <2> DEFINE z == 0
  <2>1. z \in Nat /\ z <= Cardinality(page) /\ items = Slice(page, z, limit)
    BY <1>5, <1>10
  <2>2. \A n \in page : Offset(n, page) \in Nat
    BY <1>9, OffsetGrows DEF Ordered
  <2> HIDE DEF z
  <2>3. /\ z + Cardinality(items) <= Cardinality(page)
        /\ \A n \in page :
             Offset(n, page) < z + Cardinality(items) => Offset(n, page) < z \/ n \in items
    BY <1>9, <2>1, Page
  <2> QED
    BY <1>9, <2>2, <2>3 DEF z
<1>12. /\ v.cursor.run = r /\ v.cursor.offset = next /\ v.shown = Ids(items)
       /\ v.answersThen = Len(as) /\ v.decisionsThen = Len(ds)
  BY <1>4, <1>6, <1>8, <1>9
<1>13. Ids(items) \subseteq Ids(page)
  BY <1>9 DEF Ids
<1>14. v.status = "paging" => next < Cardinality(all)
  BY <1>5, <1>6, <1>8, <1>9
<1>15. ASSUME Len(now) = v.answersThen
       PROVE  \E d \in v.decisionsThen..Len(later) : Covered(v, run, now, later, d)
  <2>1. as = now
    <3>1. Len(as) >= Len(now)
      BY <1>1, <1>12, <1>15
    <3> QED
      BY <3>1, AllOfIt
  <2>2. ds = SubSeq(later, 1, v.decisionsThen)
    BY <1>12 DEF Begins
  <2>3. page = Match(v.cursor.run, v.types, run, now, SubSeq(later, 1, v.decisionsThen))
    BY <1>8, <1>12, <2>1, <2>2 DEF page
  <2>4. v.status = "done" => next = Cardinality(page)
    BY <1>5, <1>6, <1>8, <1>9, <1>11
  <2>5. \A n \in page : Offset(n, page) < next => n.id \in v.shown
    BY <1>11, <1>12 DEF Ids
  <2>6. Covered(v, run, now, later, v.decisionsThen)
    <3> HIDE DEF next
    <3> QED
      BY <1>8, <1>11, <1>12, <2>3, <2>4, <2>5 DEF Covered
  <2>7. v.decisionsThen \in v.decisionsThen..Len(later)
    BY <1>2, <1>12
  <2> QED
    BY <2>6, <2>7
<1>16. v.answersThen \in 0..Len(now) /\ v.decisionsThen \in 0..Len(later)
  <2> DEFINE a == Len(as)
             b == Len(now)
             c == Len(ds)
             e == Len(later)
  <2>1. a \in Nat /\ b \in Nat /\ a <= b /\ c \in Nat /\ e \in Nat /\ c <= e
    BY <1>1, <1>2
  <2>2. v.answersThen = a /\ v.decisionsThen = c
    BY <1>12
  <2> HIDE DEF a, b, c, e
  <2>3. v.answersThen \in 0..b /\ v.decisionsThen \in 0..e
    BY <2>1, <2>2
  <2> QED
    BY <2>3 DEF b, e
<1>17. all = Match(v.cursor.run, v.types, run, now, later)
  BY <1>8, <1>12 DEF all
<1>18. v.shown \subseteq Ids(all)
  BY <1>5, <1>12, <1>13
<1> HIDE DEF next
<1> QED
  BY <1>12, <1>14, <1>15, <1>16, <1>17, <1>18 DEF Walked

\* A further page, of the decisions there are, and of answers that may be fewer
\* than there are but not fewer than for the first page.
LEMMA NextPage ==
  ASSUME NEW w, WalkType(w), w.cursor # NoCursor,
         NEW run, GoodRun(w.cursor.run, run),
         NEW as, NEW now \in Seq(AnswerRecord), Begins(as, now),
         NEW later \in Seq(DecisionRecord), Distinct(later),
         Walked(w, run, now, later), w.answersThen <= Len(as),
         NEW limit \in Nat,
         NEW v, v = WithPage(w, Result(w.cursor.run, run, run.open, as, later), limit)
  PROVE  Walked(v, run, now, later) /\ v.answersThen = w.answersThen
<1> DEFINE r == w.cursor.run
           o == w.cursor.offset
           result == Result(r, run, run.open, as, later)
           items == ItemsOf(w, result, limit)
           page == Match(r, w.types, run, as, later)
           all == Match(r, w.types, run, now, later)
           next == o + Cardinality(items)
<1>1. /\ as \in Seq(AnswerRecord) /\ Len(as) \in Nat /\ Len(now) \in Nat /\ Len(as) <= Len(now)
  BY BeginsKeeps
<1>2. Len(later) \in Nat /\ Begins(later, later) /\ SubSeq(later, 1, Len(later)) = later
  BY BeginsAll
<1>3. o \in Nat /\ IsWalk(w)
  BY DEF WalkType
<1>4. IsResult(result) /\ result.runId = r
  <2>1. GoodRun(r, run)
    OBVIOUS
  <2> HIDE DEF r
  <2> QED
    BY <1>1, <2>1, ResultOfRun
<1>5. /\ Ids(page) \subseteq Ids(all)
      /\ Cardinality(page) \in Nat /\ Cardinality(all) \in Nat
      /\ Cardinality(page) <= Cardinality(all)
  <2>1. GoodRun(r, run)
    OBVIOUS
  <2> HIDE DEF r
  <2> QED
    BY <1>2, <2>1, MatchGrows
<1>6. page = Filtered(Nodes(result), w.types)
  BY DEF Match
<1>7. v = WithPage(w, result, limit)
  OBVIOUS
<1>8. /\ w.answersThen \in 0..Len(now) /\ w.decisionsThen \in 0..Len(later)
      /\ w.shown \subseteq Ids(all)
      /\ Len(now) = w.answersThen =>
           \E d \in w.decisionsThen..Len(later) : Covered(w, run, now, later, d)
  BY DEF Walked
<1> HIDE DEF result
<1>9. /\ v.cursor = [run |-> result.runId, offset |-> next]
      /\ v.status \in {"paging", "done"}
      /\ v.status = "paging" <=> next < Cardinality(page)
      /\ v.shown = w.shown \cup Ids(items) /\ v.types = w.types
      /\ v.present = w.present
      /\ v.answersThen = w.answersThen /\ v.decisionsThen = w.decisionsThen
  <2>1. PageOf(v, w, result, limit)
    BY <1>3, <1>7, PageFields
  <2> QED
    BY <1>6, <2>1 DEF PageOf
<1>10. items \subseteq page /\ Cardinality(items) \in Nat /\ Ordered(page)
  BY <1>3, <1>4, <1>6, ItemsFacts
<1>11. items = Slice(page, o, limit)
  BY <1>6 DEF ItemsOf
<1>12. v.cursor.run = r /\ v.cursor.offset = next /\ next \in Nat
  BY <1>3, <1>4, <1>9, <1>10
<1> HIDE DEF items, page, all
<1>13. Ids(items) \subseteq Ids(page)
  BY <1>10 DEF Ids
<1>14. v.shown \subseteq Ids(all)
  BY <1>5, <1>8, <1>9, <1>13
<1>15. v.status = "paging" => next < Cardinality(all)
  <2> HIDE DEF next
  <2> QED
    BY <1>5, <1>9, <1>12
<1>16. ASSUME Len(now) = v.answersThen
       PROVE  \E d \in v.decisionsThen..Len(later) : Covered(v, run, now, later, d)
  <2>1. as = now
    <3>1. Len(as) >= Len(now)
      BY <1>1, <1>9, <1>16
    <3> QED
      BY <3>1, AllOfIt
  <2>2. PICK d \in w.decisionsThen..Len(later) : Covered(w, run, now, later, d)
    BY <1>8, <1>9, <1>16
  <2> DEFINE first == Match(r, w.types, run, now, SubSeq(later, 1, w.decisionsThen))
             last == Match(r, w.types, run, now, SubSeq(later, 1, d))
  <2>3. /\ w.present = Ids(first) /\ o <= Cardinality(last)
        /\ \A n \in first : Offset(n, last) < o => n.id \in w.shown
    BY <2>2 DEF Covered
  <2>4. d \in 0..Len(later) /\ w.decisionsThen \in 0..d
    BY <1>2, <1>8
  <2>5. page = Match(r, w.types, run, now, later)
    BY <2>1 DEF page
  <2>6. last \subseteq page /\ Cardinality(last) \in Nat /\ Cardinality(last) <= Cardinality(page)
    <3>1. GoodRun(r, run) /\ Begins(now, now)
      BY BeginsAll
    <3>2. Begins(SubSeq(later, 1, d), later)
      BY <2>4, Prefix
    <3> HIDE DEF r
    <3> QED
      BY <2>5, <3>1, <3>2, MatchGrows
  <2>7. first \subseteq last
    <3>1. GoodRun(r, run) /\ Begins(now, now)
      BY BeginsAll
    <3>2. SubSeq(later, 1, d) \in Seq(DecisionRecord) /\ Distinct(SubSeq(later, 1, d))
      BY <2>4 DEF Distinct
    <3>3. Begins(SubSeq(later, 1, w.decisionsThen), SubSeq(later, 1, d))
      <4> DEFINE e == w.decisionsThen
                 s == SubSeq(later, 1, d)
      <4>1. s \in Seq(DecisionRecord) /\ Len(s) = d /\ e \in 0..Len(s)
        BY <2>4
      <4>2. Begins(SubSeq(s, 1, e), s)
        <5> HIDE DEF s, e
        <5> QED
          BY <4>1, Prefix
      <4>3. SubSeq(s, 1, e) = SubSeq(later, 1, e)
        BY <2>4
      <4> QED
        BY <4>2, <4>3
    <3> DEFINE s == SubSeq(later, 1, d)
               t == SubSeq(later, 1, w.decisionsThen)
    <3> HIDE DEF r, s, t
    <3>4. s \in Seq(DecisionRecord) /\ Distinct(s) /\ Begins(t, s)
      BY <3>2, <3>3 DEF s, t
    <3>5. Match(r, w.types, run, now, t) \subseteq Match(r, w.types, run, now, s)
      BY <3>1, <3>4, MatchGrows
    <3> QED
      BY <3>5 DEF s, t
  <2> HIDE DEF first, last
  <2>8. o <= Cardinality(page)
    BY <1>3, <1>5, <2>3, <2>6
  <2>9. /\ next <= Cardinality(page)
        /\ \A n \in page : Offset(n, page) < next => Offset(n, page) < o \/ n \in items
    <3> HIDE DEF o
    <3> QED
      BY <1>3, <1>10, <1>11, <2>8, Page
  <2>10. v.status = "done" => next = Cardinality(page)
    <3> HIDE DEF next
    <3> QED
      BY <1>5, <1>9, <1>12, <2>9
  <2>11. ASSUME NEW n \in first, Offset(n, page) < next
         PROVE  n.id \in v.shown
    <3>1. CASE n \in items
      BY <1>9, <3>1 DEF Ids
    <3>2. CASE Offset(n, page) < o
      <4>1. /\ Offset(n, last) \in Nat /\ Offset(n, page) \in Nat
            /\ Offset(n, last) <= Offset(n, page)
        BY <1>10, <2>6, OffsetGrows DEF Ordered
      <4>2. Offset(n, last) < o
        BY <1>3, <3>2, <4>1
      <4> QED
        BY <1>9, <2>3, <4>2
    <3> QED
      BY <2>6, <2>7, <2>9, <2>11, <3>1, <3>2
  <2>12. first = Match(v.cursor.run, v.types, run, now, SubSeq(later, 1, v.decisionsThen))
    BY <1>9, <1>12 DEF first
  <2>13. page = Match(v.cursor.run, v.types, run, now, SubSeq(later, 1, Len(later)))
    BY <1>2, <1>9, <1>12, <2>5
  <2>14. Covered(v, run, now, later, Len(later))
    <3> HIDE DEF next
    <3> QED
      BY <1>9, <1>12, <2>3, <2>9, <2>10, <2>11, <2>12, <2>13 DEF Covered
  <2>15. Len(later) \in v.decisionsThen..Len(later)
    BY <1>2, <1>8, <1>9
  <2> QED
    BY <2>14, <2>15
<1>17. all = Match(v.cursor.run, v.types, run, now, later)
  BY <1>9, <1>12 DEF all
<1> HIDE DEF next
<1> QED
  BY <1>8, <1>9, <1>12, <1>14, <1>15, <1>16, <1>17 DEF Walked

-----------------------------------------------------------------------------
(***************************************************************************)
(* The steps.                                                              *)
(***************************************************************************)
LEMMA BeginsTransitive ==
  ASSUME NEW S, NEW s, NEW t, NEW u \in Seq(S), Begins(s, t), Begins(t, u)
  PROVE  Begins(s, u)
<1>1. /\ t \in Seq(S) /\ Len(t) \in Nat /\ Len(u) \in Nat /\ Len(t) <= Len(u)
      /\ t = SubSeq(u, 1, Len(t))
  BY BeginsKeeps DEF Begins
<1>2. /\ s \in Seq(S) /\ Len(s) \in Nat /\ Len(s) <= Len(t)
      /\ s = SubSeq(t, 1, Len(s))
  BY <1>1, BeginsKeeps DEF Begins
<1> DEFINE a == Len(s)
           b == Len(t)
           c == Len(u)
<1>3. a \in Nat /\ b \in Nat /\ c \in Nat /\ a <= b /\ b <= c
  BY <1>1, <1>2
<1>4. \A k \in 0..b : SubSeq(SubSeq(u, 1, b), 1, k) = SubSeq(u, 1, k)
  BY <1>3
<1>5. a \in 0..b /\ a <= c
  <2> HIDE DEF a, b, c
  <2> QED
    BY <1>3
<1>6. SubSeq(t, 1, a) = SubSeq(u, 1, a)
  BY <1>1, <1>4, <1>5
<1> QED
  BY <1>2, <1>5, <1>6 DEF Begins

LEMMA Appended ==
  ASSUME NEW S, NEW s \in Seq(S), NEW x \in S
  PROVE  /\ Append(s, x) \in Seq(S) /\ Len(Append(s, x)) = Len(s) + 1
         /\ Begins(s, Append(s, x)) /\ Len(s) \in Nat
         /\ DOMAIN Append(s, x) = DOMAIN s \cup {Len(s) + 1}
         /\ \A i \in DOMAIN s : Append(s, x)[i] = s[i]
         /\ Append(s, x)[Len(s) + 1] = x
<1>1. /\ Append(s, x) \in Seq(S) /\ Len(Append(s, x)) = Len(s) + 1 /\ Len(s) \in Nat
      /\ SubSeq(Append(s, x), 1, Len(s)) = s
  OBVIOUS
<1>2. Begins(s, Append(s, x))
  BY <1>1 DEF Begins
<1> QED
  BY <1>1, <1>2

\* Nothing that is recorded is changed or taken away.
Grows ==
  /\ \A r \in DOMAIN runs : r \in DOMAIN runs' /\ runs'[r] = runs[r]
  /\ Len(runs) \in Nat /\ Len(runs') \in Nat /\ Len(runs) <= Len(runs')
  /\ Begins(answers, answers') /\ Begins(decisions, decisions')

LEMMA LedgerStays ==
  ASSUME LedgerInv, UNCHANGED ledgerVars
  PROVE  LedgerInv' /\ Grows
<1>1. LedgerInv'
  BY DEF LedgerInv, ledgerVars
<1>2. answers \in Seq(AnswerRecord) /\ decisions \in Seq(DecisionRecord) /\ runs \in Seq(RunRecord)
  BY DEF LedgerInv
<1>3. Begins(answers, answers) /\ Begins(decisions, decisions)
  <2>1. Begins(answers, answers)
    BY <1>2, BeginsAll
  <2>2. Begins(decisions, decisions)
    BY <1>2, BeginsAll
  <2> QED
    BY <2>1, <2>2
<1>4. UNCHANGED <<runs, answers, decisions>>
  BY DEF ledgerVars
<1>5. Begins(answers, answers') /\ Begins(decisions, decisions')
  BY <1>3, <1>4
<1>6. Len(runs) \in Nat /\ Len(runs') \in Nat /\ Len(runs) <= Len(runs')
  BY <1>2, <1>4
<1> QED
  BY <1>1, <1>4, <1>5, <1>6 DEF Grows

LEMMA CaptureLedger ==
  ASSUME LedgerInv, Capture
  PROVE  LedgerInv' /\ Grows
<1>1. /\ runs \in Seq(RunRecord) /\ answers \in Seq(AnswerRecord)
      /\ decisions \in Seq(DecisionRecord) /\ Distinct(decisions)
      /\ \A r \in DOMAIN runs : GoodRun(r, runs[r])
      /\ \A i \in DOMAIN decisions : decisions[i].run \in DOMAIN runs
      /\ Len(runs) > 0
  BY DEF LedgerInv
<1>2. PICK a \in Assessments, p \in Stale(Len(runs)), i \in Stale(Len(answers)) :
        runs' = Append(runs, [previous |-> p, open |-> Unanswered(a.questions, SubSeq(answers, 1, i)),
                              next |-> a.next, findings |-> a.findings, links |-> a.links])
  BY DEF Capture
<1> DEFINE run == [previous |-> p, open |-> Unanswered(a.questions, SubSeq(answers, 1, i)),
                   next |-> a.next, findings |-> a.findings, links |-> a.links]
<1>3. a \in AssessmentType /\ WellMade(a)
  BY AssessmentsAssumption
<1>4. a.questions \in Seq(Questions) /\ a.next \in SUBSET Questions
      /\ a.findings \in SUBSET Findings /\ a.links \in SUBSET Links
  BY <1>3 DEF AssessmentType
<1>5. Unanswered(a.questions, SubSeq(answers, 1, i)) \in Seq(Questions)
  BY <1>4, KeptRange DEF Unanswered
<1>6. p \in 0..Len(runs)
  BY DEF Stale
<1>7. run \in RunRecord
  <2>1. p \in Nat
    BY <1>1, <1>6
  <2> QED
    BY <1>4, <1>5, <2>1 DEF RunRecord
<1>8. WellMade(run)
  BY <1>3 DEF WellMade
<1>9. run.previous = p
  OBVIOUS
<1>10. runs' = Append(runs, run)
  BY <1>2
<1> HIDE DEF run
<1>11. /\ runs' \in Seq(RunRecord) /\ Len(runs') = Len(runs) + 1 /\ Len(runs) \in Nat
       /\ DOMAIN runs' = DOMAIN runs \cup {Len(runs) + 1}
       /\ \A r \in DOMAIN runs : runs'[r] = runs[r]
       /\ runs'[Len(runs) + 1] = run
  BY <1>1, <1>7, <1>10, Appended
<1>12. UNCHANGED <<answers, decisions>>
  BY DEF Capture
<1>13. GoodRun(Len(runs) + 1, run)
  BY <1>6, <1>7, <1>8, <1>9, <1>11 DEF GoodRun
<1>14. \A r \in DOMAIN runs' : GoodRun(r, runs'[r])
  BY <1>1, <1>11, <1>13
<1>15. LedgerInv'
  BY <1>1, <1>11, <1>12, <1>14 DEF LedgerInv
<1>16. Begins(answers, answers') /\ Begins(decisions, decisions')
  <2>1. Begins(answers, answers)
    BY <1>1, BeginsAll
  <2>2. Begins(decisions, decisions)
    BY <1>1, BeginsAll
  <2> QED
    BY <1>12, <2>1, <2>2
<1>17. Len(runs) \in Nat /\ Len(runs') \in Nat /\ Len(runs) <= Len(runs')
  BY <1>11
<1> QED
  BY <1>11, <1>15, <1>16, <1>17 DEF Grows

LEMMA AnswerLedger ==
  ASSUME LedgerInv, RecordAnswer
  PROVE  LedgerInv' /\ Grows
<1>1. /\ runs \in Seq(RunRecord) /\ answers \in Seq(AnswerRecord)
      /\ decisions \in Seq(DecisionRecord)
      /\ \A r \in DOMAIN runs : GoodRun(r, runs[r])
  BY DEF LedgerInv
<1>2. PICK r \in Stale(Len(runs)) \ {0} : \E i \in DOMAIN runs[r].open :
        \E status \in {"answered", "skipped"} :
          answers' = Append(answers, [question |-> runs[r].open[i], status |-> status, run |-> r])
  BY DEF RecordAnswer
<1>3. PICK i \in DOMAIN runs[r].open, status \in {"answered", "skipped"} :
        answers' = Append(answers, [question |-> runs[r].open[i], status |-> status, run |-> r])
  BY <1>2
<1> DEFINE a == [question |-> runs[r].open[i], status |-> status, run |-> r]
<1>4. r \in DOMAIN runs /\ r \in Nat
  BY <1>1 DEF Stale
<1>5. runs[r].open \in Seq(Questions)
  BY <1>1, <1>4 DEF GoodRun, RunRecord
<1>6. a \in AnswerRecord
  BY <1>4, <1>5 DEF AnswerRecord, AnswersOf
<1> HIDE DEF a
<1>7. answers' \in Seq(AnswerRecord) /\ Begins(answers, answers')
  <2>1. answers' = Append(answers, a)
    BY <1>3 DEF a
  <2> QED
    BY <1>1, <1>6, <2>1, Appended
<1>8. UNCHANGED <<runs, decisions>>
  BY DEF RecordAnswer
<1>9. LedgerInv'
  BY <1>7, <1>8 DEF LedgerInv
<1>10. Begins(decisions, decisions')
  BY <1>1, <1>8, BeginsAll
<1>11. Len(runs) \in Nat /\ Len(runs') \in Nat /\ Len(runs) <= Len(runs')
  BY <1>1, <1>8
<1> QED
  BY <1>7, <1>8, <1>9, <1>10, <1>11 DEF Grows

LEMMA DecisionLedger ==
  ASSUME LedgerInv, RecordDecision
  PROVE  LedgerInv' /\ Grows
<1>1. /\ runs \in Seq(RunRecord) /\ answers \in Seq(AnswerRecord)
      /\ decisions \in Seq(DecisionRecord) /\ Distinct(decisions)
      /\ \A i \in DOMAIN decisions : decisions[i].run \in DOMAIN runs
  BY DEF LedgerInv
<1>2. PICK r \in Stale(Len(runs)) \ {0}, id \in Decisions :
        /\ \A i \in DOMAIN decisions : decisions[i].id # id
        /\ decisions' = Append(decisions, [id |-> id, run |-> r])
  BY DEF RecordDecision
<1> DEFINE d == [id |-> id, run |-> r]
<1>3. r \in DOMAIN runs /\ r \in Nat
  BY <1>1 DEF Stale
<1>4. d \in DecisionRecord /\ d.id = id /\ d.run = r
  BY <1>3 DEF DecisionRecord
<1>5. decisions' = Append(decisions, d)
  BY <1>2
<1> HIDE DEF d
<1>6. /\ decisions' \in Seq(DecisionRecord) /\ Begins(decisions, decisions')
      /\ DOMAIN decisions' = DOMAIN decisions \cup {Len(decisions) + 1}
      /\ \A i \in DOMAIN decisions : decisions'[i] = decisions[i]
      /\ decisions'[Len(decisions) + 1] = d
  BY <1>1, <1>4, <1>5, Appended
<1>7. UNCHANGED <<runs, answers>>
  BY DEF RecordDecision
<1>8. Distinct(decisions)'
  BY <1>1, <1>2, <1>4, <1>6 DEF Distinct
<1>9. \A i \in DOMAIN decisions' : decisions'[i].run \in DOMAIN runs
  BY <1>1, <1>3, <1>4, <1>6
<1>10. LedgerInv'
  BY <1>6, <1>7, <1>8, <1>9 DEF LedgerInv
<1>11. Begins(answers, answers')
  BY <1>1, <1>7, BeginsAll
<1>12. Len(runs) \in Nat /\ Len(runs') \in Nat /\ Len(runs) <= Len(runs')
  BY <1>1, <1>7
<1> QED
  BY <1>6, <1>7, <1>10, <1>11, <1>12 DEF Grows

\* A command whose caller is not the client, or not yet.
LEMMA WalkStays ==
  ASSUME GInv, LedgerInv', Grows, UNCHANGED <<pc, loaded, walk>>
  PROVE  GInv'
<1>1. /\ answers' \in Seq(AnswerRecord) /\ decisions' \in Seq(DecisionRecord)
      /\ Distinct(decisions')
  BY DEF LedgerInv
<1>2. \A r \in DOMAIN runs : GoodRun(r, runs[r])
  BY DEF GInv, LedgerInv
<1>3. CallInv'
  <2>1. Begins(loaded.answers, answers')
    <3>1. Begins(loaded.answers, answers) /\ Begins(answers, answers')
      BY DEF GInv, CallInv, Grows
    <3> QED
      BY <1>1, <3>1, BeginsTransitive
  <2> QED
    BY <2>1 DEF GInv, CallInv, Grows
<1>4. ASSUME walk.cursor # NoCursor, walk.origin # "answer"
      PROVE  Walked(walk, runs[walk.cursor.run], answers', decisions')
  <2>1. /\ walk.cursor.run \in DOMAIN runs /\ walk.cursor.offset \in Nat
        /\ Walked(walk, runs[walk.cursor.run], answers, decisions)
    BY <1>4 DEF GInv, WalkInv, WalkType
  <2>2. Begins(answers, answers') /\ Begins(decisions, decisions')
    BY DEF Grows
  <2>3. GoodRun(walk.cursor.run, runs[walk.cursor.run])
    BY <1>2, <2>1
  <2> QED
    BY <1>1, <2>1, <2>2, <2>3, WalkedGrows
<1>5. walk.cursor # NoCursor => walk.cursor.run \in DOMAIN runs
  BY DEF GInv, WalkInv
<1>6. walk.named \in 0..Len(runs')
  BY DEF GInv, WalkInv, Grows
<1>7. walk' = walk /\ pc' = pc /\ loaded' = loaded
  OBVIOUS
<1>8. walk.cursor # NoCursor =>
        walk.cursor.run \in DOMAIN runs' /\ runs'[walk.cursor.run] = runs[walk.cursor.run]
  BY <1>5 DEF Grows
<1>9. WalkInv'
  BY <1>4, <1>6, <1>7, <1>8 DEF GInv, WalkInv
<1> QED
  BY <1>3, <1>9 DEF GInv

LEMMA NewWalkType ==
  ASSUME NEW origin, NEW named, NEW types
  PROVE  /\ WalkType(NewWalk(origin, named, types))
         /\ NewWalk(origin, named, types).origin = origin
         /\ NewWalk(origin, named, types).named = named
         /\ NewWalk(origin, named, types).types = types
         /\ NewWalk(origin, named, types).status = "paging"
         /\ NewWalk(origin, named, types).cursor = NoCursor
<1> DEFINE w == NewWalk(origin, named, types)
<1>1. /\ w.shown = {} /\ w.repeats = 0 /\ w.cursor = NoCursor /\ w.origin = origin
      /\ w.named = named /\ w.types = types /\ w.status = "paging"
  BY DEF NewWalk
<1>2. IsWalk(w)
  BY NewWalkIsWalk
<1>3. IsFiniteSet({}) /\ Cardinality({}) = 0
  BY FS_EmptySet
<1> HIDE DEF w
<1> QED
  BY <1>1, <1>2, <1>3 DEF WalkType, NoCursor, w

\* A command whose caller is the client, which gets the first page of its
\* result: of run r, and of answers and decisions that there are.
LEMMA WalkBegins ==
  ASSUME GInv, LedgerInv', Grows, UNCHANGED <<pc, loaded>>, pc = "idle",
         NEW origin \in Origins, NEW r \in DOMAIN runs', NEW named \in {0, r},
         NEW result, IsResult(result), result.runId = r,
         walk' = WithPage(NewWalk(origin, named, {}), result, DefaultLimit),
         origin # "answer" =>
           \E as, ds : /\ Begins(as, answers') /\ Begins(ds, decisions')
                       /\ result = Result(r, runs'[r], runs'[r].open, as, ds)
  PROVE  GInv'
<1> DEFINE w == NewWalk(origin, named, {})
<1>1. /\ answers' \in Seq(AnswerRecord) /\ decisions' \in Seq(DecisionRecord)
      /\ Distinct(decisions') /\ runs' \in Seq(RunRecord)
      /\ GoodRun(r, runs'[r])
  BY DEF LedgerInv
<1>2. /\ WalkType(w) /\ w.origin = origin /\ w.named = named /\ w.types = {}
      /\ w.status = "paging" /\ w.cursor = NoCursor
  BY NewWalkType
<1>3. walk' = WithPage(w, result, DefaultLimit) /\ DefaultLimit \in Nat
  BY DEF DefaultLimit
<1> HIDE DEF w
<1>4. WalkType(walk') /\ walk'.cursor # NoCursor /\ walk'.cursor.run = r
  BY <1>2, <1>3, PageType
<1>5. walk'.origin = origin /\ walk'.named = named /\ walk'.status \in {"paging", "done"}
  <2>1. PageOf(walk', w, result, DefaultLimit)
    BY <1>2, <1>3, PageFields DEF WalkType
  <2> QED
    BY <1>2, <2>1 DEF PageOf
<1>6. ASSUME origin # "answer"
      PROVE  Walked(walk', runs'[r], answers', decisions')
  <2>1. PICK as, ds : /\ Begins(as, answers') /\ Begins(ds, decisions')
                      /\ result = Result(r, runs'[r], runs'[r].open, as, ds)
    BY <1>6
  <2> DEFINE run == runs'[r]
             now == answers'
             later == decisions'
             v == walk'
             limit == DefaultLimit
  <2>2. /\ now \in Seq(AnswerRecord) /\ later \in Seq(DecisionRecord) /\ Distinct(later)
        /\ GoodRun(r, run) /\ Begins(as, now) /\ Begins(ds, later) /\ limit \in Nat
        /\ v = WithPage(w, Result(r, run, run.open, as, ds), limit)
    BY <1>1, <1>3, <2>1
  <2> HIDE DEF run, now, later, v, limit
  <2>3. Walked(v, run, now, later)
    BY <1>2, <2>2, FirstPage
  <2> QED
    BY <2>3 DEF v, run, now, later
<1>7. CallInv'
  <2>1. Begins(loaded.answers, answers')
    <3>1. Begins(loaded.answers, answers) /\ Begins(answers, answers')
      BY DEF GInv, CallInv, Grows
    <3> QED
      BY <1>1, <3>1, BeginsTransitive
  <2> QED
    BY <2>1 DEF GInv, CallInv, Grows
<1>8. walk'.named \in 0..Len(runs')
  BY <1>1, <1>5
<1>9. WalkInv'
  BY <1>4, <1>5, <1>6, <1>8 DEF WalkInv
<1> QED
  BY <1>7, <1>9 DEF GInv

LEMMA CaptureStep ==
  ASSUME GInv, Capture
  PROVE  GInv'
<1>1. LedgerInv' /\ Grows /\ UNCHANGED <<pc, loaded>>
  BY CaptureLedger DEF GInv, Capture
<1>2. CASE UNCHANGED walk
  BY <1>1, <1>2, WalkStays
<1>3. CASE walk' # walk
  <2>1. PICK a \in Assessments, p \in Stale(Len(runs)),
             i \in Stale(Len(answers)), j \in Stale(Len(decisions)) :
          LET known == SubSeq(answers, 1, i)
              run == [previous |-> p, open |-> Unanswered(a.questions, known),
                      next |-> a.next, findings |-> a.findings, links |-> a.links]
          IN /\ runs' = Append(runs, run)
             /\ InitialPage("capture", Result(Len(runs) + 1, run, run.open, known,
                                              SubSeq(decisions, 1, j)))
    BY DEF Capture
  <2> DEFINE as == SubSeq(answers, 1, i)
             ds == SubSeq(decisions, 1, j)
             run == [previous |-> p, open |-> Unanswered(a.questions, as),
                     next |-> a.next, findings |-> a.findings, links |-> a.links]
             r == Len(runs) + 1
             result == Result(r, run, run.open, as, ds)
  <2>2. runs' = Append(runs, run) /\ InitialPage("capture", result)
    BY <2>1
  <2>3. answers \in Seq(AnswerRecord) /\ decisions \in Seq(DecisionRecord)
        /\ runs \in Seq(RunRecord)
    BY DEF GInv, LedgerInv
  <2>4. UNCHANGED <<answers, decisions>>
    BY DEF Capture
  <2>5. Begins(as, answers')
    <3>1. i \in 0..Len(answers)
      BY DEF Stale
    <3> QED
      BY <2>3, <2>4, <3>1, Prefix
  <2>6. Begins(ds, decisions')
    <3>1. j \in 0..Len(decisions)
      BY DEF Stale
    <3> QED
      BY <2>3, <2>4, <3>1, Prefix
  <2> HIDE DEF run, as, ds
  <2>7. r \in DOMAIN runs' /\ runs'[r] = run
    <3>1. runs' = Append(runs, run)
      BY <2>2
    <3> QED
      BY <2>3, <3>1
  <2> HIDE DEF r, result
  <2>8. PICK named \in {0, result.runId} :
          pc = "idle" /\ walk' = WithPage(NewWalk("capture", named, {}), result, DefaultLimit)
    BY <1>3, <2>2 DEF InitialPage
  <2>9. IsResult(result) /\ result.runId = r
    <3>1. GoodRun(r, run) /\ decisions' \in Seq(DecisionRecord) /\ Distinct(decisions')
          /\ answers' \in Seq(AnswerRecord)
      BY <1>1, <2>7 DEF LedgerInv
    <3>2. as \in Seq(AnswerRecord)
      BY <2>5, <3>1, BeginsKeeps
    <3>3. ds \in Seq(DecisionRecord) /\ Distinct(ds)
      <4>1. /\ ds \in Seq(DecisionRecord) /\ DOMAIN ds \subseteq DOMAIN decisions'
            /\ \A k \in DOMAIN ds : ds[k] = decisions'[k]
        BY <2>6, <3>1, BeginsKeeps
      <4> QED
        BY <3>1, <4>1 DEF Distinct
    <3>4. IsResult(Result(r, run, run.open, as, ds))
      BY <3>1, <3>2, <3>3, ResultOfRun
    <3> QED
      BY <3>4 DEF result, Result
  <2>10. result = Result(r, runs'[r], runs'[r].open, as, ds)
    BY <2>7 DEF result
  <2>11. "capture" \in Origins /\ named \in {0, r}
    BY <2>9 DEF Origins
  <2> QED
    BY <1>1, <2>5, <2>6, <2>7, <2>8, <2>9, <2>10, <2>11, WalkBegins
<1> QED
  BY <1>2, <1>3

LEMMA AnswerStep ==
  ASSUME GInv, RecordAnswer
  PROVE  GInv'
<1>1. LedgerInv' /\ Grows /\ UNCHANGED <<runs, pc, loaded>>
  BY AnswerLedger DEF GInv, RecordAnswer
<1>2. CASE UNCHANGED walk
  BY <1>1, <1>2, WalkStays
<1>3. CASE walk' # walk
  <2>1. PICK r \in Stale(Len(runs)) \ {0} : \E i \in DOMAIN runs[r].open :
          \E status \in {"answered", "skipped"} :
            \E up \in {<< >>} \cup {<<q>> : q \in runs[r].next} :
              InitialPage("answer",
                          Result(r, runs[r], Unanswered(runs[r].open \o up, answers'),
                                 answers', decisions))
    BY DEF RecordAnswer
  <2>2. PICK up \in {<< >>} \cup {<<q>> : q \in runs[r].next} :
          InitialPage("answer",
                      Result(r, runs[r], Unanswered(runs[r].open \o up, answers'),
                             answers', decisions))
    BY <2>1
  <2>3. UNCHANGED decisions
    BY DEF RecordAnswer
  <2>4. /\ answers' \in Seq(AnswerRecord) /\ decisions \in Seq(DecisionRecord) /\ Distinct(decisions)
        /\ runs \in Seq(RunRecord) /\ \A k \in DOMAIN runs : GoodRun(k, runs[k])
    BY <1>1, <2>3 DEF LedgerInv, GInv
  <2>5. r \in DOMAIN runs
    BY <2>4 DEF Stale
  <2> DEFINE run == runs[r]
             open == Unanswered(run.open \o up, answers')
             now == answers'
             result == Result(r, run, open, now, decisions)
  <2>6. GoodRun(r, run)
    BY <2>4, <2>5
  <2>7. open \in Seq(Questions)
    <3>1. run.open \in Seq(Questions) /\ run.next \in SUBSET Questions
      BY <2>6 DEF GoodRun, RunRecord
    <3>2. up \in Seq(Questions)
      <4>1. CASE up = << >>
        BY <4>1
      <4>2. CASE up \in {<<q>> : q \in run.next}
        <5>1. PICK q \in run.next : up = <<q>>
          BY <4>2
        <5>2. q \in Questions
          BY <3>1
        <5> QED
          BY <5>1, <5>2
      <4> QED
        BY <4>1, <4>2
    <3>3. run.open \o up \in Seq(Questions)
      <4> DEFINE s == run.open
      <4> HIDE DEF s
      <4>1. s \in Seq(Questions)
        BY <3>1 DEF s
      <4>2. s \o up \in Seq(Questions)
        BY <3>2, <4>1
      <4> QED
        BY <4>2 DEF s
    <3> QED
      BY <3>3, KeptRange DEF Unanswered
  <2>8. now \in Seq(AnswerRecord)
    BY <2>4
  <2>9. InitialPage("answer", result)
    BY <2>2
  <2>10. result.runId = r
    BY DEF Result
  <2> HIDE DEF run, open, now
  <2>11. IsResult(result)
    BY <2>4, <2>6, <2>7, <2>8, ResultIsResult
  <2> HIDE DEF result
  <2>12. PICK named \in {0, result.runId} :
           pc = "idle" /\ walk' = WithPage(NewWalk("answer", named, {}), result, DefaultLimit)
    BY <1>3, <2>9 DEF InitialPage
  <2>13. "answer" \in Origins /\ named \in {0, r} /\ r \in DOMAIN runs'
    BY <1>1, <2>5, <2>10 DEF Origins
  <2> QED
    BY <1>1, <2>10, <2>11, <2>12, <2>13, WalkBegins
<1> QED
  BY <1>2, <1>3

LEMMA DecisionStep ==
  ASSUME GInv, RecordDecision
  PROVE  GInv'
<1>1. LedgerInv' /\ Grows /\ UNCHANGED <<runs, answers, pc, loaded>>
  BY DecisionLedger DEF GInv, RecordDecision
<1>2. CASE UNCHANGED walk
  BY <1>1, <1>2, WalkStays
<1>3. CASE walk' # walk
  <2>1. PICK r \in Stale(Len(runs)) \ {0} :
          InitialPage("decide", Result(r, runs[r], runs[r].open, answers, decisions'))
    BY DEF RecordDecision
  <2>2. /\ answers \in Seq(AnswerRecord) /\ decisions' \in Seq(DecisionRecord)
        /\ Distinct(decisions') /\ runs \in Seq(RunRecord)
        /\ \A k \in DOMAIN runs : GoodRun(k, runs[k])
    BY <1>1 DEF LedgerInv, GInv
  <2>3. r \in DOMAIN runs
    BY <2>2 DEF Stale
  <2> DEFINE run == runs[r]
             later == decisions'
             result == Result(r, run, run.open, answers, later)
  <2>4. GoodRun(r, run) /\ later \in Seq(DecisionRecord) /\ Distinct(later)
    BY <2>2, <2>3
  <2>5. InitialPage("decide", result)
    BY <2>1
  <2>6. /\ Begins(answers, answers') /\ Begins(later, decisions')
        /\ result = Result(r, runs'[r], runs'[r].open, answers, later)
    <3>1. Begins(answers, answers)
      BY <2>2, BeginsAll
    <3>2. Begins(later, later)
      BY <2>4, BeginsAll
    <3> QED
      BY <1>1, <3>1, <3>2
  <2>7. IsResult(result) /\ result.runId = r
    <3> HIDE DEF run, later
    <3> QED
      BY <2>2, <2>4, ResultOfRun
  <2> HIDE DEF result, run, later
  <2>8. PICK named \in {0, result.runId} :
          pc = "idle" /\ walk' = WithPage(NewWalk("decide", named, {}), result, DefaultLimit)
    BY <1>3, <2>5 DEF InitialPage
  <2>9. "decide" \in Origins /\ named \in {0, r} /\ r \in DOMAIN runs'
    BY <1>1, <2>3, <2>7 DEF Origins
  <2> QED
    BY <1>1, <2>6, <2>7, <2>8, <2>9, WalkBegins
<1> QED
  BY <1>2, <1>3

LEMMA AskStep ==
  ASSUME GInv, Ask
  PROVE  GInv'
<1>1. UNCHANGED ledgerVars /\ pc = "idle" /\ UNCHANGED <<pc, loaded>>
  BY DEF Ask
<1>2. LedgerInv' /\ Grows
  BY <1>1, LedgerStays DEF GInv
<1>3. PICK named \in 0..Len(runs), types \in Filters : walk' = NewWalk("query", named, types)
  BY DEF Ask
<1>4. /\ WalkType(walk') /\ walk'.origin = "query" /\ walk'.named = named
      /\ walk'.status = "paging" /\ walk'.cursor = NoCursor
  BY <1>3, NewWalkType
<1>5. CallInv'
  BY <1>1 DEF GInv, CallInv, ledgerVars
<1>6. WalkInv'
  BY <1>1, <1>4 DEF WalkInv, Origins, ledgerVars
<1> QED
  BY <1>2, <1>5, <1>6 DEF GInv

LEMMA ReadRunStep ==
  ASSUME GInv, ReadRun
  PROVE  GInv'
<1>1. UNCHANGED ledgerVars /\ pc = "idle" /\ pc' = "readAnswers" /\ UNCHANGED walk
  BY DEF ReadRun
<1>2. LedgerInv' /\ Grows
  BY <1>1, LedgerStays DEF GInv
<1>3. loaded' = [loaded EXCEPT !.run = IF walk.named = 0 THEN Len(runs) ELSE walk.named]
  BY DEF ReadRun
<1>4. loaded = [run |-> loaded.run, answers |-> loaded.answers]
  BY DEF GInv, CallInv
<1>5. /\ loaded'.run = IF walk.named = 0 THEN Len(runs) ELSE walk.named
      /\ loaded'.answers = loaded.answers
      /\ loaded' = [run |-> loaded'.run, answers |-> loaded'.answers]
  BY <1>3, <1>4
<1>6. walk.named \in 0..Len(runs) /\ runs \in Seq(RunRecord) /\ Len(runs) > 0
  BY DEF GInv, WalkInv, LedgerInv
<1>7. loaded'.run \in DOMAIN runs
  BY <1>5, <1>6
<1>8. CallInv'
  BY <1>1, <1>5, <1>7 DEF GInv, CallInv, ledgerVars
<1>9. WalkInv'
  BY <1>1 DEF GInv, WalkInv, ledgerVars
<1> QED
  BY <1>2, <1>8, <1>9 DEF GInv

LEMMA ReadAnswersStep ==
  ASSUME GInv, ReadAnswers
  PROVE  GInv'
<1>1. /\ UNCHANGED ledgerVars /\ pc = "readAnswers" /\ pc' = "readDecisions" /\ UNCHANGED walk
      /\ loaded' = [loaded EXCEPT !.answers = answers]
  BY DEF ReadAnswers
<1>2. LedgerInv' /\ Grows
  BY <1>1, LedgerStays DEF GInv
<1>3. loaded = [run |-> loaded.run, answers |-> loaded.answers]
  BY DEF GInv, CallInv
<1>4. /\ loaded'.run = loaded.run /\ loaded'.answers = answers
      /\ loaded' = [run |-> loaded'.run, answers |-> loaded'.answers]
  BY <1>1, <1>3
<1>5. answers \in Seq(AnswerRecord) /\ Begins(answers, answers)
  BY BeginsAll DEF GInv, LedgerInv
<1>6. CallInv'
  BY <1>1, <1>4, <1>5 DEF GInv, CallInv, ledgerVars
<1>7. ASSUME walk.cursor # NoCursor, walk.origin # "answer"
      PROVE  walk.answersThen <= Len(answers)
  <2>1. walk.answersThen \in 0..Len(answers)
    BY <1>7 DEF GInv, WalkInv, Walked
  <2> QED
    BY <1>5, <2>1
<1>8. WalkInv'
  BY <1>1, <1>4, <1>7 DEF GInv, WalkInv, ledgerVars
<1> QED
  BY <1>2, <1>6, <1>8 DEF GInv

LEMMA NothingLoadedFacts ==
  ASSUME NEW S, NEW s \in Seq(S)
  PROVE  /\ NothingLoaded = [run |-> NothingLoaded.run, answers |-> NothingLoaded.answers]
         /\ Begins(NothingLoaded.answers, s)
<1>1. Len(<< >>) = 0 /\ SubSeq(s, 1, 0) = << >> /\ Len(s) >= 0
  OBVIOUS
<1>2. Begins(<< >>, s)
  BY <1>1 DEF Begins
<1> QED
  BY <1>2 DEF NothingLoaded

LEMMA ReadDecisionsStep ==
  ASSUME GInv, ReadDecisions
  PROVE  GInv'
<1>1. /\ UNCHANGED ledgerVars /\ pc = "readDecisions" /\ pc' = "idle"
      /\ loaded' = NothingLoaded
  BY DEF ReadDecisions
<1>2. LedgerInv' /\ Grows
  BY <1>1, LedgerStays DEF GInv
<1>3. /\ answers \in Seq(AnswerRecord) /\ decisions \in Seq(DecisionRecord) /\ Distinct(decisions)
      /\ runs \in Seq(RunRecord) /\ \A k \in DOMAIN runs : GoodRun(k, runs[k])
  BY DEF GInv, LedgerInv
<1>4. loaded.run \in DOMAIN runs /\ Begins(loaded.answers, answers)
  BY <1>1 DEF GInv, CallInv
<1>5. CallInv'
  <2>1. /\ NothingLoaded = [run |-> NothingLoaded.run, answers |-> NothingLoaded.answers]
        /\ Begins(NothingLoaded.answers, answers)
    BY <1>3, NothingLoadedFacts
  <2>2. answers' = answers
    BY <1>1 DEF ledgerVars
  <2> QED
    BY <1>1, <2>1, <2>2 DEF CallInv
<1>6. /\ WalkType(walk) /\ walk.origin \in Origins /\ walk.named \in 0..Len(runs)
      /\ walk.cursor # NoCursor => walk.cursor.run \in DOMAIN runs
      /\ walk.cursor # NoCursor /\ walk.origin # "answer" =>
           /\ Walked(walk, runs[walk.cursor.run], answers, decisions)
           /\ walk.answersThen <= Len(loaded.answers)
  BY <1>1 DEF GInv, WalkInv
<1>7. CASE CursorMatches(walk.cursor, loaded.run)
  <2> DEFINE r == loaded.run
             run == runs[r]
             as == loaded.answers
             result == Result(r, run, run.open, as, decisions)
             v == walk'
             w == walk
  <2>1. PICK limit \in Limits : v = WithPage(w, result, limit)
    BY <1>7 DEF ReadDecisions, Saved
  <2>2. limit \in Nat
    BY QueriesAssumption
  <2>3. GoodRun(r, run) /\ Begins(as, answers) /\ as \in Seq(AnswerRecord)
    <3>1. loaded.answers \in Seq(AnswerRecord)
      BY <1>3, <1>4, BeginsKeeps
    <3> QED
      BY <1>3, <1>4, <3>1
  <2>4. IsResult(result) /\ result.runId = r
    <3> HIDE DEF r, run, as
    <3> QED
      BY <1>3, <2>3, ResultOfRun
  <2>5. WalkType(v) /\ v.cursor # NoCursor /\ v.cursor.run = r
    <3>1. WalkType(w)
      BY <1>6
    <3> HIDE DEF v, w, result
    <3> QED
      BY <2>1, <2>2, <2>4, <3>1, PageType
  <2>6. v.origin = w.origin /\ v.named = w.named /\ v.status \in {"paging", "done"}
    <3>1. IsWalk(w)
      BY <1>6 DEF WalkType
    <3> HIDE DEF v, w, result
    <3>2. PageOf(v, w, result, limit)
      BY <2>1, <3>1, PageFields
    <3> QED
      BY <3>2 DEF PageOf
  <2>7. ASSUME w.origin # "answer"
        PROVE  Walked(v, run, answers, decisions)
    <3>1. CASE w.cursor = NoCursor
      <4>1. Begins(decisions, decisions) /\ WalkType(w)
        BY <1>3, <1>6, BeginsAll
      <4>2. v = WithPage(w, Result(r, run, run.open, as, decisions), limit)
        BY <2>1
      <4> HIDE DEF v, w, r, run, as, result
      <4> QED
        BY <1>3, <2>2, <2>3, <3>1, <4>1, <4>2, FirstPage
    <3>2. CASE w.cursor # NoCursor
      <4>1. w.cursor.run = r
        BY <1>7, <3>2 DEF CursorMatches
      <4>2. WalkType(w) /\ Walked(w, run, answers, decisions) /\ w.answersThen <= Len(as)
        BY <1>6, <2>7, <3>2, <4>1
      <4>3. v = WithPage(w, Result(w.cursor.run, run, run.open, as, decisions), limit)
        BY <2>1, <4>1
      <4> HIDE DEF v, w, r, run, as, result
      <4>4. GoodRun(w.cursor.run, run)
        BY <2>3, <4>1
      <4> QED
        BY <1>3, <2>2, <2>3, <3>2, <4>2, <4>3, <4>4, NextPage
    <3> QED
      BY <3>1, <3>2
  <2>8. WalkInv'
    BY <1>1, <1>4, <1>6, <2>5, <2>6, <2>7 DEF WalkInv, ledgerVars
  <2> QED
    BY <1>2, <1>5, <2>8 DEF GInv
<1>8. CASE ~CursorMatches(walk.cursor, loaded.run)
  <2> DEFINE v == walk'
             w == walk
  <2>1. v = [w EXCEPT !.status = "refused"]
    BY <1>8 DEF ReadDecisions
  <2>2. w = [f \in WalkFields |-> w[f]]
    BY <1>6 DEF WalkType, IsWalk
  <2>3. /\ IsWalk(v) /\ v.status = "refused" /\ v.origin = w.origin /\ v.named = w.named
        /\ v.types = w.types /\ v.cursor = w.cursor /\ v.shown = w.shown
        /\ v.repeats = w.repeats /\ v.present = w.present
        /\ v.answersThen = w.answersThen /\ v.decisionsThen = w.decisionsThen
    <3> HIDE DEF v, w
    <3> QED
      BY <2>1, <2>2 DEF IsWalk, WalkFields
  <2>4. WalkType(v)
    BY <1>6, <2>3 DEF WalkType
  <2>5. ASSUME w.origin # "answer", w.cursor # NoCursor
        PROVE  Walked(v, runs[w.cursor.run], answers, decisions)
    <3> DEFINE run == runs[w.cursor.run]
    <3>1. Walked(w, run, answers, decisions)
      BY <1>6, <2>5
    <3>2. ASSUME NEW d, Covered(w, run, answers, decisions, d)
          PROVE  Covered(v, run, answers, decisions, d)
      <4> HIDE DEF v, w, run
      <4> QED
        BY <2>3, <3>2 DEF Covered
    <3> HIDE DEF v, w, run
    <3>3. Walked(v, run, answers, decisions)
      BY <2>3, <3>1, <3>2 DEF Walked
    <3> QED
      BY <3>3 DEF run
  <2>6. WalkInv'
    BY <1>1, <1>6, <2>3, <2>4, <2>5 DEF WalkInv, ledgerVars
  <2> QED
    BY <1>2, <1>5, <2>6 DEF GInv
<1> QED
  BY <1>7, <1>8

LEMMA GraphInit ==
  ASSUME Init
  PROVE  GInv
<1>1. /\ History.runs \in Seq(RunRecord) /\ History.runs # << >>
      /\ History.answers \in Seq(AnswerRecord) /\ History.decisions \in Seq(DecisionRecord)
  BY HistoryAssumption
<1>2. /\ runs = History.runs /\ answers = History.answers /\ decisions = History.decisions
      /\ pc = "idle" /\ loaded = NothingLoaded
  BY DEF Init
<1>3. ASSUME NEW r \in DOMAIN runs
      PROVE  GoodRun(r, runs[r])
  <2>1. WellMade(runs[r]) /\ runs[r].previous < r
    BY <1>2, HistoryAssumption
  <2>2. r \in Nat \ {0} /\ runs[r] \in RunRecord
    BY <1>1, <1>2
  <2> QED
    BY <2>1, <2>2 DEF GoodRun
<1>4. Distinct(decisions) /\ \A i \in DOMAIN decisions : decisions[i].run \in DOMAIN runs
  BY <1>2, HistoryAssumption DEF Distinct
<1>5. Len(runs) > 0
  BY <1>1, <1>2
<1>6. LedgerInv
  BY <1>1, <1>2, <1>3, <1>4, <1>5 DEF LedgerInv
<1>7. CallInv
  <2>1. /\ NothingLoaded = [run |-> NothingLoaded.run, answers |-> NothingLoaded.answers]
        /\ Begins(NothingLoaded.answers, answers)
    BY <1>1, <1>2, NothingLoadedFacts
  <2> QED
    BY <1>2, <2>1 DEF CallInv
<1>8. WalkInv
  <2> DEFINE w == NewWalk("query", 0, {})
  <2>1. /\ WalkType(w) /\ w.origin = "query" /\ w.named = 0 /\ w.cursor = NoCursor
    BY NewWalkType
  <2>2. walk = [w EXCEPT !.status = "none"]
    BY DEF Init
  <2> HIDE DEF w
  <2>3. w = [f \in WalkFields |-> w[f]]
    BY <2>1 DEF WalkType, IsWalk
  <2>4. /\ IsWalk(walk) /\ walk.status = "none" /\ walk.origin = w.origin /\ walk.named = w.named
        /\ walk.cursor = w.cursor /\ walk.shown = w.shown /\ walk.repeats = w.repeats
    BY <2>2, <2>3 DEF IsWalk, WalkFields
  <2>5. WalkType(walk)
    BY <2>1, <2>4 DEF WalkType
  <2>6. walk.named \in 0..Len(runs)
    BY <1>1, <1>2, <2>1, <2>4
  <2> QED
    BY <2>1, <2>4, <2>5, <2>6 DEF WalkInv, Origins
<1> QED
  BY <1>6, <1>7, <1>8 DEF GInv

LEMMA GraphStep ==
  ASSUME GInv, [Next]_vars
  PROVE  GInv'
<1>1. CASE UNCHANGED vars
  <2>1. UNCHANGED <<ledgerVars, pc, loaded, walk>>
    BY <1>1 DEF vars
  <2> QED
    BY <2>1, LedgerStays, WalkStays DEF GInv
<1> QED
  BY <1>1, CaptureStep, AnswerStep, DecisionStep, AskStep, ReadRunStep, ReadAnswersStep,
     ReadDecisionsStep DEF Next

LEMMA GraphInvariance == Spec => []GInv
<1>1. Init => GInv
  BY GraphInit
<1>2. GInv /\ [Next]_vars => GInv'
  BY GraphStep
<1> QED
  BY <1>1, <1>2, PTL DEF Spec

-----------------------------------------------------------------------------
(***************************************************************************)
(* What the invariant says of graphs and walks.                            *)
(***************************************************************************)
\* The ledger, the server's call and the client's walk have their types, and a
\* call in progress has read a run there is: loadPersistedGraph.
THEOREM TypeCorrect == Spec => []TypeOK
<1>1. ASSUME GInv
      PROVE  TypeOK
  <2>1. /\ runs \in Seq(RunRecord) /\ answers \in Seq(AnswerRecord)
        /\ decisions \in Seq(DecisionRecord)
    BY <1>1 DEF GInv, LedgerInv
  <2>2. /\ pc \in {"idle", "readAnswers", "readDecisions"}
        /\ pc # "idle" => loaded.run \in DOMAIN runs
        /\ Begins(loaded.answers, answers)
    BY <1>1 DEF GInv, CallInv
  <2>3. loaded.answers \in Seq(AnswerRecord)
    BY <2>1, <2>2, BeginsKeeps
  <2>4. /\ walk.status \in {"none", "paging", "done", "refused"}
        /\ walk.origin \in Origins /\ walk.named \in 0..Len(runs)
        /\ walk.cursor \in [run : Nat, offset : Nat] /\ walk.repeats \in Nat
        /\ walk.cursor # NoCursor => walk.cursor.run \in DOMAIN runs
    BY <1>1 DEF GInv, WalkInv, WalkType
  <2>5. walk.cursor.run \in 0..Len(runs)
    <3>1. CASE walk.cursor = NoCursor
      BY <2>1, <3>1 DEF NoCursor
    <3>2. CASE walk.cursor # NoCursor
      BY <2>1, <2>4, <3>2
    <3> QED
      BY <3>1, <3>2
  <2>6. walk.cursor \in [run : 0..Len(runs), offset : Nat]
    BY <2>4, <2>5
  <2> QED
    BY <2>1, <2>2, <2>3, <2>4, <2>6 DEF TypeOK
<1> QED
  BY <1>1, GraphInvariance, PTL

\* The edges of every run's graph join its nodes, whatever has been answered and
\* decided since, but for the edges from decisions to the runs they were
\* confirmed in: pushEdge in buildAssessmentGraph does not look for the nodes.
THEOREM EdgesJoinNodes == Spec => []EdgesJoinNodesOrLeadToRuns
<1>1. ASSUME GInv
      PROVE  EdgesJoinNodesOrLeadToRuns
  <2>1. /\ answers \in Seq(AnswerRecord) /\ decisions \in Seq(DecisionRecord) /\ Distinct(decisions)
        /\ \A r \in DOMAIN runs : GoodRun(r, runs[r])
        /\ \A i \in DOMAIN decisions : decisions[i].run \in DOMAIN runs
    BY <1>1 DEF GInv, LedgerInv
  <2>2. ASSUME NEW r \in DOMAIN runs, NEW e \in Edges(Saved(r, answers, decisions))
        PROVE  LET ids == Ids(Nodes(Saved(r, answers, decisions)))
               IN /\ e[1] \in ids
                  /\ \/ e[2] \in ids
                     \/ /\ e[1][1] = "decision" /\ e[2][1] = "run"
                        /\ e[2][2] \in DOMAIN runs \ {r, runs[r].previous}
    <3> DEFINE run == runs[r]
               result == Result(r, run, run.open, answers, decisions)
               ids == Ids(Nodes(result))
    <3>1. result = Saved(r, answers, decisions)
      BY DEF Saved
    <3>2. /\ result.runId = r /\ result.decisions = decisions /\ result.previous = run.previous
      BY DEF Result
    <3>3. IsResult(result)
      <4>1. GoodRun(r, run)
        BY <2>1
      <4> HIDE DEF run
      <4> QED
        BY <2>1, <4>1, ResultOfRun
    <3> HIDE DEF result
    <3>4. /\ e[1] \in ids
          /\ \/ e[2] \in ids
             \/ \E i \in DOMAIN decisions :
                  e = <<<<"decision", decisions[i].id>>, <<"run", decisions[i].run>>>>
      BY <3>1, <3>2, <3>3, EdgesJoin
    <3>5. ASSUME e[2] \notin ids
          PROVE  /\ e[1][1] = "decision" /\ e[2][1] = "run"
                 /\ e[2][2] \in DOMAIN runs \ {r, runs[r].previous}
      <4>1. PICK i \in DOMAIN decisions :
              e = <<<<"decision", decisions[i].id>>, <<"run", decisions[i].run>>>>
        BY <3>4, <3>5
      <4>2. e[2] = <<"run", decisions[i].run>> /\ decisions[i].run \in DOMAIN runs
        BY <2>1, <4>1
      <4>3. <<"run", r>> \in ids /\ (run.previous # 0 => <<"run", run.previous>> \in ids)
        BY <3>2, NodeIds
      <4>4. decisions[i].run # 0
        BY <2>1, <4>2 DEF GoodRun
      <4>5. decisions[i].run # r /\ decisions[i].run # run.previous
        BY <3>5, <4>2, <4>3, <4>4
      <4> QED
        BY <4>1, <4>2, <4>5
    <3> QED
      BY <3>1, <3>4, <3>5
  <2> QED
    BY <2>2 DEF EdgesJoinNodesOrLeadToRuns
<1> QED
  BY <1>1, GraphInvariance, PTL

\* What a walk was shown is in the graph that its cursor's run has today,
\* whichever run was the latest when each of its pages was built: the run of a
\* cursor is compared with the run of the graph in queryAssessmentGraph.
THEOREM PagesAreOfTheirRun == Spec => []PagesAreOfOneRun
<1>1. ASSUME GInv
      PROVE  PagesAreOfOneRun
  <2>1. SUFFICES ASSUME walk.cursor # NoCursor, walk.origin # "answer"
                 PROVE  walk.shown \subseteq Ids(Nodes(Saved(walk.cursor.run, answers, decisions)))
    BY DEF PagesAreOfOneRun
  <2> DEFINE r == walk.cursor.run
             result == Result(r, runs[r], runs[r].open, answers, decisions)
  <2>2. walk.shown \subseteq Ids(Match(r, walk.types, runs[r], answers, decisions))
    BY <1>1, <2>1 DEF GInv, WalkInv, Walked
  <2>3. Match(r, walk.types, runs[r], answers, decisions) = Filtered(Nodes(result), walk.types)
    BY DEF Match
  <2>4. result = Saved(r, answers, decisions)
    BY DEF Saved
  <2> HIDE DEF result
  <2>5. Ids(Filtered(Nodes(result), walk.types)) \subseteq Ids(Nodes(result))
    BY DEF Ids, Filtered
  <2> QED
    BY <2>2, <2>3, <2>4, <2>5
<1> QED
  BY <1>1, GraphInvariance, PTL

\* There is something on the page that a cursor points at, when it is asked for
\* and not only when the cursor was made: nextCursor in queryAssessmentGraph.
THEOREM CursorsPointAtSomething == Spec => []CursorsPointAtNodes
<1>1. ASSUME GInv
      PROVE  CursorsPointAtNodes
  <2>1. SUFFICES ASSUME walk.status = "paging", walk.cursor # NoCursor, walk.origin # "answer"
                 PROVE  walk.cursor.offset <
                          Cardinality(Filtered(Nodes(Saved(walk.cursor.run, answers, decisions)),
                                               walk.types))
    BY DEF CursorsPointAtNodes
  <2>2. walk.cursor.offset <
          Cardinality(Match(walk.cursor.run, walk.types, runs[walk.cursor.run], answers, decisions))
    BY <1>1, <2>1 DEF GInv, WalkInv, Walked
  <2> QED
    BY <2>2 DEF Match, Saved
<1> QED
  BY <1>1, GraphInvariance, PTL

\* A walk that is done, over the graph of run as it was at its first page: it
\* was shown all of it, and as much again as decisions were recorded at most.
LEMMA DoneWalk ==
  ASSUME NEW w, WalkType(w), w.status = "done",
         NEW run, GoodRun(w.cursor.run, run),
         NEW as \in Seq(AnswerRecord), Len(as) = w.answersThen,
         NEW ds \in Seq(DecisionRecord), Distinct(ds), Walked(w, run, as, ds)
  PROVE  w.present \subseteq w.shown /\ w.repeats <= Len(ds) - w.decisionsThen
<1> DEFINE r == w.cursor.run
           d0 == w.decisionsThen
           o == w.cursor.offset
           shown == w.shown
<1>1. PICK d \in d0..Len(ds) : Covered(w, run, as, ds, d)
  BY DEF Walked
<1>2. d0 \in 0..Len(ds)
  BY DEF Walked
<1>3. Len(ds) \in Nat
  OBVIOUS
<1>4. d0 \in Nat /\ d \in Nat /\ d0 \in 0..d /\ d \in 0..Len(ds) /\ d <= Len(ds) /\ d0 <= d
  <2> DEFINE e == Len(ds)
  <2>1. e \in Nat /\ d0 \in 0..e /\ d \in d0..e
    BY <1>2, <1>3
  <2> HIDE DEF e, d0
  <2>2. d0 \in Nat /\ d \in Nat /\ d0 \in 0..d /\ d \in 0..e /\ d <= e /\ d0 <= d
    BY <2>1
  <2> QED
    BY <2>2 DEF e
<1> DEFINE one == Result(r, run, run.open, as, SubSeq(ds, 1, d0))
           two == Result(r, run, run.open, as, SubSeq(ds, 1, d))
           first == Match(r, w.types, run, as, SubSeq(ds, 1, d0))
           last == Match(r, w.types, run, as, SubSeq(ds, 1, d))
           new == last \ first
<1>5. /\ w.present = Ids(first) /\ o = Cardinality(last)
      /\ \A n \in first : Offset(n, last) < o => n.id \in w.shown
  BY <1>1 DEF Covered
<1>6. first = Filtered(Nodes(one), w.types) /\ last = Filtered(Nodes(two), w.types)
  BY DEF Match
<1>7. /\ IsFiniteSet(Nodes(two) \ Nodes(one))
      /\ Cardinality(Nodes(two) \ Nodes(one)) <= d - d0
  <2> DEFINE open == run.open
  <2>1. open \in Seq(Questions) /\ GoodRun(r, run)
    BY DEF GoodRun, RunRecord
  <2> HIDE DEF r, open, d0
  <2> QED
    BY <1>4, <2>1, NewDecisions DEF open
<1>8. /\ Ordered(first) /\ Ordered(last) /\ first \subseteq last
  <2> DEFINE s == SubSeq(ds, 1, d)
             t == SubSeq(ds, 1, d0)
  <2>1. s \in Seq(DecisionRecord) /\ Distinct(s)
    BY <1>4 DEF Distinct
  <2>2. Begins(t, s)
    <3>1. Len(s) = d /\ SubSeq(s, 1, d0) = t
      BY <1>4
    <3>2. d0 \in 0..Len(s)
      BY <1>4, <3>1
    <3> HIDE DEF s, t, d0
    <3> QED
      BY <2>1, <3>1, <3>2, Prefix
  <2>3. Begins(as, as) /\ GoodRun(r, run)
    BY BeginsAll
  <2> HIDE DEF s, t, r
  <2>4. /\ Ordered(Match(r, w.types, run, as, t)) /\ Ordered(Match(r, w.types, run, as, s))
        /\ Match(r, w.types, run, as, t) \subseteq Match(r, w.types, run, as, s)
    BY <2>1, <2>2, <2>3, MatchGrows
  <2> QED
    BY <2>4 DEF s, t
<1> HIDE DEF one, two, first, last
<1>9. IsFiniteSet(new) /\ Cardinality(new) \in Nat /\ Cardinality(new) <= d - d0
  <2> DEFINE more == Nodes(two) \ Nodes(one)
  <2>1. new \subseteq more
    BY <1>6 DEF Filtered
  <2> HIDE DEF new, more
  <2>2. IsFiniteSet(more) /\ Cardinality(more) <= d - d0
    BY <1>7 DEF more
  <2>3. IsFiniteSet(new) /\ Cardinality(new) <= Cardinality(more)
    BY <2>1, <2>2, FS_Subset
  <2>4. Cardinality(new) \in Nat /\ Cardinality(more) \in Nat
    BY <2>2, <2>3, FS_CardinalityType
  <2> QED
    BY <1>4, <2>2, <2>3, <2>4
<1>10. /\ IsFiniteSet(first) /\ IsFiniteSet(last)
       /\ Cardinality(first) \in Nat /\ Cardinality(last) \in Nat
       /\ Cardinality(Ids(first)) = Cardinality(first)
  <2>1. IsFiniteSet(first) /\ Cardinality(first) \in Nat
        /\ Cardinality(Ids(first)) = Cardinality(first)
    BY <1>8, AsManyIds
  <2>2. IsFiniteSet(last) /\ Cardinality(last) \in Nat
    BY <1>8, AsManyIds
  <2> QED
    BY <2>1, <2>2
<1>11. Cardinality(last) = Cardinality(first) + Cardinality(new)
  <2>1. last = first \cup new /\ first \cap new = {}
    BY <1>8
  <2> HIDE DEF new
  <2>2. Cardinality(first \cup new) =
          Cardinality(first) + Cardinality(new) - Cardinality(first \cap new)
    BY <1>9, <1>10, FS_Union
  <2>3. Cardinality(first \cap new) = 0
    BY <2>1, FS_EmptySet
  <2> QED
    BY <1>9, <1>10, <2>1, <2>2, <2>3
<1>12. \A n \in last : Offset(n, last) < Cardinality(last)
  BY <1>8, BeforeIsOrder, PlaceType
<1>13. Ids(first) \subseteq shown
  BY <1>5, <1>8, <1>12 DEF Ids
<1>14. /\ IsFiniteSet(shown) /\ Cardinality(shown) \in Nat /\ w.repeats \in Nat
       /\ o = w.repeats + Cardinality(shown)
  BY FS_CardinalityType DEF WalkType
<1>15. Cardinality(first) <= Cardinality(shown)
  <2> HIDE DEF shown
  <2> QED
    BY <1>10, <1>13, <1>14, FS_Subset
<1>16. w.repeats <= Len(ds) - d0
  <2> DEFINE a == Cardinality(first)
             b == Cardinality(last)
             c == Cardinality(new)
             e == Cardinality(shown)
             l == Len(ds)
             p == w.repeats
  <2>1. a \in Nat /\ b \in Nat /\ c \in Nat /\ e \in Nat /\ l \in Nat /\ p \in Nat
    BY <1>3, <1>9, <1>10, <1>14
  <2>2. b = a + c /\ b = p + e /\ a <= e /\ c <= d - d0 /\ d <= l
    BY <1>4, <1>5, <1>9, <1>11, <1>14, <1>15
  <2> HIDE DEF a, b, c, e, l, p, d0
  <2>3. p <= l - d0
    BY <1>4, <2>1, <2>2
  <2> QED
    BY <2>3 DEF p, l
<1> QED
  BY <1>5, <1>13, <1>16

\* A client that pages to the end sees the whole graph of its first page, though
\* decisions move nodes down under its cursor, and sees again at most one node
\* for each of them: queryAssessmentGraph with its offset into the sorted nodes.
THEOREM WalksAreComplete == Spec => []WalksOmitNothing
<1>1. ASSUME GInv
      PROVE  WalksOmitNothing
  <2>1. SUFFICES ASSUME walk.status = "done", walk.origin # "answer",
                        Len(answers) = walk.answersThen
                 PROVE  /\ walk.present \subseteq walk.shown
                        /\ walk.repeats <= Len(decisions) - walk.decisionsThen
    BY DEF WalksOmitNothing
  <2>2. /\ answers \in Seq(AnswerRecord) /\ decisions \in Seq(DecisionRecord) /\ Distinct(decisions)
        /\ \A r \in DOMAIN runs : GoodRun(r, runs[r])
    BY <1>1 DEF GInv, LedgerInv
  <2>3. /\ WalkType(walk) /\ walk.cursor # NoCursor /\ walk.cursor.run \in DOMAIN runs
        /\ Walked(walk, runs[walk.cursor.run], answers, decisions)
    BY <1>1, <2>1 DEF GInv, WalkInv
  <2> DEFINE run == runs[walk.cursor.run]
  <2>4. GoodRun(walk.cursor.run, run) /\ Walked(walk, run, answers, decisions)
    BY <2>2, <2>3
  <2> HIDE DEF run
  <2> QED
    BY <2>1, <2>2, <2>3, <2>4, DoneWalk
<1> QED
  BY <1>1, GraphInvariance, PTL
=============================================================================
