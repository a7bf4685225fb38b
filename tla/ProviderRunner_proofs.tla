----------------------- MODULE ProviderRunner_proofs -----------------------
(***************************************************************************)
(* Proofs about ProviderRunner, for any providers, answers and timeouts.   *)
(***************************************************************************)
EXTENDS ProviderRunner, TLAPS

Entries == Signals \cup {Malformed}
Waits == [how : {"not yet", "answered"} \cup Failures, signals : Seq(Entries)]

\* The variables that hold what the providers said have the shape of it.
Shapes ==
  /\ queue \in Seq(Entries)
  /\ \E S : evidence \in Seq(S)
  /\ heard \in [Providers -> Waits]

\* The loop hears of a provider when its turn comes, and once.
Unheard ==
  /\ pc # "weigh" => queue = <<>>
  /\ \A j \in index..Len(Order) :
       (pc # "weigh" \/ j # index) => heard[Order[j]] = Ended("not yet", <<>>)

KeysOf(signals) == {Key(s) : s \in {t \in signals : Admissible(t)}}
Collected == {Key(evidence[i]) : i \in DOMAIN evidence}
Due == {Key(FailureOf(p)) : p \in Failed} \cup KeysOf(Answered)

\* What is collected and what is still in the queue is what was heard.
Accounts ==
  /\ Collected \cup KeysOf(Range(queue)) = Due
  /\ seen \subseteq Collected

IInv == TypeOK /\ Shapes /\ Unheard /\ Accounts

-----------------------------------------------------------------------------
(***************************************************************************)
(* Sequences of signals.                                                   *)
(***************************************************************************)
LEMMA RangeOfTail ==
  ASSUME NEW S, NEW q \in Seq(S), q # <<>>
  PROVE  /\ Range(q) = {Head(q)} \cup Range(Tail(q))
         /\ Tail(q) \in Seq(S)
<1>1. DOMAIN q = 1..Len(q) /\ DOMAIN Tail(q) = 1..(Len(q) - 1) /\ Len(q) \in Nat \ {0}
  OBVIOUS
<1>2. \A i \in 1..(Len(q) - 1) : Tail(q)[i] = q[i + 1]
  OBVIOUS
<1>3. Head(q) = q[1]
  OBVIOUS
<1>4. ASSUME NEW i \in 1..Len(q), i # 1 PROVE q[i] \in Range(Tail(q))
  <2>1. i - 1 \in 1..(Len(q) - 1) /\ (i - 1) + 1 = i
    BY <1>1, <1>4
  <2>2. Tail(q)[i - 1] = q[(i - 1) + 1]
    BY <1>2, <2>1
  <2> QED
    BY <1>1, <2>1, <2>2 DEF Range
<1>5. Range(q) \subseteq {Head(q)} \cup Range(Tail(q))
  BY <1>1, <1>3, <1>4 DEF Range
<1>6. {Head(q)} \cup Range(Tail(q)) \subseteq Range(q)
  BY <1>1, <1>2, <1>3 DEF Range
<1> QED
  BY <1>5, <1>6

LEMMA RangeOfNothing == Range(<<>>) = {}
BY DEF Range

LEMMA KeysOfUnion ==
  ASSUME NEW A, NEW B
  PROVE  KeysOf(A \cup B) = KeysOf(A) \cup KeysOf(B)
BY DEF KeysOf

LEMMA KeysOfOne ==
  ASSUME NEW s
  PROVE  KeysOf({s}) = IF Admissible(s) THEN {Key(s)} ELSE {}
BY DEF KeysOf

\* One more piece of evidence is one more key.
LEMMA CollectedGrows ==
  ASSUME \E S : evidence \in Seq(S), NEW s, evidence' = Append(evidence, s)
  PROVE  Collected' = Collected \cup {Key(s)} /\ \E S : evidence' \in Seq(S)
<1>1. PICK S : evidence \in Seq(S)
  OBVIOUS
<1>2. evidence' \in Seq(S \cup {s})
  BY <1>1
<1>3. Len(evidence) \in Nat /\ DOMAIN evidence = 1..Len(evidence)
  BY <1>1
<1>4. DOMAIN evidence' = 1..(Len(evidence) + 1)
  BY <1>1
<1>5. \A i \in DOMAIN evidence : evidence'[i] = evidence[i]
  BY <1>1
<1>6. evidence'[Len(evidence) + 1] = s
  BY <1>1
<1>7. Collected' = {Key(evidence'[i]) : i \in DOMAIN evidence'}
  BY DEF Collected, Key
<1>8. {Key(evidence'[i]) : i \in DOMAIN evidence'} = Collected \cup {Key(s)}
  BY <1>3, <1>4, <1>5, <1>6 DEF Collected
<1> QED
  BY <1>2, <1>7, <1>8

-----------------------------------------------------------------------------
(***************************************************************************)
(* What is heard.                                                          *)
(***************************************************************************)
LEMMA CurrentIsAProvider ==
  ASSUME TypeOK, pc \in {"await", "weigh"}
  PROVE  Current \in Providers
BY DEF TypeOK, Current, Providers, Range

LEMMA EndedFields ==
  \A r, how, signals : r = Ended(how, signals) => r.how = how /\ r.signals = signals
BY DEF Ended

\* The end of a wait that had not ended adds what the provider said, or its
\* failure, to what is due.
LEMMA HearingAdds ==
  ASSUME heard \in [Providers -> Waits], NEW p \in Providers,
         heard[p] = Ended("not yet", <<>>),
         NEW how \in {"answered"} \cup Failures, NEW signals \in Seq(Entries),
         how \in Failures => signals = <<>>,
         heard' = [heard EXCEPT ![p] = Ended(how, signals)]
  PROVE  /\ heard' \in [Providers -> Waits]
         /\ Due' = Due \cup KeysOf(Range(signals))
                     \cup IF how \in Failures THEN {Key(FailureOf(p))} ELSE {}
<1>0. heard[p].how = "not yet" /\ heard[p].signals = <<>>
  BY EndedFields
<1>1. Ended(how, signals) \in Waits
  BY DEF Ended, Waits
<1>2. heard' \in [Providers -> Waits]
  BY <1>1
<1>3. \A q \in Providers : heard'[q] = IF q = p THEN Ended(how, signals) ELSE heard[q]
  OBVIOUS
<1>4. Failed' = Failed \cup IF how \in Failures THEN {p} ELSE {}
  <2>1. heard[p].how \notin Failures
    BY <1>0 DEF Failures
  <2>2. heard'[p].how = how
    BY <1>3 DEF Ended
  <2>3. \A q \in Providers : q # p => heard'[q].how = heard[q].how
    BY <1>3
  <2>4. Failed' = {q \in Providers : heard'[q].how \in Failures}
    BY DEF Failed, Failures
  <2> QED
    BY <2>1, <2>2, <2>3, <2>4 DEF Failed
<1>5. Answered' = Answered \cup Range(signals)
  <2>1. Answered' = UNION {Range(heard'[q].signals) : q \in Providers}
    BY DEF Answered, Range
  <2>2. Range(heard[p].signals) = {}
    BY <1>0, RangeOfNothing
  <2>3. Range(heard'[p].signals) = Range(signals)
    <3>1. heard'[p].signals = signals
      BY <1>3 DEF Ended
    <3> QED
      BY <3>1
  <2>4. \A q \in Providers : q # p => heard'[q] = heard[q]
    BY <1>3
  <2>5. UNION {Range(heard'[q].signals) : q \in Providers}
          = Range(signals) \cup UNION {Range(heard'[q].signals) : q \in Providers \ {p}}
    BY <2>3
  <2>6. UNION {Range(heard'[q].signals) : q \in Providers \ {p}}
          = UNION {Range(heard[q].signals) : q \in Providers \ {p}}
    BY <2>4
  <2>7. Answered = UNION {Range(heard[q].signals) : q \in Providers \ {p}}
    BY <2>2 DEF Answered
  <2> QED
    BY <2>1, <2>5, <2>6, <2>7
<1>6. Due' = {Key(FailureOf(q)) : q \in Failed'} \cup KeysOf(Answered')
  BY DEF Due, KeysOf, Key, FailureOf, Admissible, Supported, FamilyAgrees
<1>7. KeysOf(Answered') = KeysOf(Answered) \cup KeysOf(Range(signals))
  BY <1>5, KeysOfUnion
<1> QED
  BY <1>2, <1>4, <1>6, <1>7 DEF Due

-----------------------------------------------------------------------------
(***************************************************************************)
(* The steps.                                                              *)
(***************************************************************************)
LEMMA WhatDependsOnHeard ==
  ASSUME UNCHANGED heard PROVE Due' = Due
BY DEF Due, Failed, Failures, Answered, Range, KeysOf, Key, FailureOf, Admissible,
       Supported, FamilyAgrees

LEMMA WhatDependsOnEvidence ==
  ASSUME UNCHANGED evidence PROVE Collected' = Collected
BY DEF Collected, Key

\* The keys of a queue are computed from the queue alone.
LEMMA KeysOfQueueThen ==
  KeysOf(Range(queue))' = KeysOf(Range(queue'))
BY DEF KeysOf, Range, Key, Admissible, Supported, FamilyAgrees

LEMMA OneTurnEach ==
  ASSUME TypeOK, pc \in {"await", "weigh"}
  PROVE  \A j \in (index + 1)..Len(Order) : Order[j] # Current /\ Order[j] \in Providers
<1>1. index \in 1..Len(Order) /\ Len(Order) \in Nat
  BY OrderAssumption DEF TypeOK
<1>2. ASSUME NEW j \in (index + 1)..Len(Order) PROVE Order[j] # Current
  <2>1. j \in 1..Len(Order) /\ j # index
    BY <1>1
  <2> QED
    BY <1>1, <2>1, OrderAssumption DEF Current
<1>3. \A j \in 1..Len(Order) : Order[j] \in Providers
  BY OrderAssumption
<1> QED
  BY <1>1, <1>2, <1>3

LEMMA CurrentIsUnheard ==
  ASSUME TypeOK, Unheard, pc = "await" PROVE heard[Current] = Ended("not yet", <<>>)
<1>1. index \in index..Len(Order)
  BY OrderAssumption DEF TypeOK
<1>2. heard[Order[index]] = Ended("not yet", <<>>)
  BY <1>1 DEF Unheard
<1> QED
  BY <1>2 DEF Current

\* A wait that ends in failure.
LEMMA FailureKeepsIInv ==
  ASSUME IInv, pc = "await", NEW how \in Failures,
         evidence' = Append(evidence, FailureOf(Current)),
         heard' = [heard EXCEPT ![Current] = Ended(how, <<>>)],
         pc' = "call", index' = index + 1, UNCHANGED <<queue, seen>>,
         running' \subseteq Providers
  PROVE  IInv'
<1>1. Current \in Providers /\ index \in 1..Len(Order) /\ Len(Order) \in Nat
  BY CurrentIsAProvider, OrderAssumption DEF IInv, TypeOK
<1>2. heard[Current] = Ended("not yet", <<>>)
  BY <1>1, CurrentIsUnheard DEF IInv
<1>3. <<>> \in Seq(Entries) /\ KeysOf(Range(<<>>)) = {}
  BY RangeOfNothing DEF KeysOf
<1>4. /\ heard' \in [Providers -> Waits]
      /\ Due' = Due \cup {Key(FailureOf(Current))}
  BY <1>1, <1>2, <1>3, HearingAdds DEF IInv, Shapes
<1>5. /\ Collected' = Collected \cup {Key(FailureOf(Current))}
      /\ \E S : evidence' \in Seq(S)
  BY CollectedGrows DEF IInv, Shapes
<1>6. TypeOK'
  <2>1. FailureOf(Current).category \in Categories
    BY DEF FailureOf, Categories, TestCategories
  <2>2. \A i \in DOMAIN evidence' : evidence'[i].category \in Categories
    <3>1. PICK S : evidence \in Seq(S)
      BY DEF IInv, Shapes
    <3>2. \A i \in DOMAIN evidence' :
            evidence'[i] = IF i = Len(evidence) + 1 THEN FailureOf(Current) ELSE evidence[i]
      BY <3>1
    <3>3. \A i \in DOMAIN evidence' : i # Len(evidence) + 1 => i \in DOMAIN evidence
      BY <3>1
    <3> QED
      BY <2>1, <3>2, <3>3 DEF IInv, TypeOK
  <2> QED
    BY <1>1, <2>2 DEF IInv, TypeOK
<1>7. Shapes'
  BY <1>4, <1>5 DEF IInv, Shapes
<1>8. Unheard'
  <2>1. \A j \in (index + 1)..Len(Order) : heard'[Order[j]] = heard[Order[j]]
    BY OneTurnEach DEF IInv, Shapes
  <2>2. \A j \in (index + 1)..Len(Order) : j \in index..Len(Order) /\ j # index
    BY <1>1
  <2>3. \A j \in (index + 1)..Len(Order) : heard'[Order[j]] = Ended("not yet", <<>>)
    BY <2>1, <2>2 DEF IInv, Unheard
  <2> QED
    BY <1>1, <1>2, <2>3 DEF IInv, Unheard
<1>9. Accounts'
  <2>1. Collected' \cup KeysOf(Range(queue')) = Due'
    BY <1>4, <1>5 DEF IInv, Accounts
  <2> QED
    BY <1>5, <2>1, KeysOfQueueThen DEF IInv, Accounts
<1> QED
  BY <1>6, <1>7, <1>8, <1>9 DEF IInv

\* A wait that ends in an answer.
LEMMA AnswerKeepsIInv ==
  ASSUME IInv, pc = "await", NEW answer \in Answers[Current],
         queue' = SignalsOf(answer),
         heard' = [heard EXCEPT ![Current] = Ended("answered", SignalsOf(answer))],
         pc' = "weigh", UNCHANGED <<index, evidence, seen>>,
         running' \subseteq Providers
  PROVE  IInv'
<1>1. Current \in Providers /\ index \in 1..Len(Order) /\ Len(Order) \in Nat
  BY CurrentIsAProvider, OrderAssumption DEF IInv, TypeOK
<1>2. heard[Current] = Ended("not yet", <<>>) /\ queue = <<>>
  BY <1>1, CurrentIsUnheard DEF IInv, Unheard
<1>3. SignalsOf(answer) \in Seq(Entries)
  BY <1>1, AnswersAssumption DEF SignalsOf, Entries
<1>4. /\ heard' \in [Providers -> Waits]
      /\ Due' = Due \cup KeysOf(Range(queue'))
  <2>1. "answered" \notin Failures
    BY DEF Failures
  <2> QED
    BY <1>1, <1>2, <1>3, <2>1, HearingAdds DEF IInv, Shapes
<1>5. KeysOf(Range(queue)) = {}
  BY <1>2, RangeOfNothing DEF KeysOf
<1>6. TypeOK'
  BY <1>1 DEF IInv, TypeOK
<1>7. Shapes'
  BY <1>3, <1>4 DEF IInv, Shapes
<1>8. Unheard'
  <2>1. \A j \in (index + 1)..Len(Order) : heard'[Order[j]] = heard[Order[j]]
    BY OneTurnEach DEF IInv, Shapes
  <2>2. \A j \in (index + 1)..Len(Order) : j \in index..Len(Order) /\ j # index
    BY <1>1
  <2>3. \A j \in (index + 1)..Len(Order) : heard'[Order[j]] = Ended("not yet", <<>>)
    BY <2>1, <2>2 DEF IInv, Unheard
  <2> QED
    <3>1. \A j \in index..Len(Order) : j # index => j \in (index + 1)..Len(Order)
      BY <1>1
    <3> QED
      BY <2>3, <3>1 DEF Unheard
<1>9. Accounts'
  <2>1. Collected' \cup KeysOf(Range(queue')) = Due'
    BY <1>4, <1>5, WhatDependsOnEvidence DEF IInv, Accounts
  <2> QED
    BY <2>1, KeysOfQueueThen, WhatDependsOnEvidence DEF IInv, Accounts
<1> QED
  BY <1>6, <1>7, <1>8, <1>9 DEF IInv

\* A signal is weighed: what it says is either new, known, or of no use.
LEMMA WeighKeepsIInv ==
  ASSUME IInv, Weigh PROVE IInv'
<1> DEFINE s == Head(queue)
<1>1. /\ pc = "weigh" /\ queue # <<>> /\ queue' = Tail(queue)
      /\ UNCHANGED <<pc, index, running, heard>>
  BY DEF Weigh
<1>2. /\ Range(queue) = {s} \cup Range(queue')
      /\ queue' \in Seq(Entries)
  BY <1>1, RangeOfTail DEF IInv, Shapes
<1>3. KeysOf(Range(queue)) = KeysOf({s}) \cup KeysOf(Range(queue'))
  BY <1>2, KeysOfUnion
<1>4. KeysOf({s}) = IF Admissible(s) THEN {Key(s)} ELSE {}
  BY KeysOfOne
<1>5. Due' = Due
  BY <1>1, WhatDependsOnHeard
<1>6. Unheard'
  BY <1>1 DEF IInv, Unheard
<1>7. CASE Take(s)
  <2>1. /\ Admissible(s) /\ evidence' = Append(evidence, s)
        /\ seen' = seen \cup {Key(s)}
    BY <1>7 DEF Take, IsNews
  <2>2. Collected' = Collected \cup {Key(s)} /\ \E S : evidence' \in Seq(S)
    BY <2>1, CollectedGrows DEF IInv, Shapes
  <2>3. TypeOK'
    <3>1. s.category \in Categories
      BY <2>1 DEF Admissible, Supported
    <3>2. PICK S : evidence \in Seq(S)
      BY DEF IInv, Shapes
    <3>3. \A i \in DOMAIN evidence' :
            evidence'[i] = IF i = Len(evidence) + 1 THEN s ELSE evidence[i]
      BY <2>1, <3>2
    <3>4. \A i \in DOMAIN evidence' : i # Len(evidence) + 1 => i \in DOMAIN evidence
      BY <2>1, <3>2
    <3>5. \A i \in DOMAIN evidence' : evidence'[i].category \in Categories
      BY <3>1, <3>3, <3>4 DEF IInv, TypeOK
    <3> QED
      BY <1>1, <3>5 DEF IInv, TypeOK
  <2>4. Collected' \cup KeysOf(Range(queue')) = Due'
    BY <1>3, <1>4, <1>5, <2>1, <2>2 DEF IInv, Accounts
  <2>5. Accounts'
    BY <2>1, <2>2, <2>4, KeysOfQueueThen DEF IInv, Accounts
  <2>6. Shapes'
    BY <1>1, <1>2, <2>2 DEF IInv, Shapes
  <2> QED
    BY <1>6, <2>3, <2>5, <2>6 DEF IInv
<1>8. CASE Skip(s)
  <2>1. ~IsNews(s) /\ UNCHANGED <<evidence, seen>>
    BY <1>8 DEF Skip
  <2>2. Collected' = Collected
    BY <2>1, WhatDependsOnEvidence
  <2>3. KeysOf({s}) \subseteq Collected
    BY <1>4, <2>1 DEF IsNews, IInv, Accounts
  <2>4. Collected' \cup KeysOf(Range(queue')) = Due'
    BY <1>3, <1>5, <2>2, <2>3 DEF IInv, Accounts
  <2>5. Accounts'
    BY <2>1, <2>2, <2>4, KeysOfQueueThen DEF IInv, Accounts
  <2>6. Shapes' /\ TypeOK'
    BY <1>1, <1>2, <2>1 DEF IInv, Shapes, TypeOK
  <2> QED
    BY <1>6, <2>5, <2>6 DEF IInv
<1> QED
  BY <1>7, <1>8 DEF Weigh

LEMMA NothingHeardKeepsIInv ==
  ASSUME IInv, UNCHANGED <<queue, evidence, seen, heard>>, TypeOK', Unheard'
  PROVE  IInv'
<1>1. Accounts'
  BY WhatDependsOnHeard, WhatDependsOnEvidence, KeysOfQueueThen DEF IInv, Accounts
<1> QED
  BY <1>1 DEF IInv, Shapes

LEMMA StepKeepsIInv ==
  ASSUME IInv, [Next]_vars PROVE IInv'
<1>0. Len(Order) \in Nat
  BY OrderAssumption
<1>1. CASE Call
  <2>1. TypeOK'
    BY <1>0, <1>1, OrderAssumption DEF Call, IInv, TypeOK, Current, Providers, Range
  <2>2. Unheard'
    BY <1>1 DEF Call, IInv, Unheard
  <2> QED
    BY <1>1, <2>1, <2>2, NothingHeardKeepsIInv DEF Call
<1>2. ASSUME NEW p \in running, NEW answer \in Answers[p], Resolve(p, answer) PROVE IInv'
  <2>1. running' \subseteq Providers
    BY <1>2 DEF Resolve, IInv, TypeOK
  <2>2. CASE pc = "await" /\ p = Current
    BY <1>2, <2>1, <2>2, AnswerKeepsIInv DEF Resolve
  <2>3. CASE ~(pc = "await" /\ p = Current)
    <3>1. UNCHANGED <<pc, index, queue, evidence, seen, heard>>
      BY <1>2, <2>3 DEF Resolve
    <3>2. TypeOK' /\ Unheard'
      BY <2>1, <3>1 DEF IInv, TypeOK, Unheard
    <3> QED
      BY <3>1, <3>2, NothingHeardKeepsIInv
  <2> QED
    BY <2>2, <2>3
<1>3. ASSUME NEW p \in running, NEW how \in {"threw", "timed out"}, Reject(p, how)
      PROVE  IInv'
  <2>1. running' \subseteq Providers /\ how \in Failures
    BY <1>3 DEF Reject, IInv, TypeOK, Failures
  <2>2. CASE pc = "await" /\ p = Current
    BY <1>3, <2>1, <2>2, FailureKeepsIInv DEF Reject, Fail
  <2>3. CASE ~(pc = "await" /\ p = Current)
    <3>1. UNCHANGED <<pc, index, queue, evidence, seen, heard>>
      BY <1>3, <2>3 DEF Reject
    <3>2. TypeOK' /\ Unheard'
      BY <2>1, <3>1 DEF IInv, TypeOK, Unheard
    <3> QED
      BY <3>1, <3>2, NothingHeardKeepsIInv
  <2> QED
    BY <2>2, <2>3
<1>4. CASE TimerFires
  <2>1. running' \subseteq Providers /\ "timed out" \in Failures
    BY <1>4 DEF TimerFires, IInv, TypeOK, Failures
  <2> QED
    BY <1>4, <2>1, FailureKeepsIInv DEF TimerFires, Fail
<1>5. CASE Weigh
  BY <1>5, WeighKeepsIInv
<1>6. CASE NextProvider
  <2>1. TypeOK'
    BY <1>0, <1>6 DEF NextProvider, IInv, TypeOK
  <2>2. Unheard'
    <3>1. index \in Nat /\ index' = index + 1 /\ pc = "weigh" /\ queue' = <<>>
      BY <1>6 DEF NextProvider, IInv, TypeOK
    <3>2. \A j \in (index + 1)..Len(Order) : j \in index..Len(Order) /\ j # index
      BY <1>0, <3>1
    <3>3. \A j \in (index + 1)..Len(Order) : heard[Order[j]] = Ended("not yet", <<>>)
      BY <3>1, <3>2 DEF IInv, Unheard
    <3> QED
      BY <1>6, <3>1, <3>3 DEF NextProvider, Unheard
  <2> QED
    BY <1>6, <2>1, <2>2, NothingHeardKeepsIInv DEF NextProvider
<1>7. CASE Compose
  <2>1. TypeOK'
    BY <1>0, <1>7 DEF Compose, IInv, TypeOK
  <2>2. Unheard'
    BY <1>0, <1>7 DEF Compose, IInv, Unheard
  <2> QED
    BY <1>7, <2>1, <2>2, NothingHeardKeepsIInv DEF Compose
<1>8. CASE UNCHANGED vars
  <2>1. TypeOK' /\ Unheard'
    BY <1>8 DEF vars, IInv, TypeOK, Unheard
  <2> QED
    BY <1>8, <2>1, NothingHeardKeepsIInv DEF vars
<1> QED
  BY <1>1, <1>2, <1>3, <1>4, <1>5, <1>6, <1>7, <1>8 DEF Next, Settle

LEMMA InitHasIInv ==
  ASSUME Init PROVE IInv
<1>0. Len(Order) \in Nat
  BY OrderAssumption
<1>1. \A p \in Providers : heard[p] = Ended("not yet", <<>>)
  BY DEF Init
<1>e. evidence = <<>> /\ DOMAIN evidence = {} /\ evidence \in Seq({1})
  <2>1. evidence = <<>>
    BY DEF Init
  <2>2. <<>> \in Seq({1}) /\ DOMAIN <<>> = {}
    OBVIOUS
  <2> QED
    BY <2>1, <2>2
<1>2. TypeOK
  <2>1. pc = "call" /\ index = 1 /\ running = {}
    BY DEF Init
  <2> QED
    BY <1>0, <1>e, <2>1 DEF TypeOK
<1>3. Shapes
  <2>1. Ended("not yet", <<>>) \in Waits
    BY DEF Ended, Waits
  <2>2. queue \in Seq(Entries)
    <3>1. queue = <<>>
      BY DEF Init
    <3>2. <<>> \in Seq(Entries)
      OBVIOUS
    <3> QED
      BY <3>1, <3>2
  <2> QED
    BY <1>e, <2>1, <2>2 DEF Init, Shapes
<1>4. Unheard
  <2>1. \A j \in 1..Len(Order) : Order[j] \in Providers
    BY OrderAssumption
  <2> QED
    BY <1>0, <1>1, <2>1 DEF Init, Unheard
<1>5. Accounts
  <2>1. \A p \in Providers : heard[p].how = "not yet" /\ heard[p].signals = <<>>
    BY <1>1, EndedFields
  <2>2. Failed = {}
    BY <2>1 DEF Failed, Failures
  <2>3. Answered = {}
    BY <2>1, RangeOfNothing DEF Answered
  <2>4. Due = {}
    BY <2>2, <2>3 DEF Due, KeysOf
  <2>5. Collected = {}
    BY <1>e DEF Collected
  <2>6. KeysOf(Range(queue)) = {}
    BY RangeOfNothing DEF Init, KeysOf
  <2> QED
    BY <2>4, <2>5, <2>6 DEF Init, Accounts
<1> QED
  BY <1>2, <1>3, <1>4, <1>5 DEF IInv

THEOREM IInvAlways == Spec => []IInv
<1>1. Init => IInv
  BY InitHasIInv
<1>2. IInv /\ [Next]_vars => IInv'
  BY StepKeepsIInv
<1> QED
  BY <1>1, <1>2, PTL DEF Spec

\* The loop never passes its last provider, nor takes an unsupported category.
THEOREM TypeCorrect == Spec => []TypeOK
<1>1. IInv => TypeOK
  BY DEF IInv
<1> QED
  BY <1>1, IInvAlways, PTL

\* A late answer adds nothing and a failure costs no other provider's evidence,
\* whichever providers there are and whatever they answer.
THEOREM AwaitedEvidence == Spec => []EvidenceIsWhatWasAwaited
<1>1. IInv => EvidenceIsWhatWasAwaited
  <2> SUFFICES ASSUME IInv, pc = "done" PROVE Collected = Due
    BY DEF EvidenceIsWhatWasAwaited, Collected, Due, KeysOf
  <2>1. KeysOf(Range(queue)) = {}
    BY RangeOfNothing DEF IInv, Unheard, KeysOf
  <2> QED
    BY <2>1 DEF IInv, Accounts
<1> QED
  BY <1>1, IInvAlways, PTL

-----------------------------------------------------------------------------
(***************************************************************************)
(* Failures leave a trace, which the bundle keeps.                         *)
(***************************************************************************)
Traced ==
  \A p \in Failed :
    /\ \E i \in DOMAIN evidence : evidence[i] = FailureOf(p)
    /\ \E d \in diagnostics : d.source = p /\ d.severity # "info"

Bundled ==
  pc = "done" =>
    /\ telemetry.signals = [i \in 1..Len(evidence) |-> SignalOf(evidence[i])]
    /\ diagnostics \subseteq telemetry.diagnostics

LEMMA AppendKeeps ==
  ASSUME \E S : evidence \in Seq(S), NEW s, evidence' = Append(evidence, s)
  PROVE  \A i \in DOMAIN evidence : i \in DOMAIN evidence' /\ evidence'[i] = evidence[i]
OBVIOUS

\* The failures already traced stay so while the loop only adds to what it has.
LEMMA TracesStay ==
  ASSUME Traced,
         \A i \in DOMAIN evidence : i \in DOMAIN evidence' /\ evidence'[i] = evidence[i],
         diagnostics \subseteq diagnostics',
         \A p \in Failed' \ Failed :
            /\ \E i \in DOMAIN evidence' : evidence'[i] = FailureOf(p)
            /\ \E d \in diagnostics' : d.source = p /\ d.severity # "info"
  PROVE  Traced'
<1>1. ASSUME NEW p \in Failed'
      PROVE  /\ \E i \in DOMAIN evidence' : evidence'[i] = FailureOf(p)
             /\ \E d \in diagnostics' : d.source = p /\ d.severity # "info"
  <2>1. CASE p \in Failed' \ Failed
    BY <2>1
  <2>2. CASE p \in Failed
    BY <2>2 DEF Traced
  <2> QED
    BY <2>1, <2>2
<1> QED
  BY <1>1 DEF Traced, FailureOf

LEMMA FailedBy ==
  ASSUME heard \in [Providers -> Waits], NEW p \in Providers, NEW how, NEW signals,
         heard' = [heard EXCEPT ![p] = Ended(how, signals)]
  PROVE  /\ how \in Failures => Failed' = Failed \cup {p}
         /\ (how = "answered" /\ heard[p] = Ended("not yet", <<>>)) =>
              Failed' = Failed
<1>1. heard'[p].how = how
  <2>1. heard'[p] = Ended(how, signals)
    OBVIOUS
  <2> QED
    BY <2>1, EndedFields
<1>2. \A q \in Providers : q # p => heard'[q].how = heard[q].how
  OBVIOUS
<1>3. Failed' = {q \in Providers : heard'[q].how \in Failures}
  BY DEF Failed, Failures
<1>4. "answered" \notin Failures /\ "not yet" \notin Failures
  BY DEF Failures
<1>5. heard[p] = Ended("not yet", <<>>) => heard[p].how = "not yet"
  BY EndedFields
<1> QED
  BY <1>1, <1>2, <1>3, <1>4, <1>5 DEF Failed

LEMMA FailureIsTraced ==
  ASSUME IInv, Traced, pc = "await", NEW how \in Failures, NEW severity,
         severity # "info",
         evidence' = Append(evidence, FailureOf(Current)),
         diagnostics' = diagnostics \cup {Report(severity, Current, "failed")},
         heard' = [heard EXCEPT ![Current] = Ended(how, <<>>)]
  PROVE  Traced'
<1>1. Current \in Providers
  BY CurrentIsAProvider DEF IInv
<1>2. Failed' = Failed \cup {Current}
  BY <1>1, FailedBy DEF IInv, Shapes
<1>3. \E i \in DOMAIN evidence' : evidence'[i] = FailureOf(Current)
  <2>1. PICK S : evidence \in Seq(S)
    BY DEF IInv, Shapes
  <2>2. /\ Len(evidence) + 1 \in DOMAIN evidence'
        /\ evidence'[Len(evidence) + 1] = FailureOf(Current)
    BY <2>1
  <2> QED
    BY <2>2
<1>4. \E d \in diagnostics' : d.source = Current /\ d.severity # "info"
  <2>1. Report(severity, Current, "failed") \in diagnostics'
    OBVIOUS
  <2>2. /\ Report(severity, Current, "failed").source = Current
        /\ Report(severity, Current, "failed").severity = severity
    BY DEF Report
  <2> QED
    BY <2>1, <2>2
<1>5. diagnostics \subseteq diagnostics'
  OBVIOUS
<1>6. \A i \in DOMAIN evidence : i \in DOMAIN evidence' /\ evidence'[i] = evidence[i]
  BY AppendKeeps DEF IInv, Shapes
<1> QED
  BY <1>2, <1>3, <1>4, <1>5, <1>6, TracesStay

LEMMA StepKeepsTraced ==
  ASSUME IInv, Traced, [Next]_vars PROVE Traced'
<1>1. ASSUME UNCHANGED heard,
             evidence' = evidence \/ (\E s : evidence' = Append(evidence, s)),
             diagnostics \subseteq diagnostics'
      PROVE  Traced'
  <2>1. Failed' = Failed
    BY <1>1 DEF Failed, Failures
  <2>2. \A i \in DOMAIN evidence : i \in DOMAIN evidence' /\ evidence'[i] = evidence[i]
    BY <1>1, AppendKeeps DEF IInv, Shapes
  <2> QED
    BY <1>1, <2>1, <2>2, TracesStay
<1>2. CASE Call \/ NextProvider \/ Compose \/ UNCHANGED vars
  BY <1>1, <1>2 DEF Call, NextProvider, Compose, vars
<1>3. CASE Weigh
  BY <1>1, <1>3 DEF Weigh, Take, Skip
<1>4. CASE TimerFires
  <2>1. "timed out" \in Failures
    BY DEF Failures
  <2> QED
    BY <1>4, <2>1, FailureIsTraced DEF TimerFires, Fail
<1>5. ASSUME NEW p \in running, NEW how \in {"threw", "timed out"}, Reject(p, how)
      PROVE  Traced'
  <2>1. how \in Failures
    BY DEF Failures
  <2>2. CASE pc = "await" /\ p = Current
    <3>1. (IF how = "timed out" THEN "warning" ELSE "error") # "info"
      OBVIOUS
    <3> QED
      BY <1>5, <2>1, <2>2, <3>1, FailureIsTraced DEF Reject, Fail
  <2>3. CASE ~(pc = "await" /\ p = Current)
    BY <1>1, <1>5, <2>3 DEF Reject
  <2> QED
    BY <2>2, <2>3
<1>6. ASSUME NEW p \in running, NEW answer \in Answers[p], Resolve(p, answer) PROVE Traced'
  <2>1. CASE pc = "await" /\ p = Current
    <3>1. heard[Current] = Ended("not yet", <<>>) /\ Current \in Providers
      BY <2>1, CurrentIsUnheard, CurrentIsAProvider DEF IInv
    <3>2. heard' = [heard EXCEPT ![Current] = Ended("answered", SignalsOf(answer))]
      BY <1>6, <2>1 DEF Resolve
    <3>3. Failed' = Failed
      BY <3>1, <3>2, FailedBy DEF IInv, Shapes
    <3>4. UNCHANGED evidence /\ diagnostics \subseteq diagnostics'
      BY <1>6, <2>1 DEF Resolve
    <3> QED
      BY <3>3, <3>4, TracesStay
  <2>2. CASE ~(pc = "await" /\ p = Current)
    BY <1>1, <1>6, <2>2 DEF Resolve
  <2> QED
    BY <2>1, <2>2
<1> QED
  BY <1>2, <1>3, <1>4, <1>5, <1>6 DEF Next, Settle

LEMMA StepKeepsBundled ==
  ASSUME IInv, Bundled, [Next]_vars PROVE Bundled'
<1>1. CASE Compose
  <2> DEFINE bundle == TelemetryFromEvidence(evidence)
             flags == diagnostics \cup
                        IF ValidBundle(bundle) THEN {}
                        ELSE {Report("error", "providerRunner", "validation")}
  <2>1. telemetry' = [bundle EXCEPT !.diagnostics = @ \cup flags] /\ UNCHANGED evidence
        /\ UNCHANGED diagnostics
    BY <1>1 DEF Compose
  <2>2. bundle = [signals |-> [i \in 1..Len(evidence) |-> SignalOf(evidence[i])],
                  diagnostics |-> bundle.diagnostics]
    BY DEF TelemetryFromEvidence
  <2>3. diagnostics \subseteq flags
    OBVIOUS
  <2> HIDE DEF bundle, flags
  <2>4. /\ telemetry'.signals = [i \in 1..Len(evidence) |-> SignalOf(evidence[i])]
        /\ diagnostics \subseteq telemetry'.diagnostics
    BY <2>1, <2>2, <2>3
  <2> QED
    BY <2>1, <2>4 DEF Bundled
<1>2. CASE UNCHANGED vars
  BY <1>2 DEF vars, Bundled
<1>3. CASE Call \/ Settle \/ TimerFires \/ Weigh \/ NextProvider
  <2>1. pc # "done" => pc' # "done"
    BY <1>3 DEF Call, Settle, Resolve, Reject, Fail, TimerFires, Weigh, NextProvider
  <2>2. pc = "done" => UNCHANGED <<pc, telemetry, evidence, diagnostics>>
    BY <1>3 DEF Call, Settle, Resolve, Reject, Fail, TimerFires, Weigh, NextProvider
  <2> QED
    BY <2>1, <2>2 DEF Bundled
<1> QED
  BY <1>1, <1>2, <1>3 DEF Next

\* A provider that failed, or was too slow, is a failed signal and a warning of
\* the bundle, whatever else was collected.
THEOREM VisibleFailures == Spec => []FailuresAreVisible
<1>1. Init => Traced /\ Bundled
  <2> SUFFICES ASSUME Init PROVE Traced /\ Bundled
    OBVIOUS
  <2>1. \A p \in Providers : heard[p] = Ended("not yet", <<>>)
    BY DEF Init
  <2>2. \A p \in Providers : heard[p].how = "not yet"
    BY <2>1, EndedFields
  <2>3. Failed = {}
    BY <2>2 DEF Failed, Failures
  <2>4. pc # "done"
    BY DEF Init
  <2> QED
    BY <2>3, <2>4 DEF Traced, Bundled
<1>2. IInv /\ Traced /\ Bundled /\ [Next]_vars => (Traced /\ Bundled)'
  BY StepKeepsTraced, StepKeepsBundled
<1>3. IInv /\ Traced /\ Bundled => FailuresAreVisible
  <2> SUFFICES ASSUME IInv, Traced, Bundled, pc = "done", NEW p \in Failed
               PROVE  /\ \E i \in DOMAIN telemetry.signals :
                           /\ telemetry.signals[i].source = p
                           /\ telemetry.signals[i].status = "failed"
                      /\ \E d \in telemetry.diagnostics :
                           d.source = p /\ d.severity # "info"
    BY DEF FailuresAreVisible
  <2>1. PICK i \in DOMAIN evidence : evidence[i] = FailureOf(p)
    BY DEF Traced
  <2>2. i \in 1..Len(evidence)
    BY DEF IInv, Shapes
  <2>3. telemetry.signals[i] = SignalOf(FailureOf(p)) /\ i \in DOMAIN telemetry.signals
    BY <2>1, <2>2 DEF Bundled
  <2>4. SignalOf(FailureOf(p)).source = p /\ SignalOf(FailureOf(p)).status = "failed"
    BY DEF SignalOf, FailureOf, ReadStatus
  <2> QED
    BY <2>3, <2>4 DEF Traced, Bundled
<1> QED
  BY <1>1, <1>2, <1>3, IInvAlways, PTL DEF Spec

-----------------------------------------------------------------------------
(***************************************************************************)
(* Invalid bundles.  The runner takes a provider's word for the source of  *)
(* a signal.  The empty source makes a bundle invalid by itself, and its   *)
(* own name would hide what it says of the bundle.                         *)
(***************************************************************************)
Own == {"", "providerRunner"}

SourcesAreNamed ==
  /\ Providers \cap Own = {}
  /\ \A p \in Providers : \A answer \in Answers[p] :
       \A i \in DOMAIN SignalsOf(answer) :
         SignalsOf(answer)[i] = Malformed \/ SignalsOf(answer)[i].source \notin Own

Sourced ==
  /\ \A i \in DOMAIN queue : queue[i] = Malformed \/ queue[i].source \notin Own
  /\ \A i \in DOMAIN evidence : evidence[i].source \notin Own
  /\ \A d \in diagnostics : d.source \notin Own

Composed ==
  pc = "done" =>
    telemetry =
      [TelemetryFromEvidence(evidence) EXCEPT
         !.diagnostics = @ \cup diagnostics \cup
           IF ValidBundle(TelemetryFromEvidence(evidence)) THEN {}
           ELSE {Report("error", "providerRunner", "validation")}]

LEMMA ReportFields ==
  ASSUME NEW severity, NEW p, NEW about
  PROVE  Report(severity, p, about).source = p
BY DEF Report

LEMMA StepKeepsComposed ==
  ASSUME Composed, [Next]_vars
  PROVE  Composed'
<1>1. CASE Compose
  <2> DEFINE Made(e, d) ==
               [TelemetryFromEvidence(e) EXCEPT
                  !.diagnostics = @ \cup d \cup
                    IF ValidBundle(TelemetryFromEvidence(e)) THEN {}
                    ELSE {Report("error", "providerRunner", "validation")}]
  <2>1. telemetry' = Made(evidence, diagnostics) /\ UNCHANGED <<evidence, diagnostics>>
    BY <1>1 DEF Compose
  <2> HIDE DEF Made
  <2>2. telemetry' = Made(evidence', diagnostics')
    BY <2>1
  <2> QED
    BY <2>2 DEF Composed, Made
<1>2. CASE UNCHANGED vars
  BY <1>2 DEF vars, Composed
<1>3. CASE Call \/ Settle \/ TimerFires \/ Weigh \/ NextProvider
  <2>1. pc # "done" => pc' # "done"
    BY <1>3 DEF Call, Settle, Resolve, Reject, Fail, TimerFires, Weigh, NextProvider
  <2>2. pc = "done" => UNCHANGED <<pc, telemetry, evidence, diagnostics>>
    BY <1>3 DEF Call, Settle, Resolve, Reject, Fail, TimerFires, Weigh, NextProvider
  <2> QED
    BY <2>1, <2>2 DEF Composed
<1> QED
  BY <1>1, <1>2, <1>3 DEF Next

\* A failure or a signal with a source of its own, after the evidence so far.
LEMMA AppendKeepsSources ==
  ASSUME \E S : evidence \in Seq(S), NEW s, s.source \notin Own, evidence' = Append(evidence, s),
         \A i \in DOMAIN evidence : evidence[i].source \notin Own
  PROVE  \A i \in DOMAIN evidence' : evidence'[i].source \notin Own
<1>1. PICK S : evidence \in Seq(S)
  OBVIOUS
<1>2. \A i \in DOMAIN evidence' :
        evidence'[i] = IF i = Len(evidence) + 1 THEN s ELSE evidence[i]
  BY <1>1
<1>3. \A i \in DOMAIN evidence' : i # Len(evidence) + 1 => i \in DOMAIN evidence
  BY <1>1
<1> QED
  BY <1>2, <1>3

LEMMA StepKeepsSourced ==
  ASSUME SourcesAreNamed, IInv, Sourced, [Next]_vars
  PROVE  Sourced'
<1>1. CASE UNCHANGED <<queue, evidence, diagnostics>>
  BY <1>1 DEF Sourced, Own
<1>2. CASE Call \/ NextProvider \/ Compose \/ UNCHANGED vars
  BY <1>1, <1>2 DEF Call, NextProvider, Compose, vars
<1>3. ASSUME NEW p \in Providers, NEW severity, pc = "await", p = Current,
             evidence' = Append(evidence, FailureOf(p)),
             diagnostics' = diagnostics \cup {Report(severity, p, "failed")},
             UNCHANGED queue
      PROVE  Sourced'
  <2>1. p \notin Own /\ FailureOf(p).source = p
    BY DEF SourcesAreNamed, FailureOf
  <2>2. \A i \in DOMAIN evidence' : evidence'[i].source \notin Own
    BY <1>3, <2>1, AppendKeepsSources DEF Sourced, IInv, Shapes
  <2>3. \A d \in diagnostics' : d.source \notin Own
    BY <1>3, <2>1, ReportFields DEF Sourced
  <2> QED
    BY <1>3, <2>2, <2>3 DEF Sourced, Own
<1>4. CASE TimerFires
  <2>1. Current \in Providers /\ pc = "await"
    BY <1>4, CurrentIsAProvider DEF TimerFires, IInv
  <2> QED
    BY <1>3, <1>4, <2>1 DEF TimerFires, Fail
<1>5. ASSUME NEW p \in running, NEW how \in {"threw", "timed out"}, Reject(p, how)
      PROVE  Sourced'
  <2>1. CASE pc = "await" /\ p = Current
    <3>1. Current \in Providers
      BY <2>1, CurrentIsAProvider DEF IInv
    <3> QED
      BY <1>3, <1>5, <2>1, <3>1 DEF Reject, Fail
  <2>2. CASE ~(pc = "await" /\ p = Current)
    BY <1>1, <1>5, <2>2 DEF Reject
  <2> QED
    BY <2>1, <2>2
<1>6. ASSUME NEW p \in running, NEW answer \in Answers[p], Resolve(p, answer)
      PROVE  Sourced'
  <2>1. CASE pc = "await" /\ p = Current
    <3>1. p \in Providers /\ p \notin Own
      BY DEF IInv, TypeOK, SourcesAreNamed
    <3>2. /\ queue' = SignalsOf(answer) /\ UNCHANGED evidence
          /\ diagnostics' = diagnostics \cup
               IF answer = NoAnswer THEN {Report("info", p, "absent")} ELSE {}
      BY <1>6, <2>1 DEF Resolve
    <3>3. \A i \in DOMAIN queue' : queue'[i] = Malformed \/ queue'[i].source \notin Own
      BY <3>1, <3>2 DEF SourcesAreNamed
    <3>4. \A d \in diagnostics' : d.source \notin Own
      BY <3>1, <3>2, ReportFields DEF Sourced
    <3> QED
      BY <3>2, <3>3, <3>4 DEF Sourced, Own
  <2>2. CASE ~(pc = "await" /\ p = Current)
    BY <1>1, <1>6, <2>2 DEF Resolve
  <2> QED
    BY <2>1, <2>2
<1>7. CASE Weigh
  <2>1. queue # <<>> /\ queue' = Tail(queue) /\ pc = "weigh"
    BY <1>7 DEF Weigh
  <2>2. queue \in Seq(Entries)
    BY DEF IInv, Shapes
  <2>3. \A i \in DOMAIN queue' : queue'[i] = Malformed \/ queue'[i].source \notin Own
    <3>1. \A i \in DOMAIN queue' : i + 1 \in DOMAIN queue /\ queue'[i] = queue[i + 1]
      BY <2>1, <2>2
    <3> QED
      BY <3>1 DEF Sourced
  <2>4. Head(queue) = Malformed \/ Head(queue).source \notin Own
    <3>1. 1 \in DOMAIN queue /\ Head(queue) = queue[1]
      BY <2>1, <2>2
    <3> QED
      BY <3>1 DEF Sourced
  <2>5. CASE Take(Head(queue))
    <3>1. Head(queue) # Malformed
      BY <2>5 DEF Take, IsNews, Admissible, Supported
    <3>2. evidence' = Append(evidence, Head(queue)) /\ UNCHANGED diagnostics
      BY <2>5 DEF Take
    <3>3. \A i \in DOMAIN evidence' : evidence'[i].source \notin Own
      BY <2>4, <3>1, <3>2, AppendKeepsSources DEF Sourced, IInv, Shapes
    <3> QED
      BY <2>3, <3>2, <3>3 DEF Sourced, Own
  <2>6. CASE Skip(Head(queue))
    <3>1. /\ UNCHANGED evidence
          /\ \E severity, about : diagnostics' = diagnostics \cup {Report(severity, Current, about)}
      BY <2>6 DEF Skip
    <3>2. Current \notin Own
      BY <2>1, CurrentIsAProvider DEF IInv, SourcesAreNamed
    <3>3. \A d \in diagnostics' : d.source \notin Own
      BY <3>1, <3>2, ReportFields DEF Sourced
    <3> QED
      BY <2>3, <3>1, <3>3 DEF Sourced, Own
  <2> QED
    BY <1>7, <2>5, <2>6 DEF Weigh
<1> QED
  BY <1>2, <1>4, <1>5, <1>6, <1>7 DEF Next, Settle

\* The runner's own diagnostic is in the bundle it returns if, and only if, two
\* pieces of evidence share a source and a category, and so a signal id: what
\* runOptionalSignalProviders reports of validateTelemetryBundle is exact, as
\* long as no provider leaves a source empty or uses the runner's name.
THEOREM InvalidityShows ==
  ASSUME SourcesAreNamed
  PROVE  Spec => []InvalidBundlesAreFlagged
<1>1. Init => Sourced /\ Composed
  <2> SUFFICES ASSUME Init PROVE Sourced /\ Composed
    OBVIOUS
  <2>1. queue = <<>> /\ evidence = <<>> /\ diagnostics = {} /\ pc # "done"
    BY DEF Init
  <2>2. DOMAIN <<>> = {}
    OBVIOUS
  <2> QED
    BY <2>1, <2>2 DEF Sourced, Composed
<1>2. IInv /\ Sourced /\ Composed /\ [Next]_vars => (Sourced /\ Composed)'
  BY StepKeepsSourced, StepKeepsComposed
<1>3. IInv /\ Sourced /\ Composed => InvalidBundlesAreFlagged
  <2> DEFINE bundle == TelemetryFromEvidence(evidence)
             signals == [i \in 1..Len(evidence) |-> SignalOf(evidence[i])]
             error == Report("error", "providerRunner", "validation")
             Alike(i, j) == /\ evidence[i].source = evidence[j].source
                            /\ evidence[i].category = evidence[j].category
  <2> SUFFICES ASSUME IInv, Sourced, Composed, pc = "done"
               PROVE  (\E i, j \in DOMAIN evidence : i # j /\ Alike(i, j))
                        <=> \E d \in telemetry.diagnostics : d.source = "providerRunner"
    BY DEF InvalidBundlesAreFlagged
  <2>1. bundle = [signals |-> signals, diagnostics |-> DiagnosticsOf(signals)]
    BY DEF TelemetryFromEvidence
  <2>2. DOMAIN evidence = 1..Len(evidence) /\ Len(evidence) \in Nat
    BY DEF IInv, Shapes
  <2>3. \A i \in DOMAIN evidence :
          /\ signals[i].id = <<FamilyForCategory(evidence[i].category), evidence[i].source,
                               evidence[i].category>>
          /\ signals[i].source = evidence[i].source
          /\ WellFormedSignal(signals[i])
    <3>1. ASSUME NEW item, item.source \notin Own
          PROVE  /\ SignalOf(item).id = <<FamilyForCategory(item.category), item.source, item.category>>
                 /\ SignalOf(item).source = item.source
                 /\ WellFormedSignal(SignalOf(item))
      <4>1. /\ SignalOf(item).source = item.source
            /\ SignalOf(item).status \in Statuses
            /\ SignalOf(item).freshness \in Freshnesses
            /\ SignalOf(item).confidence \in Confidences
        BY DEF SignalOf, ReadStatus, ReadFreshness, ReadConfidence, Statuses, Freshnesses, Confidences
      <4>2. SignalOf(item).id = <<FamilyForCategory(item.category), item.source, item.category>>
        BY DEF SignalOf
      <4> QED
        BY <3>1, <4>1, <4>2 DEF WellFormedSignal, Own
    <3>2. \A i \in DOMAIN evidence : signals[i] = SignalOf(evidence[i])
      BY <2>2
    <3> QED
      BY <3>1, <3>2 DEF Sourced
  <2>4. DOMAIN signals = DOMAIN evidence
    BY <2>2
  <2> HIDE DEF signals
  <2>5. \A i, j \in DOMAIN evidence : signals[i].id = signals[j].id <=> Alike(i, j)
    BY <2>3
  <2>6. DuplicateIds(signals) # {} <=> \E i, j \in DOMAIN evidence : i < j /\ Alike(i, j)
    BY <2>4, <2>5 DEF DuplicateIds
  <2>7. (\E i, j \in DOMAIN evidence : i < j /\ Alike(i, j))
          <=> \E i, j \in DOMAIN evidence : i # j /\ Alike(i, j)
    BY <2>2
  <2>8. bundle.signals = signals /\ bundle.diagnostics = DiagnosticsOf(signals)
    BY <2>1
  <2>9. ValidBundle(bundle) <=> DuplicateIds(signals) = {}
    BY <2>3, <2>4, <2>8 DEF ValidBundle
  <2>10. telemetry = [bundle EXCEPT !.diagnostics = @ \cup diagnostics \cup
                        IF ValidBundle(bundle) THEN {} ELSE {error}]
    BY DEF Composed
  <2> HIDE DEF bundle, error
  <2>11. telemetry.diagnostics = DiagnosticsOf(signals) \cup diagnostics \cup
                        IF ValidBundle(bundle) THEN {} ELSE {error}
    BY <2>1, <2>10
  <2>12. \A d \in DiagnosticsOf(signals) : d.source # "providerRunner"
    <3>1. \A i \in DOMAIN evidence : NotPresent(signals[i]).source = evidence[i].source
      BY <2>3 DEF NotPresent
    <3> QED
      BY <2>4, <3>1 DEF DiagnosticsOf, Sourced, Own
  <2>13. \A d \in diagnostics : d.source # "providerRunner"
    BY DEF Sourced, Own
  <2>14. error.source = "providerRunner"
    BY ReportFields DEF error
  <2>15. (\E d \in telemetry.diagnostics : d.source = "providerRunner") <=> ~ValidBundle(bundle)
    BY <2>11, <2>12, <2>13, <2>14
  <2> QED
    BY <2>6, <2>7, <2>9, <2>15
<1> QED
  BY <1>1, <1>2, <1>3, IInvAlways, PTL DEF Spec
=============================================================================
