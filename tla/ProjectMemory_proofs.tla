------------------------ MODULE ProjectMemory_proofs ------------------------
(***************************************************************************)
(* Proofs about ProjectMemory, for any number of processes, ids, faults    *)
(* and crashes.                                                            *)
(***************************************************************************)
EXTENDS ProjectMemory, FiniteSetTheorems, TLAPS

\* What an append is about to write is not among what it has read.
PendingIsFresh ==
  \A p \in Procs :
    pc[p] = "write" =>
      /\ pending[p].after <= Len(lines)
      /\ \A i \in 1..pending[p].after : lines[i].id # pending[p].id

\* The ids of the lines no later append can spoil.
Safe ==
  {lines[i].id : i \in 1..(IF ended THEN Len(lines) ELSE Len(lines) - 1)} \ {Unparsable}

\* LossIsBounded, with the record that still lacks its newline counted as lost.
SafeLossIsBounded ==
  /\ IsFiniteSet(acknowledged)
  /\ Cardinality(acknowledged \ Safe) + (IF ended THEN 0 ELSE 1)
       <= MaxFaults - left.faults

IInv == TypeOK /\ PendingIsFresh /\ DuplicatesOverlap /\ SafeLossIsBounded

-----------------------------------------------------------------------------
(***************************************************************************)
(* What a write does to the file.                                          *)
(***************************************************************************)

\* A line is added to the end, or makes an unfinished last line junk.
LEMMA AddedLines ==
  ASSUME TypeOK, NEW l \in Line
  PROVE  /\ Added(l) \in Seq(Line)
         /\ Added(l) # << >>
         /\ ended => /\ Len(Added(l)) = Len(lines) + 1
                     /\ \A i \in 1..Len(lines) : Added(l)[i] = lines[i]
                     /\ Added(l)[Len(lines) + 1] = l
         /\ ~ended => /\ Len(lines) \in Nat \ {0}
                      /\ Len(Added(l)) = Len(lines)
                      /\ \A i \in 1..(Len(lines) - 1) : Added(l)[i] = lines[i]
                      /\ Added(l)[Len(lines)] = Junk
<1>1. lines \in Seq(Line) /\ Junk \in Line
  BY DEF TypeOK, Line, Junk
<1>2. CASE ended
  BY <1>1, <1>2 DEF Added
<1>3. CASE ~ended
  <2>1. lines # << >>
    BY <1>3 DEF TypeOK
  <2>2. Len(lines) \in Nat \ {0}
    BY <1>1, <2>1
  <2>3. Added(l) = [lines EXCEPT ![Len(lines)] = Junk]
    BY <1>3 DEF Added
  <2>. QED
    BY <1>1, <1>3, <2>2, <2>3
<1>. QED
  BY <1>2, <1>3, TypeOK DEF TypeOK

\* Each step leaves the file alone or adds to it what some process has pending.
FileStep ==
  \/ UNCHANGED <<lines, ended>>
  \/ \E l \in Line :
       /\ lines' = Added(l)
       /\ ended' \in BOOLEAN
       /\ l = Junk \/ \E p \in Procs : pc[p] = "write" /\ l = pending[p]

LEMMA EveryFileStep ==
  ASSUME TypeOK, [Next]_vars
  PROVE  FileStep
<1>1. \A p \in Procs : pending[p] \in Line
  BY DEF TypeOK
<1>2. Junk \in Line
  BY DEF Junk, Line
<1>3. CASE UNCHANGED vars
  BY <1>3 DEF vars, FileStep
<1>4. ASSUME NEW p \in Procs, NEW d \in Ids, Start(p, d) \/ StartUnread(p, d)
      PROVE  FileStep
  BY <1>4 DEF Start, StartUnread, FileStep
<1>5. ASSUME NEW p \in Procs, Write(p) PROVE FileStep
  BY <1>1, <1>5 DEF Write, FileStep
<1>6. ASSUME NEW p \in Procs, WriteFails(p) PROVE FileStep
  BY <1>1, <1>2, <1>6 DEF WriteFails, FileStep
<1>7. ASSUME NEW p \in Procs, Crash(p) PROVE FileStep
  BY <1>1, <1>7 DEF Crash, FileStep
<1>. QED
  BY <1>3, <1>4, <1>5, <1>6, <1>7 DEF Next

-----------------------------------------------------------------------------
(***************************************************************************)
(* Types.                                                                  *)
(***************************************************************************)

\* A step keeps the types.
LEMMA TypeOKStep ==
  ASSUME TypeOK, [Next]_vars
  PROVE  TypeOK'
<1>0. lines' \in Seq(Line) /\ ended' \in BOOLEAN /\ (ended' \/ lines' # << >>)
  <2>1. CASE UNCHANGED <<lines, ended>>
    BY <2>1 DEF TypeOK
  <2>2. ASSUME NEW l \in Line, lines' = Added(l), ended' \in BOOLEAN
        PROVE  lines' \in Seq(Line) /\ lines' # << >>
    BY <2>2, AddedLines
  <2>. QED
    BY <2>1, <2>2, EveryFileStep DEF FileStep
<1>. USE DEF TypeOK
<1>1. CASE UNCHANGED vars
  BY <1>1 DEF vars
<1>2. ASSUME NEW p \in Procs, NEW d \in Ids, Start(p, d)
      PROVE  TypeOK'
  <2>1. [id |-> d, after |-> Len(lines)] \in Line
    BY DEF Line
  <2>2. left' \in [appends : 0..MaxAppends, faults : 0..MaxFaults, crashes : 0..MaxCrashes]
    BY <1>2, BoundsAssumption DEF Start
  <2>3. CASE Refused(d)
    BY <1>2, <2>2, <2>3 DEF Start
  <2>4. CASE ~Refused(d)
    BY <1>2, <2>1, <2>2, <2>4 DEF Start, Refused
  <2>. QED
    BY <2>3, <2>4
<1>3. ASSUME NEW p \in Procs, NEW d \in Ids, StartUnread(p, d)
      PROVE  TypeOK'
  <2>1. [id |-> d, after |-> 0] \in Line
    BY DEF Line
  <2>2. left' \in [appends : 0..MaxAppends, faults : 0..MaxFaults, crashes : 0..MaxCrashes]
    <3>1. left.appends - 1 \in 0..MaxAppends /\ left.faults - 1 \in 0..MaxFaults
      BY <1>3, BoundsAssumption DEF StartUnread
    <3>2. left' = [left EXCEPT !.appends = left.appends - 1, !.faults = left.faults - 1]
      BY <1>3 DEF StartUnread
    <3>. QED
      BY <3>1, <3>2
  <2>. QED
    BY <1>3, <2>1, <2>2 DEF StartUnread
<1>4. ASSUME NEW p \in Procs, Write(p)
      PROVE  TypeOK'
  BY <1>0, <1>4 DEF Write
<1>5. ASSUME NEW p \in Procs, WriteFails(p)
      PROVE  TypeOK'
  <2>1. left' \in [appends : 0..MaxAppends, faults : 0..MaxFaults, crashes : 0..MaxCrashes]
    BY <1>5, BoundsAssumption DEF WriteFails
  <2>. QED
    BY <1>0, <1>5, <2>1 DEF WriteFails
<1>6. ASSUME NEW p \in Procs, Crash(p)
      PROVE  TypeOK'
  <2>1. left' \in [appends : 0..MaxAppends, faults : 0..MaxFaults, crashes : 0..MaxCrashes]
    BY <1>6, BoundsAssumption DEF Crash
  <2>. QED
    BY <1>0, <1>6, <2>1 DEF Crash
<1>. QED
  BY <1>1, <1>2, <1>3, <1>4, <1>5, <1>6 DEF Next

-----------------------------------------------------------------------------
(***************************************************************************)
(* Duplicates.                                                             *)
(***************************************************************************)

\* Lines are never taken away, and those that change stop counting.
LEMMA LinesStay ==
  ASSUME TypeOK, FileStep
  PROVE  /\ Len(lines) <= Len(lines')
         /\ \A i \in 1..Len(lines) : lines'[i] = lines[i] \/ lines'[i] = Junk
<1>1. lines \in Seq(Line)
  BY DEF TypeOK
<1>2. CASE UNCHANGED <<lines, ended>>
  BY <1>1, <1>2
<1>3. ASSUME NEW l \in Line, lines' = Added(l)
      PROVE  /\ Len(lines) <= Len(lines')
             /\ \A i \in 1..Len(lines) : lines'[i] = lines[i] \/ lines'[i] = Junk
  <2>1. CASE ended
    BY <1>1, <1>3, <2>1, AddedLines
  <2>2. CASE ~ended
    <3>1. \A i \in 1..Len(lines) : i \in 1..(Len(lines) - 1) \/ i = Len(lines)
      BY <1>1
    <3>. QED
      BY <1>1, <1>3, <2>2, <3>1, AddedLines
  <2>. QED
    BY <2>1, <2>2
<1>. QED
  BY <1>2, <1>3 DEF FileStep

\* Of what a process is about to write, no line it has read is the like.
LEMMA PendingIsFreshStep ==
  ASSUME TypeOK, PendingIsFresh, [Next]_vars
  PROVE  PendingIsFresh'
<1>1. lines \in Seq(Line) /\ \A p \in Procs : pending[p] \in Line
  BY DEF TypeOK
<1>2. /\ Len(lines) <= Len(lines')
      /\ \A i \in 1..Len(lines) : lines'[i] = lines[i] \/ lines'[i] = Junk
  BY EveryFileStep, LinesStay
<1>3. Len(lines') \in Nat
  <2>1. lines' \in Seq(Line)
    BY TypeOKStep DEF TypeOK
  <2>. QED
    BY <2>1
<1>4. ASSUME NEW q \in Procs, pc[q] = "write", pending'[q] = pending[q]
      PROVE  /\ pending'[q].after <= Len(lines')
             /\ \A i \in 1..pending'[q].after : lines'[i].id # pending'[q].id
  <2>1. pending[q].after \in Nat /\ pending[q].id # Unparsable
    BY <1>1, <1>4, IdsAssumption DEF TypeOK, Line
  <2>2. Junk.id = Unparsable
    BY DEF Junk
  <2>3. /\ pending[q].after <= Len(lines)
        /\ \A i \in 1..pending[q].after : lines[i].id # pending[q].id
    BY <1>4 DEF PendingIsFresh
  <2>4. \A i \in 1..pending[q].after : i \in 1..Len(lines)
    BY <1>1, <2>1, <2>3
  <2>. QED
    BY <1>1, <1>2, <1>3, <1>4, <2>1, <2>2, <2>3, <2>4
<1>5. ASSUME NEW p \in Procs, NEW d \in Ids, Start(p, d), NEW q \in Procs,
             pc'[q] = "write"
      PROVE  \/ pc[q] = "write" /\ pending'[q] = pending[q]
             \/ /\ pending'[q] = [id |-> d, after |-> Len(lines)]
                /\ lines' = lines
                /\ d \notin Readable
  <2>1. CASE Refused(d)
    BY <1>5, <2>1 DEF Start
  <2>2. CASE ~Refused(d)
    BY <1>5, <2>2 DEF Start, Refused, TypeOK
  <2>. QED
    BY <2>1, <2>2
<1>6. ASSUME NEW p \in Procs, NEW d \in Ids, StartUnread(p, d), NEW q \in Procs,
             pc'[q] = "write"
      PROVE  \/ pc[q] = "write" /\ pending'[q] = pending[q]
             \/ pending'[q] = [id |-> d, after |-> 0]
  BY <1>6 DEF StartUnread, TypeOK
<1>7. ASSUME NEW p \in Procs, Write(p) \/ WriteFails(p) \/ Crash(p), NEW q \in Procs,
             pc'[q] = "write"
      PROVE  pc[q] = "write" /\ pending'[q] = pending[q]
  BY <1>7 DEF Write, WriteFails, Crash, TypeOK
<1>8. ASSUME UNCHANGED vars, NEW q \in Procs, pc'[q] = "write"
      PROVE  pc[q] = "write" /\ pending'[q] = pending[q]
  BY <1>8 DEF vars
<1>9. ASSUME NEW d \in Ids, d \notin Readable
      PROVE  \A i \in 1..Len(lines) : lines[i].id # d
  BY <1>1, <1>9, IdsAssumption DEF Readable
<1>. SUFFICES ASSUME NEW q \in Procs, pc'[q] = "write"
              PROVE  /\ pending'[q].after <= Len(lines')
                     /\ \A i \in 1..pending'[q].after : lines'[i].id # pending'[q].id
  BY DEF PendingIsFresh
<1>10. CASE pc[q] = "write" /\ pending'[q] = pending[q]
  BY <1>4, <1>10
<1>11. ASSUME NEW d \in Ids, pending'[q] = [id |-> d, after |-> Len(lines)],
              lines' = lines, d \notin Readable
       PROVE  /\ pending'[q].after <= Len(lines')
              /\ \A i \in 1..pending'[q].after : lines'[i].id # pending'[q].id
  BY <1>1, <1>3, <1>9, <1>11
<1>12. ASSUME NEW d \in Ids, pending'[q] = [id |-> d, after |-> 0]
       PROVE  /\ pending'[q].after <= Len(lines')
              /\ \A i \in 1..pending'[q].after : lines'[i].id # pending'[q].id
  BY <1>3, <1>12
<1>. QED
  BY <1>5, <1>6, <1>7, <1>8, <1>10, <1>11, <1>12 DEF Next

\* A step adds no line whose writer had read an earlier line of its id.
LEMMA DuplicatesOverlapStep ==
  ASSUME TypeOK, PendingIsFresh, DuplicatesOverlap, [Next]_vars
  PROVE  DuplicatesOverlap'
<1>1. lines \in Seq(Line)
  BY DEF TypeOK
<1>2. CASE UNCHANGED <<lines, ended>>
  BY <1>2 DEF DuplicatesOverlap
<1>3. ASSUME NEW l \in Line, lines' = Added(l),
             l = Junk \/ \E p \in Procs : pc[p] = "write" /\ l = pending[p]
      PROVE  DuplicatesOverlap'
  <2>. SUFFICES ASSUME NEW i \in DOMAIN lines', NEW j \in DOMAIN lines',
                       i < j, lines'[i].id = lines'[j].id, lines'[i].id # Unparsable
                PROVE  lines'[j].after < i
    BY DEF DuplicatesOverlap
  <2>1. lines' \in Seq(Line) /\ Junk.id = Unparsable
    BY <1>3, AddedLines DEF Junk
  <2>2. i \in 1..Len(lines') /\ j \in 1..Len(lines')
    BY <2>1
  <2>3. ASSUME i \in 1..Len(lines), j \in 1..Len(lines),
               lines'[i] = lines[i], lines'[j] = lines[j]
        PROVE  lines'[j].after < i
    BY <1>1, <2>3 DEF DuplicatesOverlap
  <2>4. CASE ended
    <3>1. i \in 1..Len(lines) /\ lines'[i] = lines[i]
      BY <1>1, <1>3, <2>2, <2>4, AddedLines
    <3>2. CASE j \in 1..Len(lines)
      BY <1>3, <2>3, <2>4, <3>1, <3>2, AddedLines
    <3>3. CASE j \notin 1..Len(lines)
      <4>1. lines'[j] = l
        BY <1>1, <1>3, <2>2, <2>4, <3>3, AddedLines
      <4>2. PICK p \in Procs : pc[p] = "write" /\ l = pending[p]
        BY <1>3, <2>1, <4>1
      <4>3. i \notin 1..pending[p].after
        BY <3>1, <4>1, <4>2 DEF PendingIsFresh
      <4>4. pending[p].after \in Nat
        BY <1>3, <4>2 DEF Line
      <4>. QED
        BY <1>1, <3>1, <4>1, <4>2, <4>3, <4>4
    <3>. QED
      BY <3>2, <3>3
  <2>5. CASE ~ended
    <3>1. /\ Len(lines) \in Nat \ {0}
          /\ Len(lines') = Len(lines)
          /\ \A k \in 1..(Len(lines) - 1) : lines'[k] = lines[k]
          /\ lines'[Len(lines)] = Junk
      BY <1>3, <2>5, AddedLines
    <3>2. i # Len(lines) /\ j # Len(lines)
      BY <2>1, <3>1
    <3>3. i \in 1..(Len(lines) - 1) /\ j \in 1..(Len(lines) - 1)
      BY <2>2, <3>1, <3>2
    <3>. QED
      BY <2>3, <3>1, <3>3
  <2>. QED
    BY <2>4, <2>5
<1>. QED
  BY <1>2, <1>3, EveryFileStep DEF FileStep

-----------------------------------------------------------------------------
(***************************************************************************)
(* Losses.                                                                 *)
(***************************************************************************)

\* What an added line does to the ids that are safe.
LEMMA AddedSafe ==
  ASSUME TypeOK, NEW l \in Line, lines' = Added(l), ended' \in BOOLEAN
  PROVE  Safe' = IF ended /\ ended' THEN (Safe \cup {l.id}) \ {Unparsable} ELSE Safe
<1>1. lines \in Seq(Line) /\ Len(lines) \in Nat
  BY DEF TypeOK
<1>2. CASE ended /\ ended'
  <2>1. 1..Len(lines') = 1..Len(lines) \cup {Len(lines) + 1}
    BY <1>1, <1>2, AddedLines
  <2>2. Safe' = {lines'[i].id : i \in 1..Len(lines')} \ {Unparsable}
    BY <1>2 DEF Safe
  <2>3. Safe = {lines[i].id : i \in 1..Len(lines)} \ {Unparsable}
    BY <1>2 DEF Safe
  <2>4. /\ \A i \in 1..Len(lines) : lines'[i] = lines[i]
        /\ lines'[Len(lines) + 1] = l
    BY <1>2, AddedLines
  <2>. QED
    BY <1>2, <2>1, <2>2, <2>3, <2>4
<1>3. CASE ended /\ ~ended'
  <2>1. Len(lines') - 1 = Len(lines) /\ \A i \in 1..Len(lines) : lines'[i] = lines[i]
    BY <1>1, <1>3, AddedLines
  <2>2. Safe' = {lines'[i].id : i \in 1..Len(lines)} \ {Unparsable}
    BY <1>3, <2>1 DEF Safe
  <2>3. Safe = {lines[i].id : i \in 1..Len(lines)} \ {Unparsable}
    BY <1>3 DEF Safe
  <2>. QED
    BY <1>3, <2>1, <2>2, <2>3
<1>4. CASE ~ended /\ ~ended'
  <2>1. /\ Len(lines') = Len(lines)
        /\ \A i \in 1..(Len(lines) - 1) : lines'[i] = lines[i]
    BY <1>4, AddedLines
  <2>2. Safe' = {lines'[i].id : i \in 1..(Len(lines) - 1)} \ {Unparsable}
    BY <1>4, <2>1 DEF Safe
  <2>3. Safe = {lines[i].id : i \in 1..(Len(lines) - 1)} \ {Unparsable}
    BY <1>4 DEF Safe
  <2>. QED
    BY <1>4, <2>1, <2>2, <2>3
<1>5. CASE ~ended /\ ended'
  <2>1. /\ Len(lines') = Len(lines) /\ Len(lines) \in Nat \ {0}
        /\ \A i \in 1..(Len(lines) - 1) : lines'[i] = lines[i]
        /\ lines'[Len(lines)].id = Unparsable
    BY <1>5, AddedLines DEF Junk
  <2>2. Safe' = {lines'[i].id : i \in 1..Len(lines)} \ {Unparsable}
    BY <1>5, <2>1 DEF Safe
  <2>3. Safe = {lines[i].id : i \in 1..(Len(lines) - 1)} \ {Unparsable}
    BY <1>5 DEF Safe
  <2>4. 1..Len(lines) = 1..(Len(lines) - 1) \cup {Len(lines)}
    BY <2>1
  <2>. QED
    BY <1>5, <2>1, <2>2, <2>3, <2>4
<1>. QED
  BY <1>2, <1>3, <1>4, <1>5

\* A step loses no more acknowledged records than it uses up faults.
LEMMA SafeLossIsBoundedStep ==
  ASSUME TypeOK, SafeLossIsBounded, [Next]_vars
  PROVE  SafeLossIsBounded'
<1> DEFINE lost == acknowledged \ Safe
           open == IF ended THEN 0 ELSE 1
<1>1. /\ IsFiniteSet(acknowledged)
      /\ IsFiniteSet(lost)
      /\ Cardinality(lost) \in Nat
  BY FS_Subset, FS_CardinalityType DEF SafeLossIsBounded
<1>2. /\ ended \in BOOLEAN
      /\ left.faults \in Nat /\ MaxFaults \in Nat
      /\ Cardinality(lost) + open <= MaxFaults - left.faults
  BY BoundsAssumption DEF TypeOK, SafeLossIsBounded
<1>3. ASSUME UNCHANGED <<lines, ended, acknowledged>>,
             left'.faults = left.faults \/ left'.faults = left.faults - 1
      PROVE  SafeLossIsBounded'
  <2>1. Safe' = Safe
    BY <1>3 DEF Safe
  <2>. QED
    BY <1>1, <1>2, <1>3, <2>1 DEF SafeLossIsBounded
<1>4. CASE UNCHANGED vars
  BY <1>3, <1>4 DEF vars
<1>5. ASSUME NEW p \in Procs, NEW d \in Ids, Start(p, d)
      PROVE  SafeLossIsBounded'
  BY <1>3, <1>5 DEF Start, TypeOK
<1>6. ASSUME NEW p \in Procs, NEW d \in Ids, StartUnread(p, d)
      PROVE  SafeLossIsBounded'
  BY <1>3, <1>6 DEF StartUnread, TypeOK
<1>7. ASSUME NEW p \in Procs, Write(p)
      PROVE  SafeLossIsBounded'
  <2> DEFINE d == pending[p].id
  <2>1. /\ pending[p] \in Line /\ lines' = Added(pending[p]) /\ ended' = TRUE
        /\ acknowledged' = acknowledged \cup {d}
        /\ d # Unparsable
        /\ left' = left
    BY <1>7, IdsAssumption DEF Write, TypeOK
  <2>2. IsFiniteSet(acknowledged') /\ IsFiniteSet(lost \cup {d})
    BY <1>1, <2>1, FS_AddElement
  <2>3. CASE ended
    <3>1. Safe' = (Safe \cup {d}) \ {Unparsable}
      BY <2>1, <2>3, AddedSafe
    <3>2. (acknowledged \ Safe)' \subseteq lost
      BY <2>1, <3>1 DEF Safe
    <3>3. Cardinality((acknowledged \ Safe)') <= Cardinality(lost)
          /\ Cardinality((acknowledged \ Safe)') \in Nat
      BY <1>1, <3>2, FS_Subset, FS_CardinalityType
    <3>. QED
      BY <1>1, <1>2, <2>1, <2>2, <2>3, <3>3 DEF SafeLossIsBounded
  <2>4. CASE ~ended
    <3>1. Safe' = Safe
      BY <2>1, <2>4, AddedSafe
    <3>2. (acknowledged \ Safe)' \subseteq lost \cup {d}
      BY <2>1, <3>1
    <3>3. Cardinality(lost \cup {d}) <= Cardinality(lost) + 1
      BY <1>1, FS_AddElement
    <3>4. /\ Cardinality((acknowledged \ Safe)') <= Cardinality(lost \cup {d})
          /\ Cardinality((acknowledged \ Safe)') \in Nat
          /\ Cardinality(lost \cup {d}) \in Nat
      BY <2>2, <3>2, FS_Subset, FS_CardinalityType
    <3>. QED
      BY <1>1, <1>2, <2>1, <2>2, <2>4, <3>3, <3>4 DEF SafeLossIsBounded
  <2>. QED
    BY <2>3, <2>4
<1>8. ASSUME NEW p \in Procs, WriteFails(p)
      PROVE  SafeLossIsBounded'
  <2>1. left'.faults = left.faults - 1 /\ acknowledged' = acknowledged
    BY <1>8 DEF WriteFails, TypeOK
  <2>2. CASE UNCHANGED <<lines, ended>>
    BY <1>3, <2>1, <2>2
  <2>3. ASSUME NEW l \in Line, lines' = Added(l), ended' = FALSE
        PROVE  SafeLossIsBounded'
    <3>1. Safe' = Safe
      BY <2>3, AddedSafe
    <3>. QED
      BY <1>1, <1>2, <2>1, <2>3, <3>1 DEF SafeLossIsBounded
  <2>4. Junk \in Line /\ pending[p] \in Line
    BY DEF Junk, Line, TypeOK
  <2>. QED
    BY <1>8, <2>2, <2>3, <2>4 DEF WriteFails
<1>9. ASSUME NEW p \in Procs, Crash(p)
      PROVE  SafeLossIsBounded'
  <2>1. left'.faults = left.faults /\ acknowledged' = acknowledged
    BY <1>9 DEF Crash, TypeOK
  <2>2. CASE UNCHANGED <<lines, ended>>
    BY <1>3, <2>1, <2>2
  <2>3. CASE lines' = Added(pending[p]) /\ ended' = TRUE
    <3>1. pending[p] \in Line
      BY DEF TypeOK
    <3>2. Safe' = IF ended THEN (Safe \cup {pending[p].id}) \ {Unparsable} ELSE Safe
      BY <2>3, <3>1, AddedSafe
    <3>3. (acknowledged \ Safe)' \subseteq lost
      BY <2>1, <3>2 DEF Safe
    <3>4. Cardinality((acknowledged \ Safe)') <= Cardinality(lost)
          /\ Cardinality((acknowledged \ Safe)') \in Nat
      BY <1>1, <3>3, FS_Subset, FS_CardinalityType
    <3>. QED
      BY <1>1, <1>2, <2>1, <2>3, <3>4 DEF SafeLossIsBounded
  <2>. QED
    BY <1>9, <2>2, <2>3 DEF Crash
<1>. QED
  BY <1>4, <1>5, <1>6, <1>7, <1>8, <1>9 DEF Next

-----------------------------------------------------------------------------
\* The invariant holds at the start, and every step keeps it.
THEOREM Invariance == Spec => []IInv
<1>1. Init => IInv
  <2>. SUFFICES ASSUME Init PROVE IInv
    OBVIOUS
  <2>1. TypeOK
    BY BoundsAssumption DEF Init, TypeOK, Line, Junk
  <2>2. PendingIsFresh
    BY DEF Init, PendingIsFresh
  <2>3. DuplicatesOverlap
    BY DEF Init, DuplicatesOverlap
  <2>4. SafeLossIsBounded
    <3>1. acknowledged = {} /\ ended = TRUE /\ left.faults = MaxFaults
      BY DEF Init
    <3>2. acknowledged \ Safe = {}
      BY <3>1
    <3>. QED
      BY <3>1, <3>2, FS_EmptySet, BoundsAssumption DEF SafeLossIsBounded
  <2>. QED
    BY <2>1, <2>2, <2>3, <2>4 DEF IInv
<1>2. IInv /\ [Next]_vars => IInv'
  BY TypeOKStep, PendingIsFreshStep, DuplicatesOverlapStep, SafeLossIsBoundedStep
  DEF IInv
<1>. QED
  BY <1>1, <1>2, PTL DEF Spec

\* The file and the processes hold what the code puts there.
THEOREM TypeCorrect == Spec => []TypeOK
BY Invariance, PTL DEF IInv

\* Two records of one id come from appends that overlap.
THEOREM DuplicatesAreRaces == Spec => []DuplicatesOverlap
BY Invariance, PTL DEF IInv

\* Each fault costs at most one decision whose append has returned.
THEOREM FaultsCostOneEach == Spec => []LossIsBounded
<1>1. IInv => LossIsBounded
  <2>. SUFFICES ASSUME IInv PROVE LossIsBounded
    OBVIOUS
  <2>1. lines \in Seq(Line) /\ ended \in BOOLEAN /\ left.faults \in Nat /\ MaxFaults \in Nat
    BY BoundsAssumption DEF IInv, TypeOK
  <2>2. Safe \subseteq Readable
    BY <2>1 DEF Safe, Readable
  <2>3. IsFiniteSet(acknowledged \ Safe)
    BY FS_Subset DEF IInv, SafeLossIsBounded
  <2>4. acknowledged \ Readable \subseteq acknowledged \ Safe
    BY <2>2
  <2>5. /\ Cardinality(acknowledged \ Readable) <= Cardinality(acknowledged \ Safe)
        /\ Cardinality(acknowledged \ Readable) \in Nat
        /\ Cardinality(acknowledged \ Safe) \in Nat
    BY <2>3, <2>4, FS_Subset, FS_CardinalityType
  <2>. QED
    BY <2>1, <2>5 DEF IInv, SafeLossIsBounded, LossIsBounded
<1>. QED
  BY <1>1, Invariance, PTL

-----------------------------------------------------------------------------
\* A record that counts goes on counting, whatever is added after a finished
\* line.
THEOREM RecordsAreNeverReplaced == Spec => RecordsStand
<1>1. TypeOK /\ [Next]_vars => [ended => Accepted \subseteq Accepted']_vars
  <2>. SUFFICES ASSUME TypeOK, [Next]_vars, ended
                PROVE  Accepted \subseteq Accepted'
    OBVIOUS
  <2>1. lines \in Seq(Line) /\ Accepted \subseteq DOMAIN lines
    BY DEF TypeOK, Accepted
  <2>2. CASE UNCHANGED <<lines, ended>>
    BY <2>2 DEF Accepted
  <2>3. ASSUME NEW l \in Line, lines' = Added(l)
        PROVE  Accepted \subseteq Accepted'
    <3>1. /\ lines' \in Seq(Line) /\ Len(lines') = Len(lines) + 1
          /\ \A i \in 1..Len(lines) : lines'[i] = lines[i]
      BY <2>3, AddedLines
    <3>2. \A i \in DOMAIN lines : /\ i \in DOMAIN lines'
                                  /\ i \in 1..Len(lines)
                                  /\ \A j \in 1..(i - 1) : j \in 1..Len(lines)
      BY <2>1, <3>1
    <3>. QED
      BY <2>1, <3>1, <3>2 DEF Accepted
  <2>. QED
    BY <2>2, <2>3, EveryFileStep DEF FileStep
<1>. QED
  BY <1>1, TypeCorrect, PTL DEF Spec, RecordsStand

\* A memory that does not read without errors never will.
THEOREM ErrorsAreForGood == Spec => BrokenForGood
<1>1. TypeOK /\ [Next]_vars => [Errors # {} => Errors' # {}]_vars
  <2>. SUFFICES ASSUME TypeOK, [Next]_vars, NEW i \in Errors
                PROVE  Errors' # {}
    OBVIOUS
  <2>1. lines \in Seq(Line) /\ i \in DOMAIN lines /\ i \in 1..Len(lines)
    BY DEF TypeOK, Errors
  <2>2. lines[i].id = Unparsable \/ \E j \in 1..(i - 1) : lines[j].id = lines[i].id
    BY <2>1 DEF Errors, Accepted
  <2>3. CASE UNCHANGED <<lines, ended>>
    BY <2>1, <2>3 DEF Errors, Accepted
  <2>4. ASSUME NEW l \in Line, lines' = Added(l)
        PROVE  Errors' # {}
    <3>1. lines' \in Seq(Line)
      BY <2>4, AddedLines
    <3>2. CASE ended
      <4>1. /\ Len(lines') = Len(lines) + 1
            /\ \A k \in 1..Len(lines) : lines'[k] = lines[k]
        BY <2>4, <3>2, AddedLines
      <4>2. i \in DOMAIN lines' /\ lines'[i] = lines[i]
        BY <2>1, <3>1, <4>1
      <4>3. \A j \in 1..(i - 1) : lines'[j] = lines[j]
        BY <2>1, <4>1
      <4>4. i \notin Accepted'
        BY <2>2, <4>2, <4>3 DEF Accepted
      <4>. QED
        BY <4>2, <4>4 DEF Errors
    <3>3. CASE ~ended
      <4>1. /\ Len(lines) \in Nat \ {0} /\ Len(lines') = Len(lines)
            /\ lines'[Len(lines)].id = Unparsable
        BY <2>4, <3>3, AddedLines DEF Junk
      <4>2. Len(lines) \in DOMAIN lines'
        BY <3>1, <4>1
      <4>. QED
        BY <4>1, <4>2 DEF Errors, Accepted
    <3>. QED
      BY <3>2, <3>3
  <2>. QED
    BY <2>3, <2>4, EveryFileStep DEF FileStep
<1>. QED
  BY <1>1, TypeCorrect, PTL DEF Spec, BrokenForGood

-----------------------------------------------------------------------------
\* A lone writer on a machine without faults: its file has no errors, and what
\* it is about to append is not there yet.
Alone(p) ==
  /\ ended
  /\ Errors = {}
  /\ pc[p] = "write" => pending[p].id \notin Readable

\* Only other processes and faults make the memory unreadable: one process by
\* itself, killed however often, keeps a file list() and get_memory accept.
THEOREM LoneWriterKeepsListWorking ==
  ASSUME NEW p, Procs = {p}, MaxFaults = 0
  PROVE  Spec => []ListWorks
<1>1. Init => Alone(p)
  BY DEF Init, Alone, Errors
<1>2. TypeOK /\ Alone(p) /\ [Next]_vars => Alone(p)'
  <2>. SUFFICES ASSUME TypeOK, Alone(p), [Next]_vars
                PROVE  Alone(p)'
    OBVIOUS
  <2>1. /\ lines \in Seq(Line) /\ p \in Procs
        /\ ~(left.faults > 0)
    BY DEF TypeOK
  <2>2. CASE UNCHANGED vars
    BY <2>2 DEF vars, Alone, Errors, Accepted, Readable
  <2>3. ASSUME NEW d \in Ids, Start(p, d)
        PROVE  Alone(p)'
    <3>1. Errors' = Errors /\ Readable' = Readable
      BY <2>3 DEF Start, Errors, Accepted, Readable
    <3>2. CASE Refused(d)
      BY <2>3, <3>1, <3>2 DEF Start, Alone
    <3>3. CASE ~Refused(d)
      BY <2>1, <2>3, <3>1, <3>3 DEF Start, Alone, Refused, TypeOK
    <3>. QED
      BY <3>2, <3>3
  <2>4. ASSUME pc[p] = "write", lines' = Added(pending[p]), ended' = TRUE,
               pc'[p] = "idle"
        PROVE  Alone(p)'
    <3>1. /\ pending[p] \in Line /\ pending[p].id # Unparsable
          /\ pending[p].id \notin Readable
      BY <2>1, <2>4, IdsAssumption DEF TypeOK, Alone
    <3>2. /\ lines' \in Seq(Line) /\ Len(lines') = Len(lines) + 1
          /\ \A i \in 1..Len(lines) : lines'[i] = lines[i]
          /\ lines'[Len(lines) + 1] = pending[p]
      BY <2>4, <3>1, AddedLines DEF Alone
    <3>3. \A i \in 1..Len(lines) :
            /\ lines[i].id # Unparsable
            /\ \A j \in 1..(i - 1) : lines[j].id # lines[i].id
      BY <2>1 DEF Alone, Errors, Accepted
    <3>4. \A i \in 1..Len(lines) : lines[i].id # pending[p].id
      BY <2>1, <3>1 DEF Readable
    <3>5. ASSUME NEW i \in 1..(Len(lines) + 1)
          PROVE  /\ lines'[i].id # Unparsable
                 /\ \A j \in 1..(i - 1) : lines'[j].id # lines'[i].id
      <4>1. CASE i \in 1..Len(lines)
        <5>1. \A j \in 1..(i - 1) : j \in 1..Len(lines)
          BY <2>1, <4>1
        <5>. QED
          BY <3>2, <3>3, <4>1, <5>1
      <4>2. CASE i = Len(lines) + 1
        <5>1. \A j \in 1..(i - 1) : j \in 1..Len(lines)
          BY <2>1, <4>2
        <5>. QED
          BY <3>1, <3>2, <3>4, <4>2, <5>1
      <4>. QED
        BY <2>1, <4>1, <4>2
    <3>6. DOMAIN lines' = 1..(Len(lines) + 1)
      BY <3>2
    <3>7. Errors' = {}
      BY <3>5, <3>6 DEF Errors, Accepted
    <3>. QED
      BY <2>4, <3>7 DEF Alone
  <2>5. CASE Write(p)
    BY <2>1, <2>4, <2>5 DEF Write, TypeOK
  <2>6. CASE Crash(p)
    <3>1. pc[p] = "write" /\ pc'[p] = "idle"
      BY <2>1, <2>6 DEF Crash, TypeOK
    <3>2. CASE UNCHANGED <<lines, ended>>
      BY <3>1, <3>2 DEF Alone, Errors, Accepted
    <3>. QED
      BY <2>4, <2>6, <3>1, <3>2 DEF Crash
  <2>7. ~WriteFails(p) /\ \A d \in Ids : ~StartUnread(p, d)
    BY <2>1 DEF WriteFails, StartUnread
  <2>. QED
    BY <2>2, <2>3, <2>5, <2>6, <2>7 DEF Next
<1>3. Alone(p) => ListWorks
  BY DEF Alone, ListWorks
<1>. QED
  BY <1>1, <1>2, <1>3, TypeCorrect, PTL DEF Spec
=============================================================================
