--------------------------- MODULE ProjectMemory ---------------------------
(***************************************************************************)
(* The project's decision memory: .archcoach/memory.jsonl, one record per  *)
(* line, appended to by processes that do not know of each other (the      *)
(* architecture.record_decision tool of several MCP servers, scripts).     *)
(*                                                                         *)
(* ProjectMemoryStore.append reads the whole file, refuses an id it finds  *)
(* there, and then appends one line; another process may append in         *)
(* between.  A write may also fail, having written nothing, part of the    *)
(* line, or all of it but its newline; the file may be unreadable for a    *)
(* moment, which append does not distinguish from an empty one; and a      *)
(* process may be killed before it tells its caller that it has written.   *)
(*                                                                         *)
(* A record is its id; the other fields only decide whether it is well     *)
(* formed.  Blank lines are left out.                                      *)
(***************************************************************************)
EXTENDS Naturals, Sequences, FiniteSets

CONSTANTS
  Procs,       \* processes that append
  Ids,         \* decision ids of the records they append
  Malformed,   \* the ids whose records validateDecisionRecord refuses
  Unparsable,  \* what stands for the id in a line that does not parse
  MaxAppends,  \* bound: calls of append
  MaxFaults,   \* bound: failed reads and writes
  MaxCrashes   \* bound: processes killed

ASSUME IdsAssumption == Malformed \subseteq Ids /\ Unparsable \notin Ids
ASSUME BoundsAssumption ==
  MaxAppends \in Nat /\ MaxFaults \in Nat /\ MaxCrashes \in Nat

VARIABLES
  lines,         \* the lines of memory.jsonl
  ended,         \* whether the last line, if any, has its newline
  pc,            \* process -> "idle" or "write": the step it takes next
  pending,       \* process -> the record it is about to append
  acknowledged,  \* ids for which some append has returned
  left           \* calls, faults and crashes still within the bounds

vars == <<lines, ended, pc, pending, acknowledged, left>>

\* A line, with the number of lines its writer had read before it wrote.
Line == [id : Ids \cup {Unparsable}, after : Nat]
Junk == [id |-> Unparsable, after |-> 0]

(***************************************************************************)
(* readDecisionMemory: a line counts if it parses and no earlier line has  *)
(* its id; any other line is an error diagnostic.                          *)
(***************************************************************************)
Accepted ==
  {i \in DOMAIN lines :
     /\ lines[i].id # Unparsable
     /\ \A j \in 1..(i - 1) : lines[j].id # lines[i].id}

Errors == DOMAIN lines \ Accepted

Readable == {lines[i].id : i \in DOMAIN lines} \ {Unparsable}

Init ==
  /\ lines = << >>
  /\ ended = TRUE
  /\ pc = [p \in Procs |-> "idle"]
  /\ pending = [p \in Procs |-> Junk]
  /\ acknowledged = {}
  /\ left = [appends |-> MaxAppends, faults |-> MaxFaults, crashes |-> MaxCrashes]

-----------------------------------------------------------------------------
\* Mutant: no validation.
RefusedUnvalidated(d) == d \in Readable

\* Mutant: no look at what is there already.
RefusedUnread(d) == d \in Malformed

Refused(d) == d \in Malformed \/ d \in Readable

\* append validates the record, reads the file and looks for the id.
Start(p, d) ==
  /\ pc[p] = "idle"
  /\ left.appends > 0
  /\ left' = [left EXCEPT !.appends = @ - 1]
  /\ IF Refused(d)
       THEN UNCHANGED <<pc, pending>>
       ELSE /\ pc' = [pc EXCEPT ![p] = "write"]
            /\ pending' = [pending EXCEPT ![p] = [id |-> d, after |-> Len(lines)]]
  /\ UNCHANGED <<lines, ended, acknowledged>>

\* The read fails: no records, and an error diagnostic nobody looks at.
StartUnread(p, d) ==
  /\ pc[p] = "idle"
  /\ left.appends > 0 /\ left.faults > 0
  /\ left' = [left EXCEPT !.appends = @ - 1, !.faults = @ - 1]
  /\ d \notin Malformed
  /\ pc' = [pc EXCEPT ![p] = "write"]
  /\ pending' = [pending EXCEPT ![p] = [id |-> d, after |-> 0]]
  /\ UNCHANGED <<lines, ended, acknowledged>>

-----------------------------------------------------------------------------
\* Mutant: the file is written anew from what the process has read.
AddedToRead(l) ==
  Append(SubSeq(lines, 1, IF l.after < Len(lines) THEN l.after ELSE Len(lines)), l)

\* What follows an unfinished line becomes part of that line.
Added(l) == IF ended THEN Append(lines, l) ELSE [lines EXCEPT ![Len(lines)] = Junk]

\* Mutant: the line is written without its newline.
WriteUnended(p) ==
  /\ pc[p] = "write"
  /\ lines' = Added(pending[p])
  /\ ended' = FALSE
  /\ acknowledged' = acknowledged \cup {pending[p].id}
  /\ pc' = [pc EXCEPT ![p] = "idle"]
  /\ UNCHANGED <<pending, left>>

Write(p) ==
  /\ pc[p] = "write"
  /\ lines' = Added(pending[p])
  /\ ended' = TRUE
  /\ acknowledged' = acknowledged \cup {pending[p].id}
  /\ pc' = [pc EXCEPT ![p] = "idle"]
  /\ UNCHANGED <<pending, left>>

\* The write throws, with nothing, part of the line, or all but the newline in
\* the file.
WriteFails(p) ==
  /\ pc[p] = "write"
  /\ left.faults > 0
  /\ left' = [left EXCEPT !.faults = @ - 1]
  /\ pc' = [pc EXCEPT ![p] = "idle"]
  /\ \/ UNCHANGED <<lines, ended>>
     \/ /\ \E l \in {Junk, pending[p]} : lines' = Added(l)
        /\ ended' = FALSE
  /\ UNCHANGED <<pending, acknowledged>>

\* The process is killed before, or after, its one write call.
Crash(p) ==
  /\ pc[p] = "write"
  /\ left.crashes > 0
  /\ left' = [left EXCEPT !.crashes = @ - 1]
  /\ pc' = [pc EXCEPT ![p] = "idle"]
  /\ \/ UNCHANGED <<lines, ended>>
     \/ lines' = Added(pending[p]) /\ ended' = TRUE
  /\ UNCHANGED <<pending, acknowledged>>

Next ==
  \E p \in Procs :
    \/ \E d \in Ids : Start(p, d) \/ StartUnread(p, d)
    \/ Write(p) \/ WriteFails(p) \/ Crash(p)

Spec == Init /\ [][Next]_vars

-----------------------------------------------------------------------------
\* The file and the processes hold what the code puts there; nothing malformed
\* is on its way into the file.
TypeOK ==
  /\ lines \in Seq(Line)
  /\ ended \in BOOLEAN
  /\ ended \/ lines # << >>
  /\ pc \in [Procs -> {"idle", "write"}]
  /\ pending \in [Procs -> Line]
  /\ \A p \in Procs : pc[p] = "write" => pending[p].id \in Ids \ Malformed
  /\ acknowledged \subseteq Ids
  /\ left \in [appends : 0..MaxAppends, faults : 0..MaxFaults, crashes : 0..MaxCrashes]

\* A decision whose append returned can be read back, whatever the other
\* processes do, except that each fault may cost one: an unfinished line takes
\* the next record with it, and no more.
LossIsBounded ==
  Cardinality(acknowledged \ Readable) + (IF ended THEN 0 ELSE 1)
    <= MaxFaults - left.faults

\* Two lines with one id are the trace of a race: the writer of the later one
\* read the file before the earlier one was there.
DuplicatesOverlap ==
  \A i, j \in DOMAIN lines :
    i < j /\ lines[i].id = lines[j].id /\ lines[i].id # Unparsable =>
      lines[j].after < i

\* The record an id stands for is never replaced: the lines that count go on
\* counting, unless the last of them still lacks its newline.
RecordsStand == [][ended => Accepted \subseteq Accepted']_vars

\* No append ever repairs a memory that list() and get_memory refuse to read.
BrokenForGood == [][Errors # {} => Errors' # {}]_vars

\* memory.test.ts, "rejects duplicate decision IDs": appends alone leave a file
\* that reads without diagnostics.
ListWorks == Errors = {}
=============================================================================
