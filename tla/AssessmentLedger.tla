-------------------------- MODULE AssessmentLedger --------------------------
(***************************************************************************)
(* What the durable store promises its callers, whatever processes work on *)
(* it and wherever they stop: a ledger of assessment runs, answers and     *)
(* decisions to which each command adds at most one entry, in one step.    *)
(* Nothing recorded is ever changed or lost; the latest run is always the  *)
(* one recorded last; a run continues a run recorded, and captured, before *)
(* it; an answer is only ever recorded to a question that a recorded run   *)
(* asked.  AssessmentStore, with its interleaved statements, failures and  *)
(* crashes, implements this module.                                        *)
(***************************************************************************)
EXTENDS Naturals

CONSTANTS
  RunRecord,       \* records with at least the fields previous and open
  AnswerRecord,    \* records with at least the fields question, at and run
  DecisionRecord   \* records with at least the field id

VARIABLES runs, latest, answers, decisions

ledgerVars == <<runs, latest, answers, decisions>>

\* Runs are named by the instant of their capture, which is never 0.
NoRun == 0

Init ==
  /\ runs = << >>
  /\ latest = NoRun
  /\ answers = {}
  /\ decisions = {}

RecordRun ==
  /\ latest' \in Nat \ (DOMAIN runs \cup {NoRun})
  /\ DOMAIN runs' = DOMAIN runs \cup {latest'}
  /\ \A id \in DOMAIN runs : runs'[id] = runs[id]
  /\ runs'[latest'] \in RunRecord
  /\ runs'[latest'].previous \in DOMAIN runs \cup {NoRun}
  /\ runs'[latest'].previous < latest'
  /\ UNCHANGED <<answers, decisions>>

RecordAnswer ==
  /\ \E a \in answers' \ answers :
       /\ answers' = answers \cup {a}
       /\ a \in AnswerRecord
       /\ a.run \in DOMAIN runs
       /\ a.question \in runs[a.run].open
       /\ \A b \in answers : ~(b.question = a.question /\ b.at = a.at)
  /\ UNCHANGED <<runs, latest, decisions>>

RecordDecision ==
  /\ \E d \in decisions' \ decisions :
       /\ decisions' = decisions \cup {d}
       /\ d \in DecisionRecord
       /\ d.run \in DOMAIN runs
       /\ \A c \in decisions : c.id # d.id
  /\ UNCHANGED <<runs, latest, answers>>

Next == RecordRun \/ RecordAnswer \/ RecordDecision

Spec == Init /\ [][Next]_ledgerVars
=============================================================================
