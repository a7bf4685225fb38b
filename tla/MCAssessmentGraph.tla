------------------------- MODULE MCAssessmentGraph -------------------------
(* Instances of AssessmentGraph for TLC. *)
EXTENDS AssessmentGraph

\* A first page of ten ends within the questions.
MCFindings ==
  {Node("diagnostic", "0:missing", 2), Node("claim", "claim-b", 5), Node("claim", "claim-a", 5),
   Node("concern", "unknown", 20), Node("fact", "fact-1", 24),
   Node("evidence", "0", 30), Node("evidence", "1", 31)}

MCLinks ==
  {<<<<"evidence", "0">>, <<"claim", "claim-a">>>>,
   <<<<"claim", "claim-a">>, <<"concern", "unknown">>>>,
   <<<<"concern", "unknown">>, <<"question", "q2">>>>}

MCAssessments ==
  {[questions |-> <<"q1", "q4">>, next |-> {}, findings |-> {Node("fact", "fact-1", 24)},
    links |-> {}]}

MCKeyRank ==
  [key \in {"0:missing", "claim-a", "claim-b"} |-> IF key = "claim-b" THEN 2 ELSE 1]

MCHistory ==
  [runs |-> <<[previous |-> 0, open |-> <<"q1", "q2", "q3">>, next |-> {"q4"},
               findings |-> MCFindings, links |-> MCLinks]>>,
   answers |-> <<[question |-> "q3", status |-> "skipped", run |-> 1]>>,
   decisions |-> <<[id |-> "d1", run |-> 1]>>]
=============================================================================
