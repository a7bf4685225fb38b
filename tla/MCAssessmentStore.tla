------------------------- MODULE MCAssessmentStore -------------------------
(* Instances of AssessmentStore for TLC. *)
EXTENDS AssessmentStore, TLC

CONSTANTS storage, auth, deploy, claim, p1, p2, adr

\* scoreFact: a data_storage fact of medium confidence, an authentication fact
\* of high confidence that is stale, a claim about deployment, a test signal.
MCScore ==
  [q \in Questions |->
     CASE q = storage -> 120
       [] q = auth -> 110
       [] q = claim -> 138
       [] OTHER -> 80]
MCRankKey == [q \in Questions |->
     CASE q = storage -> 1 [] q = auth -> 2 [] q = claim -> 3 [] OTHER -> 4]

Look(fs, inf, cert, supp, sigs, cls, pass, warn) ==
  [facts |-> fs, inferred |-> inf, certain |-> cert, suppressed |-> supp,
   signals |-> sigs, claims |-> cls, passive |-> pass, warned |-> warn]

\* Two processes: the same two fact questions at every capture, one of which
\* a confirmation settles.
ConcurrentEvidence == {Look({storage, auth}, {storage}, {storage}, {}, {}, {}, FALSE, FALSE)}
ConcurrentCommands ==
  {[kind |-> "capture"],
   [kind |-> "answer", question |-> storage, action |-> "confirm"],
   [kind |-> "decide", decision |-> adr, confirmed |-> TRUE]}

\* One process: a repository that changes between captures.
SoloEvidence ==
  {Look({storage, auth}, {storage}, {storage}, {auth}, {}, {claim}, FALSE, FALSE),
   Look({storage}, {}, {}, {}, {deploy}, {claim}, FALSE, TRUE),
   Look({}, {}, {}, {}, {deploy}, {claim}, FALSE, TRUE),
   Look({storage, auth}, {storage, auth}, {auth}, {}, {}, {}, TRUE, FALSE)}
SoloCommands ==
  {[kind |-> "capture"]}
    \cup [kind : {"answer"}, question : {storage}, action : {"confirm", "correct", "skip"}]
    \cup [kind : {"answer"}, question : {claim}, action : {"mark_temporary"}]
    \cup [kind : {"decide"}, decision : Decisions, confirmed : BOOLEAN]

TwoReports == <<"latest-assessment.json", "questions.json">>
ThreeReports == <<"latest-assessment.json", "questions.json", "changes-since-last.md">>

Symmetry == Permutations({p1, p2})
=============================================================================
