\* Two captures, two answers and a decision while one client pages.
SPECIFICATION Spec
CONSTANTS
  Questions = {"q1", "q2", "q3", "q4"}
  Decisions = {"d1", "d2"}
  Assessments <- MCAssessments
  KeyRank <- MCKeyRank
  Filters = {{}, {"question", "decision"}}
  Limits = {8}
  History <- MCHistory
  MaxRuns = 3
  MaxAnswers = 2
  Lag = 1
CHECK_DEADLOCK FALSE
INVARIANTS
  TypeOK
  WalksOmitNothing
  OnlyLatestIsRefused
  PagesAreOfOneRun
  CursorsPointAtNodes
  EdgesJoinNodesOrLeadToRuns
