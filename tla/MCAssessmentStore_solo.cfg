\* One process that fails, is killed and starts again; three of the seven reports.
SPECIFICATION Spec
CONSTANTS
  storage = storage
  auth = auth
  deploy = deploy
  claim = claim
  adr = adr
  p1 = p1
  p2 = p2
  FactQuestions = {storage, auth}
  SignalQuestions = {deploy}
  ClaimQuestions = {claim}
  Score <- MCScore
  RankKey <- MCRankKey
  QuestionLimit = 2
  Procs = {p1}
  Decisions = {adr}
  Commands <- SoloCommands
  Evidence <- SoloEvidence
  Artifacts <- ThreeReports
  MaxTime = 3
  MaxCommands = 4
  MaxFaults = 1
  MaxCrashes = 1
CHECK_DEADLOCK FALSE
INVARIANTS
  DurableRepairsReports
  NotAskedAgain
  OpenQuestionsAreCandidates
