\* Two processes, any interleaving, one failing step and one kill.
SPECIFICATION Spec
CONSTANTS
  storage = storage
  auth = auth
  deploy = deploy
  claim = claim
  adr = adr
  p1 = p1
  p2 = p2
  FactQuestions = {storage, auth}
  SignalQuestions = {}
  ClaimQuestions = {}
  Score <- MCScore
  RankKey <- MCRankKey
  QuestionLimit = 2
  Procs = {p1, p2}
  Decisions = {adr}
  Commands <- ConcurrentCommands
  Evidence <- ConcurrentEvidence
  Artifacts <- TwoReports
  MaxTime = 3
  MaxCommands = 3
  MaxFaults = 1
  MaxCrashes = 1
SYMMETRY Symmetry
CHECK_DEADLOCK FALSE
INVARIANTS
  TypeOK
  InFlightIsBacked
  ReportsShowOnlyStored
  DurableIsStored
PROPERTIES
  LedgerSpec
