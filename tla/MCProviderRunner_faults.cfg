\* Every order of settling, failing and timing out.
SPECIFICATION Spec
CONSTANTS
  none = none
  bad = bad
  nobundle = nobundle
  NoAnswer = none
  Malformed = bad
  NoTelemetry = nobundle
  Order <- MCOrder
  Answers <- MCAnswers
  Timed = TRUE
INVARIANTS TypeOK EvidenceIsWhatWasAwaited FailuresAreVisible InvalidBundlesAreFlagged
PROPERTY RunnerReturns
CHECK_DEADLOCK FALSE
