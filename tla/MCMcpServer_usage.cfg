\* A walk of the usage log while hooks and calls add to it.
SPECIFICATION Spec
CONSTANTS
  DefaultPage = 50
  LargestPage = 200
  AllSessions = "all"
  Lines <- MCLines
  Hooks <- MCHooks
  HookKey <- MCHookKey
  Query <- MCQuery
  Keys = {0, 1, 2, 3}
  FirstMcpKey = 1
  MaxTime = 2
  MaxSent = 2
INVARIANTS TypeOK WalkOmitsNothing WalkRepeatsOnlyAfterBackdating
PROPERTY RequestsAreAnswered
CHECK_DEADLOCK FALSE
