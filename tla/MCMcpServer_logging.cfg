\* One line of every kind.
SPECIFICATION Spec
CONSTANTS
  DefaultPage = 50
  LargestPage = 200
  AllSessions = "all"
  Lines <- MCAllLines
  Hooks = {}
  HookKey <- MCNoKey
  Query <- MCQuery
  Keys = {1, 2}
  FirstMcpKey = 1
  MaxTime = 1
  MaxSent = 1
INVARIANT LoggingNeverAltersTheReply
CHECK_DEADLOCK FALSE
