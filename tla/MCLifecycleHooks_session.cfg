\* A session of each host in each mode; every event but Stop may be malformed.
SPECIFICATION FairSpec
CONSTANTS
  auth = auth
  testing = testing
  Questions = {auth, testing}
  HighRisk = {auth}
  Hosts = {"claude", "codex"}
  Situations <- MCSituations
  MayBeMalformed = {"SessionStart", "UserPromptSubmit", "PostToolBatch", "PreToolUse",
                    "PermissionRequest", "PostToolUse"}
  MaxBlocks = 3
INVARIANTS
  TypeOK
  AdvisoryNeverBlocks
  ModesAreOrdered
  BlockedOncePerTurn
  GateIsPassedKnowingly
PROPERTIES
  TurnsEnd
