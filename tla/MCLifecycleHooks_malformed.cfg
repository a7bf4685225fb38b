\* The Stop event, too, may be malformed.
SPECIFICATION Spec
CONSTANTS
  auth = auth
  testing = testing
  Questions = {auth, testing}
  HighRisk = {auth}
  Hosts = {"claude", "codex"}
  Situations <- MCSituations
  MayBeMalformed = {"Stop"}
  MaxBlocks = 3
CHECK_DEADLOCK FALSE
INVARIANTS
  BlockedOncePerTurn
