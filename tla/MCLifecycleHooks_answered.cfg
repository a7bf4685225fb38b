\* Questions answered during the session.
SPECIFICATION Spec
CONSTANTS
  auth = auth
  testing = testing
  Questions = {auth, testing}
  HighRisk = {auth}
  Hosts = {"claude", "codex"}
  Situations <- MCSituations
  MayBeMalformed = {}
  MaxBlocks = 3
PROPERTIES
  AnsweredDoesNotBlock
