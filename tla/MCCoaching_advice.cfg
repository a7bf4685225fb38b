CONSTANTS
  Events <- MCEvents
  Outcomes <- MCOutcomes
  MaxCollectors = 3
  Sent <- MCSent
  DebtConcerns = {"data_storage", "deployment"}
  Texts = {"persistence"}
  Conditions <- MCConditions
  Ids <- MCIds
SPECIFICATION Spec
INVARIANTS
  TypeOK
  FirmAdviceIsCorroborated
  FactsRestOnPresentEvidence
  WeakEvidenceIsProvisional
  ReopenedDebtIsRaised
  OrderDoesNotMatter
