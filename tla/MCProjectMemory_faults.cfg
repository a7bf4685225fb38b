\* Two processes, two decisions and one that is malformed, two faults, one kill.
SPECIFICATION Spec
CONSTANTS
  p1 = p1
  p2 = p2
  adr1 = adr1
  adr2 = adr2
  bad = bad
  Procs = {p1, p2}
  Ids = {adr1, adr2, bad}
  Malformed = {bad}
  Unparsable = Unparsable
  MaxAppends = 6
  MaxFaults = 2
  MaxCrashes = 1
SYMMETRY Symmetry
CHECK_DEADLOCK FALSE
INVARIANTS
  TypeOK
  LossIsBounded
  DuplicatesOverlap
PROPERTIES
  RecordsStand
  BrokenForGood
