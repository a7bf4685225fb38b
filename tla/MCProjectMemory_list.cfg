\* Two processes and no faults at all.
SPECIFICATION Spec
CONSTANTS
  p1 = p1
  p2 = p2
  adr1 = adr1
  adr2 = adr2
  bad = bad
  Procs = {p1, p2}
  Ids = {adr1, adr2, bad}
  Malformed = {bad}
  Unparsable = Unparsable
  MaxAppends = 4
  MaxFaults = 0
  MaxCrashes = 0
CHECK_DEADLOCK FALSE
INVARIANTS
  ListWorks
