CONSTANTS
  d1 = d1
  d2 = d2
  s1 = s1
  s2 = s2
  s3 = s3
  Dir = {d1}
  Export = {e1}
  Slot = {s1, s2}
  DirOf <- Together
  Faults = {}
SPECIFICATION Spec
INVARIANTS ExportIntact
