CONSTANTS
  d1 = d1
  d2 = d2
  s1 = s1
  s2 = s2
  s3 = s3
  Dir = {d1}
  Export = {e1, e2}
  Slot = {s1, s2, s3}
  DirOf <- Crowd
  Faults = {"findmnt", "umount", "rm", "mkdir", "mount"}
SPECIFICATION Spec
INVARIANTS LayersBounded
