CONSTANTS
  Node = {n1, n2}
  Name = {c1}
  Slot = {t1, t2}
  LocalVolume = {c1}
  NfsBind = {}
  Launched = Launched
  NoCall = NoCall
  Faults = {"rpc", "pull", "stream", "findmnt", "volume", "checkpoint", "archive", "record", "create", "extract", "start"}
  Events = {"crash", "exit", "prune"}
  MaxMem = 2
SPECIFICATION Spec
SYMMETRY Symmetry
INVARIANTS TypeOK SingleInstance VolumeNotAhead
PROPERTIES HandoffSpec
