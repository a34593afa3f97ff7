CONSTANTS
  Node = {n1, n2}
  Name = {c1}
  Slot = {t1, t2}
  LocalVolume = {}
  NfsBind = {c1}
  Launched = Launched
  NoCall = NoCall
  Faults = {"pull", "findmnt", "volume", "checkpoint"}
  Events = {}
  MaxMem = 2
SPECIFICATION FairSpec
PROPERTIES Landing
