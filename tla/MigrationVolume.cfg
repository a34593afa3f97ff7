CONSTANTS
  Node = {n1, n2}
  Name = {c1}
  Slot = {t1}
  LocalVolume = {c1}
  NfsBind = {}
  Launched = Launched
  NoCall = NoCall
  Faults = {}
  Events = {}
  MaxMem = 3
SPECIFICATION Spec
PROPERTIES RestoredWithVolume
