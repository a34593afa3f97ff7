CONSTANTS
  Node = {n1, n2}
  Name = {c1}
  Slot = {t1}
  LocalVolume = {}
  NfsBind = {}
  Launched = Launched
  NoCall = NoCall
  Faults = {}
  Events = {}
  MaxMem = 2
SPECIFICATION Spec
PROPERTIES WorkloadSurvives
