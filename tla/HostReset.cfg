CONSTANTS
  Slot = {h1}
  Name = {c1}
  Faults = {"kill", "record"}
  Events = {"crash"}
  Flaky <- Command
  MaxFail = 2
SPECIFICATION FairSpec
INVARIANTS TypeOK RecordComplete HostWiped
PROPERTIES CallsEnd FilesUnderContainer
