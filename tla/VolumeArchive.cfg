CONSTANTS
  Path <- TwoFiles
  Faults = {"inspect", "read", "rpc", "create", "write"}
  Events = {"overwrite", "append", "truncate", "remove"}
  MaxLen = 3
  MaxVer = 3
SPECIFICATION Spec
INVARIANTS TypeOK VolumeIsArchive Converges
PROPERTIES NeverOlder
