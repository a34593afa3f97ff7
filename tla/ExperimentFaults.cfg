CONSTANTS
  Driver = {"PF", "throughput", "groundtruth"}
  Bandwidth <- TwoLimits
  ContainerList <- OneImage
  Iteration = 1
  Faults = {"rpc", "reset", "run", "pull", "start", "rename", "disk"}
  TcFaults = {}
  Events = {"kill", "crash", "exit"}
  MaxSession = 2
  MaxLost = 0
SPECIFICATION FairSpec
PROPERTIES DriverEnds
INVARIANTS TypeOK HeaderFirst RecordsThisRun Recorded
