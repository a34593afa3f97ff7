CONSTANTS
  Driver = {"PF", "throughput"}
  Bandwidth <- TwoLimits
  ContainerList <- OneImage
  Iteration = 1
  Faults = {"rpc", "rename"}
  TcFaults <- NotDeleted
  Events = {"kill"}
  MaxSession = 2
  MaxLost = 1
SPECIFICATION Spec
INVARIANTS UnderLimit OutcomePredicted Recorded
