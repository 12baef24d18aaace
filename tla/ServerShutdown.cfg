\* One server, its calls and its relay, told to stop.
SPECIFICATION FairServer
CONSTANTS
  Instances = {s1}
  NumTasks = 2
  OrderOf <- MCSameOrder
  BatchLimit = 1
  JobsCount = 1
  Faults = {"database", "signal"}
INVARIANTS
  ServerTypeOK
  OkMeansAdded
  OrderAcrossBatches
PROPERTIES
  CutOnlyOverdue
  StuckOnlyInSend
  ClaimedWhilePolled
CHECK_DEADLOCK FALSE
