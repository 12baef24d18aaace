\* A server is told to stop.
SPECIFICATION FairSpec
CONSTANTS
  Instances = {s1}
  NumTasks = 1
  OrderOf <- MCSameOrder
  BatchLimit = 2
  JobsCount = 5
  Faults = {"signal"}
PROPERTIES
  ShutdownCompletes
CHECK_DEADLOCK FALSE
