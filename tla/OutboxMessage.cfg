\* What is published, nothing fails.
SPECIFICATION Spec
CONSTANTS
  Instances = {s1}
  NumTasks = 1
  OrderOf <- MCSameOrder
  BatchLimit = 2
  JobsCount = 5
  Faults = {}
INVARIANTS
  LogTellsOrderStatus
