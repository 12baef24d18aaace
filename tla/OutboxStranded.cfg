\* A server is told to stop while it holds a batch.
SPECIFICATION Spec
CONSTANTS
  Instances = {s1}
  NumTasks = 2
  OrderOf <- MCSameOrder
  BatchLimit = 2
  JobsCount = 5
  Faults = {"signal"}
INVARIANTS
  ClaimsHeld
