\* Servers that keep running; only the broker fails.
SPECIFICATION FairSpec
CONSTANTS
  Instances = {s1, s2}
  NumTasks = 2
  OrderOf <- MCSameOrder
  BatchLimit = 2
  JobsCount = 1
  Faults = {"broker"}
INVARIANTS
  ClaimsHeld
  DeletedMeansPublished
PROPERTIES
  ImplementsRelay
  TaskSettles
