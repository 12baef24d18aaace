\* Two servers share the table; statements fail, servers stop, crash and start again.
SPECIFICATION Spec
CONSTANTS
  Instances = {s1, s2}
  NumTasks = 2
  OrderOf <- MCSameOrder
  BatchLimit = 2
  JobsCount = 1
  Faults = {"database", "signal", "crash", "restart"}
SYMMETRY InstanceSymmetry
INVARIANTS
  IInv
  TypeOK
  SentOnce
PROPERTIES
  ImplementsRelay
