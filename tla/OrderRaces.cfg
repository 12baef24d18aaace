\* Three calls racing for one order, every failure allowed.
SPECIFICATION Spec
CONSTANTS
  Workers = {w1, w2, w3}
  Recipients = {1}
  Expirations = {0, 1}
  NoOrder = NoOrder
  Parcels <- MCParcels
  MaxOrders = 1
  MaxTime = 1
  IdLists <- MCOneOrder
  Faults = {"statement", "commit", "cache", "crash"}
SYMMETRY WorkerSymmetry
INVARIANTS
  IInv
  HistoryMatchesStatus
  AuditComplete
  DatesMatchStatus
  CacheOnlyAudited
  NoDeadlock
PROPERTIES
  ReturnsOnlyExpired
  ImplementsLifecycle
