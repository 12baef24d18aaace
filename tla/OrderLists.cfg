\* Two calls over lists of two orders, repeated ids included.
SPECIFICATION CacheSpec
CONSTANTS
  Workers = {w1, w2}
  Recipients = {1}
  Expirations = {0}
  NoOrder = NoOrder
  Parcels <- MCParcels
  MaxOrders = 2
  MaxTime = 1
  IdLists <- MCIdLists
  Faults = {"statement", "commit", "cache", "crash"}
SYMMETRY WorkerSymmetry
INVARIANTS
  TypeOK
  OkMeansAudited
  ServedOnce
  CacheFollowsRow
