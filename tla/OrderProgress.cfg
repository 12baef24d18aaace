\* Every call is answered, every failure allowed.
SPECIFICATION FairSpec
CONSTANTS
  Workers = {w1, w2}
  Recipients = {1}
  Expirations = {0}
  NoOrder = NoOrder
  Parcels <- MCParcels
  MaxOrders = 1
  MaxTime = 1
  IdLists <- MCOneOrder
  Faults = {"statement", "commit", "cache", "crash"}
PROPERTIES
  CallsComplete
