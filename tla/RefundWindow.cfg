\* A refund asked for after the window of DaysForRefunding days.
SPECIFICATION Spec
CONSTANTS
  Workers = {w1}
  Recipients = {1}
  Expirations = {0}
  NoOrder = NoOrder
  Parcels <- MCParcels
  MaxOrders = 1
  MaxTime = 4
  IdLists <- MCOneOrder
  Faults = {}
INVARIANTS
  RefundWithinWindow
