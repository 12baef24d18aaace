\* What a call and a walk through the pages tell, on every route, while two orders change.
SPECIFICATION Spec
CONSTANTS
  MaxOrders = 2
  DefaultLimit = 1
  MaxLimit = 2
  Numbers <- MCNumbers
  NotANumber = NotANumber
  Routes = {"orders", "refunds", "orders-history", "grpc"}
INVARIANTS
  TypeOK
  HistoryNeverLags
  WalkComplete
