\* The routes without paginate.
SPECIFICATION Spec
CONSTANTS
  MaxOrders = 1
  DefaultLimit = 10
  MaxLimit = 100
  Numbers <- MCNumbers
  NotANumber = NotANumber
  Routes = {"refunds", "orders-history"}
INVARIANTS
  EmptyMeansNothing
