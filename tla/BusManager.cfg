SPECIFICATION Spec
CONSTANTS
  Calls = {1, 2, 3}
  Names = {"a"}
  Orders <- MCOrders
  MaxRetries = 1
  MaxBuses = 3
INVARIANTS PanicContained CloseClosesAll
PROPERTIES ManagerCallsReturn
CHECK_DEADLOCK FALSE
