SPECIFICATION Spec
CONSTANTS
  Calls = {1, 2, 3}
  Names = {"a"}
  Orders <- MCRecommended
  MaxRetries = 1
  MaxBuses = 3
INVARIANTS RecoveryRecovers
CHECK_DEADLOCK FALSE
