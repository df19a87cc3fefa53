CONSTANTS
  MaxOrders = 1
  MaxCancels = 1
  MaxRestarts = 0
SPECIFICATION Spec
INVARIANT CancelReachesGoal
CHECK_DEADLOCK FALSE
