CONSTANTS
  MaxOrders = 2
  MaxCancels = 2
  MaxRestarts = 1
SPECIFICATION FairSpec
INVARIANTS TypeOK OrderLeadsGoal HandleIsNewest EndWasAnnounced
PROPERTY TelemetryCatchesUp
CHECK_DEADLOCK FALSE
