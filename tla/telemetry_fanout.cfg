CONSTANTS
  Environments <- SomeEnvironments
  MaxFaults = 1
  Slots = {s1, s2}
  Conns = {k1, k2}
  Dashboards = {d1}
  MaxContent = 2
  Capacity = 2
  Window = 1
  Fields <- StateFields
SPECIFICATION FairSpec
INVARIANTS TypeOK
PROPERTIES ImplementsFeed ServesAgain DashboardCatchesUp GoneConnectionsEnd
