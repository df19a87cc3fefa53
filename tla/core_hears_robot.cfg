CONSTANTS
  Environments <- DeskOnly
  MaxFaults = 1
  Slots = {s1, s2}
  Conns = {k1}
  Dashboards = {d1}
  MaxContent = 1
  Capacity = 2
  Window = 1
  Fields <- BridgeFields
SPECIFICATION Spec
INVARIANT BroadcastIsHeard
