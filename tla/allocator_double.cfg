CONSTANTS
  n1 = n1
  n2 = n2
  n3 = n3
  r1 = r1
  r2 = r2
  Nodes = {n1, n2, n3}
  NoNode = NoNode
  NoOwner = NoOwner
  NoReq = NoReq
  Robots = {r1}
  Owners = {r1}
  Serial <- OwnSerials
  Charge <- AtTheLimit
  Routes <- TwoWayRoutes
  Reqs = {q1, q2}
  Slots = {s1}
  Posts <- NoPosts
  Starts <- Apart
  MaxTtl = 2
  HeartbeatTtl = 1
  Distance <- EdgeCount
  Transports <- FetchFromEnd
  TaskTtl = 1
  NoRobot = NoRobot
  MaxFaults = 0
SPECIFICATION AllocSpec
PROPERTY AssignsIdleRobot
