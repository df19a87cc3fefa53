CONSTANTS
  n1 = n1
  n2 = n2
  n3 = n3
  r1 = r1
  r2 = r2
  Nodes = {n1, n2, n3}
  NoNode = NoNode
  NoOwner = NoOwner
  NoReq = NoReq
  Robots = {r1, r2}
  Owners = {r1, r2}
  Serial <- OwnSerials
  Charge <- AtTheLimit
  Routes <- ChainRoutes
  Reqs = {q1, q2}
  Slots = {s1}
  Posts <- OnePost
  Starts <- Apart
  MaxTtl = 2
  HeartbeatTtl = 1
  Distance <- EdgeCount
  Transports <- ToTheEnd
  TaskTtl = 2
  NoRobot = NoRobot
  MaxFaults = 1
SYMMETRY AllocSymmetry
SPECIFICATION AllocSpec
INVARIANTS AllocTypeOK ClosestChosen GrantHonoured ExclusiveReservation
PROPERTY LeaseLostOnlyToOwnerOrTime
