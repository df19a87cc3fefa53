CONSTANTS
  n1 = n1
  n2 = n2
  n3 = n3
  r1 = r1
  r2 = r2
  Nodes = {n1, n2, n3}
  NoNode = NoNode
  NoOwner = NoOwner
  NoReq = NoReq
  Robots = {r1, r2}
  Owners = {r1, r2}
  Serial <- OwnSerials
  Charge <- FullCharge
  Routes <- ChainRoutes
  Reqs = {q1, q2}
  Slots = {s1}
  Posts <- CrossingPosts
  Starts <- OneUnreported
  MaxTtl = 2
  HeartbeatTtl = 1
  MaxFaults = 0
SPECIFICATION Spec
INVARIANT NodeExclusive
