CONSTANTS
  n1 = n1
  n2 = n2
  n3 = n3
  Nodes = {n1, n2, n3}
  Owners = {r1, r2}
  NoOwner = NoOwner
  Paths <- PathsThroughCrossing
  Ttls <- TtlsAroundValid
  MaxTtl = 2
SPECIFICATION Spec
INVARIANTS TypeOK LeaseHonoured
PROPERTIES ImplementsLeaseService
