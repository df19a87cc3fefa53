CONSTANTS
  S = S
  A = A
  B = B
  T = T
  U = U
  Ids = {S, A, B, T, U}
  Unit = 3
  Files <- SomeFiles
SPECIFICATION FairSpec
INVARIANTS TypeOK RouteIsReal NoneMeansUnreachable OrderVisitsOnce NearlyShortest NeverUnderstated
PROPERTY EveryCallReturns
