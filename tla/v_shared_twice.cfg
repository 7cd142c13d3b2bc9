SPECIFICATION FairSpec
CONSTANTS
  z0 = z0 a1 = a1 a2 = a2 c1 = c1 c2 = c2 b1 = b1 b2 = b2 d1 = d1 e1 = e1 z1 = z1
  S = S P = P A = A B = B CA = CA CB1 = CB1 CB2 = CB2
  fs = fs fA = fA fB = fB fclass = fclass ff = ff
  None = None  Error = Error
  Items <- LateItems  Nodes <- MCNodes  Fixtures <- MCFixtures
  groups <- LateGroups  with_key <- First  collectors <- LateChain  module <- LateModule
  kind <- MCKind  scope <- MCScope  fixturenames <- LateNames
  nthreads = 2  maxfail = 0  Faults = {}  raising = {}
INVARIANT CreatedOnce
