SPECIFICATION FairSpec
CONSTANTS
  z0 = z0 a1 = a1 a2 = a2 c1 = c1 c2 = c2 b1 = b1 b2 = b2 d1 = d1 e1 = e1 z1 = z1
  S = S P = P A = A B = B CA = CA CB1 = CB1 CB2 = CB2
  fs = fs fA = fA fB = fB fclass = fclass ff = ff
  None = None  Error = Error
  Items <- UniformItems  Nodes <- MCNodes  Fixtures <- MCFixtures
  groups <- UniformGroups  with_key <- Middle  collectors <- UniformChain  module <- UniformModule
  kind <- MCKind  scope <- MCScope  fixturenames <- UniformNames
  nthreads = 3  maxfail = 2  Faults = {"skip", "fail", "teardown"}  raising = {fB, ff}
INVARIANTS TypeInv InUseIsAlive CreatedOnce OwnFunctionFixtures NeverRefused AllReleased EveryItemDealtWith
PROPERTIES StopsAtGroupBoundary SessionEnds
