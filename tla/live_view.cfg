SPECIFICATION FairSpec
CONSTANTS
  t1 = t1
  t2 = t2
  None = None
  Tests <- MCTests
  groups <- MCGroups
  Branches <- MCBranches
  Reports = 1
  Keys = 2
INVARIANTS
  TypeInv
  OutputLostOnlyIfOpened
  NothingDrawnAfterLeave
PROPERTY
  ScreenCatchesUp
