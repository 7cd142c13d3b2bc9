SPECIFICATION FairSpec
CONSTANTS
  i1 = i1
  i2 = i2
  i3 = i3
  i4 = i4
  items <- Items3
  parallel_items <- Parallel2
  Workers = {w1, w2}
  TcActive = TRUE
  Faults = {"display", "makereport", "rescue", "report", "interrupt"}
  None = None
INVARIANTS
  RanInCollectionOrder
  WriterRestored
  SharedOutliveTests
PROPERTIES
  PoolDrains
  MainLeaves
