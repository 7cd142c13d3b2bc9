SPECIFICATION Spec
CONSTANTS
  i1 = i1
  i2 = i2
  i3 = i3
  i4 = i4
  items <- Items4
  parallel_items <- Parallel3
  Workers = {w1, w2}
  TcActive = FALSE
  Faults = {"setup"}
  None = None
INVARIANTS
  FixturesReleased
