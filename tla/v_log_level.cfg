SPECIFICATION Spec
CONSTANTS
  i1 = i1
  i2 = i2
  i3 = i3
  w1 = w1
  w2 = w2
  None = None
  Items = {i1, i2, i3}
  Workers = {w1, w2}
  Scripts <- MCScripts
  Levels = {1, 2}
  MaxLength = 3
  saved_root_level = 2
  handler_level = 1
  Faults = {}
INVARIANTS
  LevelsDoNotClobber
CHECK_DEADLOCK FALSE
