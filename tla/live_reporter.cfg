SPECIFICATION Spec
CONSTANTS
  a1 = a1
  a2 = a2
  b1 = b1
  fa = fa
  fb = fb
  Items <- MCItems
  file_order <- MCFiles
  file <- MCFile
  workers = 2
  Modes = {"live", "dumb", "quiet"}
  Height = 4
  Outcomes <- MCAllOutcomes
INVARIANTS
  TypeInv
  ScreenIsCurrent
  CountsEachItem
  LinesFinallyRight
