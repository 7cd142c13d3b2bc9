SPECIFICATION MCSpec
CONSTANTS
  pk = pk
  cl = cl
  ta = ta
  tb = tb
  tc = tc
  None = None
  order <- MCOrder
  parent <- MCParent
  Match <- MCMatch
  groups <- MCGroups
  OutLines <- MCOutLines
  Views <- MCViews
  Summary <- MCSummary
  Hits <- MCHits
  Height = 4
  HeaderLines = 3
  MaxLines = 4
CONSTRAINT ExploredPane
CHECK_DEADLOCK FALSE
INVARIANTS
  TypeInv
  
  MatchVisible
  PanesRight
