CONSTANTS
  root = root
  dir = dir
  sub = sub
  file = file
  new = new
  None = None
  Root = root
  Dirs = {root, dir, sub}
  Files = {file, new}
  Parent <- MCParent
  InitialDir = dir
  Present = {root, dir, sub, file}
  Filters <- MCFilters
  MaxRequests = 4
SPECIFICATION Spec
INVARIANTS
  ViewIsLive
PROPERTIES
  LatestRequestWins
CHECK_DEADLOCK FALSE
